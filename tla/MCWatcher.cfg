SPECIFICATION FairSpec
CONSTANTS
    a = a
    b = b
    Names = {a, b}
    Codes = {200}
    Statuses <- MCStatuses
    Uids = {1, 2}
    None = None
    MaxVersions = 4
    MaxErrors = 1
    MaxCrashes = 1
CHECK_DEADLOCK FALSE
INVARIANTS
    TypeOK
    RunCoversTasks
    SnapshotWhenOk
PROPERTIES
    RowsForward
    CatchUp
