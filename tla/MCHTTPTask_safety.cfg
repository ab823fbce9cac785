SPECIFICATION FairSpec
CONSTANTS
    a = a
    b = b
    x = x
    y = y
    e = e
    f = f
    o1 = o1
    o2 = o2
    Tasks = {a, b}
    Specs <- Varied
    SpecsOf <- Edited
    Objects = {o1, o2}
    HasField = {o1}
    Replies <- AllReplies
    None = None
    MaxEdits = 1
    MaxDeletes = 2
    MaxErrors = 0
    MaxFailures = 0
    MaxCrashes = 1
CHECK_DEADLOCK FALSE
INVARIANTS
    TypeOK
    ReadyIsCurrent
PROPERTIES
    ImplementsChildTask
    EndpointFence
    NeverRemovedInUse
    DeletionCompletes
