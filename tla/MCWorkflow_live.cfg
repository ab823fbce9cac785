SPECIFICATION FairSpec
CONSTANTS
    a = a
    b = b
    x = x
    y = y
    Steps = {a, b}
    Specs = {x, y}
    Workflows <- Singles
    Wf = Wf
    None = None
    MaxEdits = 1
    MaxDeletes = 1
    MaxErrors = 1
    MaxFailures = 1
    MaxCrashes = 0
CHECK_DEADLOCK FALSE
PROPERTIES
    Converges
