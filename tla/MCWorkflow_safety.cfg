SPECIFICATION Spec
CONSTANTS
    a = a
    b = b
    x = x
    y = y
    Steps = {a, b}
    Specs = {x, y}
    Workflows <- Two
    Wf = Wf
    None = None
    MaxEdits = 1
    MaxDeletes = 0
    MaxErrors = 0
    MaxFailures = 0
    MaxCrashes = 1
CHECK_DEADLOCK FALSE
INVARIANT
    TypeOK
PROPERTIES
    NotifyFence
    StatusFitsSpec
    ImplementsChildTask
