SPECIFICATION PageSpec
CONSTANTS
    a = a
    x = x
    Steps = {a}
    Specs = {x}
    Workflows <- MCWorkflows
    Wf = Wf
    None = None
    MaxEdits = 0
    MaxDeletes = 0
    MaxErrors = 0
    MaxFailures = 0
    MaxCrashes = 0
CHECK_DEADLOCK FALSE
PROPERTY
    NoRefreshNeeded
