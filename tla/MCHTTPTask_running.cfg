SPECIFICATION FairSpec
CONSTANTS
    a = a
    b = b
    x = x
    y = y
    e = e
    f = f
    o1 = o1
    o2 = o2
    Tasks = {a}
    Specs <- TwoInputs
    SpecsOf <- Alone
    Objects = {o1, o2}
    HasField = {o1}
    Replies <- GoodReplies
    None = None
    MaxEdits = 2
    MaxDeletes = 0
    MaxErrors = 0
    MaxFailures = 0
    MaxCrashes = 0
CHECK_DEADLOCK FALSE
PROPERTY RunningEnds
