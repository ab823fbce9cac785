SPECIFICATION FairSpec
CONSTANTS
    a = a
    b = b
    x = x
    y = y
    e = e
    f = f
    o1 = o1
    o2 = o2
    Tasks = {a, b}
    Specs <- AllSpecs
    SpecsOf <- Chained
    Objects = {o1, o2}
    HasField = {o1, o2}
    Replies <- GoodReplies
    None = None
    MaxEdits = 1
    MaxDeletes = 1
    MaxErrors = 1
    MaxFailures = 1
    MaxCrashes = 0
CHECK_DEADLOCK FALSE
PROPERTY Converges
