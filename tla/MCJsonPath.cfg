SPECIFICATION Spec
CONSTANTS
    x = x
    y = y
    leaf = leaf
    A = A
    D = D
    Keys = {x, y}
    Leaves = {leaf}
    Depth = 3
    Absent = Absent
    Object = Object
    Sources = {A, D}
    Output <- MCOutput
    Plans <- MCPlans
    None = None
INVARIANT
    BodyAsSpecified
