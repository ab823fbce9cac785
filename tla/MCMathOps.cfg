SPECIFICATION FairSpec
CONSTANTS
    a = a
    s = s
    q = q
    bad = bad
    gone = gone
    Adds = {a}
    Subtracts = {s}
    Squares = {q}
    Invalid = {bad}
    Unknown = {gone}
    Operands <- MCOperands
    Given <- MCGiven
    Half = 8
    None = None
    MaxEvents = 2
CHECK_DEADLOCK FALSE
INVARIANTS
    TypeOK
    ReadyIsCurrent
PROPERTIES
    Settles
    DeletionCompletes
