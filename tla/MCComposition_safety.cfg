SPECIFICATION Spec
CONSTANTS
    a = a
    b = b
    c = c
    f = f
    o1 = o1
    o2 = o2
    p = p
    q = q
    Names = {a, b, c}
    Fields = {f}
    Targets = {p, q}
    Inside <- MCInside
    Objects = {o1, o2}
    FieldsOf <- MCFieldsOf
    NotifyKey = NotifyKey
    None = None
    Workflows <- AllWorkflows
    Additions <- Growth
    Answers <- ManyAnswers
    MaxEdits = 1
    MaxLosses = 0
INVARIANTS
    TypeOK
    SourcesSucceeded
    SuccessTruthful
    FailureTruthful
    PostsTruthful
    PostsBounded
PROPERTIES
    NeverCollected
    StatusMonotone
    ImplementsTaskRunner
