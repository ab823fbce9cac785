SPECIFICATION FairSpec
CONSTANTS
    a = a
    b = b
    c = c
    f = f
    o1 = o1
    o2 = o2
    p = p
    q = q
    Names = {a, b}
    Fields = {f}
    Targets = {p, q}
    Inside <- MCInside
    Objects = {o1, o2}
    FieldsOf <- MCFieldsOf
    NotifyKey = NotifyKey
    None = None
    Workflows <- ChainOnly
    Additions <- NoAdditions
    Answers <- TwoAnswers
    MaxEdits = 0
    MaxLosses = 1
PROPERTIES
    Settles
