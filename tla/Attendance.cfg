SPECIFICATION Spec
CONSTANTS
    Visitors = {v1}
    Sessions = {s1, s2}
    Subs = {b1}
    Reqs = {r1, r2}
    LastDay = 2
    MaxUsed = 2
    NoVisitor = NoVisitor
    NoSession = NoSession
    NoSub = NoSub
SYMMETRY Symmetry
INVARIANTS
    TypeOK
    QuotaCounted
PROPERTIES
    OneOpenUnlessRaced
    NoLostDay
CHECK_DEADLOCK FALSE
