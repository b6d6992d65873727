SPECIFICATION Spec
CONSTANTS
    Phones = {p1}
    Sessions = {s1}
    Nets = {n1, n2}
    Reqs = {r1, r2}
    Crons = {}
    Kinds = {"visitor"}
    Seats = {TRUE, FALSE}
    Tolerance = 0
    LastTick = 2
    NoPhone = NoPhone
    NoSession = NoSession
    NoNet = NoNet
SYMMETRY Symmetry
INVARIANTS
    TypeOK
PROPERTIES
    ChargedFromFirstConnection
    BilledOnce
    OneOpenRowUnlessRaced
CHECK_DEADLOCK FALSE
