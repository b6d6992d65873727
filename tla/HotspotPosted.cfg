SPECIFICATION Spec
CONSTANTS
    Phones = {p1}
    Sessions = {s1}
    Nets = {n1, n2}
    Reqs = {r1}
    Crons = {}
    Kinds = {"visitor"}
    Seats = {FALSE}
    Tolerance = 0
    LastTick = 2
    NoPhone = NoPhone
    NoSession = NoSession
    NoNet = NoNet
SYMMETRY Symmetry
PROPERTY
    PostedIsInvoiced
CHECK_DEADLOCK FALSE
