SPECIFICATION FairSpec
CONSTANTS
    Phones = {p1}
    Sessions = {s1}
    Nets = {n1, n2}
    Reqs = {r1}
    Crons = {cron}
    Kinds = {"visitor", "employee"}
    Seats = {FALSE}
    Tolerance = 0
    LastTick = 2
    NoPhone = NoPhone
    NoSession = NoSession
    NoNet = NoNet
PROPERTY
    IdleRowsClose
CHECK_DEADLOCK FALSE
