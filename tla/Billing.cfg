SPECIFICATION Spec
CONSTANTS
    Sessions = {s1}
    Subs = {b1}
    Debts = {d1, d2}
    Reqs = {r1, r2}
    Hours = {0, 2}
    MaxOrders = 2
    Fee = 2
    NoOwner = NoOwner
    NoDebt = NoDebt
SYMMETRY Symmetry
INVARIANTS
    TypeOK
    SessionsAreOwedOnce
    FeeIsPaidOrOwed
CONSTRAINT
    Calm
\* A row id is used once: the system may stop.
CHECK_DEADLOCK FALSE
