SPECIFICATION Spec
CONSTANTS
    Sessions = {s1}
    Subs = {b1}
    Debts = {d1, d2}
    Reqs = {r1}
    Hours = {0, 2}
    MaxOrders = 1
    Fee = 2
    NoOwner = NoOwner
    NoDebt = NoDebt
SYMMETRY Symmetry
INVARIANT
    CollectedIsTaken
CONSTRAINT
    Calm
\* A row id is used once: the system may stop.
CHECK_DEADLOCK FALSE
