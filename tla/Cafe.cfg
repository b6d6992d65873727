SPECIFICATION Spec
CONSTANTS
    Items = {i1}
    Drinks = {d1}
    Orders = {o1}
    Sales = {n1}
    Reqs = {r1, r2}
    Qtys = {1, 2}
    Opening <- OpeningUnits
    MaxStock = 2
    NoThing = NoThing
    NoRow = NoRow
SYMMETRY Symmetry
INVARIANTS
    TypeOK
    Conserved
PROPERTIES
    OnlyBatchesOversell
CONSTRAINT
    Exact
\* A row id is used once: the system may stop.
CHECK_DEADLOCK FALSE
