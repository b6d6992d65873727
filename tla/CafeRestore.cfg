SPECIFICATION Spec
CONSTANTS
    Items = {i1}
    Drinks = {d1}
    Orders = {o1}
    Sales = {n1}
    Reqs = {r1}
    Qtys = {1, 2}
    Opening <- OpeningUnits
    MaxStock = 2
    NoThing = NoThing
    NoRow = NoRow
SYMMETRY Symmetry
PROPERTY
    GivesBackWhatWasTaken
CHECK_DEADLOCK FALSE
