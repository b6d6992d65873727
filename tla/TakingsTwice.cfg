SPECIFICATION Spec
CONSTANTS
    Visit = {x1, x2}
    Item = {y1, y2}
    Debt = {c1, c2}
    NoVisit = NoVisit
    TimePrice = {3}
    NetPrice = {0, 1}
    Total = {1, 2}
    RoomPrice = {1}
    Discount = {0, 1}
    DailyRate = 3
    SubscribedDays = {1}
    HotCost = 1
    LastDay = 2
    MaxDeeds = 4
SYMMETRY Symmetry
INVARIANT
    NoDoubleCounting
CHECK_DEADLOCK FALSE
