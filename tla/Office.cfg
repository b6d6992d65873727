SPECIFICATION Spec
CONSTANTS
    Clerk = {c1, c2}
    Booking = {x1, x2}
    Room = {y1, y2}
    Given = {"confirmed", "pending"}
    From = {0, 1}
    To = {1, 2}
    NoBooking = NoBooking
    NoRoom = NoRoom
    Id = {x1, x2}
    Name = {a1, a2}
    CardPhone = {y1, y2}
    NoId = NoId
    NoName = NoName
    NoCardPhone = NoPhone
    Course = {k1}
    Trainee = {t1}
    Price = {2, 3}
    Amount = {1, 2}
    NoCourse = NoCourse
    NoTrainee = NoTrainee
    Sub = {x1, x2}
    NoSub = NoSub
    Attempt = {c1, c2}
    MaxFailed = 3
    LockTime = 2
    Horizon = 5
    SeatRate = {300, 1500}
    TierRate = {300, 500}
    FullDay = 2500
    FullDayThreshold = 120
    MinMinutes = 60
    Increment = 15
    MaxVisitMinutes = 200
    Discount = {0, 500, 3000}
    OrderTotal = {7}
    MaxOrders = 14
    Step = 35
    Close = 280
    MaxOps = 4
    Mac = {x1, x2}
    Phone = {y1, y2}
    Guest = Guest
    MaxPeers = 1
    NoPhone = NoPhone
    NoMac = NoMac
    NoRequest = NoRequest
    MaxHanded = 3
    Human = {x1, x2}
    Kind = {"visitor", "subscriber", "trainee", "tamkeen"}
    Nobody = Nobody
    MaxAsked = 4
    MaxRows = 2
    EntryKind = {"visitor", "subscriber"}
    Tier = {"t10"}
    MaxCalls = 5
    Stay = {x1, x2}
    Item = {y1, y2}
    Debt = {c1, c2}
    NoStay = NoStay
    TimePrice = {3}
    NetPrice = {1}
    Total = {1, 2}
    RoomPrice = {1}
    StayDiscount = {1}
    DailyRate = 3
    SubscribedDays = {1}
    HotCost = 1
    LastDay = 2
    MaxDeeds = 4
    Who = {x1, x2}
    InactiveDays = 1
    SuppressDays = 2
    GraceDays = 1
    LastDate = 5
    MaxActs = 4
    Second = 2
    Hour = 4
    DayLength = 24
    Winter = 8
    Summer = 12
    Switches = {84, 88, 92, 96, 600}
    TrendDays = 3
    LastInstant = 168
SYMMETRY Symmetry
CONSTRAINT Calm
INVARIANTS
    TypeOK
    NoDoubleBooking
    PaymentsAddUp
    PaidSubscriptionLives
    FailuresLock
    CopyIsCurrent
    CutIsComplete
    OnlineIsKnown
    OnePersonPerPhone
    WalletStaysWithItsPerson
    ArchivedAreAway
    LiveIsCharged
    OneInvoice
    TillAgrees
    ReportsAgree
    FollowUpsAgree
    DaysAreWhole
PROPERTIES
    IsADirectory
    LockHolds
    NeverCheaper
CHECK_DEADLOCK FALSE
