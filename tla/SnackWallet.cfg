SPECIFICATION Spec
CONSTANTS
    w1 = w1
    s1 = s1
    Wallets = {w1}
    Sessions = {s1}
    Orders = {o1}
    Reqs = {r1, r2}
    Deposits = {2}
    Prices = {1, 2}
    WalletOf <- OneWallet
    MaxRows = 4
    NoWallet = NoWallet
    NoSession = NoSession
    NoOrder = NoOrder
SYMMETRY Symmetry
INVARIANTS
    TypeOK
    HeadAgrees
    NonNegative
    ChargesMatchOrders
PROPERTIES
    ChainedUnlessOvertaken
\* Every id may end up used: the system really stops then.
CHECK_DEADLOCK FALSE
