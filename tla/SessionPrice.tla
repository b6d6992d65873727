---------------------------- MODULE SessionPrice ----------------------------
(***************************************************************************)
(* What a visit costs while it lasts (modules/sessions/pricing, the        *)
(* arithmetic of modules/hotspot/hotspot.config, and how checkout puts the *)
(* two together).  Money is in agorot, time in minutes; the decimals of    *)
(* the code are rounded to whole agorot, halves up, and so are these.      *)
(***************************************************************************)
EXTENDS Naturals, FiniteSets

CONSTANTS
    SeatRate,           \* hourly rates a session may have been opened with
    TierRate,           \* hourly rates of the visitor plans
    FullDay,            \* Settings.fullDayPrice
    FullDayThreshold,   \* Settings.fullDayThresholdHours, in minutes
    MinMinutes, Increment, MaxVisitMinutes,
    Discount,           \* discounts given as input
    OrderTotal,         \* totals of single orders given as input
    MaxOrders,          \* bound on the orders of a visit
    Step, Close         \* length of a step of the clock, and of a day

VARIABLES
    visit,      \* what is fixed at check-in: type, hourly rate, billing mode
    minutes,    \* since check-in
    subscribed, \* an active subscription
    orders,     \* the total of the orders
    net         \* when the visit went online, and the highest tier since

vars == <<visit, minutes, subscribed, orders, net>>

Offline == [since |-> 0, rate |-> 0]

Least(a, b) == IF a < b THEN a ELSE b
Most(a, b) == IF a > b THEN a ELSE b
Minus(a, b) == IF a > b THEN a - b ELSE 0
\* Math.round of a quotient
Rounded(n, d) == (2 * n + d) \div (2 * d)

Visit == [type: {"visitor", "subscriber", "trainee"}, rate: SeatRate,
          mode: {"surcharge", "replaces"}]
NoVisit == [type |-> "none", rate |-> 0, mode |-> "surcharge"]

TypeOK ==
    /\ visit \in Visit \cup {NoVisit}
    /\ minutes \in 0 .. Close
    /\ subscribed \in BOOLEAN
    /\ orders \in 0 .. MaxOrders
    /\ net \in [since: 0 .. Close, rate: TierRate \cup {0}]

Init ==
    /\ visit = NoVisit
    /\ minutes = 0
    /\ subscribed = FALSE
    /\ orders = 0
    /\ net = Offline

-----------------------------------------------------------------------------
\* computeAmount: a minimum, then whole increments.
InternetAmount(m, rate) ==
    LET billable == Most(m, MinMinutes)
        rounded == ((billable + Increment - 1) \div Increment) * Increment
    IN  IF rate = 0 THEN 0 ELSE Rounded(rounded * rate, 60)

VisitMinutes == Least(MaxVisitMinutes, Most(1, minutes - net.since))

\* Mutant: the rate of the tier is charged besides the same rate for the seat.
InternetInSeatNever == FALSE
\* A visitor whose seat rate is the rate of the tier pays for the seat alone.
InternetInSeat == visit.type = "visitor" /\ net.rate = visit.rate

InternetCharge ==
    IF net = Offline \/ InternetInSeat THEN 0 ELSE InternetAmount(VisitMinutes, net.rate)

\* isSub: a subscription that is still active, or a type that sits for free.
SitsFree == visit.type = "trainee" \/ (visit.type = "subscriber" /\ subscribed)

ReplacesSeat ==
    /\ visit.mode = "replaces" /\ visit.type = "visitor"
    /\ net # Offline /\ ~InternetInSeat

\* Mutant: the price of a day is charged from the threshold of the settings on.
TimeAmountThreshold ==
    IF SitsFree \/ ReplacesSeat THEN 0
    ELSE IF minutes >= FullDayThreshold THEN FullDay ELSE Rounded(minutes * visit.rate, 60)

TimeAmount ==
    IF SitsFree \/ ReplacesSeat THEN 0
    ELSE Least(Rounded(minutes * visit.rate, 60), FullDay)

\* checkout: the discount takes off the time, and never more than it.
FinalAmount(discount) ==
    Minus(TimeAmount, Least(discount, TimeAmount)) + orders + InternetCharge

\* The list of live sessions, and that of new visitors: nothing is known of the internet.
LiveTime == IF SitsFree THEN 0 ELSE Least(Rounded(minutes * visit.rate, 60), FullDay)
LiveAmount == LiveTime + orders

-----------------------------------------------------------------------------
CheckIn(v) ==
    /\ visit = NoVisit
    /\ visit' = v
    /\ UNCHANGED <<minutes, subscribed, orders, net>>

Tick ==
    /\ visit # NoVisit /\ minutes + Step <= Close
    /\ minutes' = minutes + Step
    /\ UNCHANGED <<visit, subscribed, orders, net>>

AddOrder(total) ==
    /\ visit # NoVisit /\ orders + total <= MaxOrders
    /\ orders' = orders + total
    /\ UNCHANGED <<visit, minutes, subscribed, net>>

DropOrder(total) ==
    /\ orders >= total
    /\ orders' = orders - total
    /\ UNCHANGED <<visit, minutes, subscribed, net>>

\* A login as a visitor: the visit runs from the first, at the highest rate chosen.
GoOnline(rate) ==
    /\ visit # NoVisit
    /\ net' = IF net = Offline THEN [since |-> minutes, rate |-> rate]
              ELSE [net EXCEPT !.rate = Most(@, rate)]
    /\ UNCHANGED <<visit, minutes, subscribed, orders>>

\* The end date passes, or somebody renews.
SubscriptionTurns ==
    /\ subscribed' = ~subscribed
    /\ UNCHANGED <<visit, minutes, orders, net>>

Next ==
    \/ Tick \/ SubscriptionTurns
    \/ \E v \in Visit : CheckIn(v)
    \/ \E total \in OrderTotal : AddOrder(total) \/ DropOrder(total)
    \/ \E rate \in TierRate : GoOnline(rate)

Spec == Init /\ [][Next]_vars

-----------------------------------------------------------------------------
\* Staying longer, ordering more or outliving the subscription never makes the visit
\* cheaper, whatever the discount: across the cap of a full day, the minimum and the
\* increments of the internet, and every rounding.  (Going online may: it can replace
\* the seat, or be part of it.)
NeverCheaper ==
    [][visit # NoVisit /\ net' = net /\ orders' >= orders /\ (subscribed' => subscribed) =>
          \A discount \in Discount : FinalAmount(discount)' >= FinalAmount(discount)]_vars

\* "Live and checkout both equal exactly the tier rate per hour" (sessions/service.ts:586):
\* the running total on the Live page is the bill of somebody who is offline or whose seat
\* already costs what the tier does; for the others it is never above the bill, unless the
\* internet may replace the seat.
LiveIsCharged ==
    LET sameRate == visit.type = "visitor" /\ visit.rate = net.rate
    IN  visit # NoVisit =>
           /\ net = Offline \/ sameRate => FinalAmount(0) = LiveAmount
           /\ visit.mode = "surcharge" => FinalAmount(0) >= LiveAmount
=============================================================================
