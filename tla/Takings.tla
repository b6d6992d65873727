------------------------------- MODULE Takings -------------------------------
(***************************************************************************)
(* What the reports say was earned, beside what was handed over: visits,   *)
(* orders, sales, debts, bookings, courses and expenses as lib/revenue,    *)
(* modules/reports, modules/dashboard and the history of modules/sessions  *)
(* read them.  Who may overlap with whom is the subject of Billing and     *)
(* Cafe; here an operation is one step, and so is a report.                *)
(*                                                                         *)
(* An item is an order with the sale it wrote (addOrder), or a sale at the *)
(* counter.  Money is counted in halves of a shekel, so that rounding to   *)
(* whole ones is seen; a day is 1, 2, ..., and 0 is null.                  *)
(***************************************************************************)
EXTENDS Integers, FiniteSets, FiniteSetsExt

CONSTANTS
    Visit, Item, Debt, NoVisit,
    TimePrice, NetPrice,    \* what the time and the internet of a visit may come to
    Total, Discount,        \* prices of items, and discounts, given as input
    RoomPrice,              \* prices of bookings and courses, and expenses
    DailyRate,              \* amountPaid of the subscription over its days
    SubscribedDays,         \* the days it covers
    HotCost,                \* a day's part of hotDrinksMonthlyCost
    LastDay, MaxDeeds       \* bounds on the clock and on the operations

Shekel == 2
Null == -1000

VARIABLES
    today, deeds,
    visit, item, debt,
    booking, course, expense,
    handed,     \* history: the money taken for visits, at the counter and for debts
    again,      \* history: visits edited to "paid" although they had a debt
    parts       \* history: payments that only lowered a debt

vars == <<today, deeds, visit, item, debt, booking, course, expense, handed, again, parts>>
desk == <<visit, item, debt, handed, again, parts>>
rooms == <<booking, course, expense>>

Day == 0 .. LastDay

VisitRow == [st: {"none", "open", "closed", "deleted"}, pay: {"paid", "full_debt"},
             day: Day, sub: BOOLEAN, amount: Int, over: Int, discount: Nat, net: Nat,
             repriced: BOOLEAN]     \* history: an edit gave the price of the time
ItemRow == [by: {"none", "order", "counter"}, of: Visit \cup {NoVisit}, day: Day, hot: BOOLEAN,
            order: Int, sale: Int]  \* their totals; Null once deleted
DebtRow == [st: {"none", "unpaid", "collected", "deleted"}, of: Visit \cup {NoVisit},
            amount: Int, hours: Int, day: Day]  \* sessionAmount, collectedAt

TypeOK ==
    /\ today \in 1 .. LastDay /\ deeds \in 0 .. MaxDeeds
    /\ visit \in [Visit -> VisitRow] /\ item \in [Item -> ItemRow] /\ debt \in [Debt -> DebtRow]
    /\ booking \in [st: {"none", "pending", "confirmed"}, day: Day, price: Nat]
    /\ course \in [from: Day, to: Day, paid: Nat]
    /\ expense \in [day: Day, amount: Nat]
    /\ handed \in Int /\ again \in Int /\ parts \in Nat

Init ==
    /\ today = 1 /\ deeds = 0
    /\ visit = [v \in Visit |-> [st |-> "none", pay |-> "full_debt", day |-> 0, sub |-> FALSE,
                                 amount |-> 0, over |-> Null, discount |-> 0, net |-> 0,
                                 repriced |-> FALSE]]
    /\ item = [i \in Item |-> [by |-> "none", of |-> NoVisit, day |-> 0, hot |-> FALSE,
                               order |-> Null, sale |-> Null]]
    /\ debt = [d \in Debt |-> [st |-> "none", of |-> NoVisit, amount |-> 0, hours |-> Null,
                               day |-> 0]]
    /\ booking = [st |-> "none", day |-> 0, price |-> 0]
    /\ course = [from |-> 0, to |-> 0, paid |-> 0]
    /\ expense = [day |-> 0, amount |-> 0]
    /\ handed = 0 /\ again = 0 /\ parts = 0

-----------------------------------------------------------------------------
Least(a, b) == IF a < b THEN a ELSE b
\* Math.round of n / d
Rounded(n, d) == (2 * n + d) \div (2 * d)
WholeShekels(amount) == Shekel * Rounded(amount, Shekel)

OrdersOf(v) == {i \in Item : item[i].of = v /\ item[i].order # Null}
OrdersAmount(v) == SumFunctionOnSet([i \in Item |-> item[i].order], OrdersOf(v))
UnpaidDebts(v) == {d \in Debt : debt[d].of = v /\ debt[d].st = "unpaid"}
Counted(v) == visit[v].st = "closed" /\ visit[v].pay = "paid"

Deed == deeds < MaxDeeds /\ deeds' = deeds + 1 /\ UNCHANGED today
AtTheDesk == Deed /\ UNCHANGED rooms
InTheRooms == Deed /\ UNCHANGED desk

NextDay ==
    /\ today < LastDay
    /\ today' = today + 1
    /\ UNCHANGED <<deeds, desk, rooms>>

-----------------------------------------------------------------------------
(* Visits and their orders.                                                *)

CheckIn(v) ==
    /\ AtTheDesk
    /\ visit[v].st = "none"
    /\ \E sub \in BOOLEAN :
          visit' = [visit EXCEPT ![v].st = "open", ![v].day = today, ![v].sub = sub]
    /\ UNCHANGED <<item, debt, handed, again, parts>>

AddOrder(i, v) ==
    /\ AtTheDesk
    /\ item[i].by = "none" /\ visit[v].st = "open"
    /\ \E total \in Total, hot \in BOOLEAN :
          item' = [item EXCEPT ![i] = [by |-> "order", of |-> v, day |-> today, hot |-> hot,
                                       order |-> total, sale |-> total]]
    /\ UNCHANGED <<visit, debt, handed, again, parts>>

\* The sale of an order stays as it was, whatever becomes of the order.
EditOrder(i) ==
    /\ AtTheDesk
    /\ \E v \in Visit : visit[v].st = "open" /\ i \in OrdersOf(v)
    /\ \E total \in Total \cup {Null} : item' = [item EXCEPT ![i].order = total]
    /\ UNCHANGED <<visit, debt, handed, again, parts>>

Checkout(v) ==
    /\ AtTheDesk
    /\ visit[v].st = "open"
    /\ \E time \in TimePrice, net \in NetPrice, discount \in Discount,
          over \in TimePrice \cup {Null} :
          LET hourly == IF over # Null THEN over ELSE IF visit[v].sub THEN 0 ELSE time
              off == Least(discount, hourly)
              amount == hourly - off + OrdersAmount(v) + net
          IN  /\ visit' = [visit EXCEPT ![v].st = "closed", ![v].pay = "paid",
                                        ![v].amount = amount, ![v].over = over,
                                        ![v].discount = off, ![v].net = net,
                                        ![v].repriced = FALSE]
              /\ handed' = handed + amount
    /\ UNCHANGED <<item, debt, again, parts>>

\* The debt is in whole shekels; the part of the hours is what orders and internet leave.
CheckoutUnpaid(v, d) ==
    /\ AtTheDesk
    /\ visit[v].st = "open" /\ debt[d].st = "none"
    /\ \E time \in TimePrice, net \in NetPrice :
          LET hourly == IF visit[v].sub THEN 0 ELSE time
              amount == WholeShekels(hourly + OrdersAmount(v) + net)
          IN  /\ visit' = [visit EXCEPT ![v].st = "closed", ![v].pay = "full_debt",
                                        ![v].amount = amount, ![v].over = Null, ![v].net = net,
                                        ![v].repriced = FALSE]
              /\ debt' = [debt EXCEPT ![d] = [st |-> "unpaid", of |-> v, amount |-> amount,
                                              hours |-> amount - OrdersAmount(v) - net, day |-> 0]]
    /\ UNCHANGED <<item, handed, again, parts>>

\* The debts that an edit of v to pay, with the given amount, leaves behind.
DebtAfter(v, pay, amount) ==
    IF pay = "full_debt" /\ UnpaidDebts(v) = {} /\ amount > 0
    THEN {[debt EXCEPT ![d] = [st |-> "unpaid", of |-> v, amount |-> amount,
                               hours |-> amount - OrdersAmount(v), day |-> 0]] :
          d \in {d \in Debt : debt[d].st = "none"}}
    ELSE IF pay = "paid" /\ visit[v].pay = "full_debt" /\ UnpaidDebts(v) # {}
    THEN {[debt EXCEPT ![d].st = "collected", ![d].day = today] : d \in UnpaidDebts(v)}
    ELSE {debt}

\* An edit of the price and the payment; those of the times are left to Attendance and
\* Billing.  What is handed over with it: a debt that is settled, or else the visit.
EditVisit(v) ==
    /\ AtTheDesk
    /\ visit[v].st \in {"open", "closed"}
    /\ \E pay \in {"paid", "full_debt"}, over \in TimePrice \cup {Null} :
          LET amount == IF over = Null THEN visit[v].amount ELSE over + OrdersAmount(v)
              hadDebt == \E d \in Debt : debt[d].of = v /\ debt[d].st \in {"unpaid", "collected"}
              settled == SumFunctionOnSet([d \in Debt |-> debt[d].amount],
                            {d \in UnpaidDebts(v) : debt'[d].st = "collected"})
              before == IF Counted(v) THEN visit[v].amount ELSE 0
              after == IF visit[v].st = "closed" /\ pay = "paid" THEN amount ELSE 0
              twice == hadDebt /\ ~Counted(v) /\ visit[v].st = "closed" /\ pay = "paid"
          IN  /\ visit' = [visit EXCEPT ![v].pay = pay, ![v].amount = amount,
                                        ![v].over = IF over = Null THEN @ ELSE over,
                                        ![v].repriced = @ \/ over # Null]
              /\ debt' \in DebtAfter(v, pay, amount)
              /\ handed' = handed + settled + (IF twice THEN 0 ELSE after - before)
              /\ again' = again + (IF twice THEN amount ELSE 0)
    /\ UNCHANGED <<item, parts>>

\* The orders go with the visit, the sales stay; what was paid for it is given back.
DeleteVisit(v) ==
    /\ AtTheDesk
    /\ visit[v].st \in {"open", "closed"}
    /\ \A w \in Visit : UnpaidDebts(w) = {}    \* the visits of an instance are one person's
    /\ visit' = [visit EXCEPT ![v].st = "deleted"]
    /\ item' = [i \in Item |-> IF i \in OrdersOf(v) THEN [item[i] EXCEPT !.order = Null] ELSE item[i]]
    /\ handed' = handed - (IF Counted(v) THEN visit[v].amount ELSE 0)
    /\ UNCHANGED <<debt, again, parts>>

-----------------------------------------------------------------------------
(* Sales at the counter: snacks, hot drinks, and other takings.            *)

Sell(i) ==
    /\ AtTheDesk
    /\ item[i].by = "none"
    /\ \E total \in Total, hot \in BOOLEAN :
          /\ item' = [item EXCEPT ![i] = [by |-> "counter", of |-> NoVisit, day |-> today,
                                          hot |-> hot, order |-> Null, sale |-> total]]
          /\ handed' = handed + total
    /\ UNCHANGED <<visit, debt, again, parts>>

\* An edited or deleted sale of the counter is settled there; that of an order is not.
EditSale(i) ==
    /\ AtTheDesk
    /\ item[i].sale # Null
    /\ \E total \in Total \cup {Null} :
          /\ item' = [item EXCEPT ![i].sale = total]
          /\ handed' = handed + IF item[i].by = "order" THEN 0
                                ELSE (IF total = Null THEN 0 ELSE total) - item[i].sale
    /\ UNCHANGED <<visit, debt, again, parts>>

-----------------------------------------------------------------------------
(* Debts.                                                                  *)

CreateDebt(d) ==
    /\ AtTheDesk
    /\ debt[d].st = "none"
    /\ \E amount \in Total : debt' = [debt EXCEPT ![d].st = "unpaid", ![d].amount = amount]
    /\ UNCHANGED <<visit, item, handed, again, parts>>

CollectDebt(d) ==
    /\ AtTheDesk
    /\ debt[d].st = "unpaid"
    /\ debt' = [debt EXCEPT ![d].st = "collected", ![d].day = today]
    /\ handed' = handed + debt[d].amount
    /\ UNCHANGED <<visit, item, again, parts>>

\* All but the last part only lower the amount.
CollectPart(d) ==
    /\ AtTheDesk
    /\ debt[d].st = "unpaid" /\ debt[d].amount > 1
    /\ debt' = [debt EXCEPT ![d].amount = @ - 1]
    /\ handed' = handed + 1 /\ parts' = parts + 1
    /\ UNCHANGED <<visit, item, again>>

\* By hand: a debt so marked as collected has no day of collection.
EditDebt(d) ==
    /\ AtTheDesk
    /\ debt[d].st \in {"unpaid", "collected"}
    /\ \E st \in {"unpaid", "collected"}, amount \in Total :
          /\ debt' = [debt EXCEPT ![d].st = st, ![d].amount = amount]
          /\ handed' = handed + (IF st = "collected" THEN amount ELSE 0)
                              - (IF debt[d].st = "collected" THEN debt[d].amount ELSE 0)
    /\ UNCHANGED <<visit, item, again, parts>>

DeleteDebt(d) ==
    /\ AtTheDesk
    /\ debt[d].st \in {"unpaid", "collected"}
    /\ debt' = [debt EXCEPT ![d].st = "deleted"]
    /\ handed' = handed - (IF debt[d].st = "collected" THEN debt[d].amount ELSE 0)
    /\ UNCHANGED <<visit, item, again, parts>>

-----------------------------------------------------------------------------
(* The rooms, and what the house spends.                                   *)

Book ==
    /\ InTheRooms
    /\ \E st \in {"pending", "confirmed"}, day \in 1 .. LastDay, price \in RoomPrice :
          booking' = [st |-> st, day |-> day, price |-> price]
    /\ UNCHANGED <<course, expense>>

Teach ==
    /\ InTheRooms
    /\ \E from \in 1 .. LastDay : \E to \in from .. LastDay :
          course' = [course EXCEPT !.from = from, !.to = to]
    /\ UNCHANGED <<booking, expense>>

Enrol ==
    /\ InTheRooms
    /\ course.from # 0
    /\ \E amount \in RoomPrice : course' = [course EXCEPT !.paid = @ + amount]
    /\ UNCHANGED <<booking, expense>>

Spend ==
    /\ InTheRooms
    /\ \E day \in 1 .. LastDay, amount \in RoomPrice : expense' = [day |-> day, amount |-> amount]
    /\ UNCHANGED <<booking, course>>

Visiting ==
    \/ \E v \in Visit : CheckIn(v) \/ Checkout(v) \/ EditVisit(v) \/ DeleteVisit(v)
    \/ \E v \in Visit, d \in Debt : CheckoutUnpaid(v, d)
    \/ \E i \in Item, v \in Visit : AddOrder(i, v)
    \/ \E i \in Item : EditOrder(i)
Counter == \E i \in Item : Sell(i) \/ EditSale(i)
Owing == \E d \in Debt : CreateDebt(d) \/ CollectDebt(d) \/ CollectPart(d) \/ EditDebt(d) \/ DeleteDebt(d)
Elsewhere == Book \/ Teach \/ Enrol \/ Spend

Next == NextDay \/ Visiting \/ Counter \/ Owing \/ Elsewhere

Spec == Init /\ [][Next]_vars

-----------------------------------------------------------------------------
(* The reports, for the days from .. to.                                   *)

In(day, from, to) == day >= from /\ day <= to /\ day # 0

SessionsIn(from, to) == {v \in Visit : visit[v].st = "closed" /\ In(visit[v].day, from, to)}
PaidIn(from, to) == {v \in SessionsIn(from, to) : visit[v].pay = "paid"}
SalesIn(from, to) == {i \in Item : item[i].sale # Null /\ In(item[i].day, from, to)}
CollectedIn(from, to) == {d \in Debt : debt[d].st = "collected" /\ In(debt[d].day, from, to)}
OfSession(d) == debt[d].of # NoVisit /\ debt[d].hours # Null

SalesAmount(hot, from, to) ==
    SumFunctionOnSet([i \in Item |-> item[i].sale], {i \in SalesIn(from, to) : item[i].hot = hot})
DebtHours(from, to) ==
    SumFunctionOnSet([d \in Debt |-> debt[d].hours], {d \in CollectedIn(from, to) : OfSession(d)})
DebtSnacks(from, to) ==
    SumFunctionOnSet([d \in Debt |-> debt[d].amount - debt[d].hours],
                     {d \in CollectedIn(from, to) : OfSession(d)})
\* Mutant: a course counts where all of it is in the range.
CourseWithinRange(from, to) == course.from # 0 /\ course.from >= from /\ course.to <= to
CourseInRange(from, to) == course.from # 0 /\ course.from <= to /\ course.to >= from

\* Mutant: the orders are left in, although their sales are counted, too.
HoursPortionWhole(v) == visit[v].amount
\* What a paid visit earned besides its orders.
HoursPortion(v) == visit[v].amount - OrdersAmount(v)

Revenue(from, to) ==
    LET hours == SumFunctionOnSet([v \in Visit |-> HoursPortion(v)], PaidIn(from, to)) + DebtHours(from, to)
        snacks == SalesAmount(FALSE, from, to) + DebtSnacks(from, to)
        hot == SalesAmount(TRUE, from, to)
        courses == IF CourseInRange(from, to) THEN course.paid ELSE 0
        bookings == IF booking.st = "confirmed" /\ In(booking.day, from, to) THEN booking.price ELSE 0
        debts == SumFunctionOnSet([d \in Debt |-> debt[d].amount],
                                  {d \in CollectedIn(from, to) : ~OfSession(d)})
        expenses == IF In(expense.day, from, to) THEN expense.amount ELSE 0
        total == hours + snacks + hot + courses + bookings + debts
    IN  [hours |-> hours, snacks |-> snacks, hot |-> hot, courses |-> courses,
         bookings |-> bookings, debts |-> debts, expenses |-> expenses, total |-> total,
         profit |-> total - expenses - HotCost * (to - from + 1)]

\* A row of the history table: the hours, and a subscriber's share of the daily rate, which
\* the visits of one day that are on the same page divide among them.
HoursColumn(v) == IF visit[v].over # Null THEN visit[v].over ELSE HoursPortion(v)
SubscriberShare(v, rows) ==
    IF ~visit[v].sub \/ visit[v].day \notin SubscribedDays THEN 0
    ELSE Rounded(DailyRate, Cardinality({w \in rows : visit[w].sub /\ visit[w].day = visit[v].day}))

HistorySummary(from, to) ==
    [hours |-> SumFunctionOnSet([v \in Visit |-> HoursColumn(v)], PaidIn(from, to)),
     orders |-> SumFunctionOnSet([v \in Visit |-> OrdersAmount(v)], SessionsIn(from, to)),
     shares |-> SumFunctionOnSet([v \in Visit |-> SubscriberShare(v, SessionsIn(from, to))],
                                 SessionsIn(from, to))]

\* The column of the table, where the visits of S are on a page of their own.
SharesShown(S, from, to) ==
    LET rows == SessionsIn(from, to)
    IN  SumFunctionOnSet([v \in Visit |-> SubscriberShare(v, IF v \in S THEN S ELSE rows \ S)], rows)

OpenIn(from, to) == {v \in Visit : visit[v].st = "open" /\ In(visit[v].day, from, to)}
Listed(from, to) == OpenIn(from, to) \cup SessionsIn(from, to)

\* The workbook of the history: a subscriber's row has a word in place of the hours.
HistorySheet(from, to) ==
    [v \in Listed(from, to) |->
        [orders |-> OrdersAmount(v),
         hours |-> IF visit[v].sub THEN 0 ELSE HoursColumn(v),
         total |-> IF visit[v].sub THEN OrdersAmount(v) ELSE visit[v].amount]]

\* The workbook of the reports: one sheet of visits, of subscribers, of sales, of expenses,
\* and one of rooms and courses.  Sales, expenses and bookings are in whole shekels there,
\* bookings are listed whatever their status, and visits are counted while they are open.
VisitsSheet(from, to) == SumFunctionOnSet([v \in Visit |-> HoursPortion(v)], PaidIn(from, to))
SubscribersSheet(from, to) ==
    \/ In(Min(SubscribedDays), from, to)
    \/ In(Max(SubscribedDays), from, to)
    \/ Min(SubscribedDays) <= from /\ Max(SubscribedDays) >= to
SalesSheet(from, to) ==
    SumFunctionOnSet([i \in Item |-> WholeShekels(item[i].sale)], SalesIn(from, to))
ExpensesSheet(from, to) == IF In(expense.day, from, to) THEN WholeShekels(expense.amount) ELSE 0
RoomsSheet(from, to) ==
    (IF In(booking.day, from, to) THEN WholeShekels(booking.price) ELSE 0)
    + (IF CourseInRange(from, to) THEN course.paid ELSE 0)

GenerateReport(from, to) ==
    [count |-> Cardinality(Listed(from, to)), visits |-> VisitsSheet(from, to),
     subscribed |-> SubscribersSheet(from, to), sales |-> SalesSheet(from, to),
     expenses |-> ExpensesSheet(from, to), rooms |-> RoomsSheet(from, to),
     profit |-> Revenue(from, to).profit]

\* What is on the screen before a workbook is asked for.
Preview(from, to) == [visits |-> Cardinality(SessionsIn(from, to)), revenue |-> Revenue(from, to)]

\* The mail of an evening; the workbook of the day is attached.
DailyReport(day) ==
    [visits |-> Cardinality(SessionsIn(day, day)), profit |-> Revenue(day, day).profit]

\* The dashboard: today, and the revenue of each day by itself.
DayRevenue(day) == Revenue(day, day).total
Summary ==
    [live |-> Cardinality({v \in Visit : visit[v].st = "open"}),
     revenue |-> DayRevenue(today),
     visits |-> Cardinality(Listed(today, today)),
     course |-> CourseInRange(today, today),
     booked |-> booking.st = "confirmed" /\ In(booking.day, today, today)]
Trend(from, to) == [day \in from .. to |-> DayRevenue(day)]

\* The head of the sales page; the days of an instance are of one month.
SalesPage(hot) == [today |-> SalesAmount(hot, today, today), month |-> SalesAmount(hot, 1, today)]

Magnitude(n) == IF n < 0 THEN -n ELSE n

-----------------------------------------------------------------------------
\* What revenue counts for visits, sales and debts is what was handed over for them, but
\* for: sales of orders which no paid visit bills (those of an unpaid visit, which its debt
\* brings in once more, and those of deleted orders), billed orders whose sale was deleted,
\* visits edited to paid beside their debt, payments of a part, and debts collected by hand.
TillAgrees ==
    LET revenue == Revenue(1, LastDay)
        sales == SumFunctionOnSet([i \in Item |-> item[i].sale],
                                  {i \in SalesIn(1, LastDay) : item[i].by = "order"})
        billed == SumFunctionOnSet([v \in Visit |-> OrdersAmount(v)], {v \in Visit : Counted(v)})
        unseen == SumFunctionOnSet([d \in Debt |-> debt[d].amount],
                                   {d \in Debt : debt[d].st = "collected" /\ debt[d].day = 0})
    IN  revenue.hours + revenue.snacks + revenue.hot + revenue.debts - handed
            = (sales - billed) + again - parts - unseen

\* The history and the workbook show the hours that revenue counts.
HoursAgree(revenue, history, report, from, to) ==
    LET overridden == {v \in PaidIn(from, to) : visit[v].over # Null /\ ~visit[v].repriced}
        hours == revenue.hours - DebtHours(from, to)
    IN  /\ hours = report.visits
        /\ hours - history.hours = SumFunctionOnSet([v \in Visit |-> visit[v].net - visit[v].discount], overridden)

\* The rows of the history workbook add up, but for the net and the discount of a visit whose
\* price was given at its checkout, and bring in what the subscribers do not.
RowsAgree(revenue, from, to) ==
    LET sheet == HistorySheet(from, to)
        adjusted(v) == ~visit[v].sub /\ visit[v].over # Null /\ ~visit[v].repriced
        gap(v) == IF adjusted(v) THEN visit[v].net - visit[v].discount ELSE 0
        ofSub == {v \in PaidIn(from, to) : visit[v].sub}
    IN  /\ \A v \in SessionsIn(from, to) :
              LET row == sheet[v] IN row.hours + row.orders + gap(v) = row.total
        /\ SumFunctionOnSet([v \in PaidIn(from, to) |-> sheet[v].total], PaidIn(from, to)) + DebtHours(from, to)
             = revenue.hours + SumFunctionOnSet([v \in Visit |-> OrdersAmount(v)], PaidIn(from, to))
               - SumFunctionOnSet([v \in Visit |-> HoursPortion(v)], ofSub)

\* The workbook is off by its rounding, and by a booking that is not confirmed.
SalesAgree(revenue, report, from, to) ==
    LET exact == revenue.snacks + revenue.hot - DebtSnacks(from, to)
        rooms_ == revenue.bookings + revenue.courses
    IN  /\ 2 * Magnitude(report.sales - exact) <= Shekel * Cardinality(SalesIn(from, to))
        /\ 2 * Magnitude(report.expenses - revenue.expenses) <= Shekel
        /\ booking.st # "pending" => 2 * Magnitude(report.rooms - rooms_) <= Shekel

\* The preview counts the visits that have ended, the workbook and the dashboard all; a
\* mail says what the previews of its day say.
CountsAgree(preview, report, from, to) ==
    /\ report.count = preview.visits + Cardinality(OpenIn(from, to))
    /\ report.profit = preview.revenue.profit
    /\ from = to => LET mail == DailyReport(from)
                    IN  mail.visits = preview.visits /\ mail.profit = report.profit

\* Today on the dashboard and on the sales page is today in the reports.
TodayAgrees(preview) ==
    LET revenue == preview.revenue
        sold == SalesPage(TRUE).today + SalesPage(FALSE).today
        summary == Summary
    IN  /\ summary.revenue - (revenue.hours + revenue.courses + revenue.bookings + revenue.debts)
             = sold + DebtSnacks(today, today)
        /\ summary.visits = preview.visits + Cardinality(OpenIn(today, today))
        /\ summary.live = Cardinality(OpenIn(1, today))
        /\ revenue.bookings > 0 => summary.booked
        /\ revenue.courses > 0 => summary.course

\* The month on the sales page, up to today, is the month in the reports.
MonthAgrees(revenue) ==
    /\ SalesPage(TRUE).month = revenue.hot
    /\ SalesPage(FALSE).month = revenue.snacks - DebtSnacks(1, today)

\* The dashboard shows days: a course is in each of its days, everything else in one.
DaysAddUp(revenue, from, to) ==
    LET courseDays == Cardinality({day \in from .. to : CourseInRange(day, day)})
        repeated == IF courseDays > 1 THEN (courseDays - 1) * course.paid ELSE 0
        trend == Trend(from, to)
    IN  SumFunctionOnSet(trend, from .. to) = revenue.total + repeated

\* The table never shows less than the summary, and the same if one page holds it; whoever
\* has a share in it is on the sheet of the subscribers.
SharesAgree(history, from, to) ==
    \A S \in SUBSET SessionsIn(from, to) :
        LET shown == SharesShown(S, from, to)
        IN  /\ shown >= history.shares
            /\ S = {} => shown = history.shares
            /\ shown > 0 => SubscribersSheet(from, to)

\* The pages that show the same sums agree with each other, for every range of days.
ReportsAgree ==
    \A from \in 1 .. LastDay : \A to \in from .. LastDay :
        LET preview == Preview(from, to)
            revenue == preview.revenue
            history == HistorySummary(from, to)
            report == GenerateReport(from, to)
        IN  /\ HoursAgree(revenue, history, report, from, to)
            /\ RowsAgree(revenue, from, to)
            /\ SalesAgree(revenue, report, from, to)
            /\ CountsAgree(preview, report, from, to)
            /\ from < to => DaysAddUp(revenue, from, to)
            /\ from = today /\ to = today => TodayAgrees(preview)
            /\ from = 1 /\ to = today => MonthAgrees(revenue)
            /\ SharesAgree(history, from, to)
=============================================================================
