---------------------------- MODULE LedgerProofs ----------------------------
(***************************************************************************)
(* The takings in the program (Ledger): for all visits, items, debts,      *)
(* prices and rates, revenue differs from what was handed over by the sums *)
(* which TillAgrees names, and the reports of any range of days agree.     *)
(* The sums over rows are those of Sums.  LInv is the invariant for the    *)
(* till: one operation changes one row of each table, and so one term of   *)
(* each sum.  RInv adds what the rows keep for the reports; a lemma XHold  *)
(* follows from it for each part XAgree of ReportsAgree.                   *)
(*                                                                         *)
(* Then the days of the time zone (Days): DayInv relates the instants that *)
(* bound a day and the dates of the trend to the date of now and to        *)
(* whether the clocks moved in that day.  Last, from the invariants of all *)
(* services, here and in OfficeProofs, the types of the whole program.     *)
(***************************************************************************)
EXTENDS OfficeProofs

\* Tables are finite, and what is given as a price or a discount is not below zero.
Prices ==
    /\ IsFiniteSet(Stay) /\ IsFiniteSet(Item) /\ IsFiniteSet(Debt)
    /\ TimePrice \cup NetPrice \cup Total \cup StayDiscount \cup RoomPrice \subseteq Nat
    /\ LastDay \in Nat \ {0} /\ MaxDeeds \in Nat

\* What the till has for a row.
TakenFor(row) == IF row.st = "closed" /\ row.pay = "paid" THEN row.amount ELSE 0
SoldFor(row) == IF row.by = "counter" /\ row.sale # Ledger!Null THEN row.sale ELSE 0
BroughtFor(row) == IF row.st = "collected" THEN row.amount ELSE 0

Taken(f) == SumOver([v \in Stay |-> TakenFor(f[v])], Stay)
Sold(f) == SumOver([i \in Item |-> SoldFor(f[i])], Item)
Brought(f) == SumOver([d \in Debt |-> BroughtFor(f[d])], Debt)

\* The till, said without the reports: what it has for the rows is what was handed over, and
\* what counts twice, less what counts as nothing.
TillInv == Taken(stay) + Sold(item) + Brought(debt) + parts = taken + again

\* A visit that began and an item that was sold have a day.
Dated(f, g) ==
    /\ \A v \in Stay : f[v].st # "none" => f[v].day # 0
    /\ \A i \in Item : g[i].sale # Ledger!Null => g[i].by # "none" /\ g[i].day # 0

LInv == Ledger!TypeOK /\ Dated(stay, item) /\ TillInv

-----------------------------------------------------------------------------
(* Sums.                                                                   *)

LEMMA SumIsSum == \A g, S : Ledger!SumFunctionOnSet(g, S) = SumOver(g, S)
BY DEF Ledger!SumFunctionOnSet, Ledger!FoldFunctionOnSet, Ledger!MapThenFoldSet, SumOver, AddsUp

LEMMA CountIsCount == \A S : Ledger!Cardinality(S) = Cardinality(S)
BY DEF Ledger!Cardinality, Cardinality

LEMMA RowTypes ==
  ASSUME Ledger!TypeOK
  PROVE  /\ stay \in [Stay -> Ledger!VisitRow] /\ item \in [Item -> Ledger!ItemRow] /\ debt \in [Debt -> Ledger!DebtRow]
         /\ \A v \in Stay : /\ stay[v].amount \in Int /\ stay[v].discount \in Nat /\ stay[v].net \in Nat
                             /\ stay[v].over \in Int /\ stay[v].sub \in BOOLEAN /\ stay[v].day \in Ledger!Day
                             /\ stay[v].repriced \in BOOLEAN /\ stay[v].pay \in {"paid", "full_debt"}
                             /\ stay[v].st \in {"none", "open", "closed", "deleted"}
         /\ \A i \in Item : /\ item[i].order \in Int /\ item[i].sale \in Int /\ item[i].day \in Ledger!Day
                            /\ item[i].hot \in BOOLEAN /\ item[i].by \in {"none", "order", "counter"}
                            /\ item[i].of \in Stay \cup {NoStay}
         /\ \A d \in Debt : /\ debt[d].amount \in Int /\ debt[d].hours \in Int /\ debt[d].day \in Ledger!Day
                            /\ debt[d].st \in {"none", "unpaid", "collected", "deleted"}
                            /\ debt[d].of \in Stay \cup {NoStay}
         /\ taken \in Int /\ again \in Int /\ parts \in Nat
BY DEF Ledger!TypeOK, Ledger!VisitRow, Ledger!ItemRow, Ledger!DebtRow

LEMMA TermTypes ==
  /\ \A row \in Ledger!VisitRow : TakenFor(row) \in Int
  /\ \A row \in Ledger!ItemRow : SoldFor(row) \in Int
  /\ \A row \in Ledger!DebtRow : BroughtFor(row) \in Int
BY DEF TakenFor, SoldFor, BroughtFor, Ledger!VisitRow, Ledger!ItemRow, Ledger!DebtRow

LEMMA TillIsNumbers ==
  ASSUME Prices, Ledger!TypeOK
  PROVE  Taken(stay) \in Int /\ Sold(item) \in Int /\ Brought(debt) \in Int
<1>1. Taken(stay) \in Int
  BY RowTypes, TermTypes, SumType DEF Taken, Prices
<1>2. Sold(item) \in Int
  BY RowTypes, TermTypes, SumType DEF Sold, Prices
<1>3. Brought(debt) \in Int
  BY RowTypes, TermTypes, SumType DEF Brought, Prices
<1> QED  BY <1>1, <1>2, <1>3

LEMMA VisitChanges ==
  ASSUME Prices, Ledger!TypeOK, NEW v \in Stay, NEW row \in Ledger!VisitRow
  PROVE  Taken([stay EXCEPT ![v] = row]) = Taken(stay) - TakenFor(stay[v]) + TakenFor(row)
<1> DEFINE f == [stay EXCEPT ![v] = row]
           g == [w \in Stay |-> TakenFor(stay[w])]
           h == [w \in Stay |-> TakenFor(f[w])]
<1>1. f[v] = row /\ \A w \in Stay \ {v} : f[w] = stay[w]
  BY RowTypes
<1> HIDE DEF f
<1>2. \A w \in Stay : g[w] \in Int /\ h[w] \in Int /\ (w # v => h[w] = g[w])
  BY <1>1, RowTypes, TermTypes
<1>3. g[v] = TakenFor(stay[v]) /\ h[v] = TakenFor(row)
  BY <1>1
<1> HIDE DEF g, h
<1>4. SumOver(h, Stay) = SumOver(g, Stay) - g[v] + h[v]
  BY <1>2, SumChanges DEF Prices
<1> QED  BY <1>3, <1>4 DEF g, h, f, Taken

LEMMA ItemChanges ==
  ASSUME Prices, Ledger!TypeOK, NEW i \in Item, NEW row \in Ledger!ItemRow
  PROVE  Sold([item EXCEPT ![i] = row]) = Sold(item) - SoldFor(item[i]) + SoldFor(row)
<1> DEFINE f == [item EXCEPT ![i] = row]
           g == [w \in Item |-> SoldFor(item[w])]
           h == [w \in Item |-> SoldFor(f[w])]
<1>1. f[i] = row /\ \A w \in Item \ {i} : f[w] = item[w]
  BY RowTypes
<1> HIDE DEF f
<1>2. \A w \in Item : g[w] \in Int /\ h[w] \in Int /\ (w # i => h[w] = g[w])
  BY <1>1, RowTypes, TermTypes
<1>3. g[i] = SoldFor(item[i]) /\ h[i] = SoldFor(row)
  BY <1>1
<1> HIDE DEF g, h
<1>4. SumOver(h, Item) = SumOver(g, Item) - g[i] + h[i]
  BY <1>2, SumChanges DEF Prices
<1> QED  BY <1>3, <1>4 DEF g, h, f, Sold

LEMMA DebtChanges ==
  ASSUME Prices, Ledger!TypeOK, NEW d \in Debt, NEW row \in Ledger!DebtRow
  PROVE  Brought([debt EXCEPT ![d] = row]) = Brought(debt) - BroughtFor(debt[d]) + BroughtFor(row)
<1> DEFINE f == [debt EXCEPT ![d] = row]
           g == [w \in Debt |-> BroughtFor(debt[w])]
           h == [w \in Debt |-> BroughtFor(f[w])]
<1>1. f[d] = row /\ \A w \in Debt \ {d} : f[w] = debt[w]
  BY RowTypes
<1> HIDE DEF f
<1>2. \A w \in Debt : g[w] \in Int /\ h[w] \in Int /\ (w # d => h[w] = g[w])
  BY <1>1, RowTypes, TermTypes
<1>3. g[d] = BroughtFor(debt[d]) /\ h[d] = BroughtFor(row)
  BY <1>1
<1> HIDE DEF g, h
<1>4. SumOver(h, Debt) = SumOver(g, Debt) - g[d] + h[d]
  BY <1>2, SumChanges DEF Prices
<1> QED  BY <1>3, <1>4 DEF g, h, f, Brought

LEMMA OrdersType ==
  ASSUME Prices, Ledger!TypeOK, NEW v \in Stay
  PROVE  Ledger!OrdersAmount(v) \in Int
<1> DEFINE g == [i \in Item |-> item[i].order]
<1>1. IsFiniteSet(Ledger!OrdersOf(v)) /\ \A i \in Ledger!OrdersOf(v) : g[i] \in Int
  BY RowTypes, FS_Subset DEF Ledger!OrdersOf, Prices
<1> HIDE DEF g
<1>2. SumOver(g, Ledger!OrdersOf(v)) \in Int
  BY <1>1, SumType
<1> QED  BY <1>2, SumIsSum DEF Ledger!OrdersAmount, g

LEMMA WholeType ==
  ASSUME NEW n \in Int
  PROVE  Ledger!WholeShekels(n) \in Int
BY DEF Ledger!WholeShekels, Ledger!Rounded, Ledger!Shekel

-----------------------------------------------------------------------------
(* The kinds of steps.                                                     *)

LEMMA DayFacts ==
  ASSUME Prices, Ledger!TypeOK
  PROVE  today \in Ledger!Day /\ today # 0 /\ 0 \in Ledger!Day /\ today \in 1 .. LastDay
BY DEF Prices, Ledger!TypeOK, Ledger!Day

\* At the desk: rows that are typed and dated, and a till that has what was handed over.
LEMMA DeskStep ==
  ASSUME Prices, LInv, Ledger!AtTheDesk,
         stay' \in [Stay -> Ledger!VisitRow], item' \in [Item -> Ledger!ItemRow], debt' \in [Debt -> Ledger!DebtRow],
         Dated(stay', item'), taken' \in Int, again' \in Int, parts' \in Nat,
         Taken(stay') + Sold(item') + Brought(debt') + parts' = taken' + again'
  PROVE  LInv'
<1>1. today' \in 1 .. LastDay /\ deeds' \in 0 .. MaxDeeds
  BY DEF Ledger!AtTheDesk, Ledger!Deed, LInv, Ledger!TypeOK, Prices
<1>2. UNCHANGED <<letting, class, expense>>
  BY DEF Ledger!AtTheDesk, Ledger!rooms
<1>3. Ledger!TypeOK'
  BY <1>1, <1>2 DEF LInv, Ledger!TypeOK
<1> QED  BY <1>3 DEF LInv, Dated, TillInv

\* One visit changes, and the till with it.
LEMMA StayStep ==
  ASSUME Prices, LInv, Ledger!AtTheDesk, NEW v \in Stay, NEW row \in Ledger!VisitRow,
         stay' = [stay EXCEPT ![v] = row], row.st # "none" => row.day # 0,
         taken' = taken + TakenFor(row) - TakenFor(stay[v]),
         UNCHANGED <<item, debt, again, parts>>
  PROVE  LInv'
<1>1. stay' \in [Stay -> Ledger!VisitRow] /\ Dated(stay', item')
  BY RowTypes DEF LInv, Dated
<1>2. Taken(stay') = Taken(stay) - TakenFor(stay[v]) + TakenFor(row)
  BY VisitChanges DEF LInv
<1>3. TakenFor(row) \in Int /\ TakenFor(stay[v]) \in Int /\ taken \in Int /\ again \in Int /\ parts \in Nat
  BY RowTypes, TermTypes DEF LInv
<1>4. Taken(stay') + Sold(item') + Brought(debt') + parts' = taken' + again'
  BY <1>2, <1>3, TillIsNumbers DEF LInv, TillInv
<1> QED  BY <1>1, <1>3, <1>4, DeskStep, RowTypes DEF LInv

\* One item does.
LEMMA ItemStep ==
  ASSUME Prices, LInv, Ledger!AtTheDesk, NEW i \in Item, NEW row \in Ledger!ItemRow,
         item' = [item EXCEPT ![i] = row], row.sale # Ledger!Null => row.by # "none" /\ row.day # 0,
         taken' = taken + SoldFor(row) - SoldFor(item[i]),
         UNCHANGED <<stay, debt, again, parts>>
  PROVE  LInv'
<1>1. item' \in [Item -> Ledger!ItemRow] /\ Dated(stay', item')
  BY RowTypes DEF LInv, Dated
<1>2. Sold(item') = Sold(item) - SoldFor(item[i]) + SoldFor(row)
  BY ItemChanges DEF LInv
<1>3. SoldFor(row) \in Int /\ SoldFor(item[i]) \in Int /\ taken \in Int /\ again \in Int /\ parts \in Nat
  BY RowTypes, TermTypes DEF LInv
<1>4. Taken(stay') + Sold(item') + Brought(debt') + parts' = taken' + again'
  BY <1>2, <1>3, TillIsNumbers DEF LInv, TillInv
<1> QED  BY <1>1, <1>3, <1>4, DeskStep, RowTypes DEF LInv

\* One debt does.
LEMMA DebtStep ==
  ASSUME Prices, LInv, Ledger!AtTheDesk, NEW d \in Debt, NEW row \in Ledger!DebtRow, NEW less \in Nat,
         debt' = [debt EXCEPT ![d] = row], parts' = parts + less,
         taken' = taken + BroughtFor(row) - BroughtFor(debt[d]) + less,
         UNCHANGED <<stay, item, again>>
  PROVE  LInv'
<1>1. debt' \in [Debt -> Ledger!DebtRow] /\ Dated(stay', item')
  BY RowTypes DEF LInv, Dated
<1>2. Brought(debt') = Brought(debt) - BroughtFor(debt[d]) + BroughtFor(row)
  BY DebtChanges DEF LInv
<1>3. BroughtFor(row) \in Int /\ BroughtFor(debt[d]) \in Int /\ taken \in Int /\ again \in Int /\ parts \in Nat
  BY RowTypes, TermTypes DEF LInv
<1>4. Taken(stay') + Sold(item') + Brought(debt') + parts' = taken' + again'
  BY <1>2, <1>3, TillIsNumbers DEF LInv, TillInv
<1> QED  BY <1>1, <1>3, <1>4, DeskStep, RowTypes DEF LInv

-----------------------------------------------------------------------------
(* The invariant, operation by operation.                                  *)

LEMMA InitInv ==
  ASSUME Prices, Ledger!Init
  PROVE  LInv
<1>1. 0 \in Ledger!Day /\ Ledger!Null \in Int
  BY DEF Prices, Ledger!Day, Ledger!Null
<1>2. Ledger!TypeOK
  <2>1. stay \in [Stay -> Ledger!VisitRow]
    BY <1>1 DEF Ledger!Init, Ledger!VisitRow
  <2>2. item \in [Item -> Ledger!ItemRow]
    BY <1>1 DEF Ledger!Init, Ledger!ItemRow
  <2>3. debt \in [Debt -> Ledger!DebtRow]
    BY <1>1 DEF Ledger!Init, Ledger!DebtRow
  <2>4. /\ letting \in [st: {"none", "pending", "confirmed"}, day: Ledger!Day, price: Nat]
        /\ class \in [from: Ledger!Day, to: Ledger!Day, paid: Nat] /\ expense \in [day: Ledger!Day, amount: Nat]
    BY <1>1 DEF Ledger!Init
  <2>5. today \in 1 .. LastDay /\ deeds \in 0 .. MaxDeeds
    BY DEF Prices, Ledger!Init
  <2>6. taken \in Int /\ again \in Int /\ parts \in Nat
    BY DEF Ledger!Init
  <2> QED  BY <2>1, <2>2, <2>3, <2>4, <2>5, <2>6 DEF Ledger!TypeOK
<1>3. /\ \A v \in Stay : stay[v].st = "none" /\ TakenFor(stay[v]) = 0
      /\ \A i \in Item : item[i].sale = Ledger!Null /\ SoldFor(item[i]) = 0
      /\ \A d \in Debt : BroughtFor(debt[d]) = 0
  BY DEF Ledger!Init, TakenFor, SoldFor, BroughtFor
<1>4. Taken(stay) = 0
  BY <1>3, SumOfZeros DEF Taken, Prices
<1>5. Sold(item) = 0
  BY <1>3, SumOfZeros DEF Sold, Prices
<1>6. Brought(debt) = 0
  BY <1>3, SumOfZeros DEF Brought, Prices
<1> QED  BY <1>2, <1>3, <1>4, <1>5, <1>6 DEF Ledger!Init, LInv, Dated, TillInv

LEMMA CheckInStep ==
  ASSUME Prices, LInv, NEW v \in Stay, Ledger!CheckIn(v)
  PROVE  LInv'
<1>1. PICK plan \in BOOLEAN :
         stay' = [stay EXCEPT ![v].st = "open", ![v].day = today, ![v].sub = plan]
  BY DEF Ledger!CheckIn
<1> DEFINE row == [stay[v] EXCEPT !.st = "open", !.day = today, !.sub = plan]
<1>2. row \in Ledger!VisitRow /\ row.st = "open" /\ row.day = today
  BY RowTypes, DayFacts DEF LInv, Ledger!VisitRow
<1>3. stay' = [stay EXCEPT ![v] = row]
  BY <1>1, RowTypes DEF LInv, Ledger!VisitRow
<1>4. TakenFor(row) = 0 /\ TakenFor(stay[v]) = 0 /\ row.day # 0
  BY <1>2, DayFacts DEF Ledger!CheckIn, TakenFor, LInv
<1> HIDE DEF row
<1>5. taken' = taken + TakenFor(row) - TakenFor(stay[v])
  BY <1>4, RowTypes DEF Ledger!CheckIn, LInv
<1>6. Ledger!AtTheDesk /\ UNCHANGED <<item, debt, again, parts>>
  BY DEF Ledger!CheckIn
<1> QED  BY <1>2, <1>3, <1>4, <1>5, <1>6, StayStep

LEMMA AddOrderStep ==
  ASSUME Prices, LInv, NEW i \in Item, NEW v \in Stay, Ledger!AddOrder(i, v)
  PROVE  LInv'
<1>1. PICK total \in Total, hot \in BOOLEAN :
         item' = [item EXCEPT ![i] = [by |-> "order", of |-> v, day |-> today, hot |-> hot,
                                      order |-> total, sale |-> total]]
  BY DEF Ledger!AddOrder
<1> DEFINE row == [by |-> "order", of |-> v, day |-> today, hot |-> hot,
                   order |-> total, sale |-> total]
<1>2. row \in Ledger!ItemRow
  BY DayFacts DEF LInv, Ledger!ItemRow, Prices
<1>3. SoldFor(row) = 0 /\ SoldFor(item[i]) = 0 /\ row.by # "none" /\ row.day # 0
  BY DayFacts DEF Ledger!AddOrder, SoldFor, LInv
<1>4. item' = [item EXCEPT ![i] = row]
  BY <1>1
<1> HIDE DEF row
<1>5. taken' = taken + SoldFor(row) - SoldFor(item[i])
  BY <1>3, RowTypes DEF Ledger!AddOrder, LInv
<1>6. Ledger!AtTheDesk /\ UNCHANGED <<stay, debt, again, parts>>
  BY DEF Ledger!AddOrder
<1> QED  BY <1>2, <1>3, <1>4, <1>5, <1>6, ItemStep

LEMMA EditOrderStep ==
  ASSUME Prices, LInv, NEW i \in Item, Ledger!EditOrder(i)
  PROVE  LInv'
<1>1. PICK total \in Total \cup {Ledger!Null} : item' = [item EXCEPT ![i].order = total]
  BY DEF Ledger!EditOrder
<1> DEFINE row == [item[i] EXCEPT !.order = total]
<1>2. row \in Ledger!ItemRow /\ row.sale = item[i].sale /\ row.by = item[i].by /\ row.day = item[i].day
  BY RowTypes DEF LInv, Ledger!ItemRow, Prices, Ledger!Null
<1>3. item' = [item EXCEPT ![i] = row]
  BY <1>1, RowTypes DEF LInv
<1>4. SoldFor(row) = SoldFor(item[i]) /\ SoldFor(row) \in Int
  BY <1>2, TermTypes DEF SoldFor
<1>5. row.sale # Ledger!Null => row.by # "none" /\ row.day # 0
  BY <1>2 DEF LInv, Dated
<1> HIDE DEF row
<1>6. taken' = taken + SoldFor(row) - SoldFor(item[i])
  BY <1>4, RowTypes DEF Ledger!EditOrder, LInv
<1>7. Ledger!AtTheDesk /\ UNCHANGED <<stay, debt, again, parts>>
  BY DEF Ledger!EditOrder
<1> QED  BY <1>2, <1>3, <1>5, <1>6, <1>7, ItemStep

LEMMA CheckoutStep ==
  ASSUME Prices, LInv, NEW v \in Stay, Ledger!Checkout(v)
  PROVE  LInv'
<1> DEFINE Hourly(time, over) == IF over # Ledger!Null THEN over ELSE IF stay[v].sub THEN 0 ELSE time
           Off(time, over, discount) == Ledger!Least(discount, Hourly(time, over))
           Due(time, internet, discount, over) ==
               Hourly(time, over) - Off(time, over, discount) + Ledger!OrdersAmount(v) + internet
<1>1. PICK time \in TimePrice, internet \in NetPrice, discount \in StayDiscount, over \in TimePrice \cup {Ledger!Null} :
         /\ stay' = [stay EXCEPT ![v].st = "closed", ![v].pay = "paid",
                                   ![v].amount = Due(time, internet, discount, over), ![v].over = over,
                                   ![v].discount = Off(time, over, discount), ![v].net = internet,
                                   ![v].repriced = FALSE]
         /\ taken' = taken + Due(time, internet, discount, over)
  BY DEF Ledger!Checkout
<1>2. Hourly(time, over) \in Nat
  BY DEF Prices
<1>3. Off(time, over, discount) \in Nat
  BY <1>2 DEF Prices, Ledger!Least
<1>4. Due(time, internet, discount, over) \in Int
  BY <1>2, <1>3, OrdersType DEF LInv, Prices
<1> HIDE DEF Due, Off, Hourly
<1>5. PICK amount \in Int, off \in Nat :
         /\ stay' = [stay EXCEPT ![v].st = "closed", ![v].pay = "paid",
                                   ![v].amount = amount, ![v].over = over,
                                   ![v].discount = off, ![v].net = internet, ![v].repriced = FALSE]
         /\ taken' = taken + amount
  BY <1>1, <1>3, <1>4
<1> DEFINE row == [stay[v] EXCEPT !.st = "closed", !.pay = "paid", !.amount = amount,
                                   !.over = over, !.discount = off, !.net = internet, !.repriced = FALSE]
<1>6. over \in Int /\ internet \in Nat
  BY DEF Prices, Ledger!Null
<1>7. row \in Ledger!VisitRow /\ row.st = "closed" /\ row.pay = "paid" /\ row.amount = amount
      /\ row.day = stay[v].day
  <2>1. stay[v] \in Ledger!VisitRow
    BY RowTypes DEF LInv
  <2> QED  BY <1>6, <2>1 DEF Ledger!VisitRow
<1>8. stay' = [stay EXCEPT ![v] = row]
  BY <1>5, RowTypes DEF LInv, Ledger!VisitRow
<1>9. TakenFor(row) = amount /\ TakenFor(stay[v]) = 0 /\ row.day # 0
  BY <1>7 DEF Ledger!Checkout, TakenFor, LInv, Dated
<1> HIDE DEF row
<1>10. taken' = taken + TakenFor(row) - TakenFor(stay[v])
  BY <1>5, <1>9, RowTypes DEF LInv
<1>11. Ledger!AtTheDesk /\ UNCHANGED <<item, debt, again, parts>>
  BY DEF Ledger!Checkout
<1> QED  BY <1>7, <1>8, <1>9, <1>10, <1>11, StayStep

LEMMA CounterSellStep ==
  ASSUME Prices, LInv, NEW i \in Item, Ledger!Sell(i)
  PROVE  LInv'
<1>1. PICK total \in Total, hot \in BOOLEAN :
         /\ item' = [item EXCEPT ![i] = [by |-> "counter", of |-> NoStay, day |-> today,
                                         hot |-> hot, order |-> Ledger!Null, sale |-> total]]
         /\ taken' = taken + total
  BY DEF Ledger!Sell
<1> DEFINE row == [by |-> "counter", of |-> NoStay, day |-> today,
                   hot |-> hot, order |-> Ledger!Null, sale |-> total]
<1>2. total \in Nat /\ total # Ledger!Null /\ Ledger!Null \in Int
  BY DEF Prices, Ledger!Null
<1>3. row \in Ledger!ItemRow
  BY <1>2, DayFacts DEF LInv, Ledger!ItemRow
<1>4. SoldFor(row) = total /\ SoldFor(item[i]) = 0 /\ row.by # "none" /\ row.day # 0
  BY <1>2, DayFacts DEF Ledger!Sell, SoldFor, LInv
<1>5. item' = [item EXCEPT ![i] = row]
  BY <1>1
<1> HIDE DEF row
<1>6. taken' = taken + SoldFor(row) - SoldFor(item[i])
  BY <1>1, <1>2, <1>4, RowTypes DEF LInv
<1>7. Ledger!AtTheDesk /\ UNCHANGED <<stay, debt, again, parts>>
  BY DEF Ledger!Sell
<1> QED  BY <1>3, <1>4, <1>5, <1>6, <1>7, ItemStep

LEMMA EditSaleStep ==
  ASSUME Prices, LInv, NEW i \in Item, Ledger!EditSale(i)
  PROVE  LInv'
<1>0. Ledger!AtTheDesk /\ UNCHANGED <<stay, debt, again, parts>>
  BY DEF Ledger!EditSale
<1>1. PICK total \in Total \cup {Ledger!Null} :
         /\ item' = [item EXCEPT ![i].sale = total]
         /\ taken' = taken + IF item[i].by = "order" THEN 0
                               ELSE (IF total = Ledger!Null THEN 0 ELSE total) - item[i].sale
  BY DEF Ledger!EditSale
<1> DEFINE row == [item[i] EXCEPT !.sale = total]
<1>2. total \in Int
  BY DEF Prices, Ledger!Null
<1>3. row \in Ledger!ItemRow /\ row.sale = total /\ row.by = item[i].by /\ row.day = item[i].day
  BY <1>2, RowTypes DEF LInv, Ledger!ItemRow
<1>4. item' = [item EXCEPT ![i] = row]
  BY <1>1, RowTypes DEF LInv
<1>5. item[i].sale # Ledger!Null /\ item[i].by \in {"order", "counter"} /\ item[i].day # 0
  BY RowTypes DEF Ledger!EditSale, LInv, Dated
<1>6. CASE item[i].by = "order"
  <2>1. SoldFor(row) = 0 /\ SoldFor(item[i]) = 0
    BY <1>3, <1>6 DEF SoldFor
  <2> HIDE DEF row
  <2>2. taken' = taken + SoldFor(row) - SoldFor(item[i])
    BY <1>1, <1>6, <2>1, RowTypes DEF LInv
  <2> QED  BY <1>0, <1>3, <1>4, <1>5, <2>2, ItemStep
<1>7. CASE item[i].by = "counter"
  <2>1. SoldFor(row) = (IF total = Ledger!Null THEN 0 ELSE total) /\ SoldFor(item[i]) = item[i].sale
    BY <1>3, <1>5, <1>7 DEF SoldFor
  <2>2. SoldFor(row) \in Int /\ SoldFor(item[i]) \in Int /\ taken \in Int
    BY <1>3, RowTypes, TermTypes DEF LInv
  <2> HIDE DEF row
  <2>3. taken' = taken + SoldFor(row) - SoldFor(item[i])
    BY <1>1, <1>7, <2>1, <2>2
  <2> QED  BY <1>0, <1>3, <1>4, <1>5, <2>3, ItemStep
<1> QED  BY <1>5, <1>6, <1>7

\* The debts, by hand and by collection.
LEMMA OwingStep ==
  ASSUME Prices, LInv, NEW d \in Debt,
         Ledger!CreateDebt(d) \/ Ledger!CollectDebt(d) \/ Ledger!CollectPart(d) \/ Ledger!EditDebt(d) \/ Ledger!DeleteDebt(d)
  PROVE  LInv'
<1>0. /\ debt[d] \in Ledger!DebtRow /\ debt \in [Debt -> Ledger!DebtRow] /\ debt[d].amount \in Int
      /\ taken \in Int /\ parts \in Nat /\ debt[d].st \in {"none", "unpaid", "collected", "deleted"}
      /\ today \in Ledger!Day
  BY RowTypes, DayFacts DEF LInv
<1>1. CASE Ledger!CreateDebt(d)
  <2>1. PICK amount \in Total : debt' = [debt EXCEPT ![d].st = "unpaid", ![d].amount = amount]
    BY <1>1 DEF Ledger!CreateDebt
  <2> DEFINE row == [debt[d] EXCEPT !.st = "unpaid", !.amount = amount]
  <2>2. row \in Ledger!DebtRow /\ row.st = "unpaid"
    <3>1. amount \in Int
      BY DEF Prices
    <3> QED  BY <1>0, <3>1 DEF Ledger!DebtRow
  <2>3. debt' = [debt EXCEPT ![d] = row]
    BY <2>1, <1>0 DEF Ledger!DebtRow
  <2>4. BroughtFor(row) = 0 /\ BroughtFor(debt[d]) = 0
    BY <1>1, <2>2 DEF BroughtFor, Ledger!CreateDebt
  <2> HIDE DEF row
  <2>5. /\ taken' = taken + BroughtFor(row) - BroughtFor(debt[d]) + 0
        /\ parts' = parts + 0 /\ UNCHANGED <<stay, item, again>> /\ Ledger!AtTheDesk
    <3>1. UNCHANGED <<stay, item, taken, again, parts>> /\ Ledger!AtTheDesk
      BY <1>1 DEF Ledger!CreateDebt
    <3> QED  BY <1>0, <2>4, <3>1
  <2> QED  BY <2>2, <2>3, <2>5, DebtStep
<1>2. CASE Ledger!CollectDebt(d)
  <2> DEFINE row == [debt[d] EXCEPT !.st = "collected", !.day = today]
  <2>2. row \in Ledger!DebtRow /\ row.st = "collected" /\ row.amount = debt[d].amount
    BY <1>0 DEF Ledger!DebtRow
  <2>3. debt' = [debt EXCEPT ![d] = row]
    BY <1>2, <1>0 DEF Ledger!CollectDebt, Ledger!DebtRow
  <2>4. BroughtFor(row) = debt[d].amount /\ BroughtFor(debt[d]) = 0
    BY <1>2, <2>2 DEF BroughtFor, Ledger!CollectDebt
  <2> HIDE DEF row
  <2>5. /\ taken' = taken + BroughtFor(row) - BroughtFor(debt[d]) + 0
        /\ parts' = parts + 0 /\ UNCHANGED <<stay, item, again>> /\ Ledger!AtTheDesk
    BY <1>0, <1>2, <2>4 DEF Ledger!CollectDebt
  <2> QED  BY <2>2, <2>3, <2>5, DebtStep
<1>3. CASE Ledger!CollectPart(d)
  <2> DEFINE row == [debt[d] EXCEPT !.amount = @ - 1]
  <2>2. row \in Ledger!DebtRow /\ row.st = debt[d].st
    BY <1>0 DEF Ledger!DebtRow
  <2>3. debt' = [debt EXCEPT ![d] = row]
    BY <1>3, <1>0 DEF Ledger!CollectPart, Ledger!DebtRow
  <2>4. BroughtFor(row) = 0 /\ BroughtFor(debt[d]) = 0
    BY <1>3, <2>2 DEF BroughtFor, Ledger!CollectPart
  <2> HIDE DEF row
  <2>5. /\ taken' = taken + BroughtFor(row) - BroughtFor(debt[d]) + 1
        /\ parts' = parts + 1 /\ UNCHANGED <<stay, item, again>> /\ Ledger!AtTheDesk
    BY <1>0, <1>3, <2>4 DEF Ledger!CollectPart
  <2> QED  BY <2>2, <2>3, <2>5, DebtStep
<1>4. CASE Ledger!EditDebt(d)
  <2>1. PICK st \in {"unpaid", "collected"}, amount \in Total :
           /\ debt' = [debt EXCEPT ![d].st = st, ![d].amount = amount]
           /\ taken' = taken + (IF st = "collected" THEN amount ELSE 0)
                               - (IF debt[d].st = "collected" THEN debt[d].amount ELSE 0)
    BY <1>4 DEF Ledger!EditDebt
  <2> DEFINE row == [debt[d] EXCEPT !.st = st, !.amount = amount]
  <2>2. row \in Ledger!DebtRow /\ row.st = st /\ row.amount = amount
    <3>1. amount \in Int
      BY DEF Prices
    <3> QED  BY <1>0, <3>1 DEF Ledger!DebtRow
  <2>3. debt' = [debt EXCEPT ![d] = row]
    BY <2>1, <1>0 DEF Ledger!DebtRow
  <2>4. /\ BroughtFor(row) = (IF st = "collected" THEN amount ELSE 0)
        /\ BroughtFor(debt[d]) = (IF debt[d].st = "collected" THEN debt[d].amount ELSE 0)
    BY <2>2 DEF BroughtFor
  <2>5. BroughtFor(row) \in Int /\ BroughtFor(debt[d]) \in Int
    BY <1>0, <2>2, TermTypes
  <2> HIDE DEF row
  <2>6. taken' = taken + BroughtFor(row) - BroughtFor(debt[d]) + 0
    BY <1>0, <2>1, <2>4, <2>5
  <2>7. parts' = parts + 0 /\ UNCHANGED <<stay, item, again>> /\ Ledger!AtTheDesk
    <3>1. UNCHANGED <<stay, item, again, parts>> /\ Ledger!AtTheDesk
      BY <1>4 DEF Ledger!EditDebt
    <3> QED  BY <1>0, <3>1
  <2> QED  BY <2>2, <2>3, <2>6, <2>7, DebtStep
<1>5. CASE Ledger!DeleteDebt(d)
  <2> DEFINE row == [debt[d] EXCEPT !.st = "deleted"]
  <2>2. row \in Ledger!DebtRow /\ row.st = "deleted"
    BY <1>0 DEF Ledger!DebtRow
  <2>3. debt' = [debt EXCEPT ![d] = row]
    BY <1>5, <1>0 DEF Ledger!DeleteDebt, Ledger!DebtRow
  <2>4. /\ BroughtFor(row) = 0
        /\ BroughtFor(debt[d]) = (IF debt[d].st = "collected" THEN debt[d].amount ELSE 0)
    BY <2>2 DEF BroughtFor
  <2>5. BroughtFor(debt[d]) \in Int
    BY <1>0, TermTypes
  <2> HIDE DEF row
  <2>6. taken' = taken + BroughtFor(row) - BroughtFor(debt[d]) + 0
    BY <1>0, <1>5, <2>4, <2>5 DEF Ledger!DeleteDebt
  <2>7. parts' = parts + 0 /\ UNCHANGED <<stay, item, again>> /\ Ledger!AtTheDesk
    BY <1>0, <1>5 DEF Ledger!DeleteDebt
  <2> QED  BY <2>2, <2>3, <2>6, <2>7, DebtStep
<1> QED  BY <1>1, <1>2, <1>3, <1>4, <1>5

-----------------------------------------------------------------------------
\* A visit that leaves unpaid: neither it nor its debt is in the till.
LEMMA CheckoutUnpaidStep ==
  ASSUME Prices, LInv, NEW v \in Stay, NEW d \in Debt, Ledger!CheckoutUnpaid(v, d)
  PROVE  LInv'
<1> DEFINE Due(time, internet) ==
             Ledger!WholeShekels((IF stay[v].sub THEN 0 ELSE time) + Ledger!OrdersAmount(v) + internet)
           Hours(time, internet) == Due(time, internet) - Ledger!OrdersAmount(v) - internet
<1>1. PICK time \in TimePrice, internet \in NetPrice :
         /\ stay' = [stay EXCEPT ![v].st = "closed", ![v].pay = "full_debt",
                                   ![v].amount = Due(time, internet), ![v].over = Ledger!Null, ![v].net = internet,
                                   ![v].repriced = FALSE]
         /\ debt' = [debt EXCEPT ![d] = [st |-> "unpaid", of |-> v, amount |-> Due(time, internet),
                                         hours |-> Hours(time, internet), day |-> 0]]
  BY DEF Ledger!CheckoutUnpaid
<1>2. time \in Nat /\ internet \in Nat /\ Ledger!OrdersAmount(v) \in Int
  BY OrdersType DEF LInv, Prices
<1>3. Due(time, internet) \in Int
  <2>1. (IF stay[v].sub THEN 0 ELSE time) + Ledger!OrdersAmount(v) + internet \in Int
    BY <1>2
  <2> QED  BY <2>1, WholeType
<1>4. Hours(time, internet) \in Int
  BY <1>2, <1>3
<1> HIDE DEF Due, Hours
<1>5. PICK amount \in Int, hours \in Int :
         /\ stay' = [stay EXCEPT ![v].st = "closed", ![v].pay = "full_debt", ![v].amount = amount,
                                   ![v].over = Ledger!Null, ![v].net = internet, ![v].repriced = FALSE]
         /\ debt' = [debt EXCEPT ![d] = [st |-> "unpaid", of |-> v, amount |-> amount,
                                         hours |-> hours, day |-> 0]]
  BY <1>1, <1>3, <1>4
<1> DEFINE row == [stay[v] EXCEPT !.st = "closed", !.pay = "full_debt", !.amount = amount,
                                   !.over = Ledger!Null, !.net = internet, !.repriced = FALSE]
           owed == [st |-> "unpaid", of |-> v, amount |-> amount, hours |-> hours, day |-> 0]
<1>6. row \in Ledger!VisitRow /\ row.st = "closed" /\ row.pay = "full_debt" /\ row.day = stay[v].day
  <2>1. stay[v] \in Ledger!VisitRow /\ Ledger!Null \in Int
    BY RowTypes DEF LInv, Ledger!Null
  <2> QED  BY <1>2, <2>1 DEF Ledger!VisitRow
<1>7. owed \in Ledger!DebtRow
  BY DayFacts DEF LInv, Ledger!DebtRow
<1>8. stay' = [stay EXCEPT ![v] = row] /\ debt' = [debt EXCEPT ![d] = owed]
  BY <1>5, RowTypes DEF LInv, Ledger!VisitRow
<1>9. TakenFor(row) = 0 /\ TakenFor(stay[v]) = 0 /\ BroughtFor(owed) = 0 /\ BroughtFor(debt[d]) = 0
  BY <1>6 DEF Ledger!CheckoutUnpaid, TakenFor, BroughtFor
<1>10. stay[v].st = "open" /\ Ledger!AtTheDesk /\ UNCHANGED <<item, taken, again, parts>>
  BY DEF Ledger!CheckoutUnpaid
<1>11. row.day # 0
  BY <1>6, <1>10 DEF LInv, Dated
<1> HIDE DEF row, owed
<1>12. Taken(stay') = Taken(stay) /\ Brought(debt') = Brought(debt)
  <2>1. Ledger!TypeOK /\ Taken(stay) \in Int /\ Brought(debt) \in Int
    BY TillIsNumbers DEF LInv
  <2>2. Taken(stay') = Taken(stay) - TakenFor(stay[v]) + TakenFor(row)
    BY <1>6, <1>8, <2>1, VisitChanges
  <2>3. Brought(debt') = Brought(debt) - BroughtFor(debt[d]) + BroughtFor(owed)
    BY <1>7, <1>8, <2>1, DebtChanges
  <2> QED  BY <1>9, <2>1, <2>2, <2>3
<1>13. stay' \in [Stay -> Ledger!VisitRow] /\ debt' \in [Debt -> Ledger!DebtRow] /\ Dated(stay', item')
  BY <1>6, <1>7, <1>8, <1>10, <1>11, RowTypes DEF LInv, Dated
<1>14. taken' \in Int /\ again' \in Int /\ parts' \in Nat /\ item' \in [Item -> Ledger!ItemRow]
  BY <1>10, RowTypes DEF LInv
<1>15. Taken(stay') + Sold(item') + Brought(debt') + parts' = taken' + again'
  BY <1>10, <1>12 DEF LInv, TillInv
<1> QED  BY <1>10, <1>13, <1>14, <1>15, DeskStep

\* The debts which an edit of a visit leaves behind: one that is new, or one that is settled,
\* which brings in what is handed over for it.
LEMMA DebtsOfAnEdit ==
  ASSUME Prices, LInv, NEW v \in Stay, NEW pay \in {"paid", "full_debt"}, NEW amount \in Int,
         debt' \in Ledger!DebtAfter(v, pay, amount)
  PROVE  LET settled == Ledger!SumFunctionOnSet([d \in Debt |-> debt[d].amount],
                                         {d \in Ledger!UnpaidDebts(v) : debt'[d].st = "collected"})
         IN  /\ debt' \in [Debt -> Ledger!DebtRow] /\ settled \in Int
             /\ Brought(debt') = Brought(debt) + settled
<1> DEFINE g == [d \in Debt |-> debt[d].amount]
           Now == {d \in Ledger!UnpaidDebts(v) : debt'[d].st = "collected"}
           settled == Ledger!SumFunctionOnSet(g, Now)
<1>0. debt \in [Debt -> Ledger!DebtRow] /\ 0 \in Ledger!Day /\ today \in Ledger!Day /\ \A d \in Debt : g[d] \in Int
  BY RowTypes, DayFacts DEF LInv
<1>1. settled = SumOver(g, Now)
  BY SumIsSum
<1> SUFFICES /\ debt' \in [Debt -> Ledger!DebtRow] /\ settled \in Int
             /\ Brought(debt') = Brought(debt) + settled
  OBVIOUS
<1>2. CASE pay = "full_debt" /\ Ledger!UnpaidDebts(v) = {} /\ amount > 0
  <2> DEFINE hours == amount - Ledger!OrdersAmount(v)
             owed == [st |-> "unpaid", of |-> v, amount |-> amount, hours |-> hours, day |-> 0]
  <2>1. PICK d \in Debt : debt[d].st = "none" /\ debt' = [debt EXCEPT ![d] = owed]
    BY <1>2 DEF Ledger!DebtAfter
  <2>2. hours \in Int
    BY OrdersType DEF LInv
  <2> HIDE DEF hours
  <2>3. owed \in Ledger!DebtRow
    BY <1>0, <2>2 DEF Ledger!DebtRow
  <2>4. BroughtFor(owed) = 0 /\ BroughtFor(debt[d]) = 0
    BY <2>1 DEF BroughtFor
  <2> HIDE DEF owed
  <2>5. Brought(debt') = Brought(debt)
    <3>1. Ledger!TypeOK /\ Brought(debt) \in Int
      BY TillIsNumbers DEF LInv
    <3>2. Brought(debt') = Brought(debt) - BroughtFor(debt[d]) + BroughtFor(owed)
      BY <2>1, <2>3, <3>1, DebtChanges
    <3> QED  BY <2>4, <3>1, <3>2
  <2>6. Now = {}
    BY <1>2
  <2>7. settled = 0
    BY <1>1, <2>6, SumOfNone
  <2> QED  BY <1>0, <2>1, <2>3, <2>5, <2>7, TillIsNumbers DEF LInv
<1>3. CASE /\ ~(pay = "full_debt" /\ Ledger!UnpaidDebts(v) = {} /\ amount > 0)
           /\ pay = "paid" /\ stay[v].pay = "full_debt" /\ Ledger!UnpaidDebts(v) # {}
  <2>1. PICK d \in Ledger!UnpaidDebts(v) : debt' = [debt EXCEPT ![d].st = "collected", ![d].day = today]
    BY <1>3 DEF Ledger!DebtAfter
  <2>2. d \in Debt /\ debt[d] \in Ledger!DebtRow /\ debt[d].st = "unpaid" /\ debt[d].amount \in Int
    BY <1>0, RowTypes DEF Ledger!UnpaidDebts, LInv
  <2> DEFINE row == [debt[d] EXCEPT !.st = "collected", !.day = today]
  <2>3. row \in Ledger!DebtRow /\ row.st = "collected" /\ row.amount = debt[d].amount
    BY <1>0, <2>2 DEF Ledger!DebtRow
  <2>4. debt' = [debt EXCEPT ![d] = row]
    BY <1>0, <2>1, <2>2 DEF Ledger!DebtRow
  <2>5. BroughtFor(row) = debt[d].amount /\ BroughtFor(debt[d]) = 0
    BY <2>2, <2>3 DEF BroughtFor
  <2>6. Now = {d}
    BY <1>0, <2>2, <2>3, <2>4 DEF Ledger!UnpaidDebts
  <2> HIDE DEF row
  <2>7. Brought(debt') = Brought(debt) + debt[d].amount
    <3>1. Ledger!TypeOK /\ Brought(debt) \in Int
      BY TillIsNumbers DEF LInv
    <3>2. Brought(debt') = Brought(debt) - BroughtFor(debt[d]) + BroughtFor(row)
      BY <2>2, <2>3, <2>4, <3>1, DebtChanges
    <3> QED  BY <2>2, <2>5, <3>1, <3>2
  <2>8. g[d] = debt[d].amount
    BY <2>2
  <2> HIDE DEF g
  <2>9. SumOver(g, {d}) = debt[d].amount
    <3>1. IsFiniteSet({}) /\ IsFiniteSet({d}) /\ {d} \ {d} = {}
      BY FS_EmptySet, FS_Singleton
    <3>2. SumOver(g, {d}) = g[d] + SumOver(g, {d} \ {d})
      <4>1. d \in {d} /\ \A y \in {d} : g[y] \in Int
        BY <2>2, <2>8
      <4> HIDE DEF settled
      <4> QED  BY <3>1, <4>1, SumTakes
    <3>3. SumOver(g, {}) = 0
      BY SumOfNone
    <3> HIDE DEF settled
    <3>4. SumOver(g, {d}) = g[d] + 0
      BY <3>1, <3>2, <3>3
    <3> QED  BY <2>2, <2>8, <3>4
  <2>10. settled = debt[d].amount
    BY <1>1, <2>6, <2>9
  <2> QED  BY <1>0, <2>2, <2>3, <2>4, <2>7, <2>10
<1>4. CASE /\ ~(pay = "full_debt" /\ Ledger!UnpaidDebts(v) = {} /\ amount > 0)
           /\ ~(pay = "paid" /\ stay[v].pay = "full_debt" /\ Ledger!UnpaidDebts(v) # {})
  <2>1. debt' = debt
    BY <1>4 DEF Ledger!DebtAfter
  <2>2. Now = {}
    BY <2>1 DEF Ledger!UnpaidDebts
  <2>3. settled = 0
    BY <1>1, <2>2, SumOfNone
  <2> QED  BY <1>0, <2>1, <2>3, TillIsNumbers DEF LInv
<1> QED  BY <1>2, <1>3, <1>4

LEMMA EditVisitStep ==
  ASSUME Prices, LInv, NEW v \in Stay, Ledger!EditVisit(v)
  PROVE  LInv'
<1> DEFINE settled == Ledger!SumFunctionOnSet([d \in Debt |-> debt[d].amount],
                                       {d \in Ledger!UnpaidDebts(v) : debt'[d].st = "collected"})
           hadDebt == \E d \in Debt : debt[d].of = v /\ debt[d].st \in {"unpaid", "collected"}
           before == IF Ledger!Counted(v) THEN stay[v].amount ELSE 0
           Due(over) == IF over = Ledger!Null THEN stay[v].amount ELSE over + Ledger!OrdersAmount(v)
           After(pay, amount) == IF stay[v].st = "closed" /\ pay = "paid" THEN amount ELSE 0
           Twice(pay) == hadDebt /\ ~Ledger!Counted(v) /\ stay[v].st = "closed" /\ pay = "paid"
<1>1. PICK pay \in {"paid", "full_debt"}, over \in TimePrice \cup {Ledger!Null} :
         /\ stay' = [stay EXCEPT ![v].pay = pay, ![v].amount = Due(over),
                                   ![v].over = IF over = Ledger!Null THEN @ ELSE over,
                                   ![v].repriced = @ \/ over # Ledger!Null]
         /\ debt' \in Ledger!DebtAfter(v, pay, Due(over))
         /\ taken' = taken + settled + (IF Twice(pay) THEN 0 ELSE After(pay, Due(over)) - before)
         /\ again' = again + (IF Twice(pay) THEN Due(over) ELSE 0)
  BY DEF Ledger!EditVisit
<1>2. /\ Ledger!AtTheDesk /\ UNCHANGED <<item, parts>> /\ stay[v].st \in {"open", "closed"}
  BY DEF Ledger!EditVisit
<1>3. over \in Int /\ stay[v] \in Ledger!VisitRow /\ stay[v].amount \in Int /\ taken \in Int /\ again \in Int
  BY RowTypes DEF LInv, Prices, Ledger!Null
<1>4. Due(over) \in Int
  BY <1>3, OrdersType DEF LInv
<1> HIDE DEF Due
<1>5. PICK amount \in Int : amount = Due(over)
  BY <1>4
<1>6. debt' \in [Debt -> Ledger!DebtRow] /\ settled \in Int /\ Brought(debt') = Brought(debt) + settled
  BY <1>1, <1>5, DebtsOfAnEdit
<1> HIDE DEF settled, hadDebt
<1>7. PICK to \in Int, again_ \in BOOLEAN :
         stay' = [stay EXCEPT ![v].pay = pay, ![v].amount = amount, ![v].over = to, ![v].repriced = again_]
  <2>1. (IF over = Ledger!Null THEN stay[v].over ELSE over) \in Int /\ (stay[v].repriced \/ over # Ledger!Null) \in BOOLEAN
    BY <1>3, RowTypes DEF LInv
  <2> QED  BY <1>1, <1>5, <2>1
<1> DEFINE row == [stay[v] EXCEPT !.pay = pay, !.amount = amount, !.over = to, !.repriced = again_]
<1>8. row \in Ledger!VisitRow /\ row.st = stay[v].st /\ row.pay = pay /\ row.amount = amount /\ row.day = stay[v].day
  BY <1>3 DEF Ledger!VisitRow
<1>9. stay' = [stay EXCEPT ![v] = row]
  BY <1>7, RowTypes DEF LInv, Ledger!VisitRow
<1>10. TakenFor(row) = After(pay, amount) /\ TakenFor(stay[v]) = before
  BY <1>8 DEF TakenFor, Ledger!Counted
<1>11. Twice(pay) => before = 0 /\ After(pay, amount) = amount
  OBVIOUS
<1>12. before \in Int /\ After(pay, amount) \in Int
  BY <1>3
<1>13. taken' + again' = taken + again + settled + After(pay, amount) - before
  BY <1>1, <1>3, <1>5, <1>6, <1>11, <1>12
<1>14. taken' \in Int /\ again' \in Int
  BY <1>1, <1>3, <1>5, <1>6, <1>12
<1> HIDE DEF row, before, After, Twice
<1>15. Taken(stay') = Taken(stay) - before + After(pay, amount)
  BY <1>8, <1>9, <1>10, VisitChanges DEF LInv
<1>16. stay' \in [Stay -> Ledger!VisitRow] /\ Dated(stay', item') /\ item' \in [Item -> Ledger!ItemRow] /\ parts' \in Nat
  BY <1>2, <1>8, <1>9, RowTypes DEF LInv, Dated
<1>17. Taken(stay') + Sold(item') + Brought(debt') + parts' = taken' + again'
  <2>1. Sold(item') = Sold(item) /\ parts' = parts /\ parts \in Int
    BY <1>2, RowTypes DEF LInv
  <2>2. Taken(stay) + Sold(item) + Brought(debt) + parts = taken + again
    BY DEF LInv, TillInv
  <2>3. Taken(stay) \in Int /\ Sold(item) \in Int /\ Brought(debt) \in Int
    BY TillIsNumbers DEF LInv
  <2>4. Taken(stay') + Sold(item') + Brought(debt') + parts'
          = (Taken(stay) - before + After(pay, amount)) + Sold(item) + (Brought(debt) + settled) + parts
    BY <1>6, <1>15, <2>1
  <2>5. @ = (Taken(stay) + Sold(item) + Brought(debt) + parts) + settled + After(pay, amount) - before
    BY <1>3, <1>6, <1>12, <2>1, <2>3
  <2>6. @ = taken' + again'
    BY <1>13, <2>2
  <2> QED  BY <2>4, <2>5, <2>6
<1> QED  BY <1>2, <1>6, <1>14, <1>16, <1>17, DeskStep

LEMMA DeleteVisitStep ==
  ASSUME Prices, LInv, NEW v \in Stay, Ledger!DeleteVisit(v)
  PROVE  LInv'
<1> DEFINE before == IF Ledger!Counted(v) THEN stay[v].amount ELSE 0
           row == [stay[v] EXCEPT !.st = "deleted"]
<1>1. /\ Ledger!AtTheDesk /\ stay[v].st \in {"open", "closed"} /\ UNCHANGED <<debt, again, parts>>
      /\ stay' = [stay EXCEPT ![v].st = "deleted"]
      /\ item' = [i \in Item |-> IF i \in Ledger!OrdersOf(v) THEN [item[i] EXCEPT !.order = Ledger!Null] ELSE item[i]]
      /\ taken' = taken - before
  BY DEF Ledger!DeleteVisit
<1>2. stay[v] \in Ledger!VisitRow /\ stay[v].amount \in Int /\ taken \in Int /\ again \in Int /\ parts \in Nat
  BY RowTypes DEF LInv
<1>3. row \in Ledger!VisitRow /\ row.st = "deleted" /\ row.day = stay[v].day
  BY <1>2 DEF Ledger!VisitRow
<1>4. stay' = [stay EXCEPT ![v] = row]
  BY <1>1, RowTypes DEF LInv
<1>5. TakenFor(row) = 0 /\ TakenFor(stay[v]) = before
  BY <1>3 DEF TakenFor, Ledger!Counted
<1>6. \A i \in Item : /\ item'[i] \in Ledger!ItemRow /\ item'[i].sale = item[i].sale
                      /\ item'[i].by = item[i].by /\ item'[i].day = item[i].day
  <2>1. \A i \in Item : item[i] \in Ledger!ItemRow /\ Ledger!Null \in Int
    BY RowTypes DEF LInv, Ledger!Null
  <2> QED  BY <1>1, <2>1 DEF Ledger!ItemRow
<1>7. item' \in [Item -> Ledger!ItemRow]
  BY <1>1, <1>6
<1>8. Sold(item') = Sold(item)
  <2>1. \A i \in Item : SoldFor(item'[i]) = SoldFor(item[i])
    BY <1>6 DEF SoldFor
  <2>2. [i \in Item |-> SoldFor(item'[i])] = [i \in Item |-> SoldFor(item[i])]
    BY <2>1
  <2> QED  BY <2>2 DEF Sold
<1>9. before \in Int
  BY <1>2
<1> HIDE DEF row, before
<1>10. Taken(stay') = Taken(stay) - before
  <2>1. Ledger!TypeOK /\ Taken(stay) \in Int
    BY TillIsNumbers DEF LInv
  <2>2. Taken(stay') = Taken(stay) - TakenFor(stay[v]) + TakenFor(row)
    BY <1>3, <1>4, <2>1, VisitChanges
  <2> QED  BY <1>5, <1>9, <2>1, <2>2
<1>11. stay' \in [Stay -> Ledger!VisitRow] /\ Dated(stay', item')
  BY <1>1, <1>3, <1>4, <1>6, RowTypes DEF LInv, Dated
<1>12. Taken(stay') + Sold(item') + Brought(debt') + parts' = taken' + again'
  BY <1>1, <1>2, <1>8, <1>9, <1>10, TillIsNumbers DEF LInv, TillInv
<1> QED  BY <1>1, <1>2, <1>7, <1>9, <1>11, <1>12, DeskStep, RowTypes DEF LInv

LEMMA RoomsStep ==
  ASSUME Prices, LInv, Ledger!Elsewhere
  PROVE  LInv'
<1>1. deeds' \in 0 .. MaxDeeds /\ today' = today /\ UNCHANGED Ledger!desk
  <2>1. Ledger!InTheRooms
    BY DEF Ledger!Elsewhere, Ledger!Book, Ledger!Teach, Ledger!Enrol, Ledger!Spend
  <2> QED  BY <2>1 DEF Ledger!InTheRooms, Ledger!Deed, LInv, Ledger!TypeOK, Prices
<1>2. /\ letting \in [st: {"none", "pending", "confirmed"}, day: Ledger!Day, price: Nat]
      /\ class \in [from: Ledger!Day, to: Ledger!Day, paid: Nat] /\ expense \in [day: Ledger!Day, amount: Nat]
      /\ RoomPrice \subseteq Nat /\ 1 .. LastDay \subseteq Ledger!Day
      /\ \A from \in 1 .. LastDay : from .. LastDay \subseteq Ledger!Day
  BY DEF LInv, Ledger!TypeOK, Prices, Ledger!Day
<1>3. /\ letting' \in [st: {"none", "pending", "confirmed"}, day: Ledger!Day, price: Nat]
      /\ class' \in [from: Ledger!Day, to: Ledger!Day, paid: Nat] /\ expense' \in [day: Ledger!Day, amount: Nat]
  <2>1. CASE Ledger!Book
    BY <1>2, <2>1 DEF Ledger!Book
  <2>2. CASE Ledger!Teach
    BY <1>2, <2>2 DEF Ledger!Teach
  <2>3. CASE Ledger!Enrol
    <3>1. PICK amount \in RoomPrice : class' = [class EXCEPT !.paid = @ + amount]
      BY <2>3 DEF Ledger!Enrol
    <3>2. class.paid + amount \in Nat
      BY <1>2
    <3> QED  BY <1>2, <2>3, <3>1, <3>2 DEF Ledger!Enrol
  <2>4. CASE Ledger!Spend
    BY <1>2, <2>4 DEF Ledger!Spend
  <2> QED  BY <2>1, <2>2, <2>3, <2>4 DEF Ledger!Elsewhere
<1>4. Ledger!TypeOK'
  BY <1>1, <1>3 DEF Ledger!desk, LInv, Ledger!TypeOK
<1> QED  BY <1>1, <1>4 DEF Ledger!desk, LInv, Dated, TillInv

LEMMA NextInv ==
  ASSUME Prices, LInv, [Ledger!Next]_(Ledger!vars)
  PROVE  LInv'
<1>1. CASE Ledger!NextDay
  <2>1. today' \in 1 .. LastDay /\ UNCHANGED <<deeds, Ledger!desk, Ledger!rooms>>
    BY <1>1 DEF Ledger!NextDay, LInv, Ledger!TypeOK, Prices
  <2> QED  BY <2>1 DEF Ledger!desk, Ledger!rooms, LInv, Ledger!TypeOK, Dated, TillInv
<1>2. CASE Ledger!Visiting
  BY <1>2, CheckInStep, CheckoutStep, EditVisitStep, DeleteVisitStep, CheckoutUnpaidStep,
     AddOrderStep, EditOrderStep DEF Ledger!Visiting
<1>3. CASE Ledger!Counter
  BY <1>3, CounterSellStep, EditSaleStep DEF Ledger!Counter
<1>4. CASE Ledger!Owing
  BY <1>4, OwingStep DEF Ledger!Owing
<1>5. CASE Ledger!Elsewhere
  BY <1>5, RoomsStep
<1>6. CASE UNCHANGED Ledger!vars
  BY <1>6 DEF Ledger!vars, LInv, Ledger!TypeOK, Dated, TillInv
<1> QED  BY <1>1, <1>2, <1>3, <1>4, <1>5, <1>6 DEF Ledger!Next

LEMMA Invariant == Prices => (Ledger!Spec => []LInv)
<1> SUFFICES ASSUME Prices PROVE Ledger!Spec => []LInv
  OBVIOUS
<1> QED  BY InitInv, NextInv, PTL DEF Ledger!Spec

-----------------------------------------------------------------------------
(* What the reports count, as sums over all rows.                          *)

\* A sum over the members that satisfy a condition.
LEMMA SplitSum ==
  ASSUME NEW S, IsFiniteSet(S), NEW P \in SUBSET S, NEW g, \A x \in S : g[x] \in Int
  PROVE  SumOver(g, S) = SumOver(g, P) + SumOver(g, S \ P)
<1> DEFINE f == [x \in S |-> IF x \in P THEN g[x] ELSE 0]
           h == [x \in S |-> IF x \in P THEN 0 ELSE g[x]]
<1>1. SumOver(f, S) = SumOver(g, P)
  BY SumOfSome
<1>2. SumOver(h, S) = SumOver(g, S \ P)
  BY SumOfSome
<1> QED  BY <1>1, <1>2, SumsAdd

\* The rows that count in all days.
LEMMA EveryDay ==
  ASSUME Prices, LInv
  PROVE  /\ Ledger!PaidIn(1, LastDay) = {v \in Stay : Ledger!Counted(v)}
         /\ Ledger!SalesIn(1, LastDay) = {i \in Item : item[i].sale # Ledger!Null}
         /\ Ledger!CollectedIn(1, LastDay) = {d \in Debt : debt[d].st = "collected" /\ debt[d].day # 0}
<1>1. \A day \in Ledger!Day : Ledger!In(day, 1, LastDay) <=> day # 0
  BY DEF Prices, Ledger!Day, Ledger!In
<1>2. Ledger!PaidIn(1, LastDay) = {v \in Stay : Ledger!Counted(v)}
  BY <1>1, RowTypes DEF LInv, Dated, Ledger!PaidIn, Ledger!SessionsIn, Ledger!Counted
<1>3. Ledger!SalesIn(1, LastDay) = {i \in Item : item[i].sale # Ledger!Null}
  BY <1>1, RowTypes DEF LInv, Dated, Ledger!SalesIn
<1>4. Ledger!CollectedIn(1, LastDay) = {d \in Debt : debt[d].st = "collected" /\ debt[d].day # 0}
  BY <1>1, RowTypes DEF LInv, Ledger!CollectedIn
<1> QED  BY <1>2, <1>3, <1>4

\* Hours are what the till has for the visits, less their orders.
LEMMA HoursAreTaken ==
  ASSUME Prices, LInv
  PROVE  LET P == {v \in Stay : Ledger!Counted(v)}
             hours == SumOver([v \in Stay |-> Ledger!HoursPortion(v)], P)
             billed == SumOver([v \in Stay |-> Ledger!OrdersAmount(v)], P)
         IN  hours \in Int /\ billed \in Int /\ hours + billed = Taken(stay)
<1> DEFINE P == {v \in Stay : Ledger!Counted(v)}
           h == [v \in Stay |-> Ledger!HoursPortion(v)]
           o == [v \in Stay |-> Ledger!OrdersAmount(v)]
           a == [v \in Stay |-> stay[v].amount]
           f == [v \in Stay |-> TakenFor(stay[v])]
<1>1. \A v \in Stay : h[v] \in Int /\ o[v] \in Int /\ a[v] \in Int /\ a[v] = h[v] + o[v] /\ f[v] \in Int
  BY RowTypes, OrdersType, TermTypes DEF LInv, Ledger!HoursPortion
<1>2. (\A v \in P : f[v] = a[v]) /\ (\A v \in Stay \ P : f[v] = 0) /\ P \in SUBSET Stay
  BY DEF TakenFor, Ledger!Counted
<1>3. IsFiniteSet(P) /\ IsFiniteSet(Stay)
  BY FS_Subset DEF Prices
<1> HIDE DEF h, o, a, f, P
<1>4. SumOver(a, P) = SumOver(h, P) + SumOver(o, P)
  <2>1. \A v \in P : h[v] \in Int /\ o[v] \in Int /\ a[v] = h[v] + o[v]
    BY <1>1, <1>2
  <2> QED  BY <1>3, <2>1, SumsAdd
<1>5. SumOver(f, Stay) = SumOver(a, P)
  BY <1>1, <1>2, <1>3, SumOfSome
<1>6. SumOver(h, P) \in Int /\ SumOver(o, P) \in Int
  BY <1>1, <1>2, <1>3, SumType
<1> QED  BY <1>4, <1>5, <1>6 DEF h, o, P, f, Taken

\* Sales are what the till has for those of the counter, and those of orders.
LEMMA SalesAreSold ==
  ASSUME Prices, LInv
  PROVE  LET g == [i \in Item |-> item[i].sale]
             S == {i \in Item : item[i].sale # Ledger!Null}
             hot == SumOver(g, {i \in S : item[i].hot = TRUE})
             snacks == SumOver(g, {i \in S : item[i].hot = FALSE})
             ordered == SumOver(g, {i \in S : item[i].by = "order"})
         IN  /\ hot \in Int /\ snacks \in Int /\ ordered \in Int
             /\ hot + snacks = ordered + Sold(item)
<1> DEFINE g == [i \in Item |-> item[i].sale]
           f == [i \in Item |-> SoldFor(item[i])]
           S == {i \in Item : item[i].sale # Ledger!Null}
           H == {i \in S : item[i].hot = TRUE}
           C == {i \in S : item[i].hot = FALSE}
           O == {i \in S : item[i].by = "order"}
           B == {i \in S : item[i].by = "counter"}
<1>1. \A i \in Item : g[i] \in Int /\ f[i] \in Int
  BY RowTypes, TermTypes DEF LInv
<1>2. C = S \ H /\ B = S \ O /\ H \in SUBSET S /\ O \in SUBSET S /\ S \in SUBSET Item /\ B \in SUBSET Item
  BY RowTypes DEF LInv, Dated
<1>3. (\A i \in B : f[i] = g[i]) /\ \A i \in Item \ B : f[i] = 0
  BY DEF SoldFor
<1>4. IsFiniteSet(S) /\ IsFiniteSet(Item) /\ IsFiniteSet(H) /\ IsFiniteSet(C) /\ IsFiniteSet(O)
  BY FS_Subset DEF Prices
<1> HIDE DEF g, f, S, H, C, O, B
<1>5. SumOver(g, S) = SumOver(g, H) + SumOver(g, C)
  BY <1>1, <1>2, <1>4, SplitSum
<1>6. SumOver(g, S) = SumOver(g, O) + SumOver(g, B)
  BY <1>1, <1>2, <1>4, SplitSum
<1>7. SumOver(f, Item) = SumOver(g, B)
  BY <1>1, <1>2, <1>3, <1>4, SumOfSome
<1>8. SumOver(g, H) \in Int /\ SumOver(g, C) \in Int /\ SumOver(g, O) \in Int
  BY <1>1, <1>2, <1>4, SumType
<1>9. SumOver(g, H) + SumOver(g, C) = SumOver(g, O) + SumOver(f, Item)
  BY <1>5, <1>6, <1>7
<1> QED  BY <1>8, <1>9 DEF g, f, S, H, C, O, Sold

\* Debts are what the till has for those that were collected, but for those without a day.
LEMMA DebtsAreBrought ==
  ASSUME Prices, LInv
  PROVE  LET E == {d \in Debt : debt[d].st = "collected" /\ debt[d].day # 0}
             whole == [d \in Debt |-> debt[d].amount]
             hours == SumOver([d \in Debt |-> debt[d].hours], {d \in E : Ledger!OfSession(d)})
             snacks == SumOver([d \in Debt |-> debt[d].amount - debt[d].hours], {d \in E : Ledger!OfSession(d)})
             debts == SumOver(whole, {d \in E : ~Ledger!OfSession(d)})
             unseen == SumOver(whole, {d \in Debt : debt[d].st = "collected" /\ debt[d].day = 0})
         IN  /\ hours \in Int /\ snacks \in Int /\ debts \in Int /\ unseen \in Int
             /\ hours + snacks + debts + unseen = Brought(debt)
<1> DEFINE E == {d \in Debt : debt[d].st = "collected" /\ debt[d].day # 0}
           W == {d \in E : Ledger!OfSession(d)}
           X == {d \in E : ~Ledger!OfSession(d)}
           U == {d \in Debt : debt[d].st = "collected" /\ debt[d].day = 0}
           K == {d \in Debt : debt[d].st = "collected"}
           whole == [d \in Debt |-> debt[d].amount]
           h == [d \in Debt |-> debt[d].hours]
           n == [d \in Debt |-> debt[d].amount - debt[d].hours]
           f == [d \in Debt |-> BroughtFor(debt[d])]
<1>1. \A d \in Debt : /\ whole[d] \in Int /\ h[d] \in Int /\ n[d] \in Int /\ f[d] \in Int
                      /\ whole[d] = h[d] + n[d]
  BY RowTypes, TermTypes DEF LInv
<1>2. /\ U = K \ E /\ E \in SUBSET K /\ X = E \ W /\ W \in SUBSET E /\ K \in SUBSET Debt
      /\ W \in SUBSET Debt /\ E \in SUBSET Debt /\ X \in SUBSET Debt /\ U \in SUBSET Debt
  OBVIOUS
<1>3. (\A d \in K : f[d] = whole[d]) /\ \A d \in Debt \ K : f[d] = 0
  BY DEF BroughtFor
<1>4. /\ IsFiniteSet(E) /\ IsFiniteSet(W) /\ IsFiniteSet(X) /\ IsFiniteSet(U) /\ IsFiniteSet(K)
      /\ IsFiniteSet(Debt)
  BY <1>2, FS_Subset DEF Prices
<1> HIDE DEF E, W, X, U, K, whole, h, n, f
<1>5. SumOver(whole, W) = SumOver(h, W) + SumOver(n, W)
  <2>1. \A d \in W : h[d] \in Int /\ n[d] \in Int /\ whole[d] = h[d] + n[d]
    BY <1>1, <1>2
  <2> QED  BY <1>4, <2>1, SumsAdd
<1>6. SumOver(whole, E) = SumOver(whole, W) + SumOver(whole, X)
  BY <1>1, <1>2, <1>4, SplitSum
<1>7. SumOver(whole, K) = SumOver(whole, E) + SumOver(whole, U)
  BY <1>1, <1>2, <1>4, SplitSum
<1>8. SumOver(f, Debt) = SumOver(whole, K)
  BY <1>1, <1>2, <1>3, <1>4, SumOfSome
<1>9. /\ SumOver(h, W) \in Int /\ SumOver(n, W) \in Int
  BY <1>1, <1>2, <1>4, SumType
<1>10. /\ SumOver(whole, X) \in Int /\ SumOver(whole, U) \in Int
  BY <1>1, <1>2, <1>4, SumType
<1>11. SumOver(h, W) + SumOver(n, W) + SumOver(whole, X) + SumOver(whole, U) = SumOver(f, Debt)
  BY <1>5, <1>6, <1>7, <1>8
<1> QED  BY <1>9, <1>10, <1>11 DEF E, W, X, U, whole, h, n, f, Brought

LEMMA RevenueIs ==
  ASSUME Prices, LInv
  PROVE  LET revenue == Ledger!Revenue(1, LastDay)
             P == {v \in Stay : Ledger!Counted(v)}
             S == {i \in Item : item[i].sale # Ledger!Null}
             E == {d \in Debt : debt[d].st = "collected" /\ debt[d].day # 0}
             sale == [i \in Item |-> item[i].sale]
         IN  /\ revenue.hours = SumOver([v \in Stay |-> Ledger!HoursPortion(v)], P)
                                + SumOver([d \in Debt |-> debt[d].hours], {d \in E : Ledger!OfSession(d)})
             /\ revenue.snacks = SumOver(sale, {i \in S : item[i].hot = FALSE})
                                 + SumOver([d \in Debt |-> debt[d].amount - debt[d].hours], {d \in E : Ledger!OfSession(d)})
             /\ revenue.hot = SumOver(sale, {i \in S : item[i].hot = TRUE})
             /\ revenue.debts = SumOver([d \in Debt |-> debt[d].amount], {d \in E : ~Ledger!OfSession(d)})
BY EveryDay, SumIsSum DEF Ledger!Revenue, Ledger!SalesAmount, Ledger!DebtHours, Ledger!DebtSnacks

\* In every state: revenue less what was handed over is what the four sums say.
LEMMA TillHolds ==
  ASSUME Prices, LInv
  PROVE  Ledger!TillAgrees
<1> DEFINE revenue == Ledger!Revenue(1, LastDay)
           P == {v \in Stay : Ledger!Counted(v)}
           S == {i \in Item : item[i].sale # Ledger!Null}
           E == {d \in Debt : debt[d].st = "collected" /\ debt[d].day # 0}
           sale == [i \in Item |-> item[i].sale]
           whole == [d \in Debt |-> debt[d].amount]
           hours == SumOver([v \in Stay |-> Ledger!HoursPortion(v)], P)
           billed == SumOver([v \in Stay |-> Ledger!OrdersAmount(v)], P)
           hot == SumOver(sale, {i \in S : item[i].hot = TRUE})
           snacks == SumOver(sale, {i \in S : item[i].hot = FALSE})
           ordered == SumOver(sale, {i \in S : item[i].by = "order"})
           late == SumOver([d \in Debt |-> debt[d].hours], {d \in E : Ledger!OfSession(d)})
           lateSnacks == SumOver([d \in Debt |-> debt[d].amount - debt[d].hours], {d \in E : Ledger!OfSession(d)})
           debts == SumOver(whole, {d \in E : ~Ledger!OfSession(d)})
           unseen == SumOver(whole, {d \in Debt : debt[d].st = "collected" /\ debt[d].day = 0})
<1>1. /\ revenue.hours = hours + late /\ revenue.snacks = snacks + lateSnacks
      /\ revenue.hot = hot /\ revenue.debts = debts
  BY RevenueIs
<1>2. hours \in Int /\ billed \in Int /\ hours + billed = Taken(stay)
  BY HoursAreTaken
<1>3. hot \in Int /\ snacks \in Int /\ ordered \in Int /\ hot + snacks = ordered + Sold(item)
  BY SalesAreSold
<1>4. /\ late \in Int /\ lateSnacks \in Int /\ debts \in Int /\ unseen \in Int
      /\ late + lateSnacks + debts + unseen = Brought(debt)
  BY DebtsAreBrought
<1>5. Taken(stay) + Sold(item) + Brought(debt) + parts = taken + again
  BY DEF LInv, TillInv
<1>6. /\ Taken(stay) \in Int /\ Sold(item) \in Int /\ Brought(debt) \in Int
      /\ taken \in Int /\ again \in Int /\ parts \in Int
  BY RowTypes, TillIsNumbers DEF LInv
<1>7. Ledger!TillAgrees <=> revenue.hours + revenue.snacks + revenue.hot + revenue.debts - taken
                       = (ordered - billed) + again - parts - unseen
  BY EveryDay, SumIsSum DEF Ledger!TillAgrees
<1> HIDE DEF revenue, hours, billed, hot, snacks, ordered, late, lateSnacks, debts, unseen
<1> QED  BY <1>1, <1>2, <1>3, <1>4, <1>5, <1>6, <1>7

-----------------------------------------------------------------------------
(* What the rows keep for the reports.                                     *)

\* A visit that has ended and whose price was given by hand: its amount is that price and its
\* orders, and net and discount if that was at the checkout.
Priced(v) ==
    stay[v].st = "closed" /\ stay[v].over # Ledger!Null =>
        stay[v].amount = stay[v].over + Ledger!OrdersAmount(v)
                          + (IF stay[v].repriced THEN 0 ELSE stay[v].net - stay[v].discount)

RowsInv ==
    /\ \A v \in Stay : Priced(v) /\ stay[v].day <= today
    /\ \A i \in Item : item[i].order # Ledger!Null => item[i].by # "none"
    /\ letting.st = "none" => letting.day = 0
    /\ class.from <= class.to

RInv == LInv /\ RowsInv

\* The orders of a visit come to the same as long as they are the same.
LEMMA SameOrders ==
  ASSUME Prices, Ledger!TypeOK, Ledger!TypeOK', NEW w \in Stay,
         \A i \in Item : (i \in Ledger!OrdersOf(w) \/ i \in Ledger!OrdersOf(w)') =>
                            item'[i].of = item[i].of /\ item'[i].order = item[i].order
  PROVE  Ledger!OrdersAmount(w)' = Ledger!OrdersAmount(w)
<1> DEFINE S == Ledger!OrdersOf(w)
           f == [i \in Item |-> item'[i].order]
           g == [i \in Item |-> item[i].order]
<1>1. Ledger!OrdersOf(w)' = S
  BY DEF Ledger!OrdersOf
<1>2. \A i \in S : g[i] \in Int /\ f[i] = g[i]
  BY RowTypes DEF Ledger!OrdersOf
<1>3. IsFiniteSet(S)
  BY FS_Subset DEF Ledger!OrdersOf, Prices
<1>4. Ledger!OrdersAmount(w)' = Ledger!SumFunctionOnSet(f, S) /\ Ledger!OrdersAmount(w) = Ledger!SumFunctionOnSet(g, S)
  BY <1>1 DEF Ledger!OrdersAmount
<1> HIDE DEF f, g, S
<1>5. SumOver(f, S) = SumOver(g, S)
  BY <1>2, <1>3, SumSame
<1> QED  BY <1>4, <1>5, SumIsSum

\* A visit that changes in nothing that its price depends on.
LEMMA PricedStays ==
  ASSUME NEW v \in Stay, Priced(v), stay'[v] = stay[v], Ledger!OrdersAmount(v)' = Ledger!OrdersAmount(v)
  PROVE  Priced(v)'
BY DEF Priced

\* A step that changes at most one visit, and no orders but that visit's.
LEMMA RowsStep ==
  ASSUME Prices, RInv, LInv', NEW v \in Stay, UNCHANGED <<today, letting, class>>,
         \A w \in Stay \ {v} : stay'[w] = stay[w],
         \A i \in Item : \/ item'[i].of = item[i].of /\ item'[i].order = item[i].order
                         \/ item[i].order = Ledger!Null /\ item'[i].order = Ledger!Null
                         \/ (item[i].order # Ledger!Null => item[i].of = v) /\ (item'[i].order # Ledger!Null => item'[i].of = v),
         \A i \in Item : item'[i].order # Ledger!Null => item'[i].by # "none",
         stay'[v].day <= today, Priced(v)'
  PROVE  RowsInv'
<1>1. ASSUME NEW w \in Stay \ {v}
      PROVE  Ledger!OrdersAmount(w)' = Ledger!OrdersAmount(w)
  <2>1. Ledger!TypeOK /\ Ledger!TypeOK'
    BY DEF RInv, LInv
  <2>2. \A i \in Item : (i \in Ledger!OrdersOf(w) \/ i \in Ledger!OrdersOf(w)') =>
                           item'[i].of = item[i].of /\ item'[i].order = item[i].order
    BY DEF Ledger!OrdersOf
  <2> QED  BY <2>1, <2>2, SameOrders
<1>2. ASSUME NEW w \in Stay
      PROVE  Priced(w)' /\ stay'[w].day <= today'
  <2>1. CASE w = v
    BY <2>1
  <2>2. CASE w # v
    BY <1>1, <2>2, PricedStays DEF RInv, RowsInv
  <2> QED  BY <2>1, <2>2
<1> QED  BY <1>2 DEF RInv, RowsInv

\* A step that changes visits in nothing, and orders neither.
LEMMA RowsRest ==
  ASSUME Prices, RInv, LInv', UNCHANGED <<today, stay, letting, class>>,
         \A i \in Item : \/ item'[i].of = item[i].of /\ item'[i].order = item[i].order /\ item'[i].by = item[i].by
                         \/ item[i].order = Ledger!Null /\ item'[i].order = Ledger!Null
  PROVE  RowsInv'
<1>1. ASSUME NEW w \in Stay
      PROVE  Ledger!OrdersAmount(w)' = Ledger!OrdersAmount(w)
  <2>1. Ledger!TypeOK /\ Ledger!TypeOK'
    BY DEF RInv, LInv
  <2>2. \A i \in Item : (i \in Ledger!OrdersOf(w) \/ i \in Ledger!OrdersOf(w)') =>
                           item'[i].of = item[i].of /\ item'[i].order = item[i].order
    BY DEF Ledger!OrdersOf
  <2> QED  BY <2>1, <2>2, SameOrders
<1>2. ASSUME NEW w \in Stay
      PROVE  Priced(w)' /\ stay'[w].day <= today'
  BY <1>1, PricedStays DEF RInv, RowsInv
<1>3. \A i \in Item : item'[i].order # Ledger!Null => item'[i].by # "none"
  BY DEF RInv, RowsInv
<1> QED  BY <1>2, <1>3 DEF RInv, RowsInv

LEMMA RowsCheckIn ==
  ASSUME Prices, RInv, LInv', NEW v \in Stay, Ledger!CheckIn(v)
  PROVE  RowsInv'
<1>1. PICK plan \in BOOLEAN :
         stay' = [stay EXCEPT ![v].st = "open", ![v].day = today, ![v].sub = plan]
  BY DEF Ledger!CheckIn
<1>2. stay \in [Stay -> Ledger!VisitRow] /\ today \in Int
  BY RowTypes, DayFacts DEF RInv, LInv, Ledger!Day
<1>3. stay'[v].st = "open" /\ stay'[v].day = today /\ \A w \in Stay \ {v} : stay'[w] = stay[w]
  BY <1>1, <1>2 DEF Ledger!VisitRow
<1>4. Priced(v)' /\ stay'[v].day <= today
  BY <1>2, <1>3 DEF Priced
<1>5. UNCHANGED <<today, item, letting, class>>
  BY DEF Ledger!CheckIn, Ledger!AtTheDesk, Ledger!Deed, Ledger!rooms
<1>6. \A i \in Item : item'[i].order # Ledger!Null => item'[i].by # "none"
  BY <1>5 DEF RInv, RowsInv
<1> QED  BY <1>3, <1>4, <1>5, <1>6, RowsStep

LEMMA RowsOrders ==
  ASSUME Prices, RInv, LInv', NEW i \in Item, NEW v \in Stay,
         Ledger!AddOrder(i, v) \/ (Ledger!EditOrder(i) /\ stay[v].st = "open" /\ i \in Ledger!OrdersOf(v))
  PROVE  RowsInv'
<1>1. /\ stay[v].st = "open" /\ UNCHANGED <<today, stay, letting, class>>
      /\ \A w \in Stay \ {v} : stay'[w] = stay[w]
  BY DEF Ledger!AddOrder, Ledger!EditOrder, Ledger!AtTheDesk, Ledger!Deed, Ledger!rooms
<1>2. item \in [Item -> Ledger!ItemRow] /\ item' \in [Item -> Ledger!ItemRow] /\ stay[v].day <= today
  BY RowTypes DEF RInv, RowsInv, LInv, Ledger!TypeOK
<1>3. \A j \in Item \ {i} : item'[j] = item[j]
  BY <1>2 DEF Ledger!AddOrder, Ledger!EditOrder
<1>4. /\ item'[i].of = v /\ (item[i].order # Ledger!Null => item[i].of = v)
      /\ item'[i].by # "none"
  <2>1. CASE Ledger!AddOrder(i, v)
    <3>1. item'[i].of = v /\ item'[i].by = "order"
      BY <1>2, <2>1 DEF Ledger!AddOrder, Ledger!ItemRow
    <3>2. item[i].order = Ledger!Null
      BY <2>1 DEF Ledger!AddOrder, RInv, RowsInv
    <3> QED  BY <3>1, <3>2
  <2>2. CASE Ledger!EditOrder(i) /\ i \in Ledger!OrdersOf(v)
    <3>1. item[i].of = v /\ item[i].order # Ledger!Null /\ item[i].by # "none"
      BY <2>2 DEF Ledger!OrdersOf, RInv, RowsInv
    <3>2. PICK total \in Total \cup {Ledger!Null} : item' = [item EXCEPT ![i].order = total]
      BY <2>2 DEF Ledger!EditOrder
    <3>3. item'[i].of = item[i].of /\ item'[i].by = item[i].by
      BY <1>2, <3>2 DEF Ledger!ItemRow
    <3> QED  BY <3>1, <3>3
  <2> QED  BY <2>1, <2>2
<1>5. \A j \in Item : \/ item'[j].of = item[j].of /\ item'[j].order = item[j].order
                      \/ (item[j].order # Ledger!Null => item[j].of = v) /\ (item'[j].order # Ledger!Null => item'[j].of = v)
  BY <1>3, <1>4
<1>6. \A j \in Item : item'[j].order # Ledger!Null => item'[j].by # "none"
  BY <1>3, <1>4 DEF RInv, RowsInv
<1>7. Priced(v)' /\ stay'[v].day <= today
  BY <1>1, <1>2 DEF Priced
<1> QED  BY <1>1, <1>5, <1>6, <1>7, RowsStep

LEMMA RowsCheckout ==
  ASSUME Prices, RInv, LInv', NEW v \in Stay, Ledger!Checkout(v)
  PROVE  RowsInv'
<1> DEFINE Hourly(time, over) == IF over # Ledger!Null THEN over ELSE IF stay[v].sub THEN 0 ELSE time
           Off(time, over, discount) == Ledger!Least(discount, Hourly(time, over))
           Due(time, internet, discount, over) ==
               Hourly(time, over) - Off(time, over, discount) + Ledger!OrdersAmount(v) + internet
<1>1. PICK time \in TimePrice, internet \in NetPrice, discount \in StayDiscount, over \in TimePrice \cup {Ledger!Null} :
         /\ stay' = [stay EXCEPT ![v].st = "closed", ![v].pay = "paid",
                                   ![v].amount = Due(time, internet, discount, over), ![v].over = over,
                                   ![v].discount = Off(time, over, discount), ![v].net = internet,
                                   ![v].repriced = FALSE]
         /\ taken' = taken + Due(time, internet, discount, over)
  BY DEF Ledger!Checkout
<1>2. over # Ledger!Null => over \in Nat /\ Hourly(time, over) = over
  BY DEF Prices
<1>3. Hourly(time, over) \in Nat
  BY DEF Prices
<1>4. Off(time, over, discount) \in Nat
  BY <1>3 DEF Prices, Ledger!Least
<1>5. Ledger!OrdersAmount(v) \in Int /\ internet \in Nat
  BY OrdersType DEF RInv, LInv, Prices
<1>6. over # Ledger!Null => Due(time, internet, discount, over) = over + Ledger!OrdersAmount(v) + (internet - Off(time, over, discount))
  BY <1>2, <1>3, <1>4, <1>5
<1> HIDE DEF Due, Off, Hourly
<1>7. stay \in [Stay -> Ledger!VisitRow]
  BY RowTypes DEF RInv, LInv
<1>8. /\ stay'[v].over = over /\ stay'[v].amount = Due(time, internet, discount, over)
      /\ stay'[v].net = internet /\ stay'[v].discount = Off(time, over, discount) /\ stay'[v].repriced = FALSE
      /\ stay'[v].day = stay[v].day /\ \A w \in Stay \ {v} : stay'[w] = stay[w]
  BY <1>1, <1>7 DEF Ledger!VisitRow
<1>9. UNCHANGED <<today, item, letting, class>>
  BY DEF Ledger!Checkout, Ledger!AtTheDesk, Ledger!Deed, Ledger!rooms
<1>10. Ledger!OrdersAmount(v)' = Ledger!OrdersAmount(v)
  BY <1>9 DEF Ledger!OrdersAmount, Ledger!OrdersOf
<1>11. Priced(v)' /\ stay'[v].day <= today
  BY <1>6, <1>8, <1>10 DEF Priced, RInv, RowsInv
<1>12. \A i \in Item : item'[i].order # Ledger!Null => item'[i].by # "none"
  BY <1>9 DEF RInv, RowsInv
<1> QED  BY <1>8, <1>9, <1>11, <1>12, RowsStep

LEMMA RowsUnpaid ==
  ASSUME Prices, RInv, LInv', NEW v \in Stay, NEW d \in Debt, Ledger!CheckoutUnpaid(v, d)
  PROVE  RowsInv'
<1> DEFINE Due(time, internet) ==
             Ledger!WholeShekels((IF stay[v].sub THEN 0 ELSE time) + Ledger!OrdersAmount(v) + internet)
           Hours(time, internet) == Due(time, internet) - Ledger!OrdersAmount(v) - internet
<1>0. PICK time \in TimePrice, internet \in NetPrice :
         /\ stay' = [stay EXCEPT ![v].st = "closed", ![v].pay = "full_debt",
                                   ![v].amount = Due(time, internet), ![v].over = Ledger!Null, ![v].net = internet,
                                   ![v].repriced = FALSE]
         /\ debt' = [debt EXCEPT ![d] = [st |-> "unpaid", of |-> v, amount |-> Due(time, internet),
                                         hours |-> Hours(time, internet), day |-> 0]]
  BY DEF Ledger!CheckoutUnpaid
<1> HIDE DEF Due, Hours
<1>1. stay' = [stay EXCEPT ![v].st = "closed", ![v].pay = "full_debt", ![v].amount = Due(time, internet),
                             ![v].over = Ledger!Null, ![v].net = internet, ![v].repriced = FALSE]
  BY <1>0
<1>2. stay \in [Stay -> Ledger!VisitRow]
  BY RowTypes DEF RInv, LInv
<1>3. /\ stay'[v].over = Ledger!Null /\ stay'[v].day = stay[v].day
      /\ \A w \in Stay \ {v} : stay'[w] = stay[w]
  BY <1>1, <1>2 DEF Ledger!VisitRow
<1>4. UNCHANGED <<today, item, letting, class>>
  BY DEF Ledger!CheckoutUnpaid, Ledger!AtTheDesk, Ledger!Deed, Ledger!rooms
<1>5. Priced(v)' /\ stay'[v].day <= today
  BY <1>3 DEF Priced, RInv, RowsInv
<1>6. \A i \in Item : item'[i].order # Ledger!Null => item'[i].by # "none"
  BY <1>4 DEF RInv, RowsInv
<1> QED  BY <1>3, <1>4, <1>5, <1>6, RowsStep

LEMMA RowsEdit ==
  ASSUME Prices, RInv, LInv', NEW v \in Stay, Ledger!EditVisit(v)
  PROVE  RowsInv'
<1>1. PICK pay \in {"paid", "full_debt"}, over \in TimePrice \cup {Ledger!Null} :
         stay' = [stay EXCEPT ![v].pay = pay,
                                ![v].amount = IF over = Ledger!Null THEN stay[v].amount ELSE over + Ledger!OrdersAmount(v),
                                ![v].over = IF over = Ledger!Null THEN @ ELSE over,
                                ![v].repriced = @ \/ over # Ledger!Null]
  BY DEF Ledger!EditVisit
<1>2. stay \in [Stay -> Ledger!VisitRow]
  BY RowTypes DEF RInv, LInv
<1>3. /\ stay'[v].over = (IF over = Ledger!Null THEN stay[v].over ELSE over)
      /\ stay'[v].amount = (IF over = Ledger!Null THEN stay[v].amount ELSE over + Ledger!OrdersAmount(v))
      /\ stay'[v].repriced = (stay[v].repriced \/ over # Ledger!Null)
      /\ stay'[v].net = stay[v].net /\ stay'[v].discount = stay[v].discount
      /\ stay'[v].day = stay[v].day /\ stay'[v].st = stay[v].st
      /\ \A w \in Stay \ {v} : stay'[w] = stay[w]
  BY <1>1, <1>2 DEF Ledger!VisitRow
<1>4. UNCHANGED <<today, item, letting, class>>
  BY DEF Ledger!EditVisit, Ledger!AtTheDesk, Ledger!Deed, Ledger!rooms
<1>5. Ledger!OrdersAmount(v)' = Ledger!OrdersAmount(v)
  BY <1>4 DEF Ledger!OrdersAmount, Ledger!OrdersOf
<1>6. stay'[v].day <= today /\ stay[v].repriced \in BOOLEAN
  BY <1>3, RowTypes DEF RInv, RowsInv, LInv
<1>7. Priced(v)'
  <2>1. CASE over = Ledger!Null
    BY <1>3, <1>5, <1>6, <2>1 DEF Priced, RInv, RowsInv
  <2>2. CASE over # Ledger!Null
    <3>1. over \in Nat /\ Ledger!OrdersAmount(v) \in Int
      BY <2>2, OrdersType DEF Prices, RInv, LInv
    <3>2. stay'[v].over = over /\ stay'[v].amount = over + Ledger!OrdersAmount(v)
      BY <1>3, <2>2
    <3>3. stay'[v].repriced
      BY <1>3, <2>2
    <3>4. stay'[v].amount = stay'[v].over + Ledger!OrdersAmount(v)' + 0
      BY <1>5, <3>1, <3>2
    <3> QED  BY <3>3, <3>4 DEF Priced
  <2> QED  BY <2>1, <2>2
<1>8. \A i \in Item : item'[i].order # Ledger!Null => item'[i].by # "none"
  BY <1>4 DEF RInv, RowsInv
<1> QED  BY <1>3, <1>4, <1>6, <1>7, <1>8, RowsStep

LEMMA RowsDelete ==
  ASSUME Prices, RInv, LInv', NEW v \in Stay, Ledger!DeleteVisit(v)
  PROVE  RowsInv'
<1>1. /\ stay' = [stay EXCEPT ![v].st = "deleted"]
      /\ item' = [i \in Item |-> IF i \in Ledger!OrdersOf(v) THEN [item[i] EXCEPT !.order = Ledger!Null] ELSE item[i]]
      /\ UNCHANGED <<today, letting, class>>
  BY DEF Ledger!DeleteVisit, Ledger!AtTheDesk, Ledger!Deed, Ledger!rooms
<1>2. stay \in [Stay -> Ledger!VisitRow] /\ item \in [Item -> Ledger!ItemRow]
  BY RowTypes DEF RInv, LInv
<1>3. /\ stay'[v].st = "deleted" /\ stay'[v].day = stay[v].day
      /\ \A w \in Stay \ {v} : stay'[w] = stay[w]
  BY <1>1, <1>2 DEF Ledger!VisitRow
<1>4. ASSUME NEW i \in Item
      PROVE  /\ \/ item'[i].of = item[i].of /\ item'[i].order = item[i].order
                \/ (item[i].order # Ledger!Null => item[i].of = v) /\ (item'[i].order # Ledger!Null => item'[i].of = v)
             /\ item'[i].order # Ledger!Null => item'[i].by # "none"
  <2>1. CASE i \in Ledger!OrdersOf(v)
    <3>1. item'[i].order = Ledger!Null /\ item[i].of = v
      BY <1>1, <1>2, <2>1 DEF Ledger!OrdersOf, Ledger!ItemRow
    <3> QED  BY <3>1
  <2>2. CASE i \notin Ledger!OrdersOf(v)
    <3>1. item'[i] = item[i]
      BY <1>1, <2>2
    <3> QED  BY <3>1 DEF RInv, RowsInv
  <2> QED  BY <2>1, <2>2
<1>5. Priced(v)' /\ stay'[v].day <= today
  BY <1>3 DEF Priced, RInv, RowsInv
<1> QED  BY <1>1, <1>3, <1>4, <1>5, RowsStep

LEMMA RowsSell ==
  ASSUME Prices, RInv, LInv', NEW i \in Item, Ledger!Sell(i) \/ Ledger!EditSale(i)
  PROVE  RowsInv'
<1>1. UNCHANGED <<today, stay, letting, class>>
  BY DEF Ledger!Sell, Ledger!EditSale, Ledger!AtTheDesk, Ledger!Deed, Ledger!rooms
<1>2. item \in [Item -> Ledger!ItemRow]
  BY RowTypes DEF RInv, LInv
<1>3. \A j \in Item \ {i} : item'[j] = item[j]
  BY <1>2 DEF Ledger!Sell, Ledger!EditSale
<1>4. \/ item'[i].of = item[i].of /\ item'[i].order = item[i].order /\ item'[i].by = item[i].by
      \/ item[i].order = Ledger!Null /\ item'[i].order = Ledger!Null
  <2>1. CASE Ledger!Sell(i)
    <3>1. item'[i].order = Ledger!Null
      BY <1>2, <2>1 DEF Ledger!Sell
    <3>2. item[i].order = Ledger!Null
      BY <2>1 DEF Ledger!Sell, RInv, RowsInv
    <3> QED  BY <3>1, <3>2
  <2>2. CASE Ledger!EditSale(i)
    <3>1. PICK total \in Total \cup {Ledger!Null} : item' = [item EXCEPT ![i].sale = total]
      BY <2>2 DEF Ledger!EditSale
    <3> QED  BY <1>2, <3>1 DEF Ledger!ItemRow
  <2> QED  BY <2>1, <2>2
<1>5. \A j \in Item : \/ item'[j].of = item[j].of /\ item'[j].order = item[j].order /\ item'[j].by = item[j].by
                      \/ item[j].order = Ledger!Null /\ item'[j].order = Ledger!Null
  BY <1>3, <1>4
<1> QED  BY <1>1, <1>5, RowsRest

LEMMA RowsRooms ==
  ASSUME Prices, RInv, LInv', Ledger!Elsewhere
  PROVE  RowsInv'
<1>1. UNCHANGED <<today, stay, item>>
  BY DEF Ledger!Elsewhere, Ledger!Book, Ledger!Teach, Ledger!Enrol, Ledger!Spend,
       Ledger!InTheRooms, Ledger!Deed, Ledger!desk
<1>2. letting'.st = "none" => letting'.day = 0
  <2>1. CASE Ledger!Book
    <3>1. PICK st \in {"pending", "confirmed"} : \E day \in 1 .. LastDay, price \in RoomPrice :
             letting' = [st |-> st, day |-> day, price |-> price]
      BY <2>1 DEF Ledger!Book
    <3> QED  BY <3>1
  <2>2. CASE ~Ledger!Book
    BY <2>2 DEF Ledger!Elsewhere, Ledger!Teach, Ledger!Enrol, Ledger!Spend, RInv, RowsInv
  <2> QED  BY <2>1, <2>2
<1>3. class'.from <= class'.to
  <2>1. class \in [from: Ledger!Day, to: Ledger!Day, paid: Nat]
    BY DEF RInv, LInv, Ledger!TypeOK
  <2>2. CASE Ledger!Teach
    <3>1. PICK from \in 1 .. LastDay : \E to \in from .. LastDay :
             class' = [class EXCEPT !.from = from, !.to = to]
      BY <2>2 DEF Ledger!Teach
    <3>2. PICK to \in from .. LastDay : class' = [class EXCEPT !.from = from, !.to = to]
      BY <3>1
    <3> QED  BY <2>1, <3>2
  <2>3. CASE Ledger!Enrol
    <3>1. PICK amount \in RoomPrice : class' = [class EXCEPT !.paid = @ + amount]
      BY <2>3 DEF Ledger!Enrol
    <3> QED  BY <2>1, <3>1 DEF RInv, RowsInv
  <2>4. CASE Ledger!Book \/ Ledger!Spend
    BY <2>4 DEF Ledger!Book, Ledger!Spend, RInv, RowsInv
  <2> QED  BY <2>2, <2>3, <2>4 DEF Ledger!Elsewhere
<1>4. \A v \in Stay : Priced(v)' = Priced(v)
  BY <1>1 DEF Priced, Ledger!OrdersAmount, Ledger!OrdersOf
<1> QED  BY <1>1, <1>2, <1>3, <1>4 DEF RInv, RowsInv

LEMMA RowsNext ==
  ASSUME Prices, RInv, [Ledger!Next]_(Ledger!vars)
  PROVE  RInv'
<1>0. LInv'
  BY NextInv DEF RInv
<1>1. CASE Ledger!NextDay
  <2>1. today' = today + 1 /\ UNCHANGED <<stay, item, letting, class>>
    BY <1>1 DEF Ledger!NextDay, Ledger!desk, Ledger!rooms
  <2>2. \A v \in Stay : Priced(v)' = Priced(v)
    BY <2>1 DEF Priced, Ledger!OrdersAmount, Ledger!OrdersOf
  <2>3. \A v \in Stay : stay'[v].day <= today'
    <3>1. today \in Int /\ \A v \in Stay : stay[v].day \in Int /\ stay[v].day <= today
      BY RowTypes, DayFacts DEF RInv, RowsInv, LInv, Ledger!Day
    <3> QED  BY <2>1, <3>1
  <2> QED  BY <1>0, <2>1, <2>2, <2>3 DEF RInv, RowsInv
<1>2. CASE Ledger!Visiting
  <2>1. ASSUME NEW i \in Item, Ledger!EditOrder(i)
        PROVE  RowsInv'
    <3>1. PICK v \in Stay : stay[v].st = "open" /\ i \in Ledger!OrdersOf(v)
      BY <2>1 DEF Ledger!EditOrder
    <3> QED  BY <1>0, <2>1, <3>1, RowsOrders
  <2>2. RowsInv'
    BY <1>0, <1>2, <2>1, RowsOrders, RowsCheckIn, RowsCheckout, RowsUnpaid, RowsEdit,
         RowsDelete DEF Ledger!Visiting
  <2> QED  BY <1>0, <2>2 DEF RInv
<1>3. CASE Ledger!Counter
  BY <1>0, <1>3, RowsSell DEF Ledger!Counter, RInv
<1>4. CASE Ledger!Owing
  <2>1. UNCHANGED <<today, stay, item, letting, class>>
    BY <1>4 DEF Ledger!Owing, Ledger!CreateDebt, Ledger!CollectDebt, Ledger!CollectPart,
         Ledger!EditDebt, Ledger!DeleteDebt, Ledger!AtTheDesk, Ledger!Deed, Ledger!rooms
  <2> QED  BY <1>0, <2>1, RowsRest DEF RInv
<1>5. CASE Ledger!Elsewhere
  BY <1>0, <1>5, RowsRooms DEF RInv
<1>6. CASE UNCHANGED Ledger!vars
  <2>1. UNCHANGED <<today, stay, item, letting, class>>
    BY <1>6 DEF Ledger!vars
  <2> QED  BY <1>0, <2>1, RowsRest DEF RInv
<1> QED  BY <1>1, <1>2, <1>3, <1>4, <1>5, <1>6 DEF Ledger!Next

LEMMA RowsInit ==
  ASSUME Prices, Ledger!Init
  PROVE  RInv
<1>1. LInv
  BY InitInv
<1>2. RowsInv
  BY DEF Ledger!Init, RowsInv, Priced
<1> QED  BY <1>1, <1>2 DEF RInv

LEMMA RowsInvariant == Prices => (Ledger!Spec => []RInv)
<1> SUFFICES ASSUME Prices PROVE Ledger!Spec => []RInv
  OBVIOUS
<1> QED  BY RowsInit, RowsNext, PTL DEF Ledger!Spec

-----------------------------------------------------------------------------
(* The reports of a range of days.                                         *)

\* What a subscription and the hot drinks cost a day, and the days it covers.
Rates ==
    /\ DailyRate \in Nat /\ HotCost \in Int
    /\ IsFiniteSet(SubscribedDays) /\ SubscribedDays # {} /\ SubscribedDays \subseteq Nat \ {0}

PaidHours(from, to) == SumOver([v \in Stay |-> Ledger!HoursPortion(v)], Ledger!PaidIn(from, to))
Subscribers(from, to) == {v \in Ledger!PaidIn(from, to) : stay[v].sub}

LEMMA Parts ==
  ASSUME Prices, LInv, NEW from, NEW to
  PROVE  /\ Ledger!SessionsIn(from, to) \in SUBSET Stay /\ Ledger!PaidIn(from, to) \in SUBSET Ledger!SessionsIn(from, to)
         /\ Ledger!PaidIn(from, to) \in SUBSET Stay
         /\ Ledger!OpenIn(from, to) \in SUBSET Stay /\ Ledger!SalesIn(from, to) \in SUBSET Item
         /\ Ledger!CollectedIn(from, to) \in SUBSET Debt
         /\ IsFiniteSet(Ledger!SessionsIn(from, to)) /\ IsFiniteSet(Ledger!PaidIn(from, to))
         /\ IsFiniteSet(Ledger!OpenIn(from, to)) /\ IsFiniteSet(Ledger!SalesIn(from, to))
         /\ IsFiniteSet(Ledger!CollectedIn(from, to))
<1>1. /\ Ledger!SessionsIn(from, to) \in SUBSET Stay /\ Ledger!PaidIn(from, to) \in SUBSET Ledger!SessionsIn(from, to)
      /\ Ledger!PaidIn(from, to) \in SUBSET Stay /\ Ledger!OpenIn(from, to) \in SUBSET Stay
  BY DEF Ledger!SessionsIn, Ledger!PaidIn, Ledger!OpenIn
<1>2. Ledger!SalesIn(from, to) \in SUBSET Item /\ Ledger!CollectedIn(from, to) \in SUBSET Debt
  BY DEF Ledger!SalesIn, Ledger!CollectedIn
<1> QED  BY <1>1, <1>2, FS_Subset DEF Prices

LEMMA Terms ==
  ASSUME Prices, LInv
  PROVE  /\ \A v \in Stay : /\ Ledger!HoursPortion(v) \in Int /\ Ledger!OrdersAmount(v) \in Int
                             /\ Ledger!HoursColumn(v) \in Int
                             /\ stay[v].amount = Ledger!HoursPortion(v) + Ledger!OrdersAmount(v)
         /\ \A d \in Debt : debt[d].amount - debt[d].hours \in Int
BY RowTypes, OrdersType DEF LInv, Ledger!HoursPortion, Ledger!HoursColumn

LEMMA ReportTypes ==
  ASSUME Prices, LInv, NEW from, NEW to
  PROVE  /\ PaidHours(from, to) \in Int /\ Ledger!DebtHours(from, to) \in Int /\ Ledger!DebtSnacks(from, to) \in Int
         /\ \A hot \in BOOLEAN : Ledger!SalesAmount(hot, from, to) \in Int
<1>1. PaidHours(from, to) \in Int
  <2> DEFINE g == [v \in Stay |-> Ledger!HoursPortion(v)]
  <2>1. \A v \in Ledger!PaidIn(from, to) : g[v] \in Int
    BY Parts, Terms
  <2> QED  BY <2>1, Parts, SumType DEF PaidHours
<1>2. Ledger!DebtHours(from, to) \in Int
  <2> DEFINE g == [d \in Debt |-> debt[d].hours]
             W == {d \in Ledger!CollectedIn(from, to) : Ledger!OfSession(d)}
  <2>1. IsFiniteSet(W) /\ \A d \in W : g[d] \in Int
    BY Parts, RowTypes, FS_Subset DEF LInv
  <2> HIDE DEF g, W
  <2>2. SumOver(g, W) \in Int
    BY <2>1, SumType
  <2> QED  BY <2>2, SumIsSum DEF Ledger!DebtHours, g, W
<1>3. Ledger!DebtSnacks(from, to) \in Int
  <2> DEFINE g == [d \in Debt |-> debt[d].amount - debt[d].hours]
             W == {d \in Ledger!CollectedIn(from, to) : Ledger!OfSession(d)}
  <2>1. IsFiniteSet(W) /\ \A d \in W : g[d] \in Int
    BY Parts, Terms, FS_Subset DEF LInv
  <2> HIDE DEF g, W
  <2>2. SumOver(g, W) \in Int
    BY <2>1, SumType
  <2> QED  BY <2>2, SumIsSum DEF Ledger!DebtSnacks, g, W
<1>4. ASSUME NEW hot \in BOOLEAN
      PROVE  Ledger!SalesAmount(hot, from, to) \in Int
  <2> DEFINE g == [i \in Item |-> item[i].sale]
             W == {i \in Ledger!SalesIn(from, to) : item[i].hot = hot}
  <2>1. IsFiniteSet(W) /\ \A i \in W : g[i] \in Int
    BY Parts, RowTypes, FS_Subset DEF LInv
  <2> HIDE DEF g, W
  <2>2. SumOver(g, W) \in Int
    BY <2>1, SumType
  <2> QED  BY <2>2, SumIsSum DEF Ledger!SalesAmount, g, W
<1> QED  BY <1>1, <1>2, <1>3, <1>4

\* Hours of a visit whose price was given by hand, as the table has them.
LEMMA HoursSplit ==
  ASSUME Prices, RInv, NEW v \in Stay, stay[v].st = "closed"
  PROVE  Ledger!HoursPortion(v) = Ledger!HoursColumn(v) +
           (IF stay[v].over # Ledger!Null /\ ~stay[v].repriced THEN stay[v].net - stay[v].discount ELSE 0)
<1>1. /\ Ledger!HoursPortion(v) \in Int /\ Ledger!OrdersAmount(v) \in Int /\ stay[v].over \in Int
      /\ stay[v].net - stay[v].discount \in Int /\ stay[v].amount = Ledger!HoursPortion(v) + Ledger!OrdersAmount(v)
      /\ stay[v].repriced \in BOOLEAN
  BY Terms, RowTypes DEF RInv, LInv
<1>2. CASE stay[v].over = Ledger!Null
  BY <1>1, <1>2 DEF Ledger!HoursColumn
<1>3. CASE stay[v].over # Ledger!Null
  <2>1. stay[v].amount = stay[v].over + Ledger!OrdersAmount(v)
                          + (IF stay[v].repriced THEN 0 ELSE stay[v].net - stay[v].discount)
    BY <1>3 DEF RInv, RowsInv, Priced
  <2>2. Ledger!HoursColumn(v) = stay[v].over
    BY <1>3 DEF Ledger!HoursColumn
  <2>3. CASE stay[v].repriced
    <3>1. stay[v].amount = stay[v].over + Ledger!OrdersAmount(v) + 0
      BY <2>1, <2>3
    <3>2. Ledger!HoursPortion(v) = Ledger!HoursColumn(v) + 0
      BY <1>1, <2>2, <3>1
    <3> QED  BY <2>3, <3>2
  <2>4. CASE ~stay[v].repriced
    BY <1>1, <1>3, <2>1, <2>2, <2>4
  <2> QED  BY <2>3, <2>4
<1> QED  BY <1>2, <1>3

LEMMA HoursHold ==
  ASSUME Prices, RInv, NEW from, NEW to
  PROVE  Ledger!HoursAgree(Ledger!Revenue(from, to), Ledger!HistorySummary(from, to), Ledger!GenerateReport(from, to), from, to)
<1> DEFINE P == Ledger!PaidIn(from, to)
           Q == {v \in P : stay[v].over # Ledger!Null /\ ~stay[v].repriced}
           h == [v \in Stay |-> Ledger!HoursPortion(v)]
           c == [v \in Stay |-> Ledger!HoursColumn(v)]
           w == [v \in Stay |-> stay[v].net - stay[v].discount]
           f == [v \in Stay |-> IF v \in Q THEN w[v] ELSE 0]
<1>1. /\ Ledger!Revenue(from, to).hours = SumOver(h, P) + Ledger!DebtHours(from, to)
      /\ Ledger!HistorySummary(from, to).hours = SumOver(c, P)
      /\ Ledger!GenerateReport(from, to).visits = SumOver(h, P)
  BY SumIsSum DEF Ledger!Revenue, Ledger!HistorySummary, Ledger!GenerateReport, Ledger!VisitsSheet
<1>2. \A v \in P : h[v] \in Int /\ c[v] \in Int /\ f[v] \in Int /\ h[v] = c[v] + f[v]
  <2> SUFFICES ASSUME NEW v \in P
               PROVE  h[v] \in Int /\ c[v] \in Int /\ f[v] \in Int /\ h[v] = c[v] + f[v]
    OBVIOUS
  <2>1. v \in Stay /\ stay[v].st = "closed"
    BY DEF Ledger!PaidIn, Ledger!SessionsIn
  <2>2. Ledger!HoursPortion(v) \in Int /\ Ledger!HoursColumn(v) \in Int /\ w[v] \in Int
    BY <2>1, Terms, RowTypes DEF RInv, LInv
  <2> QED  BY <2>1, <2>2, HoursSplit
<1>3. P \in SUBSET Stay /\ IsFiniteSet(P) /\ Q \in SUBSET P
  BY Parts DEF RInv
<1>4. (\A v \in Q : f[v] = w[v]) /\ \A v \in P \ Q : f[v] = 0
  BY <1>3
<1>5. SumOver(h, P) \in Int /\ Ledger!DebtHours(from, to) \in Int
  BY ReportTypes DEF PaidHours, RInv
<1> HIDE DEF P, Q, h, c, w, f
<1>6. SumOver(h, P) = SumOver(c, P) + SumOver(f, P)
  BY <1>2, <1>3, SumsAdd
<1>7. SumOver(f, P) = SumOver(w, Q)
  BY <1>2, <1>3, <1>4, SumOfSome
<1>8. SumOver(c, P) \in Int /\ SumOver(f, P) \in Int
  BY <1>2, <1>3, SumType
<1>9. /\ Ledger!Revenue(from, to).hours - Ledger!DebtHours(from, to) = Ledger!GenerateReport(from, to).visits
      /\ Ledger!Revenue(from, to).hours - Ledger!DebtHours(from, to) - Ledger!HistorySummary(from, to).hours = SumOver(w, Q)
  BY <1>1, <1>5, <1>6, <1>7, <1>8
<1> QED  BY <1>9, SumIsSum DEF Ledger!HoursAgree, P, Q, w

LEMMA RowsHold ==
  ASSUME Prices, RInv, NEW from, NEW to
  PROVE  Ledger!RowsAgree(Ledger!Revenue(from, to), from, to)
<1> DEFINE P == Ledger!PaidIn(from, to)
           U == Subscribers(from, to)
           sheet == Ledger!HistorySheet(from, to)
           adjusted(v) == ~stay[v].sub /\ stay[v].over # Ledger!Null /\ ~stay[v].repriced
           gap(v) == IF adjusted(v) THEN stay[v].net - stay[v].discount ELSE 0
           h == [v \in Stay |-> Ledger!HoursPortion(v)]
           o == [v \in Stay |-> Ledger!OrdersAmount(v)]
           a == [v \in Stay |-> stay[v].amount]
           t == [v \in P |-> sheet[v].total]
           s == [v \in Stay |-> IF v \in U THEN h[v] ELSE 0]
<1>1. ASSUME NEW v \in Ledger!SessionsIn(from, to)
      PROVE  /\ sheet[v].hours + sheet[v].orders + gap(v) = sheet[v].total
             /\ sheet[v].total = IF stay[v].sub THEN Ledger!OrdersAmount(v) ELSE stay[v].amount
  <2>1. v \in Ledger!Listed(from, to) /\ v \in Stay /\ stay[v].st = "closed"
    BY DEF Ledger!Listed, Ledger!SessionsIn
  <2>2. /\ sheet[v].orders = Ledger!OrdersAmount(v)
        /\ sheet[v].hours = (IF stay[v].sub THEN 0 ELSE Ledger!HoursColumn(v))
        /\ sheet[v].total = (IF stay[v].sub THEN Ledger!OrdersAmount(v) ELSE stay[v].amount)
    BY <2>1 DEF Ledger!HistorySheet
  <2>3. /\ Ledger!HoursColumn(v) \in Int /\ Ledger!OrdersAmount(v) \in Int /\ Ledger!HoursPortion(v) \in Int
        /\ stay[v].amount = Ledger!HoursPortion(v) + Ledger!OrdersAmount(v) /\ stay[v].net - stay[v].discount \in Int
    BY <2>1, Terms, RowTypes DEF RInv, LInv
  <2>4. Ledger!HoursPortion(v) = Ledger!HoursColumn(v) +
          (IF stay[v].over # Ledger!Null /\ ~stay[v].repriced THEN stay[v].net - stay[v].discount ELSE 0)
    BY <2>1, HoursSplit
  <2>5. CASE stay[v].sub
    BY <2>2, <2>3, <2>5
  <2>6. CASE ~stay[v].sub
    BY <2>2, <2>3, <2>4, <2>6
  <2> QED  BY <2>2, <2>5, <2>6
<1>2. P \in SUBSET Stay /\ IsFiniteSet(P) /\ U \in SUBSET P /\ P \in SUBSET Ledger!SessionsIn(from, to)
  BY Parts DEF RInv, Subscribers
<1>3. \A v \in P : /\ h[v] \in Int /\ o[v] \in Int /\ a[v] \in Int /\ a[v] = h[v] + o[v]
                   /\ t[v] = (IF v \in U THEN o[v] ELSE a[v])
  BY <1>1, <1>2, Terms DEF RInv, Subscribers
<1>4. (\A v \in U : s[v] = h[v]) /\ (\A v \in P \ U : s[v] = 0)
  BY <1>2
<1>5. Ledger!Revenue(from, to).hours = SumOver(h, P) + Ledger!DebtHours(from, to)
  BY SumIsSum DEF Ledger!Revenue
<1>6. SumOver(h, P) \in Int /\ Ledger!DebtHours(from, to) \in Int
  BY ReportTypes DEF PaidHours, RInv
<1> HIDE DEF P, U, h, o, a, t, s
<1>7. SumOver(a, P) = SumOver(h, P) + SumOver(o, P)
  BY <1>2, <1>3, SumsAdd
<1>8. \A v \in P : s[v] \in Int /\ t[v] \in Int /\ a[v] = t[v] + s[v]
  BY <1>3, <1>4
<1>9. SumOver(a, P) = SumOver(t, P) + SumOver(s, P)
  BY <1>2, <1>8, SumsAdd
<1>10. SumOver(s, P) = SumOver(h, U)
  BY <1>2, <1>4, <1>8, SumOfSome
<1>11. SumOver(o, P) \in Int /\ SumOver(t, P) \in Int /\ SumOver(s, P) \in Int
  BY <1>2, <1>3, <1>8, SumType
<1>12. SumOver(t, P) + Ledger!DebtHours(from, to) = Ledger!Revenue(from, to).hours + SumOver(o, P) - SumOver(h, U)
  BY <1>5, <1>6, <1>7, <1>9, <1>10, <1>11
<1> QED  BY <1>1, <1>12, SumIsSum DEF Ledger!RowsAgree, P, U, Subscribers, h, o, t

\* Rounding to whole shekels moves a sum by half a shekel at most.
LEMMA WholeNear ==
  ASSUME NEW n \in Int
  PROVE  Ledger!WholeShekels(n) \in Int /\ Ledger!WholeShekels(n) <= n + 1 /\ n <= Ledger!WholeShekels(n) + 1
BY DEF Ledger!WholeShekels, Ledger!Rounded, Ledger!Shekel

LEMMA SalesHold ==
  ASSUME Prices, RInv, NEW from, NEW to
  PROVE  Ledger!SalesAgree(Ledger!Revenue(from, to), Ledger!GenerateReport(from, to), from, to)
<1> DEFINE S == Ledger!SalesIn(from, to)
           H == {i \in S : item[i].hot = TRUE}
           C == {i \in S : item[i].hot = FALSE}
           g == [i \in Item |-> item[i].sale]
           w == [i \in Item |-> Ledger!WholeShekels(item[i].sale)]
           revenue == Ledger!Revenue(from, to)
           report == Ledger!GenerateReport(from, to)
           exact == revenue.snacks + revenue.hot - Ledger!DebtSnacks(from, to)
<1>1. /\ revenue.snacks = SumOver(g, C) + Ledger!DebtSnacks(from, to) /\ revenue.hot = SumOver(g, H)
      /\ report.sales = SumOver(w, S)
  BY SumIsSum DEF Ledger!Revenue, Ledger!SalesAmount, Ledger!GenerateReport, Ledger!SalesSheet
<1>2. S \in SUBSET Item /\ IsFiniteSet(S) /\ H \in SUBSET S /\ C = S \ H
  BY Parts, RowTypes DEF RInv, LInv
<1>3. \A i \in S : /\ g[i] \in Int /\ w[i] \in Int /\ w[i] <= g[i] + 1 /\ g[i] <= w[i] + 1
  BY <1>2, RowTypes, WholeNear DEF RInv, LInv
<1>4. Ledger!DebtSnacks(from, to) \in Int
  BY ReportTypes DEF RInv
<1>5. /\ letting.price \in Nat /\ letting.day \in Nat /\ letting.st \in {"none", "pending", "confirmed"}
      /\ class.paid \in Nat /\ expense.amount \in Nat
  BY DEF RInv, LInv, Ledger!TypeOK, Ledger!Day
<1>6. 2 * Ledger!Magnitude(report.expenses - revenue.expenses) <= Ledger!Shekel
  <2>1. report.expenses = (IF Ledger!In(expense.day, from, to) THEN Ledger!WholeShekels(expense.amount) ELSE 0)
    BY DEF Ledger!GenerateReport, Ledger!ExpensesSheet
  <2>2. revenue.expenses = (IF Ledger!In(expense.day, from, to) THEN expense.amount ELSE 0)
    BY DEF Ledger!Revenue
  <2> HIDE DEF report, revenue
  <2>3. /\ Ledger!WholeShekels(expense.amount) \in Int /\ Ledger!WholeShekels(expense.amount) <= expense.amount + 1
        /\ expense.amount <= Ledger!WholeShekels(expense.amount) + 1
    BY <1>5, WholeNear
  <2> QED  BY <1>5, <2>1, <2>2, <2>3 DEF Ledger!Magnitude, Ledger!Shekel
<1>7. ASSUME letting.st # "pending"
      PROVE  2 * Ledger!Magnitude(report.rooms - (revenue.bookings + revenue.courses)) <= Ledger!Shekel
  <2> DEFINE paid == IF Ledger!CourseInRange(from, to) THEN class.paid ELSE 0
  <2>1. report.rooms = (IF Ledger!In(letting.day, from, to) THEN Ledger!WholeShekels(letting.price) ELSE 0) + paid
    BY DEF Ledger!GenerateReport, Ledger!RoomsSheet
  <2>2. /\ revenue.bookings = (IF letting.st = "confirmed" /\ Ledger!In(letting.day, from, to) THEN letting.price ELSE 0)
        /\ revenue.courses = paid
    BY DEF Ledger!Revenue
  <2>3. Ledger!In(letting.day, from, to) => letting.st = "confirmed"
    BY <1>5, <1>7 DEF RInv, RowsInv, Ledger!In
  <2>4. /\ Ledger!WholeShekels(letting.price) \in Int /\ Ledger!WholeShekels(letting.price) <= letting.price + 1
        /\ letting.price <= Ledger!WholeShekels(letting.price) + 1
    BY <1>5, WholeNear
  <2>5. paid \in Int
    BY <1>5
  <2> HIDE DEF report, revenue, paid
  <2>6. CASE Ledger!In(letting.day, from, to)
    <3>1. report.rooms = Ledger!WholeShekels(letting.price) + paid /\ revenue.bookings = letting.price
      BY <2>1, <2>2, <2>3, <2>6
    <3> QED  BY <1>5, <2>2, <2>4, <2>5, <3>1 DEF Ledger!Magnitude, Ledger!Shekel
  <2>7. CASE ~Ledger!In(letting.day, from, to)
    <3>1. report.rooms = 0 + paid /\ revenue.bookings = 0
      BY <2>1, <2>2, <2>7
    <3> QED  BY <2>2, <2>5, <3>1 DEF Ledger!Magnitude, Ledger!Shekel
  <2> QED  BY <2>6, <2>7
<1> HIDE DEF S, H, C, g, w, revenue, report
<1>8. SumOver(g, S) = SumOver(g, H) + SumOver(g, C)
  BY <1>2, <1>3, SplitSum
<1>9. IsFiniteSet(H) /\ IsFiniteSet(C) /\ (\A i \in H : g[i] \in Int) /\ (\A i \in C : g[i] \in Int)
  BY <1>2, <1>3, FS_Subset
<1>10. SumOver(g, H) \in Int /\ SumOver(g, C) \in Int
  BY <1>9, SumType
<1>11. /\ SumOver(w, S) \in Int /\ Cardinality(S) \in Nat
       /\ SumOver(w, S) <= SumOver(g, S) + Cardinality(S)
       /\ SumOver(g, S) <= SumOver(w, S) + Cardinality(S)
  BY <1>2, <1>3, SumNear, SumType, FS_CardinalityType
<1>12. exact = SumOver(g, S)
  BY <1>1, <1>4, <1>8, <1>10
<1> HIDE DEF exact
<1>13. 2 * Ledger!Magnitude(report.sales - exact) <= Ledger!Shekel * Cardinality(S)
  BY <1>1, <1>8, <1>10, <1>11, <1>12 DEF Ledger!Magnitude, Ledger!Shekel
<1> QED  BY <1>6, <1>7, <1>13, CountIsCount DEF Ledger!SalesAgree, S, exact, revenue, report

\* Visits that have ended and those that have not.
LEMMA ListedCount ==
  ASSUME Prices, RInv, NEW from, NEW to
  PROVE  Cardinality(Ledger!Listed(from, to)) = Cardinality(Ledger!SessionsIn(from, to)) + Cardinality(Ledger!OpenIn(from, to))
<1>1. Ledger!OpenIn(from, to) \cap Ledger!SessionsIn(from, to) = {}
  BY DEF Ledger!OpenIn, Ledger!SessionsIn
<1>2. IsFiniteSet(Ledger!OpenIn(from, to)) /\ IsFiniteSet(Ledger!SessionsIn(from, to))
  BY Parts DEF RInv
<1>3. Cardinality(Ledger!Listed(from, to)) = Cardinality(Ledger!OpenIn(from, to)) + Cardinality(Ledger!SessionsIn(from, to)) - 0
  BY <1>1, <1>2, FS_Union, FS_EmptySet DEF Ledger!Listed
<1>4. Cardinality(Ledger!OpenIn(from, to)) \in Nat /\ Cardinality(Ledger!SessionsIn(from, to)) \in Nat
  BY <1>2, FS_CardinalityType
<1> QED  BY <1>3, <1>4

LEMMA CountsHold ==
  ASSUME Prices, RInv, NEW from, NEW to
  PROVE  Ledger!CountsAgree(Ledger!Preview(from, to), Ledger!GenerateReport(from, to), from, to)
<1>1. Ledger!GenerateReport(from, to).count = Ledger!Preview(from, to).visits + Cardinality(Ledger!OpenIn(from, to))
  BY ListedCount, CountIsCount DEF Ledger!GenerateReport, Ledger!Preview
<1>2. Ledger!GenerateReport(from, to).profit = Ledger!Preview(from, to).revenue.profit
  BY DEF Ledger!GenerateReport, Ledger!Preview
<1>3. from = to => /\ Ledger!DailyReport(from).visits = Ledger!Preview(from, to).visits
                   /\ Ledger!DailyReport(from).profit = Ledger!GenerateReport(from, to).profit
  BY DEF Ledger!GenerateReport, Ledger!Preview, Ledger!DailyReport
<1> QED  BY <1>1, <1>2, <1>3, CountIsCount DEF Ledger!CountsAgree

LEMMA TodayHolds ==
  ASSUME Prices, RInv
  PROVE  Ledger!TodayAgrees(Ledger!Preview(today, today))
<1> DEFINE revenue == Ledger!Revenue(today, today)
           cold == Ledger!SalesAmount(FALSE, today, today)
           hot == Ledger!SalesAmount(TRUE, today, today)
<1>1. Ledger!Preview(today, today).revenue = revenue /\ Ledger!Preview(today, today).visits = Cardinality(Ledger!SessionsIn(today, today))
  BY CountIsCount DEF Ledger!Preview
<1>2. /\ Ledger!Summary.revenue = revenue.total /\ Ledger!Summary.visits = Cardinality(Ledger!Listed(today, today))
      /\ Ledger!Summary.live = Cardinality({v \in Stay : stay[v].st = "open"})
      /\ Ledger!Summary.course = Ledger!CourseInRange(today, today)
      /\ Ledger!Summary.booked = (letting.st = "confirmed" /\ Ledger!In(letting.day, today, today))
  BY CountIsCount DEF Ledger!Summary, Ledger!DayRevenue
<1>3. Ledger!SalesPage(TRUE).today = hot /\ Ledger!SalesPage(FALSE).today = cold
  BY DEF Ledger!SalesPage
<1>4. /\ revenue.total = revenue.hours + revenue.snacks + revenue.hot + revenue.courses
                         + revenue.bookings + revenue.debts
      /\ revenue.hours = PaidHours(today, today) + Ledger!DebtHours(today, today)
      /\ revenue.snacks = cold + Ledger!DebtSnacks(today, today) /\ revenue.hot = hot
      /\ revenue.courses = (IF Ledger!CourseInRange(today, today) THEN class.paid ELSE 0)
      /\ revenue.bookings = (IF letting.st = "confirmed" /\ Ledger!In(letting.day, today, today) THEN letting.price ELSE 0)
      /\ revenue.debts = SumOver([d \in Debt |-> debt[d].amount], {d \in Ledger!CollectedIn(today, today) : ~Ledger!OfSession(d)})
  BY SumIsSum DEF Ledger!Revenue, PaidHours
<1>5. PaidHours(today, today) \in Int /\ Ledger!DebtHours(today, today) \in Int /\ Ledger!DebtSnacks(today, today) \in Int
      /\ hot \in Int /\ cold \in Int
  BY ReportTypes DEF RInv
<1>6. revenue.debts \in Int
  <2> DEFINE g == [d \in Debt |-> debt[d].amount]
             W == {d \in Ledger!CollectedIn(today, today) : ~Ledger!OfSession(d)}
  <2>1. IsFiniteSet(W) /\ \A d \in W : g[d] \in Int
    BY Parts, RowTypes, FS_Subset DEF RInv, LInv
  <2> HIDE DEF g, W, revenue
  <2>2. SumOver(g, W) \in Int
    BY <2>1, SumType
  <2> QED  BY <1>4, <2>2 DEF g, W
<1>7. class.paid \in Int /\ letting.price \in Int
  BY DEF RInv, LInv, Ledger!TypeOK
<1>8. {v \in Stay : stay[v].st = "open"} = Ledger!OpenIn(1, today)
  <2>1. \A v \in Stay : stay[v].st = "open" => Ledger!In(stay[v].day, 1, today)
    <3> SUFFICES ASSUME NEW v \in Stay, stay[v].st = "open"
                 PROVE  Ledger!In(stay[v].day, 1, today)
      OBVIOUS
    <3>1. stay[v].day # 0 /\ stay[v].day \in Nat /\ stay[v].day <= today
      BY RowTypes DEF RInv, RowsInv, LInv, Dated, Ledger!Day
    <3> QED  BY <3>1 DEF Ledger!In
  <2> QED  BY <2>1 DEF Ledger!OpenIn
<1> HIDE DEF revenue, hot, cold
<1>9. /\ revenue.courses \in Int /\ revenue.bookings \in Int
      /\ revenue.courses > 0 => Ledger!CourseInRange(today, today)
      /\ revenue.bookings > 0 => letting.st = "confirmed" /\ Ledger!In(letting.day, today, today)
  BY <1>4, <1>7
<1>10. revenue.total - (revenue.hours + revenue.courses + revenue.bookings + revenue.debts)
         = hot + cold + Ledger!DebtSnacks(today, today)
  BY <1>4, <1>5, <1>6, <1>9
<1>11. Cardinality(Ledger!Listed(today, today))
         = Cardinality(Ledger!SessionsIn(today, today)) + Cardinality(Ledger!OpenIn(today, today))
  BY ListedCount
<1> QED  BY <1>1, <1>2, <1>3, <1>8, <1>9, <1>10, <1>11, CountIsCount DEF Ledger!TodayAgrees

LEMMA MonthHolds ==
  ASSUME Prices, RInv
  PROVE  Ledger!MonthAgrees(Ledger!Revenue(1, today))
<1>1. /\ Ledger!SalesPage(TRUE).month = Ledger!SalesAmount(TRUE, 1, today)
      /\ Ledger!SalesPage(FALSE).month = Ledger!SalesAmount(FALSE, 1, today)
  BY DEF Ledger!SalesPage
<1>2. /\ Ledger!Revenue(1, today).hot = Ledger!SalesAmount(TRUE, 1, today)
      /\ Ledger!Revenue(1, today).snacks = Ledger!SalesAmount(FALSE, 1, today) + Ledger!DebtSnacks(1, today)
  BY DEF Ledger!Revenue
<1>3. Ledger!DebtSnacks(1, today) \in Int /\ Ledger!SalesAmount(FALSE, 1, today) \in Int
  BY ReportTypes DEF RInv
<1> DEFINE cold == Ledger!SalesAmount(FALSE, 1, today)
           snacks == Ledger!Revenue(1, today).snacks
<1>4. cold = snacks - Ledger!DebtSnacks(1, today)
  <2>1. snacks = cold + Ledger!DebtSnacks(1, today) /\ cold \in Int
    BY <1>2, <1>3
  <2> HIDE DEF cold, snacks
  <2> QED  BY <1>3, <2>1
<1> QED  BY <1>1, <1>2, <1>4 DEF Ledger!MonthAgrees

-----------------------------------------------------------------------------
(* The days of a range.                                                    *)

\* What counts on its day adds up to what counts in the range.
LEMMA DaysOf ==
  ASSUME NEW S, IsFiniteSet(S), NEW g, \A x \in S : g[x] \in Int,
         NEW from \in Nat, NEW to \in Nat, NEW key, \A x \in S : key[x] \in from .. to
  PROVE  /\ \A day \in from .. to : SumOver(g, {x \in S : key[x] = day}) \in Int
         /\ SumOver([day \in from .. to |-> SumOver(g, {x \in S : key[x] = day})], from .. to)
              = SumOver(g, S)
<1>1. IsFiniteSet(from .. to)
  BY FS_Interval
<1>2. ASSUME NEW day \in from .. to
      PROVE  SumOver(g, {x \in S : key[x] = day}) \in Int
  <2> DEFINE T == {x \in S : key[x] = day}
  <2>1. IsFiniteSet(T) /\ \A x \in T : g[x] \in Int
    BY FS_Subset
  <2> HIDE DEF T
  <2>2. SumOver(g, T) \in Int
    BY <2>1, SumType
  <2> QED  BY <2>2 DEF T
<1>3. SumOver([day \in from .. to |-> SumOver(g, {x \in S : key[x] = day})], from .. to) = SumOver(g, S)
  BY <1>1, SumOfParts
<1> QED  BY <1>2, <1>3

LEMMA OnDay ==
  ASSUME Prices, RInv, NEW from \in Nat, NEW to \in Nat, NEW day \in from .. to
  PROVE  /\ Ledger!PaidIn(day, day) = {v \in Ledger!PaidIn(from, to) : stay[v].day = day}
         /\ Ledger!SalesIn(day, day) = {i \in Ledger!SalesIn(from, to) : item[i].day = day}
         /\ Ledger!CollectedIn(day, day) = {d \in Ledger!CollectedIn(from, to) : debt[d].day = day}
<1>1. \A x \in Ledger!Day : Ledger!In(x, day, day) <=> Ledger!In(x, from, to) /\ x = day
  BY DEF Ledger!In, Ledger!Day
<1> QED  BY <1>1, RowTypes DEF RInv, LInv, Ledger!PaidIn, Ledger!SessionsIn, Ledger!SalesIn,
     Ledger!CollectedIn

LEMMA WithinRange ==
  ASSUME Prices, RInv, NEW from \in Nat, NEW to \in Nat
  PROVE  /\ \A v \in Ledger!PaidIn(from, to) : stay[v].day \in from .. to
         /\ \A i \in Ledger!SalesIn(from, to) : item[i].day \in from .. to
         /\ \A d \in Ledger!CollectedIn(from, to) : debt[d].day \in from .. to
<1>1. \A x \in Ledger!Day : Ledger!In(x, from, to) => x \in from .. to
  BY DEF Ledger!In, Ledger!Day
<1> QED  BY <1>1, RowTypes DEF RInv, LInv, Ledger!PaidIn, Ledger!SessionsIn, Ledger!SalesIn,
     Ledger!CollectedIn

LEMMA HoursByDay ==
  ASSUME Prices, RInv, NEW from \in Nat, NEW to \in Nat
  PROVE  LET part == [day \in from .. to |-> PaidHours(day, day)]
         IN  /\ \A day \in from .. to : part[day] \in Int
             /\ SumOver(part, from .. to) = PaidHours(from, to)
<1> DEFINE g == [v \in Stay |-> Ledger!HoursPortion(v)]
           key == [v \in Stay |-> stay[v].day]
           S == Ledger!PaidIn(from, to)
           part == [day \in from .. to |-> PaidHours(day, day)]
           cut == [day \in from .. to |-> SumOver(g, {v \in S : key[v] = day})]
<1>1. S \in SUBSET Stay /\ IsFiniteSet(S)
  BY Parts DEF RInv
<1>2. \A v \in S : g[v] \in Int /\ key[v] \in from .. to
  BY <1>1, WithinRange, Terms DEF RInv
<1>3. \A day \in from .. to : {v \in S : key[v] = day} = Ledger!PaidIn(day, day)
  BY <1>1, OnDay
<1>4. part = cut
  BY <1>3 DEF PaidHours
<1> HIDE DEF S, g, key
<1>5. (\A day \in from .. to : cut[day] \in Int) /\ SumOver(cut, from .. to) = SumOver(g, S)
  <2>1. IsFiniteSet(S) /\ (\A x \in S : g[x] \in Int) /\ \A x \in S : key[x] \in from .. to
    BY <1>1, <1>2
  <2> QED  BY <2>1, DaysOf
<1> HIDE DEF part, cut
<1>6. (\A day \in from .. to : part[day] \in Int) /\ SumOver(part, from .. to) = SumOver(g, S)
  BY <1>4, <1>5
<1> QED  BY <1>6 DEF part, PaidHours, g, S

LEMMA SalesByDay ==
  ASSUME Prices, RInv, NEW from \in Nat, NEW to \in Nat, NEW hot \in BOOLEAN
  PROVE  LET part == [day \in from .. to |-> Ledger!SalesAmount(hot, day, day)]
         IN  /\ \A day \in from .. to : part[day] \in Int
             /\ SumOver(part, from .. to) = Ledger!SalesAmount(hot, from, to)
<1> DEFINE g == [i \in Item |-> item[i].sale]
           key == [i \in Item |-> item[i].day]
           S == {i \in Ledger!SalesIn(from, to) : item[i].hot = hot}
           part == [day \in from .. to |-> Ledger!SalesAmount(hot, day, day)]
           cut == [day \in from .. to |-> SumOver(g, {i \in S : key[i] = day})]
<1>1. S \in SUBSET Item /\ IsFiniteSet(S)
  BY Parts, FS_Subset DEF RInv
<1>2. \A i \in S : g[i] \in Int /\ key[i] \in from .. to
  BY <1>1, WithinRange, RowTypes DEF RInv, LInv
<1>3. \A day \in from .. to : {i \in S : key[i] = day} = {i \in Ledger!SalesIn(day, day) : item[i].hot = hot}
  BY <1>1, OnDay
<1>4. part = cut
  BY <1>3, SumIsSum DEF Ledger!SalesAmount
<1>5. Ledger!SalesAmount(hot, from, to) = SumOver(g, S)
  BY SumIsSum DEF Ledger!SalesAmount
<1> HIDE DEF S, g, key
<1>6. (\A day \in from .. to : cut[day] \in Int) /\ SumOver(cut, from .. to) = SumOver(g, S)
  <2>1. IsFiniteSet(S) /\ (\A x \in S : g[x] \in Int) /\ \A x \in S : key[x] \in from .. to
    BY <1>1, <1>2
  <2> QED  BY <2>1, DaysOf
<1> HIDE DEF part, cut
<1>7. (\A day \in from .. to : part[day] \in Int) /\ SumOver(part, from .. to) = SumOver(g, S)
  BY <1>4, <1>6
<1> QED  BY <1>5, <1>7 DEF part

\* The collected debts that W picks out.
CollectedOf(W, from, to) == Ledger!CollectedIn(from, to) \cap W

\* The parts, day by day, of a sum over the collected debts that W picks out.
DebtParts(part, g, W, from, to) ==
    /\ from \in Nat /\ to \in Nat /\ W \subseteq Debt /\ \A d \in Debt : g[d] \in Int
    /\ \A day \in from .. to : part[day] = SumOver(g, CollectedOf(W, day, day))

LEMMA DebtsByDay ==
  ASSUME Prices, RInv, NEW from, NEW to, NEW W, NEW g, NEW part,
         DebtParts(part, g, W, from, to)
  PROVE  /\ \A day \in from .. to : part[day] \in Int
         /\ SumOver(part, from .. to) = SumOver(g, CollectedOf(W, from, to))
<1> DEFINE key == [d \in Debt |-> debt[d].day]
           S == CollectedOf(W, from, to)
           D == from .. to
           cut == [day \in D |-> SumOver(g, {d \in S : key[d] = day})]
<1>0. from \in Nat /\ to \in Nat
  BY DEF DebtParts
<1>1. S \in SUBSET Debt /\ IsFiniteSet(S) /\ S = Ledger!CollectedIn(from, to) \cap W
  BY Parts, FS_Subset DEF RInv, CollectedOf
<1>2. \A d \in S : g[d] \in Int /\ key[d] \in from .. to
  BY <1>0, <1>1, WithinRange DEF DebtParts, CollectedOf
<1>3. \A day \in D : {d \in S : key[d] = day} = CollectedOf(W, day, day)
  BY <1>0, <1>1, OnDay DEF CollectedOf
<1>4. \A day \in D : part[day] = cut[day]
  BY <1>3 DEF DebtParts
<1> HIDE DEF S, key
<1>5. (\A day \in from .. to : cut[day] \in Int) /\ SumOver(cut, from .. to) = SumOver(g, S)
  <2>1. IsFiniteSet(S) /\ (\A x \in S : g[x] \in Int) /\ \A x \in S : key[x] \in from .. to
    BY <1>1, <1>2
  <2> QED  BY <1>0, <2>1, DaysOf
<1>6. IsFiniteSet(D)
  BY <1>0, FS_Interval
<1> HIDE DEF cut
<1>7. \A day \in D : cut[day] \in Int /\ part[day] = cut[day]
  BY <1>4, <1>5
<1> HIDE DEF D
<1>8. SumOver(part, D) = SumOver(cut, D)
  BY <1>6, <1>7, SumSame
<1> QED  BY <1>5, <1>7, <1>8 DEF S, D

\* A course is in each of its days, and the range has one of them if it has any.
LEMMA CourseByDay ==
  ASSUME Prices, RInv, NEW from \in Nat, NEW to \in Nat, from <= to
  PROVE  LET part == [day \in from .. to |-> IF Ledger!CourseInRange(day, day) THEN class.paid ELSE 0]
             courseDays == Cardinality({day \in from .. to : Ledger!CourseInRange(day, day)})
         IN  /\ \A day \in from .. to : part[day] \in Int
             /\ SumOver(part, from .. to) = (IF Ledger!CourseInRange(from, to) THEN class.paid ELSE 0)
                   + (IF courseDays > 1 THEN (courseDays - 1) * class.paid ELSE 0)
<1> DEFINE part == [day \in from .. to |-> IF Ledger!CourseInRange(day, day) THEN class.paid ELSE 0]
           K == {day \in from .. to : Ledger!CourseInRange(day, day)}
           paid == class.paid
           g == [day \in from .. to |-> paid]
           n == Cardinality(K)
<1>1. IsFiniteSet(from .. to) /\ IsFiniteSet(K) /\ K \in SUBSET (from .. to)
  <2>1. IsFiniteSet(from .. to) /\ K \in SUBSET (from .. to)
    BY FS_Interval
  <2> HIDE DEF K
  <2> QED  BY <2>1, FS_Subset
<1>2. class.from \in Nat /\ class.to \in Nat /\ class.from <= class.to /\ paid \in Int
  BY DEF RInv, RowsInv, LInv, Ledger!TypeOK, Ledger!Day
<1>3. \A day \in from .. to : part[day] \in Int
  BY <1>2
<1>4. (\A day \in K : part[day] = g[day]) /\ \A day \in (from .. to) \ K : part[day] = 0
  BY <1>1
<1>10. \A day \in K : g[day] = paid
  BY <1>1
<1>5. Ledger!CourseInRange(from, to) <=> K # {}
  <2>1. ASSUME Ledger!CourseInRange(from, to) PROVE K # {}
    <3>1. CASE class.from <= from
      <4>1. from \in K
        BY <1>2, <2>1, <3>1 DEF Ledger!CourseInRange
      <4> QED  BY <4>1
    <3>2. CASE class.from > from
      <4>1. class.from \in K
        BY <1>2, <2>1, <3>2 DEF Ledger!CourseInRange
      <4> QED  BY <4>1
    <3> QED  BY <1>2, <3>1, <3>2
  <2>2. ASSUME NEW day \in K PROVE Ledger!CourseInRange(from, to)
    BY <1>2 DEF Ledger!CourseInRange
  <2> QED  BY <2>1, <2>2
<1> HIDE DEF part, K, g, paid
<1>6. SumOver(part, from .. to) = SumOver(g, K)
  <2> DEFINE D == from .. to
  <2>1. IsFiniteSet(D) /\ K \in SUBSET D /\ \A day \in D : part[day] \in Int
    BY <1>1, <1>3
  <2>2. (\A day \in K : part[day] = g[day]) /\ \A day \in D \ K : part[day] = 0
    BY <1>4
  <2> HIDE DEF D
  <2>3. SumOver(part, D) = SumOver(g, K)
    BY <2>1, <2>2, SumOfSome
  <2> QED  BY <2>3 DEF D
<1>7. SumOver(g, K) = n * paid
  BY <1>1, <1>2, <1>10, SumOfEquals
<1>8. n \in Nat /\ (n = 0 <=> K = {})
  BY <1>1, FS_CardinalityType, FS_EmptySet
<1> HIDE DEF n
<1>9. n * paid = (IF Ledger!CourseInRange(from, to) THEN paid ELSE 0) + (IF n > 1 THEN (n - 1) * paid ELSE 0)
  <2>1. CASE n = 0
    BY <1>2, <1>5, <1>8, <2>1
  <2>2. CASE n = 1
    BY <1>2, <1>5, <1>8, <2>2
  <2>3. CASE n > 1
    <3>1. n * paid = paid + (n - 1) * paid
      BY <1>2, <1>8
    <3> QED  BY <1>5, <1>8, <2>3, <3>1
  <2> QED  BY <1>8, <2>1, <2>2, <2>3
<1> QED  BY <1>3, <1>6, <1>7, <1>9 DEF part, n, K, paid

LEMMA BookingByDay ==
  ASSUME Prices, RInv, NEW from \in Nat, NEW to \in Nat
  PROVE  LET on(a, b) == letting.st = "confirmed" /\ Ledger!In(letting.day, a, b)
             part == [day \in from .. to |-> IF on(day, day) THEN letting.price ELSE 0]
         IN  /\ \A day \in from .. to : part[day] \in Int
             /\ SumOver(part, from .. to) = (IF on(from, to) THEN letting.price ELSE 0)
<1> DEFINE on(a, b) == letting.st = "confirmed" /\ Ledger!In(letting.day, a, b)
           price == letting.price
           part == [day \in from .. to |-> IF on(day, day) THEN price ELSE 0]
           g == [day \in from .. to |-> price]
           K == {day \in from .. to : on(day, day)}
<1>1. IsFiniteSet(from .. to) /\ IsFiniteSet(K) /\ K \in SUBSET (from .. to)
  <2>1. IsFiniteSet(from .. to) /\ K \in SUBSET (from .. to)
    BY FS_Interval
  <2> HIDE DEF K
  <2> QED  BY <2>1, FS_Subset
<1>2. price \in Int /\ letting.day \in Nat
  BY DEF RInv, LInv, Ledger!TypeOK, Ledger!Day
<1>3. \A day \in from .. to : part[day] \in Int
  BY <1>2
<1>4. (\A day \in K : part[day] = g[day]) /\ \A day \in (from .. to) \ K : part[day] = 0
  BY <1>1
<1>10. \A day \in K : g[day] = price
  BY <1>1
<1>5. K = IF on(from, to) THEN {letting.day} ELSE {}
  BY <1>2 DEF Ledger!In
<1>6. Cardinality(K) * price = IF on(from, to) THEN price ELSE 0
  <2>1. Cardinality({letting.day}) = 1 /\ Cardinality({}) = 0
    BY FS_Singleton, FS_EmptySet
  <2> QED  BY <1>2, <1>5, <2>1
<1> HIDE DEF part, K, g, price, on
<1>7. SumOver(part, from .. to) = SumOver(g, K)
  <2> DEFINE D == from .. to
  <2>1. IsFiniteSet(D) /\ K \in SUBSET D /\ \A day \in D : part[day] \in Int
    BY <1>1, <1>3
  <2>2. (\A day \in K : part[day] = g[day]) /\ \A day \in D \ K : part[day] = 0
    BY <1>4
  <2> HIDE DEF D
  <2>3. SumOver(part, D) = SumOver(g, K)
    BY <2>1, <2>2, SumOfSome
  <2> QED  BY <2>3 DEF D
<1>8. SumOver(g, K) = Cardinality(K) * price
  BY <1>1, <1>2, <1>10, SumOfEquals
<1> QED  BY <1>3, <1>6, <1>7, <1>8 DEF part, price, on

LEMMA FourSumsAdd ==
  ASSUME NEW S, IsFiniteSet(S), NEW f, NEW g, NEW h, NEW k, NEW m,
         \A x \in S : f[x] \in Int /\ g[x] \in Int /\ h[x] \in Int /\ k[x] \in Int,
         \A x \in S : m[x] = f[x] + g[x] + h[x] + k[x]
  PROVE  SumOver(m, S) = SumOver(f, S) + SumOver(g, S) + SumOver(h, S) + SumOver(k, S)
<1> DEFINE a == [x \in S |-> f[x] + g[x]]
           b == [x \in S |-> h[x] + k[x]]
<1>1. \A x \in S : f[x] \in Int /\ g[x] \in Int /\ a[x] = f[x] + g[x]
  OBVIOUS
<1>2. \A x \in S : h[x] \in Int /\ k[x] \in Int /\ b[x] = h[x] + k[x]
  OBVIOUS
<1>3. \A x \in S : a[x] \in Int /\ b[x] \in Int /\ m[x] = a[x] + b[x]
  OBVIOUS
<1> HIDE DEF a, b
<1>4. SumOver(a, S) = SumOver(f, S) + SumOver(g, S)
  BY <1>1, SumsAdd
<1>5. SumOver(b, S) = SumOver(h, S) + SumOver(k, S)
  BY <1>2, SumsAdd
<1>6. SumOver(m, S) = SumOver(a, S) + SumOver(b, S)
  BY <1>3, SumsAdd
<1>7. /\ SumOver(f, S) \in Int /\ SumOver(g, S) \in Int
  BY <1>1, SumType
<1>8. SumOver(h, S) \in Int /\ SumOver(k, S) \in Int
  BY <1>2, SumType
<1> QED  BY <1>4, <1>5, <1>6, <1>7, <1>8

LEMMA TotalIs ==
  ASSUME Prices, NEW from, NEW to
  PROVE  LET W == {d \in Debt : Ledger!OfSession(d)}
             C == Ledger!CollectedIn(from, to)
             revenue == Ledger!Revenue(from, to)
         IN  /\ revenue.total = revenue.hours + revenue.snacks + revenue.hot + revenue.courses
                                + revenue.bookings + revenue.debts
             /\ revenue.hours = PaidHours(from, to) + SumOver([d \in Debt |-> debt[d].hours], CollectedOf(W, from, to))
             /\ revenue.snacks = Ledger!SalesAmount(FALSE, from, to)
                                 + SumOver([d \in Debt |-> debt[d].amount - debt[d].hours], CollectedOf(W, from, to))
             /\ revenue.hot = Ledger!SalesAmount(TRUE, from, to)
             /\ revenue.courses = (IF Ledger!CourseInRange(from, to) THEN class.paid ELSE 0)
             /\ revenue.bookings = (IF letting.st = "confirmed" /\ Ledger!In(letting.day, from, to)
                                    THEN letting.price ELSE 0)
             /\ revenue.debts = SumOver([d \in Debt |-> debt[d].amount], CollectedOf(Debt \ W, from, to))
<1> DEFINE W == {d \in Debt : Ledger!OfSession(d)}
           C == Ledger!CollectedIn(from, to)
<1>1. {d \in C : Ledger!OfSession(d)} = CollectedOf(W, from, to) /\ {d \in C : ~Ledger!OfSession(d)} = CollectedOf(Debt \ W, from, to)
  BY DEF Ledger!CollectedIn, CollectedOf
<1> HIDE DEF W
<1>2. /\ Ledger!DebtHours(from, to) = SumOver([d \in Debt |-> debt[d].hours], CollectedOf(W, from, to))
      /\ Ledger!DebtSnacks(from, to) = SumOver([d \in Debt |-> debt[d].amount - debt[d].hours], CollectedOf(W, from, to))
  BY <1>1, SumIsSum DEF Ledger!DebtHours, Ledger!DebtSnacks
<1>3. Ledger!Revenue(from, to).debts = SumOver([d \in Debt |-> debt[d].amount], CollectedOf(Debt \ W, from, to))
  BY <1>1, SumIsSum DEF Ledger!Revenue
<1> HIDE DEF C
<1> QED  BY <1>2, <1>3, SumIsSum DEF Ledger!Revenue, PaidHours, W, C

LEMMA DaysHold ==
  ASSUME Prices, RInv, NEW from \in Nat, NEW to \in Nat, from <= to
  PROVE  Ledger!DaysAddUp(Ledger!Revenue(from, to), from, to)
<1> DEFINE D == from .. to
           W == {d \in Debt : Ledger!OfSession(d)}
           X == Debt \ W
           owedHours == [d \in Debt |-> debt[d].hours]
           owedSnacks == [d \in Debt |-> debt[d].amount - debt[d].hours]
           owed == [d \in Debt |-> debt[d].amount]
           courseOf(a, b) == IF Ledger!CourseInRange(a, b) THEN class.paid ELSE 0
           bookingOf(a, b) == IF letting.st = "confirmed" /\ Ledger!In(letting.day, a, b) THEN letting.price ELSE 0
           f1 == [day \in D |-> PaidHours(day, day)]
           f2 == [day \in D |-> SumOver(owedHours, CollectedOf(W, day, day))]
           f3 == [day \in D |-> Ledger!SalesAmount(FALSE, day, day)]
           f4 == [day \in D |-> SumOver(owedSnacks, CollectedOf(W, day, day))]
           f5 == [day \in D |-> Ledger!SalesAmount(TRUE, day, day)]
           f6 == [day \in D |-> courseOf(day, day)]
           f7 == [day \in D |-> bookingOf(day, day)]
           f8 == [day \in D |-> SumOver(owed, CollectedOf(X, day, day))]
           g == [day \in D |-> f1[day] + f2[day] + f3[day] + f4[day]]
           h == [day \in D |-> f5[day] + f6[day] + f7[day] + f8[day]]
           trend == Ledger!Trend(from, to)
           n == Cardinality({day \in D : Ledger!CourseInRange(day, day)})
           repeated == IF n > 1 THEN (n - 1) * class.paid ELSE 0
           revenue == Ledger!Revenue(from, to)
<1>1. \A d \in Debt : owedHours[d] \in Int /\ owedSnacks[d] \in Int /\ owed[d] \in Int
  BY RowTypes DEF RInv, LInv
<1>2. W \in SUBSET Debt /\ X \in SUBSET Debt
  OBVIOUS
<1>3. IsFiniteSet(D)
  BY FS_Interval
<1>4. ASSUME NEW day \in D
      PROVE  trend[day] = f1[day] + f2[day] + (f3[day] + f4[day]) + f5[day] + f6[day] + f7[day] + f8[day]
  <2>1. trend[day] = Ledger!Revenue(day, day).total
    BY DEF Ledger!Trend, Ledger!DayRevenue
  <2>2. /\ Ledger!Revenue(day, day).hours = f1[day] + f2[day]
        /\ Ledger!Revenue(day, day).snacks = f3[day] + f4[day]
        /\ Ledger!Revenue(day, day).hot = f5[day] /\ Ledger!Revenue(day, day).courses = f6[day]
        /\ Ledger!Revenue(day, day).bookings = f7[day] /\ Ledger!Revenue(day, day).debts = f8[day]
    BY TotalIs
  <2>3. Ledger!Revenue(day, day).total = Ledger!Revenue(day, day).hours + Ledger!Revenue(day, day).snacks + Ledger!Revenue(day, day).hot
          + Ledger!Revenue(day, day).courses + Ledger!Revenue(day, day).bookings + Ledger!Revenue(day, day).debts
    BY TotalIs
  <2> QED  BY <2>1, <2>2, <2>3
<1>5. revenue.total = PaidHours(from, to) + SumOver(owedHours, CollectedOf(W, from, to))
        + (Ledger!SalesAmount(FALSE, from, to) + SumOver(owedSnacks, CollectedOf(W, from, to)))
        + Ledger!SalesAmount(TRUE, from, to) + courseOf(from, to) + bookingOf(from, to)
        + SumOver(owed, CollectedOf(X, from, to))
  BY TotalIs
<1> HIDE DEF W, X, owedHours, owedSnacks, owed
<1>6. (\A day \in D : f1[day] \in Int) /\ SumOver(f1, D) = PaidHours(from, to)
  BY HoursByDay
<1>7. (\A day \in D : f2[day] \in Int) /\ SumOver(f2, D) = SumOver(owedHours, CollectedOf(W, from, to))
  <2>1. W \subseteq Debt /\ \A d \in Debt : owedHours[d] \in Int
    BY <1>1, <1>2
  <2>2. \A day \in from .. to : f2[day] = SumOver(owedHours, CollectedOf(W, day, day))
    OBVIOUS
  <2> HIDE DEF f2
  <2>3. DebtParts(f2, owedHours, W, from, to)
    BY <2>1, <2>2 DEF DebtParts
  <2> QED  BY <2>3, DebtsByDay
<1>8. (\A day \in D : f3[day] \in Int) /\ SumOver(f3, D) = Ledger!SalesAmount(FALSE, from, to)
  BY SalesByDay
<1>9. (\A day \in D : f4[day] \in Int) /\ SumOver(f4, D) = SumOver(owedSnacks, CollectedOf(W, from, to))
  <2>1. W \subseteq Debt /\ \A d \in Debt : owedSnacks[d] \in Int
    BY <1>1, <1>2
  <2>2. \A day \in from .. to : f4[day] = SumOver(owedSnacks, CollectedOf(W, day, day))
    OBVIOUS
  <2> HIDE DEF f4
  <2>3. DebtParts(f4, owedSnacks, W, from, to)
    BY <2>1, <2>2 DEF DebtParts
  <2> QED  BY <2>3, DebtsByDay
<1>10. (\A day \in D : f5[day] \in Int) /\ SumOver(f5, D) = Ledger!SalesAmount(TRUE, from, to)
  BY SalesByDay
<1>11. (\A day \in D : f6[day] \in Int) /\ SumOver(f6, D) = courseOf(from, to) + repeated
  BY CourseByDay
<1>12. (\A day \in D : f7[day] \in Int) /\ SumOver(f7, D) = bookingOf(from, to)
  BY BookingByDay
<1>13. (\A day \in D : f8[day] \in Int) /\ SumOver(f8, D) = SumOver(owed, CollectedOf(X, from, to))
  <2>1. X \subseteq Debt /\ \A d \in Debt : owed[d] \in Int
    BY <1>1, <1>2
  <2>2. \A day \in from .. to : f8[day] = SumOver(owed, CollectedOf(X, day, day))
    OBVIOUS
  <2> HIDE DEF f8
  <2>3. DebtParts(f8, owed, X, from, to)
    BY <2>1, <2>2 DEF DebtParts
  <2> QED  BY <2>3, DebtsByDay
<1>14. class.paid \in Int /\ letting.price \in Int /\ n \in Nat
  <2> DEFINE K == {day \in D : Ledger!CourseInRange(day, day)}
  <2>1. IsFiniteSet(K)
    BY <1>3, FS_Subset
  <2> HIDE DEF K
  <2>2. Cardinality(K) \in Nat
    BY <2>1, FS_CardinalityType
  <2> QED  BY <2>2 DEF RInv, LInv, Ledger!TypeOK, K
<1>15. repeated \in Int /\ courseOf(from, to) \in Int /\ bookingOf(from, to) \in Int
  BY <1>14
<1> HIDE DEF f1, f2, f3, f4, f5, f6, f7, f8, D, n, courseOf, bookingOf
<1>16. \A day \in D : /\ g[day] \in Int /\ h[day] \in Int
                      /\ g[day] = f1[day] + f2[day] + f3[day] + f4[day]
                      /\ h[day] = f5[day] + f6[day] + f7[day] + f8[day]
                      /\ trend[day] = g[day] + h[day]
  BY <1>4, <1>6, <1>7, <1>8, <1>9, <1>10, <1>11, <1>12, <1>13
<1> HIDE DEF g, h, trend, repeated, revenue
<1>17. SumOver(g, D) = SumOver(f1, D) + SumOver(f2, D) + SumOver(f3, D) + SumOver(f4, D)
  <2>1. \A day \in D : f1[day] \in Int /\ f2[day] \in Int /\ f3[day] \in Int /\ f4[day] \in Int
    BY <1>6, <1>7, <1>8, <1>9
  <2>2. \A day \in D : g[day] = f1[day] + f2[day] + f3[day] + f4[day]
    BY <1>16
  <2> QED  BY <1>3, <2>1, <2>2, FourSumsAdd
<1>18. SumOver(h, D) = SumOver(f5, D) + SumOver(f6, D) + SumOver(f7, D) + SumOver(f8, D)
  <2>1. \A day \in D : f5[day] \in Int /\ f6[day] \in Int /\ f7[day] \in Int /\ f8[day] \in Int
    BY <1>10, <1>11, <1>12, <1>13
  <2>2. \A day \in D : h[day] = f5[day] + f6[day] + f7[day] + f8[day]
    BY <1>16
  <2> QED  BY <1>3, <2>1, <2>2, FourSumsAdd
<1>19. SumOver(trend, D) = SumOver(g, D) + SumOver(h, D)
  BY <1>3, <1>16, SumsAdd
<1>20. /\ SumOver(f1, D) \in Int /\ SumOver(f2, D) \in Int /\ SumOver(f3, D) \in Int /\ SumOver(f4, D) \in Int
  BY <1>3, <1>6, <1>7, <1>8, <1>9, SumType
<1>21. /\ SumOver(f5, D) \in Int /\ SumOver(f6, D) \in Int /\ SumOver(f7, D) \in Int /\ SumOver(f8, D) \in Int
  BY <1>3, <1>10, <1>11, <1>12, <1>13, SumType
<1>22. SumOver(trend, D) = revenue.total + repeated
  <2>1. revenue.total = SumOver(f1, D) + SumOver(f2, D) + (SumOver(f3, D) + SumOver(f4, D)) + SumOver(f5, D)
          + courseOf(from, to) + SumOver(f7, D) + SumOver(f8, D)
    BY <1>5, <1>6, <1>7, <1>8, <1>9, <1>10, <1>12, <1>13
  <2>2. SumOver(f6, D) = courseOf(from, to) + repeated
    BY <1>11
  <2>3. SumOver(trend, D) = SumOver(f1, D) + SumOver(f2, D) + SumOver(f3, D) + SumOver(f4, D)
          + (SumOver(f5, D) + SumOver(f6, D) + SumOver(f7, D) + SumOver(f8, D))
    BY <1>17, <1>18, <1>19
  <2> QED  BY <1>15, <1>20, <1>21, <2>1, <2>2, <2>3
<1> QED  BY <1>22, SumIsSum, CountIsCount DEF Ledger!DaysAddUp, trend, D, n, repeated, revenue

-----------------------------------------------------------------------------
(* The shares of the subscribers.                                          *)

LEMMA TimesGrows ==
  ASSUME NEW a \in Nat, NEW b \in Nat, NEW k \in Nat, a <= b
  PROVE  a * k \in Nat /\ b * k \in Nat /\ a * k <= b * k
<1>1. PICK c \in Nat : b = a + c
  <2>1. b - a \in Nat /\ b = a + (b - a)
    OBVIOUS
  <2> QED  BY <2>1
<1>2. (a + c) * k = a * k + c * k
  OBVIOUS
<1>3. a * k \in Nat /\ c * k \in Nat
  OBVIOUS
<1> QED  BY <1>1, <1>2, <1>3

\* A part of what is divided among fewer is no less.
LEMMA FewerGetMore ==
  ASSUME NEW r \in Nat, NEW m \in Nat \ {0}, NEW n \in Nat \ {0}, m <= n
  PROVE  Ledger!Rounded(r, m) \in Nat /\ Ledger!Rounded(r, n) \in Nat /\ Ledger!Rounded(r, n) <= Ledger!Rounded(r, m)
<1> DEFINE p == Ledger!Rounded(r, m)
           q == Ledger!Rounded(r, n)
<1>1. /\ p \in Nat /\ (2 * m) * p <= 2 * r + m /\ 2 * r + m < (2 * m) * (p + 1)
      /\ q \in Nat /\ (2 * n) * q <= 2 * r + n
  <2>1. ASSUME NEW k \in Nat \ {0}, NEW x \in Nat
        PROVE  x \div k \in Nat /\ k * (x \div k) <= x /\ x < k * (x \div k + 1)
    <3>1. \A y \in Nat : y \div k \in Nat /\ y = k * (y \div k) + (y % k) /\ y % k \in 0 .. (k - 1)
      OBVIOUS
    <3>2. PICK y \in Nat : y = x \div k
      BY <3>1
    <3>3. k * (y + 1) = k * y + k /\ k * y \in Nat
      OBVIOUS
    <3> QED  BY <3>1, <3>2, <3>3
  <2>2. 2 * m \in Nat \ {0} /\ 2 * r + m \in Nat /\ 2 * n \in Nat \ {0} /\ 2 * r + n \in Nat
    OBVIOUS
  <2>3. p = (2 * r + m) \div (2 * m) /\ q = (2 * r + n) \div (2 * n)
    BY DEF Ledger!Rounded
  <2> QED  BY <2>1, <2>2, <2>3
<1> HIDE DEF p, q
<1>2. ASSUME q > p PROVE FALSE
  <2>1. PICK k \in Nat : q = k + 1 /\ p <= k
    <3>1. q - 1 \in Nat /\ q = (q - 1) + 1 /\ p <= q - 1
      BY <1>1, <1>2
    <3> QED  BY <3>1
  <2>2. (2 * n) * q = 2 * (n * k) + 2 * n /\ n * k \in Nat
    BY <2>1
  <2>3. 2 * (n * k) + n <= 2 * r
    BY <1>1, <2>2
  <2>4. m * k \in Nat /\ m * k <= n * k
    BY <2>1, TimesGrows
  <2>5. 2 * (m * k) + m <= 2 * r
    BY <2>2, <2>3, <2>4
  <2>6. (p + 1) * (2 * m) <= (k + 1) * (2 * m)
    BY <1>1, <2>1, TimesGrows
  <2>7. (p + 1) * (2 * m) = (2 * m) * (p + 1) /\ (k + 1) * (2 * m) = 2 * (m * k) + 2 * m
    BY <1>1, <2>1
  <2>8. (2 * m) * (p + 1) \in Int
    BY <1>1
  <2> QED  BY <1>1, <2>4, <2>5, <2>6, <2>7, <2>8
<1> QED  BY <1>1, <1>2 DEF p, q

Together(v, listed) == {w \in listed : stay[w].sub /\ stay[w].day = stay[v].day}

LEMMA ShareGrows ==
  ASSUME Prices, Rates, RInv, NEW listed \in SUBSET Stay, NEW page \in SUBSET listed, NEW v \in page
  PROVE  /\ Ledger!SubscriberShare(v, listed) \in Nat /\ Ledger!SubscriberShare(v, page) \in Nat
         /\ Ledger!SubscriberShare(v, listed) <= Ledger!SubscriberShare(v, page)
         /\ Ledger!SubscriberShare(v, page) # 0 => stay[v].day \in SubscribedDays
<1>1. CASE ~stay[v].sub \/ stay[v].day \notin SubscribedDays
  BY <1>1 DEF Ledger!SubscriberShare
<1>2. CASE stay[v].sub /\ stay[v].day \in SubscribedDays
  <2> DEFINE m == Cardinality(Together(v, page))
             n == Cardinality(Together(v, listed))
  <2>1. IsFiniteSet(Together(v, listed)) /\ Together(v, page) \in SUBSET Together(v, listed)
    BY FS_Subset DEF Prices, Together
  <2>2. IsFiniteSet(Together(v, page)) /\ m \in Nat /\ n \in Nat /\ m <= n
    BY <2>1, FS_Subset, FS_CardinalityType
  <2>3. v \in Together(v, page)
    BY <1>2 DEF Together
  <2>4. m # 0
    BY <2>2, <2>3, FS_EmptySet
  <2> HIDE DEF m, n
  <2>5. /\ Ledger!Rounded(DailyRate, m) \in Nat /\ Ledger!Rounded(DailyRate, n) \in Nat
        /\ Ledger!Rounded(DailyRate, n) <= Ledger!Rounded(DailyRate, m)
    <3>1. m \in Nat \ {0} /\ n \in Nat \ {0}
      BY <2>2, <2>4
    <3> QED  BY <2>2, <3>1, FewerGetMore DEF Rates
  <2>6. /\ Ledger!SubscriberShare(v, listed) = Ledger!Rounded(DailyRate, n)
        /\ Ledger!SubscriberShare(v, page) = Ledger!Rounded(DailyRate, m)
    BY <1>2, CountIsCount DEF Ledger!SubscriberShare, Together, m, n
  <2> QED  BY <1>2, <2>5, <2>6
<1> QED  BY <1>1, <1>2

\* A day of the subscription in the range puts it on the sheet of the subscribers.
LEMMA CoveredDay ==
  ASSUME Rates, NEW from \in Nat, NEW to \in Nat, NEW day \in SubscribedDays, day >= from, day <= to
  PROVE  Ledger!SubscribersSheet(from, to)
<1> DEFINE first == Ledger!Min(SubscribedDays)
           last == Ledger!Max(SubscribedDays)
<1>1. SubscribedDays \subseteq Int
  BY DEF Rates
<1>2. first \in SubscribedDays /\ \A x \in SubscribedDays : first <= x
  <2>1. \E x \in SubscribedDays : \A y \in SubscribedDays : x <= y
    BY <1>1, SmallestNumber DEF Rates
  <2> QED  BY <2>1 DEF Ledger!Min
<1>3. last \in SubscribedDays /\ \A x \in SubscribedDays : last >= x
  <2>1. \E x \in SubscribedDays : \A y \in SubscribedDays : x >= y
    BY <1>1, LargestNumber DEF Rates
  <2> QED  BY <2>1 DEF Ledger!Max
<1> HIDE DEF first, last
<1>4. first \in Nat \ {0} /\ last \in Nat \ {0} /\ first <= day /\ last >= day /\ day \in Nat
  BY <1>2, <1>3 DEF Rates
<1>5. \/ first >= from /\ first <= to
      \/ last >= from /\ last <= to
      \/ first <= from /\ last >= to
  BY <1>4
<1> QED  BY <1>4, <1>5 DEF Ledger!SubscribersSheet, Ledger!In, first, last

LEMMA SharesHold ==
  ASSUME Prices, Rates, RInv, NEW from \in Nat, NEW to \in Nat
  PROVE  Ledger!SharesAgree(Ledger!HistorySummary(from, to), from, to)
<1> DEFINE listed == Ledger!SessionsIn(from, to)
           f == [v \in Stay |-> Ledger!SubscriberShare(v, listed)]
<1>1. Ledger!HistorySummary(from, to).shares = SumOver(f, listed)
  BY SumIsSum DEF Ledger!HistorySummary
<1>2. listed \in SUBSET Stay /\ IsFiniteSet(listed)
  BY Parts DEF RInv
<1>3. ASSUME NEW S \in SUBSET listed
      PROVE  /\ Ledger!SharesShown(S, from, to) >= SumOver(f, listed)
             /\ S = {} => Ledger!SharesShown(S, from, to) = SumOver(f, listed)
             /\ Ledger!SharesShown(S, from, to) > 0 => Ledger!SubscribersSheet(from, to)
  <2> DEFINE g == [v \in Stay |-> Ledger!SubscriberShare(v, IF v \in S THEN S ELSE listed \ S)]
  <2>1. Ledger!SharesShown(S, from, to) = SumOver(g, listed)
    BY SumIsSum DEF Ledger!SharesShown
  <2>2. ASSUME NEW v \in listed
        PROVE  f[v] \in Int /\ g[v] \in Int /\ f[v] <= g[v] /\ (g[v] # 0 => stay[v].day \in SubscribedDays)
    <3> DEFINE page == IF v \in S THEN S ELSE listed \ S
    <3>1. page \in SUBSET listed /\ v \in page /\ v \in Stay
      BY <1>2
    <3>2. f[v] = Ledger!SubscriberShare(v, listed) /\ g[v] = Ledger!SubscriberShare(v, page)
      BY <3>1
    <3> HIDE DEF page, listed, f, g
    <3>3. /\ Ledger!SubscriberShare(v, listed) \in Nat /\ Ledger!SubscriberShare(v, page) \in Nat
          /\ Ledger!SubscriberShare(v, listed) <= Ledger!SubscriberShare(v, page)
          /\ Ledger!SubscriberShare(v, page) # 0 => stay[v].day \in SubscribedDays
      BY <1>2, <3>1, ShareGrows
    <3> QED  BY <3>2, <3>3
  <2>3. S = {} => g = f
    <3>1. listed \ {} = listed
      OBVIOUS
    <3> HIDE DEF listed
    <3> QED  BY <3>1
  <2>4. ASSUME NEW v \in listed, g[v] # 0
        PROVE  Ledger!SubscribersSheet(from, to)
    <3>1. stay[v].day >= from /\ stay[v].day <= to
      BY DEF Ledger!SessionsIn, Ledger!In
    <3>2. stay[v].day \in SubscribedDays
      BY <2>2, <2>4
    <3> HIDE DEF listed, g
    <3> QED  BY <3>1, <3>2, CoveredDay
  <2> HIDE DEF listed, f, g
  <2>5. SumOver(f, listed) <= SumOver(g, listed) /\ SumOver(f, listed) \in Int /\ SumOver(g, listed) \in Int
    <3>1. \A v \in listed : f[v] \in Int /\ g[v] \in Int /\ f[v] <= g[v]
      BY <2>2
    <3>2. SumOver(f, listed) <= SumOver(g, listed)
      BY <1>2, <3>1, SumGrows
    <3> QED  BY <1>2, <3>1, <3>2, SumType
  <2>6. (\A v \in listed : g[v] = 0) => SumOver(g, listed) = 0
    BY <1>2, SumOfZeros
  <2>7. Ledger!SharesShown(S, from, to) > 0 => Ledger!SubscribersSheet(from, to)
    BY <2>1, <2>4, <2>6
  <2> QED  BY <2>1, <2>3, <2>5, <2>7
<1> QED  BY <1>1, <1>3 DEF Ledger!SharesAgree

-----------------------------------------------------------------------------
LEMMA ReportsHold ==
  ASSUME Prices, Rates, RInv
  PROVE  Ledger!ReportsAgree
<1> SUFFICES ASSUME NEW from \in 1 .. LastDay, NEW to \in from .. LastDay
             PROVE  /\ Ledger!HoursAgree(Ledger!Revenue(from, to), Ledger!HistorySummary(from, to), Ledger!GenerateReport(from, to), from, to)
                    /\ Ledger!RowsAgree(Ledger!Revenue(from, to), from, to)
                    /\ Ledger!SalesAgree(Ledger!Revenue(from, to), Ledger!GenerateReport(from, to), from, to)
                    /\ Ledger!CountsAgree(Ledger!Preview(from, to), Ledger!GenerateReport(from, to), from, to)
                    /\ from < to => Ledger!DaysAddUp(Ledger!Revenue(from, to), from, to)
                    /\ from = today /\ to = today => Ledger!TodayAgrees(Ledger!Preview(from, to))
                    /\ from = 1 /\ to = today => Ledger!MonthAgrees(Ledger!Revenue(from, to))
                    /\ Ledger!SharesAgree(Ledger!HistorySummary(from, to), from, to)
  BY DEF Ledger!ReportsAgree, Ledger!Preview
<1>1. from \in Nat /\ to \in Nat /\ from <= to
  BY DEF Prices
<1>2. Ledger!HoursAgree(Ledger!Revenue(from, to), Ledger!HistorySummary(from, to), Ledger!GenerateReport(from, to), from, to)
  BY HoursHold
<1>3. Ledger!RowsAgree(Ledger!Revenue(from, to), from, to)
  BY RowsHold
<1>4. Ledger!SalesAgree(Ledger!Revenue(from, to), Ledger!GenerateReport(from, to), from, to)
  BY SalesHold
<1>5. Ledger!CountsAgree(Ledger!Preview(from, to), Ledger!GenerateReport(from, to), from, to)
  BY CountsHold
<1>6. Ledger!DaysAddUp(Ledger!Revenue(from, to), from, to)
  BY <1>1, DaysHold
<1>7. from = today /\ to = today => Ledger!TodayAgrees(Ledger!Preview(from, to))
  BY TodayHolds
<1>8. from = 1 /\ to = today => Ledger!MonthAgrees(Ledger!Revenue(from, to))
  BY MonthHolds
<1>9. Ledger!SharesAgree(Ledger!HistorySummary(from, to), from, to)
  BY <1>1, SharesHold
<1> QED  BY <1>2, <1>3, <1>4, <1>5, <1>6, <1>7, <1>8, <1>9

-----------------------------------------------------------------------------
\* The program implements the takings.
LEMMA LedgerImplemented == Spec => Ledger!Spec
<1>1. Init => Ledger!Init
  BY DEF Init
<1>2. [Next]_vars => [Ledger!Next]_(Ledger!vars)
  <2> SUFFICES ASSUME [Next]_vars PROVE [Ledger!Next]_(Ledger!vars)
    OBVIOUS
  <2>1. CASE LedgerStep
    BY <2>1 DEF LedgerStep
  <2>2. CASE ~LedgerStep
    <3>1. UNCHANGED ledgerVars
      BY <2>2 DEF Next, vars, services, RoomStep, BookStep, SchoolStep, PlanStep, DoorStep,
           TillStep, SiteStep, RouterStep, PeopleStep, EntryStep, CallStep, DayStep
    <3> QED  BY <3>1 DEF ledgerVars, Ledger!vars, Ledger!desk, Ledger!rooms
  <2> QED  BY <2>1, <2>2
<1> QED  BY <1>1, <1>2, PTL DEF Spec, Ledger!Spec

\* Visits, items and debts keep their types, whatever is done at the desk and by hand.
THEOREM LedgerTypes ==
    ASSUME Prices
    PROVE  Spec => [](Ledger!TypeOK)
<1>1. LInv => Ledger!TypeOK
  BY DEF LInv
<1> QED  BY <1>1, Invariant, LedgerImplemented, PTL

\* For all prices, and every number of visits, orders, sales and debts: revenue
\* (computeUnifiedRevenue) less what was handed over is the sales of orders which no paid
\* visit bills, less the billed orders without a sale, and what counts twice, less parts
\* that were paid and debts that were collected by hand.
THEOREM TillIsRight ==
    ASSUME Prices
    PROVE  Spec => []TillAgrees
<1>1. LInv => TillAgrees
  BY TillHolds DEF TillAgrees
<1> QED  BY <1>1, Invariant, LedgerImplemented, PTL

\* For all prices and rates, every number of visits, orders, sales and debts, and every range
\* of days: the preview, the history, the workbooks, the mail, the dashboard and the sales
\* page show the same sums where they show the same thing (lib/revenue, modules/reports,
\* modules/dashboard, history).
THEOREM ReportsAreConsistent ==
    ASSUME Prices, Rates
    PROVE  Spec => []ReportsAgree
<1>1. RInv => ReportsAgree
  BY ReportsHold DEF ReportsAgree
<1> QED  BY <1>1, RowsInvariant, LedgerImplemented, PTL

-----------------------------------------------------------------------------
(* The days of the time zone.                                              *)

\* The clock of the service, and what it was told of the zone.
DayInv ==
    /\ instant \in Int /\ TrendDays * DayLength - Hour <= instant /\ instant <= LastInstant
    /\ switch \in Switches /\ spring \in BOOLEAN

\* What Palestine is ahead of UTC by, until the clocks are moved and from then on.
Before == IF spring THEN Winter ELSE Summer
After == IF spring THEN Summer ELSE Winter

Date(t) == Days!getPalestineDateParts(t)

LEMMA ZoneNumbers ==
  /\ Second \in Nat \ {0} /\ Hour \in Nat \ {0} /\ DayLength \in Nat \ {0} /\ TrendDays \in Nat \ {0}
  /\ Winter \in Nat /\ Summer \in Nat /\ Summer = Winter + Hour
  /\ Hour <= Winter /\ Summer <= DayLength /\ Hour <= DayLength
  /\ LastInstant \in Nat /\ TrendDays * DayLength \in Nat /\ TrendDays * DayLength - Hour <= LastInstant
  /\ Hour % Second = 0 /\ Winter % Hour = 0 /\ DayLength % Hour = 0
<1>1. /\ Second \in Nat \ {0} /\ Hour \in Nat \ {0} /\ DayLength \in Nat \ {0} /\ TrendDays \in Nat \ {0}
      /\ Winter \in Nat /\ Summer = Winter + Hour
      /\ Hour <= Winter /\ Summer <= DayLength
      /\ LastInstant \in Nat /\ TrendDays * DayLength - Hour <= LastInstant
      /\ Hour % Second = 0 /\ Winter % Hour = 0 /\ DayLength % Hour = 0
  BY OfficeAssumption
<1>2. Summer \in Nat /\ Hour <= DayLength
  BY <1>1
<1>3. TrendDays * DayLength \in Nat
  BY <1>1
<1> QED  BY <1>1, <1>2, <1>3

\* Division, as the code uses it: rounding down, below zero as well.
LEMMA Divided ==
  ASSUME NEW a \in Int, NEW k \in Nat \ {0}
  PROVE  /\ a \div k \in Int /\ a % k \in 0 .. k - 1 /\ a = k * (a \div k) + (a % k)
OBVIOUS

LEMMA OneQuotient ==
  ASSUME NEW k \in Nat \ {0}, NEW p \in Int, NEW q \in Int, k * p < k * q + k
  PROVE  p <= q
<1>1. SUFFICES ASSUME q + 1 <= p PROVE FALSE
  OBVIOUS
<1>2. PICK c \in Nat : p = q + 1 + c
  <2>1. p - (q + 1) \in Nat /\ p = q + 1 + (p - (q + 1))
    BY <1>1
  <2> QED  BY <2>1
<1>3. k * p = k * q + k + k * c
  BY <1>2
<1>4. k * c \in Nat /\ k * q \in Int /\ k * p \in Int
  OBVIOUS
<1> QED  BY <1>3, <1>4

\* The quotient is the number of the interval that holds a.
LEMMA QuotientIs ==
  ASSUME NEW a \in Int, NEW k \in Nat \ {0}, NEW q \in Int
  PROVE  k * q \in Int /\ (a \div k = q <=> k * q <= a /\ a < k * q + k)
<1> DEFINE d == a \div k
<1>1. d \in Int /\ k * d <= a /\ a < k * d + k /\ k * d \in Int /\ k * q \in Int
  <2>1. d \in Int /\ a % k \in 0 .. k - 1 /\ a = k * d + (a % k)
    BY Divided
  <2>2. k * d \in Int /\ k * q \in Int
    BY <2>1
  <2> QED  BY <2>1, <2>2
<1> HIDE DEF d
<1>2. ASSUME k * q <= a, a < k * q + k PROVE d = q
  <2>1. k * d < k * q + k /\ k * q < k * d + k
    BY <1>1, <1>2
  <2>2. d <= q /\ q <= d
    BY <1>1, <2>1, OneQuotient
  <2> QED  BY <1>1, <2>2
<1>3. ASSUME d = q PROVE k * q <= a /\ a < k * q + k
  BY <1>1, <1>3
<1> QED  BY <1>1, <1>2, <1>3 DEF d

\* Multiples of k are what is left without a remainder.
LEMMA MultipleHasNoRest ==
  ASSUME NEW k \in Nat \ {0}, NEW q \in Int
  PROVE  k * q \in Int /\ (k * q) % k = 0 /\ (k * q) \div k = q
<1> DEFINE a == k * q
<1>1. a \in Int /\ k * q <= a /\ a < k * q + k
  OBVIOUS
<1>2. a \div k = q
  <2> HIDE DEF a
  <2> QED  BY <1>1, QuotientIs
<1>3. a \div k \in Int /\ a % k \in 0 .. k - 1 /\ a = k * (a \div k) + (a % k)
  <2> HIDE DEF a
  <2> QED  BY <1>1, Divided
<1>4. a % k = 0
  <2>1. a = a + (a % k) /\ a % k \in Int
    BY <1>2, <1>3
  <2> HIDE DEF a
  <2> QED  BY <1>1, <2>1
<1> QED  BY <1>1, <1>2, <1>4

\* What is added in whole k's leaves the remainder as it is.
LEMMA SameRest ==
  ASSUME NEW a \in Int, NEW k \in Nat \ {0}, NEW q \in Int
  PROVE  (a + k * q) % k = a % k
<1> DEFINE d == a \div k
           r == a % k
           b == a + k * q
<1>1. d \in Int /\ r \in 0 .. k - 1 /\ a = k * d + r
  BY Divided
<1>2. b \in Int /\ k * q \in Int /\ k * d \in Int /\ k * (d + q) = k * d + k * q
  BY <1>1
<1> HIDE DEF d, r
<1>3. b = k * (d + q) + r
  BY <1>1, <1>2
<1>4. d + q \in Int /\ k * (d + q) \in Int
  BY <1>1, <1>2
<1>5. k * (d + q) <= b /\ b < k * (d + q) + k
  <2> HIDE DEF b
  <2> QED  BY <1>1, <1>2, <1>3, <1>4
<1>6. b \div k = d + q
  <2> HIDE DEF b
  <2> QED  BY <1>2, <1>4, <1>5, QuotientIs
<1>7. b = k * (b \div k) + (b % k) /\ b % k \in Int
  <2> HIDE DEF b
  <2>1. b \in Int
    BY <1>2
  <2> QED  BY <2>1, Divided
<1>8. b % k = r
  <2> HIDE DEF b
  <2>1. k * (b \div k) = k * (d + q)
    BY <1>6
  <2> QED  BY <1>1, <1>3, <1>4, <1>7, <2>1
<1> QED  BY <1>8 DEF b, r

LEMMA Offsets ==
  ASSUME DayInv
  PROVE  /\ Before \in Nat /\ After \in Nat /\ Hour <= Before /\ Hour <= After
         /\ Before <= DayLength /\ After <= DayLength
         /\ After = Before + Hour \/ Before = After + Hour
         /\ spring => Before = Winter /\ After = Summer
         /\ ~spring => Before = Summer /\ After = Winter
<1>1. CASE spring
  BY <1>1, ZoneNumbers DEF Before, After
<1>2. CASE ~spring
  BY <1>2, ZoneNumbers DEF Before, After
<1> QED  BY <1>1, <1>2

LEMMA AheadIs ==
  ASSUME DayInv, NEW t \in Int
  PROVE  Days!Ahead(t) = IF t < switch THEN Before ELSE After
<1>1. spring \in BOOLEAN
  BY DEF DayInv
<1>2. CASE spring
  BY <1>1, <1>2 DEF Days!Ahead, Before, After
<1>3. CASE ~spring
  BY <1>1, <1>3 DEF Days!Ahead, Before, After
<1> QED  BY <1>2, <1>3

LEMMA SwitchType == DayInv => switch \in Nat /\ switch % Hour = 0
BY OfficeAssumption DEF DayInv

\* A date is the number of the day that the clocks on the wall show.
LEMMA DateIs ==
  ASSUME DayInv, NEW t \in Int
  PROVE  /\ Days!Ahead(t) \in {Before, After} /\ Days!Ahead(t) \in Nat /\ Date(t) \in Int
         /\ \A q \in Int : /\ DayLength * q \in Int
                           /\ Date(t) = q <=> DayLength * q <= t + Days!Ahead(t) /\ t + Days!Ahead(t) < DayLength * q + DayLength
<1>1. PICK a : a = Days!Ahead(t)
  OBVIOUS
<1>2. a \in {Before, After} /\ a \in Nat
  BY <1>1, AheadIs, Offsets
<1>3. t + a \in Int /\ DayLength \in Nat \ {0}
  BY <1>2, ZoneNumbers
<1>4. Date(t) = (t + a) \div DayLength
  BY <1>1 DEF Date, Days!getPalestineDateParts, Days!Local
<1>5. (t + a) \div DayLength \in Int
  <2>1. PICK b \in Int : b = t + a
    BY <1>3
  <2>2. b \div DayLength \in Int
    BY <1>3, Divided
  <2> QED  BY <2>1, <2>2
<1>6. ASSUME NEW q \in Int
      PROVE  DayLength * q \in Int /\ ((t + a) \div DayLength = q <=> DayLength * q <= t + a /\ t + a < DayLength * q + DayLength)
  <2>1. PICK b \in Int : b = t + a
    BY <1>3
  <2>2. DayLength * q \in Int /\ (b \div DayLength = q <=> DayLength * q <= b /\ b < DayLength * q + DayLength)
    BY <1>3, QuotientIs
  <2> QED  BY <2>1, <2>2
<1> QED  BY <1>1, <1>2, <1>4, <1>5, <1>6

\* A whole number of hours is one of seconds.
LEMMA HoursAreSeconds ==
  ASSUME NEW a \in Nat, a % Hour = 0
  PROVE  \E q \in Int : a = Second * q
<1>1. a \div Hour \in Int /\ a = Hour * (a \div Hour) + (a % Hour)
  BY ZoneNumbers, Divided
<1>2. Hour \div Second \in Int /\ Hour = Second * (Hour \div Second) + (Hour % Second)
  BY ZoneNumbers, Divided
<1>3. PICK x \in Int, y \in Int : a = Hour * x + 0 /\ Hour = Second * y + 0
  BY <1>1, <1>2, ZoneNumbers
<1>4. Second \in Int /\ Hour \in Int /\ Second * y \in Int /\ Hour * x \in Int
  BY ZoneNumbers
<1>5. Hour = Second * y /\ a = Hour * x
  BY <1>3, <1>4
<1>6. (Second * y) * x = Second * (y * x) /\ y * x \in Int
  BY <1>4
<1> QED  BY <1>5, <1>6

\* The day of t begins where the code says, less the fraction of a second.
LEMMA StartIs ==
  ASSUME DayInv, NEW t \in Int
  PROVE  /\ t % Second \in 0 .. Second - 1
         /\ Days!palestineStartOfDay(t) = DayLength * Date(t) - Days!Ahead(t) + (t % Second)
         /\ Days!palestineEndOfDay(t) = DayLength * Date(t) + DayLength - 1 - Days!Ahead(t) + (t % Second)
<1>1. PICK a : a = Days!Ahead(t)
  OBVIOUS
<1>2. a \in Nat /\ a % Hour = 0
  <2>1. a \in {Before, After} /\ a \in Nat
    BY <1>1, DateIs
  <2>2. Winter % Hour = 0 /\ Summer % Hour = 0
    <3>1. (Winter + Hour * 1) % Hour = Winter % Hour
      <4>1. Winter \in Int /\ Hour \in Nat \ {0} /\ 1 \in Int
        BY ZoneNumbers
      <4> QED  BY <4>1, SameRest
    <3>2. Hour * 1 = Hour
      BY ZoneNumbers
    <3> QED  BY <3>1, <3>2, ZoneNumbers
  <2>3. a \in {Winter, Summer}
    BY <2>1 DEF Before, After
  <2> QED  BY <2>1, <2>2, <2>3
<1>3. PICK q \in Int : a = Second * q
  BY <1>2, HoursAreSeconds
<1>4. (t + a) % Second = t % Second
  <2>1. (t + Second * q) % Second = t % Second
    BY ZoneNumbers, SameRest
  <2> QED  BY <1>3, <2>1
<1>5. t % Second \in 0 .. Second - 1
  BY ZoneNumbers, Divided
<1>6. PICK rest \in Int, p \in Int : rest = t % Second /\ p = DayLength * Date(t)
  <2>1. Date(t) \in Int /\ DayLength * Date(t) \in Int
    BY DateIs
  <2>2. t % Second \in Int
    BY <1>5, ZoneNumbers
  <2> QED  BY <2>1, <2>2
<1>7. Days!palestineOffsetMs(t) = rest - a
  <2>1. Days!palestineOffsetMs(t) = t - ((t + a) - rest)
    BY <1>1, <1>4, <1>6 DEF Days!palestineOffsetMs, Days!Local
  <2> QED  BY <1>2, <1>6, <2>1
<1>8. Date(t) * DayLength = p
  BY <1>6, DateIs, ZoneNumbers
<1>9. Days!palestineStartOfDay(t) = p + (rest - a) /\ Days!palestineEndOfDay(t) = p + DayLength - 1 + (rest - a)
  BY <1>7, <1>8 DEF Date, Days!palestineStartOfDay, Days!palestineEndOfDay
<1> QED  BY <1>1, <1>2, <1>5, <1>6, <1>9, ZoneNumbers

\* The first instant of the day of t, if the clocks were not moved since.
First(t) == DayLength * Date(t) - Days!Ahead(t)

LEMMA FirstIs ==
  ASSUME DayInv
  PROVE  /\ instant \in Nat /\ First(instant) \in Nat
         /\ First(instant) <= instant /\ instant < First(instant) + DayLength
         /\ DayLength <= DayLength * Date(instant)
<1>1. PICK a : a = Days!Ahead(instant)
  OBVIOUS
<1>2. instant \in Int /\ a \in {Before, After} /\ a \in Nat /\ Date(instant) \in Int
  BY <1>1, DateIs DEF DayInv
<1>3. PICK d \in Int, p \in Int :
        d = Date(instant) /\ p = DayLength * d /\ p <= instant + a /\ instant + a < p + DayLength
  BY <1>1, <1>2, DateIs
<1>4. a <= DayLength /\ Hour <= a /\ DayLength \in Nat \ {0} /\ Hour \in Nat
  BY <1>2, Offsets, ZoneNumbers
<1>5. PICK whole \in Nat : whole = TrendDays * DayLength /\ whole - Hour <= instant
  BY ZoneNumbers DEF DayInv
<1>6. DayLength <= whole
  <2>1. PICK n \in Nat, k \in Nat : TrendDays = n + 1 /\ k = DayLength
    <3>1. TrendDays - 1 \in Nat /\ TrendDays = (TrendDays - 1) + 1 /\ DayLength \in Nat
      BY ZoneNumbers
    <3> QED  BY <3>1
  <2>2. (n + 1) * k = n * k + k /\ n * k \in Nat
    BY <2>1
  <2> QED  BY <1>5, <2>1, <2>2
<1>7. instant + a \in Int /\ DayLength <= instant + a
  BY <1>2, <1>4, <1>5, <1>6
<1>8. DayLength * 1 < DayLength * d + DayLength
  BY <1>3, <1>4, <1>7
<1>9. 1 <= d
  BY <1>3, <1>4, <1>8, OneQuotient
<1>10. DayLength <= p
  <2>1. PICK n \in Nat, k \in Nat : d = 1 + n /\ k = DayLength
    <3>1. d - 1 \in Nat /\ d = 1 + (d - 1) /\ DayLength \in Nat
      BY <1>3, <1>9, <1>4
    <3> QED  BY <3>1
  <2>2. k * (1 + n) = k + k * n /\ k * n \in Nat
    BY <2>1
  <2> QED  BY <1>3, <2>1, <2>2
<1>11. First(instant) = p - a
  BY <1>1, <1>3 DEF First
<1>12. p <= instant + a /\ a <= p /\ p \in Nat
  BY <1>2, <1>3, <1>4, <1>10
<1>13. instant \in Nat
  BY <1>2, <1>4, <1>5, <1>6, ZoneNumbers
<1>14. p - a \in Nat /\ p - a <= instant /\ instant < (p - a) + DayLength
  BY <1>2, <1>3, <1>4, <1>12
<1> QED  BY <1>3, <1>10, <1>11, <1>13, <1>14

LEMMA DayHolds ==
  ASSUME DayInv, NEW s \in Int
  PROVE  s \in Days!DayOf(instant) <=> s \in 0 .. LastInstant /\ Date(s) = Date(instant)
BY DEF Days!DayOf, Days!Instants, Days!isSamePalestineDay, Date

\* If the clocks are not moved on the day, it is the DayLength instants from the first on.
LEMMA UnmovedDay ==
  ASSUME DayInv, ~Days!Moved(instant), NEW s \in 0 .. LastInstant
  PROVE  s \in Days!DayOf(instant) <=> First(instant) <= s /\ s < First(instant) + DayLength
<1>1. PICK a, d, f : a = Days!Ahead(instant) /\ d = Date(instant) /\ f = First(instant)
  OBVIOUS
<1>2. /\ a \in Nat /\ d \in Int /\ f \in Nat /\ instant \in Nat /\ LastInstant \in Nat /\ instant <= LastInstant
      /\ f <= instant /\ instant < f + DayLength /\ DayLength * d \in Int /\ f = DayLength * d - a
      /\ DayLength \in Nat /\ switch \in Nat /\ a \in {Before, After}
  <2>1. instant \in Nat /\ f \in Nat /\ f <= instant /\ instant < f + DayLength /\ f = DayLength * d - a
    BY <1>1, FirstIs DEF First
  <2>2. a \in Nat /\ d \in Int /\ DayLength * d \in Int /\ a \in {Before, After}
    BY <1>1, <2>1, DateIs
  <2> QED  BY <2>1, <2>2, ZoneNumbers, SwitchType DEF DayInv
<1>3. \A u \in Days!DayOf(instant) : Days!Ahead(u - 1) = a /\ Days!Ahead(u) = a /\ Days!Ahead(u + 1) = a
  <2> SUFFICES ASSUME NEW u \in Days!DayOf(instant)
               PROVE  Days!Ahead(u - 1) = a /\ Days!Ahead(u) = a /\ Days!Ahead(u + 1) = a
    OBVIOUS
  <2>1. {Days!Ahead(u - 1), Days!Ahead(u), Days!Ahead(u + 1)} = {Days!Ahead(instant)}
    BY DEF Days!Moved
  <2> QED  BY <1>1, <2>1
<1>4. \A u \in 0 .. LastInstant : Days!Ahead(u) = a /\ f <= u /\ u < f + DayLength => u \in Days!DayOf(instant)
  <2> SUFFICES ASSUME NEW u \in 0 .. LastInstant, Days!Ahead(u) = a, f <= u, u < f + DayLength
               PROVE  u \in Days!DayOf(instant)
    OBVIOUS
  <2>1. u \in Int /\ DayLength * d <= u + a /\ u + a < DayLength * d + DayLength
    BY <1>2
  <2>2. Date(u) = d
    BY <1>2, <2>1, DateIs
  <2> QED  BY <1>1, <2>1, <2>2, DayHolds
<1>5. ASSUME f <= s, s < f + DayLength PROVE Days!Ahead(s) = a
  <2>1. CASE s < switch /\ switch <= instant
    <3>1. Days!Ahead(instant) = After /\ Days!Ahead(switch) = After /\ Days!Ahead(switch - 1) = Before
      BY <1>2, <2>1, AheadIs
    <3>2. switch \in 0 .. LastInstant /\ f <= switch /\ switch < f + DayLength
      BY <1>2, <1>5, <2>1
    <3>3. switch \in Days!DayOf(instant)
      BY <1>1, <1>4, <3>1, <3>2
    <3> QED  BY <1>1, <1>2, <1>3, <2>1, <3>1, <3>3, AheadIs
  <2>2. CASE instant < switch /\ switch <= s
    <3>1. Days!Ahead(instant) = Before /\ Days!Ahead(switch - 1) = Before /\ Days!Ahead(s) = After
      BY <1>2, <2>2, AheadIs
    <3>2. switch - 1 \in 0 .. LastInstant /\ f <= switch - 1 /\ switch - 1 < f + DayLength /\ (switch - 1) + 1 = switch
      BY <1>2, <1>5, <2>2
    <3>3. switch - 1 \in Days!DayOf(instant)
      BY <1>1, <1>4, <3>1, <3>2
    <3>4. Days!Ahead(switch) = a
      BY <1>3, <3>2, <3>3
    <3>5. Days!Ahead(switch) = After
      BY <1>2, AheadIs
    <3> QED  BY <3>1, <3>4, <3>5
  <2>3. CASE (s < switch /\ instant < switch) \/ (switch <= s /\ switch <= instant)
    BY <1>1, <1>2, <2>3, AheadIs
  <2> QED  BY <1>2, <2>1, <2>2, <2>3
<1>6. ASSUME s \in Days!DayOf(instant) PROVE f <= s /\ s < f + DayLength
  <2>1. Days!Ahead(s) = a
    BY <1>3, <1>6
  <2>2. s \in Int /\ Date(s) = d
    BY <1>1, <1>6, DayHolds
  <2>3. DayLength * d <= s + a /\ s + a < DayLength * d + DayLength
    BY <1>2, <2>1, <2>2, DateIs
  <2> QED  BY <1>2, <2>2, <2>3
<1> QED  BY <1>1, <1>4, <1>5, <1>6

\* The first of a set of numbers, as Calendar takes it.
LEMMA FirstOf ==
  ASSUME NEW S, IsFiniteSet(S), S \subseteq Int, S # {}, NEW x \in S, \A y \in S : x <= y
  PROVE  Days!Min(S) = x
<1>1. Days!Min(S) \in S /\ \A y \in S : Days!Min(S) <= y
  BY DEF Days!Min
<1>2. Days!Min(S) \in Int /\ x \in Int /\ Days!Min(S) <= x /\ x <= Days!Min(S)
  BY <1>1
<1> QED  BY <1>2

LEMMA DayBegins ==
  ASSUME DayInv, NEW x \in Days!DayOf(instant), \A y \in Days!DayOf(instant) : x <= y
  PROVE  Days!Min(Days!DayOf(instant)) = x
<1>1. Days!DayOf(instant) \subseteq 0 .. LastInstant
  BY DEF Days!DayOf, Days!Instants
<1>2. IsFiniteSet(0 .. LastInstant) /\ 0 .. LastInstant \subseteq Int
  BY FS_Interval, ZoneNumbers
<1>3. IsFiniteSet(Days!DayOf(instant)) /\ Days!DayOf(instant) \subseteq Int
  BY <1>1, <1>2, FS_Subset
<1> QED  BY <1>3, FirstOf

LEMMA BoundsHold ==
  ASSUME DayInv
  PROVE  Days!BoundsHoldTheDay
<1> DEFINE start == Days!palestineStartOfDay(instant)
           end == Days!palestineEndOfDay(instant)
<1>1. PICK late, f : late = instant % Second /\ f = First(instant)
  OBVIOUS
<1>2. late \in Nat /\ f \in Nat /\ DayLength \in Nat /\ start = f + late /\ end = f + DayLength - 1 + late
  <2>1. PICK p \in Int, a \in Nat, e \in Nat :
          p = DayLength * Date(instant) /\ a = Days!Ahead(instant) /\ e = instant % Second
    <3>1. instant \in Int
      BY DEF DayInv
    <3>2. DayLength * Date(instant) \in Int /\ Days!Ahead(instant) \in Nat
      BY <3>1, DateIs
    <3>3. instant % Second \in Nat
      BY <3>1, StartIs, ZoneNumbers
    <3> QED  BY <3>2, <3>3
  <2>2. start = p - a + e /\ end = p + DayLength - 1 - a + e
    BY <2>1, StartIs DEF DayInv
  <2>3. f = p - a /\ late = e
    BY <1>1, <2>1 DEF First
  <2>4. f \in Nat
    BY <1>1, FirstIs
  <2> QED  BY <2>1, <2>2, <2>3, <2>4, ZoneNumbers
<1>3. ASSUME ~Days!Moved(instant), NEW s \in 0 .. LastInstant
      PROVE  s >= start /\ s <= end <=> s - late \in Days!DayOf(instant)
  <2>1. PICK u \in Int : u = s - late
    BY <1>2, <1>3, ZoneNumbers
  <2>2. s >= start /\ s <= end <=> f <= u /\ u < f + DayLength
    BY <1>2, <1>3, <2>1, ZoneNumbers
  <2>3. CASE u \in 0 .. LastInstant
    BY <1>1, <1>3, <2>1, <2>2, <2>3, UnmovedDay
  <2>4. CASE u \notin 0 .. LastInstant
    <3>1. u < 0
      BY <1>2, <1>3, <2>1, <2>4, ZoneNumbers
    <3>2. u \notin Days!DayOf(instant)
      BY <2>4, DayHolds
    <3> QED  BY <1>2, <2>1, <2>2, <3>1, <3>2
  <2> QED  BY <2>3, <2>4
<1> HIDE DEF start, end
<1>4. Days!Instants = 0 .. LastInstant
  BY DEF Days!Instants
<1>5. ~Days!Moved(instant) => Days!Late = late /\ late \in 0 .. Second - 1
  <2> SUFFICES ASSUME ~Days!Moved(instant) PROVE Days!Late = late /\ late \in 0 .. Second - 1
    OBVIOUS
  <2>1. instant \in 0 .. LastInstant /\ f <= instant
    BY <1>1, FirstIs DEF DayInv
  <2>2. f \in 0 .. LastInstant /\ f < f + DayLength
    BY <1>2, <2>1, ZoneNumbers
  <2>3. f \in Days!DayOf(instant)
    BY <1>1, <1>2, <2>2, UnmovedDay
  <2>4. \A y \in Days!DayOf(instant) : f <= y
    BY <1>1, UnmovedDay DEF Days!DayOf, Days!Instants
  <2>5. Days!Min(Days!DayOf(instant)) = f
    BY <2>3, <2>4, DayBegins
  <2>6. start - f = late
    BY <1>2
  <2>7. instant % Second \in 0 .. Second - 1
    BY StartIs DEF DayInv
  <2> QED  BY <1>1, <2>5, <2>6, <2>7 DEF Days!Late, start
<1> QED  BY <1>3, <1>4, <1>5 DEF Days!BoundsHoldTheDay, start, end

\* The first instant of a day is at a whole hour.
LEMMA WholeHours ==
  ASSUME DayInv
  PROVE  \E x \in Int, y \in Int : First(instant) = Hour * x /\ switch = Hour * y
<1>1. \A a \in Int : a % Hour = 0 => \E x \in Int : a = Hour * x
  <2> SUFFICES ASSUME NEW a \in Int, a % Hour = 0 PROVE \E x \in Int : a = Hour * x
    OBVIOUS
  <2>1. Hour \in Nat \ {0}
    BY ZoneNumbers
  <2>2. a \div Hour \in Int /\ a = Hour * (a \div Hour) + (a % Hour)
    BY <2>1, Divided
  <2>3. PICK q \in Int : a = Hour * q + 0
    BY <2>2
  <2> QED  BY <2>1, <2>3
<1>2. PICK k \in Int, w \in Int, y \in Int : DayLength = Hour * k /\ Winter = Hour * w /\ switch = Hour * y
  <2>1. DayLength \in Int /\ Winter \in Int /\ switch \in Int
    BY ZoneNumbers, SwitchType
  <2>2. DayLength % Hour = 0 /\ Winter % Hour = 0 /\ switch % Hour = 0
    BY ZoneNumbers, SwitchType
  <2> QED  BY <1>1, <2>1, <2>2
<1>3. PICK h \in Int, d \in Int, a \in Int : h = Hour /\ d = Date(instant) /\ a = Days!Ahead(instant)
  <2>1. Date(instant) \in Int /\ Days!Ahead(instant) \in Int
    BY DateIs DEF DayInv
  <2> QED  BY <2>1, ZoneNumbers
<1>4. a = h * w \/ a = h * w + h
  <2>1. a \in {Before, After}
    BY <1>3, DateIs DEF DayInv
  <2> QED  BY <1>2, <1>3, <2>1, ZoneNumbers DEF Before, After
<1>5. First(instant) = (h * k) * d - a
  BY <1>2, <1>3 DEF First
<1>6. (h * k) * d - h * w = h * (k * d - w) /\ (h * k) * d - (h * w + h) = h * (k * d - w - 1)
  BY <1>2, <1>3
<1>7. k * d - w \in Int /\ k * d - w - 1 \in Int
  BY <1>2, <1>3
<1> QED  BY <1>2, <1>3, <1>4, <1>5, <1>6, <1>7

LEMMA OneHourLater ==
  ASSUME DayInv, First(instant) < switch, switch <= First(instant) + Hour
  PROVE  switch = First(instant) + Hour
<1>1. PICK x \in Int, y \in Int : First(instant) = Hour * x /\ switch = Hour * y
  BY WholeHours
<1>2. PICK h \in Nat \ {0} : h = Hour
  BY ZoneNumbers
<1>3. h * x \in Int /\ h * y \in Int /\ h * x < h * y /\ h * y <= h * x + h
  BY <1>1, <1>2
<1>4. h * (x + 1) = h * x + h /\ x + 1 \in Int
  BY <1>2
<1>5. h * y < h * (x + 1) + h /\ h * (x + 1) < h * y + h
  BY <1>3, <1>4
<1>6. y <= x + 1 /\ x + 1 <= y
  BY <1>4, <1>5, OneQuotient
<1>7. y = x + 1
  BY <1>6
<1> QED  BY <1>1, <1>2, <1>4, <1>7

LEMMA NearDay ==
  ASSUME DayInv
  PROVE  First(instant) - Days!Min(Days!DayOf(instant)) \in {-Hour, 0, Hour}
<1>1. PICK a, d, f, p : a = Days!Ahead(instant) /\ d = Date(instant) /\ f = First(instant) /\ p = DayLength * d
  OBVIOUS
<1>2. /\ a \in Nat /\ d \in Int /\ f \in Nat /\ instant \in Nat /\ instant <= LastInstant /\ LastInstant \in Nat
      /\ f <= instant /\ instant < f + DayLength /\ p \in Int /\ f = p - a /\ DayLength <= p
      /\ DayLength \in Nat /\ Hour \in Nat /\ switch \in Nat
  <2>1. instant \in Nat /\ f \in Nat /\ f <= instant /\ instant < f + DayLength /\ f = p - a /\ DayLength <= p
    BY <1>1, FirstIs DEF First
  <2>2. a \in Nat /\ d \in Int /\ p \in Int
    BY <1>1, <2>1, DateIs
  <2> QED  BY <2>1, <2>2, ZoneNumbers, SwitchType DEF DayInv
<1>3. \A s \in Int : Days!Ahead(s) = IF s < switch THEN Before ELSE After
  BY AheadIs
<1>4. /\ Before \in Nat /\ After \in Nat /\ Before <= DayLength /\ After <= DayLength
      /\ After = Before + Hour \/ Before = After + Hour
  BY Offsets
<1>5. \A s \in Int : s \in Days!DayOf(instant)
                       <=> s \in 0 .. LastInstant /\ p <= s + Days!Ahead(s) /\ s + Days!Ahead(s) < p + DayLength
  BY <1>1, <1>2, DateIs, DayHolds
<1>6. \A s \in Days!DayOf(instant) : s \in 0 .. LastInstant /\ s \in Int
  BY <1>5, DayHolds DEF Days!DayOf, Days!Instants
<1>7. CASE instant < switch
  <2>1. a = Before
    BY <1>1, <1>2, <1>3, <1>7
  <2>2. f \in Days!DayOf(instant)
    BY <1>2, <1>3, <1>4, <1>5, <1>7, <2>1
  <2>3. \A y \in Days!DayOf(instant) : f <= y
    BY <1>2, <1>3, <1>4, <1>5, <1>6, <1>7, <2>1
  <2>4. Days!Min(Days!DayOf(instant)) = f
    BY <2>2, <2>3, DayBegins
  <2> QED  BY <1>1, <1>2, <2>4
<1>8. CASE switch <= instant
  <2>1. a = After
    BY <1>1, <1>2, <1>3, <1>8
  <2> DEFINE g == p - Before
  <2>2. g \in Nat
    BY <1>2, <1>4
  <2>3. CASE g < switch
    <3>1. Days!Ahead(g) = Before
      BY <1>3, <2>2, <2>3
    <3>2. g \in Days!DayOf(instant)
      BY <1>2, <1>4, <1>5, <1>8, <2>2, <2>3, <3>1
    <3>3. \A y \in Days!DayOf(instant) : g <= y
      BY <1>2, <1>3, <1>4, <1>5, <1>6, <2>3
    <3>4. Days!Min(Days!DayOf(instant)) = g
      BY <3>2, <3>3, DayBegins
    <3>5. f - g \in {-Hour, 0, Hour}
      BY <1>2, <1>4, <2>1
    <3> QED  BY <1>1, <3>4, <3>5
  <2>4. CASE switch <= g /\ switch <= f
    <3>1. f \in Days!DayOf(instant)
      BY <1>2, <1>3, <1>4, <1>5, <2>1, <2>4
    <3>2. \A y \in Days!DayOf(instant) : f <= y
      BY <1>2, <1>3, <1>4, <1>5, <1>6, <2>1, <2>4
    <3>3. Days!Min(Days!DayOf(instant)) = f
      BY <3>1, <3>2, DayBegins
    <3> QED  BY <1>1, <1>2, <3>3
  <2>5. CASE switch <= g /\ f < switch
    <3>1. After = Before + Hour /\ g = f + Hour
      BY <1>2, <1>4, <2>1, <2>5
    <3>2. switch = f + Hour
      BY <1>1, <2>5, <3>1, OneHourLater
    <3>3. Days!Ahead(switch) = After
      BY <1>2, <1>3
    <3>4. switch \in Days!DayOf(instant)
      BY <1>2, <1>4, <1>5, <1>8, <2>1, <2>5, <3>2, <3>3
    <3>5. \A y \in Days!DayOf(instant) : switch <= y
      BY <1>2, <1>3, <1>4, <1>5, <1>6, <2>5
    <3>6. Days!Min(Days!DayOf(instant)) = switch
      BY <3>4, <3>5, DayBegins
    <3> QED  BY <1>1, <1>2, <3>2, <3>6
  <2> QED  BY <1>2, <1>4, <2>2, <2>3, <2>4, <2>5
<1> QED  BY <1>2, <1>7, <1>8

LEMMA BoundsNear ==
  ASSUME DayInv
  PROVE  Days!BoundsAreNear
<1>0. PICK m : m = Days!Min(Days!DayOf(instant))
  OBVIOUS
<1>1. PICK e \in Nat, f \in Nat :
        e = instant % Second /\ f = First(instant) /\ m = Days!Min(Days!DayOf(instant))
  <2>1. instant % Second \in Nat
    BY StartIs, ZoneNumbers DEF DayInv
  <2> QED  BY <1>0, <2>1, FirstIs
<1>2. Days!palestineStartOfDay(instant) = f + e
  <2>1. Days!palestineStartOfDay(instant) = First(instant) + (instant % Second)
    BY StartIs DEF DayInv, First
  <2> QED  BY <1>1, <2>1
<1>3. m \in Int
  <2>1. First(instant) - m \in {-Hour, 0, Hour}
    BY <1>1, NearDay
  <2>2. \E x \in Days!DayOf(instant) : \A y \in Days!DayOf(instant) : x <= y
    <3>1. Days!DayOf(instant) \subseteq 0 .. LastInstant
      BY DEF Days!DayOf, Days!Instants
    <3>2. IsFiniteSet(0 .. LastInstant) /\ 0 .. LastInstant \subseteq Int
      BY FS_Interval, ZoneNumbers
    <3>3. IsFiniteSet(Days!DayOf(instant)) /\ Days!DayOf(instant) \subseteq Int
      BY <3>1, <3>2, FS_Subset
    <3>4. instant \in Days!DayOf(instant)
      BY FirstIs, DayHolds, ZoneNumbers DEF DayInv
    <3> QED  BY <3>3, <3>4, SmallestNumber
  <2>3. PICK x \in Days!DayOf(instant) : m = x
    BY <1>1, <2>2, DayBegins
  <2> QED  BY <2>3 DEF Days!DayOf, Days!Instants
<1>4. Days!Late = (f + e) - m
  BY <1>1, <1>2 DEF Days!Late
<1>5. f - m \in {-Hour, 0, Hour}
  BY <1>1, NearDay
<1>6. e \in 0 .. Second - 1
  BY <1>1, StartIs DEF DayInv
<1>7. Days!Late - (f - m) = e
  BY <1>1, <1>3, <1>4
<1> QED  BY <1>5, <1>6, <1>7 DEF Days!BoundsAreNear

\* The instants of the trend.
Back(i) == instant - i * DayLength
Today == Date(instant)
Elsewhere == (instant + Before) \div DayLength      \* the date, if the clocks had not been moved

LEMMA SecondsAreShort == Second <= Hour
<1>1. PICK s \in Nat \ {0}, h \in Nat \ {0} : s = Second /\ h = Hour /\ h % s = 0
  BY ZoneNumbers
<1>2. ASSUME h < s PROVE FALSE
  <2>1. s * 0 <= h /\ h < s * 0 + s /\ 0 \in Int /\ h \in Int
    BY <1>1, <1>2
  <2>2. h \div s = 0
    BY <1>1, <2>1, QuotientIs
  <2>3. h = s * (h \div s) + (h % s)
    BY <1>1, Divided
  <2> QED  BY <1>1, <2>2, <2>3
<1> QED  BY <1>1, <1>2

LEMMA BackTypes ==
  ASSUME DayInv, NEW i \in 0 .. TrendDays - 1
  PROVE  /\ i \in Nat /\ i * DayLength \in Nat /\ Back(i) \in Int
         /\ i * DayLength <= (TrendDays - 1) * DayLength /\ (TrendDays - 1) * DayLength \in Nat
         /\ Back(i) <= instant /\ instant - (TrendDays - 1) * DayLength <= Back(i)
<1>1. PICK n \in Nat, k \in Nat : n = TrendDays - 1 /\ k = DayLength /\ i \in Nat /\ i <= n
  BY ZoneNumbers
<1>2. PICK c \in Nat : n = i + c
  <2>1. n - i \in Nat /\ n = i + (n - i)
    BY <1>1
  <2> QED  BY <2>1
<1>3. i * k \in Nat /\ c * k \in Nat /\ (i + c) * k = i * k + c * k
  BY <1>1, <1>2
<1>4. instant \in Int
  BY DEF DayInv
<1> QED  BY <1>1, <1>2, <1>3, <1>4 DEF Back

\* A label is the date of the day before the one it stands for.
LEMMA LabelIs ==
  ASSUME DayInv, NEW t \in Int
  PROVE  Days!palestineStartOfDay(t) \div DayLength = Date(t) - 1
<1>1. PICK a \in Nat, d \in Int, e \in Nat : a = Days!Ahead(t) /\ d = Date(t) /\ e = t % Second
  <2>1. Days!Ahead(t) \in Nat /\ Date(t) \in Int
    BY DateIs
  <2>2. t % Second \in Nat
    BY StartIs, ZoneNumbers
  <2> QED  BY <2>1, <2>2
<1>2. e < Second /\ Second <= Hour /\ Hour <= a /\ a <= DayLength
  <2>1. e \in 0 .. Second - 1
    BY <1>1, StartIs
  <2>2. a \in {Before, After}
    BY <1>1, DateIs
  <2> QED  BY <2>1, <2>2, Offsets, SecondsAreShort, ZoneNumbers
<1>3. PICK k \in Nat \ {0} : k = DayLength
  BY ZoneNumbers
<1>4. k * d \in Int /\ k * (d - 1) = k * d - k
  BY <1>3
<1>5. PICK s \in Int : s = Days!palestineStartOfDay(t) /\ s = k * d - a + e
  <2>1. Days!palestineStartOfDay(t) = k * d - a + e
    BY <1>1, <1>3, StartIs
  <2>2. k * d - a + e \in Int
    BY <1>4
  <2> QED  BY <2>1, <2>2
<1>6. k * (d - 1) <= s /\ s < k * (d - 1) + k
  BY <1>2, <1>3, <1>4, <1>5, ZoneNumbers
<1>7. s \div k = d - 1
  <2>1. d - 1 \in Int
    OBVIOUS
  <2> QED  BY <1>6, <2>1, QuotientIs
<1> QED  BY <1>1, <1>3, <1>5, <1>7

\* A whole number of days back is as many dates back, on the same clock.
LEMMA DaysBack ==
  ASSUME DayInv, NEW i \in 0 .. TrendDays - 1
  PROVE  Date(Back(i)) = (instant + Days!Ahead(Back(i))) \div DayLength - i
<1>1. PICK a \in Nat, u \in Int, b \in Int, k \in Nat \ {0}, now1 \in Int :
        a = Days!Ahead(Back(i)) /\ u = instant + a /\ b = Back(i) /\ k = DayLength /\ now1 = instant
  <2>1. Back(i) \in Int /\ instant \in Int
    BY BackTypes DEF DayInv
  <2>2. Days!Ahead(Back(i)) \in Nat
    BY <2>1, DateIs
  <2>3. instant + Days!Ahead(Back(i)) \in Int
    BY <2>1, <2>2
  <2> QED  BY <2>1, <2>2, <2>3, ZoneNumbers
<1>2. PICK q \in Int : q = u \div k /\ k * q \in Int /\ k * q <= u /\ u < k * q + k
  <2>1. u \div k \in Int
    BY Divided
  <2> QED  BY <2>1, QuotientIs
<1>3. i \in Nat /\ i * k \in Nat /\ b = now1 - i * k
  BY <1>1, BackTypes DEF Back
<1>4. q - i \in Int /\ k * (q - i) = k * q - i * k
  BY <1>2, <1>3
<1>5. k * (q - i) <= b + a /\ b + a < k * (q - i) + k
  BY <1>1, <1>2, <1>3, <1>4
<1>6. Date(b) = q - i
  BY <1>1, <1>4, <1>5, DateIs
<1> QED  BY <1>1, <1>2, <1>6

LEMMA TodayIs == DayInv => Today = (instant + Days!Ahead(instant)) \div DayLength
BY DEF Today, Date, Days!getPalestineDateParts, Days!Local

\* The other clock is a date off at most.
LEMMA ElsewhereIs ==
  ASSUME DayInv, switch <= instant
  PROVE  Today \in Int /\ Elsewhere \in {Today - 1, Today, Today + 1}
<1>1. PICK b \in Nat, a \in Nat, k \in Nat \ {0}, u \in Int, v \in Int :
        b = Before /\ a = After /\ k = DayLength /\ u = instant + a /\ v = instant + b
  <2>1. Before \in Nat /\ After \in Nat /\ instant \in Int
    BY Offsets DEF DayInv
  <2>2. instant + Before \in Int /\ instant + After \in Int
    BY <2>1
  <2> QED  BY <2>1, <2>2, ZoneNumbers
<1>2. v <= u + k /\ u <= v + k
  <2>1. (a = b + Hour \/ b = a + Hour) /\ Hour <= k /\ Hour \in Nat
    BY <1>1, Offsets, ZoneNumbers
  <2>2. instant \in Int
    BY DEF DayInv
  <2> QED  BY <1>1, <2>1, <2>2
<1>3. PICK p \in Int : p = u \div k /\ k * p \in Int /\ k * p <= u /\ u < k * p + k
  <2>1. u \div k \in Int
    BY Divided
  <2> QED  BY <2>1, QuotientIs
<1>4. PICK q \in Int : q = v \div k /\ k * q \in Int /\ k * q <= v /\ v < k * q + k
  <2>1. v \div k \in Int
    BY Divided
  <2> QED  BY <2>1, QuotientIs
<1>5. k * (p + 1) = k * p + k /\ k * (q + 1) = k * q + k /\ p + 1 \in Int /\ q + 1 \in Int
  BY <1>1
<1>6. k * q < k * (p + 1) + k /\ k * p < k * (q + 1) + k
  BY <1>2, <1>3, <1>4, <1>5
<1>7. q <= p + 1 /\ p <= q + 1
  BY <1>5, <1>6, OneQuotient
<1>8. Days!Ahead(instant) = After
  <2>1. instant \in Int /\ switch \in Int
    BY SwitchType DEF DayInv
  <2> QED  BY <2>1, AheadIs
<1>9. p = Today /\ q = Elsewhere
  BY <1>1, <1>3, <1>4, <1>8, TodayIs DEF Elsewhere
<1>10. q \in {p - 1, p, p + 1}
  BY <1>7
<1> QED  BY <1>9, <1>10

\* Each date of the trend is as many days before today, or before the date of the other clock
\* if it is before the clocks were moved.
LEMMA TrendDate ==
  ASSUME DayInv, NEW i \in 0 .. TrendDays - 1
  PROVE  /\ Today \in Int
         /\ Back(i) < switch /\ switch <= instant => Date(Back(i)) = Elsewhere - i
         /\ ~(Back(i) < switch /\ switch <= instant) => Date(Back(i)) = Today - i
<1>1. instant \in Int /\ Back(i) \in Int /\ Back(i) <= instant /\ switch \in Int /\ i \in Int
  BY BackTypes, SwitchType DEF DayInv
<1>2. Today \in Int
  BY <1>1, DateIs DEF Today
<1>3. CASE Back(i) < switch /\ switch <= instant
  <2>1. Days!Ahead(Back(i)) = Before
    BY <1>1, <1>3, AheadIs
  <2> QED  BY <1>2, <1>3, <2>1, DaysBack DEF Elsewhere
<1>4. CASE ~(Back(i) < switch /\ switch <= instant)
  <2>1. Days!Ahead(Back(i)) = Days!Ahead(instant)
    BY <1>1, <1>4, AheadIs
  <2> QED  BY <1>2, <1>4, <2>1, DaysBack, TodayIs
<1> QED  BY <1>3, <1>4

\* The dates the trend shows.
Shown == {Date(Back(i)) : i \in 0 .. TrendDays - 1}

\* Later is as far or further back.
LEMMA BackFalls ==
  ASSUME DayInv, NEW i \in 0 .. TrendDays - 1, NEW j \in 0 .. TrendDays - 1, i <= j
  PROVE  Back(j) <= Back(i)
<1>1. PICK k \in Nat, c \in Nat : k = DayLength /\ j = i + c
  <2>1. j - i \in Nat /\ j = i + (j - i)
    BY ZoneNumbers
  <2> QED  BY <2>1, ZoneNumbers
<1>2. i \in Nat /\ i * k \in Nat /\ c * k \in Nat /\ j * k = i * k + c * k
  BY <1>1
<1>3. instant \in Int
  BY DEF DayInv
<1> QED  BY <1>1, <1>2, <1>3 DEF Back

LEMMA BackToNow == DayInv => Back(0) = instant
<1>1. ASSUME DayInv PROVE instant \in Int /\ 0 * DayLength = 0
  BY <1>1, ZoneNumbers DEF DayInv
<1> QED  BY <1>1 DEF Back

LEMMA ShownInRange ==
  ASSUME DayInv
  PROVE  Today \in Int /\ Shown \subseteq (Today - TrendDays) .. Today
<1>1. PICK n \in Nat \ {0} : n = TrendDays
  BY ZoneNumbers
<1>2. Today \in Int
  BY DateIs DEF DayInv, Today
<1>3. ASSUME NEW i \in 0 .. n - 1 PROVE Date(Back(i)) \in (Today - n) .. Today
  <2>1. CASE Back(i) < switch /\ switch <= instant
    <3>1. i # 0
      <4>1. switch \in Int /\ instant \in Int
        BY SwitchType DEF DayInv
      <4> QED  BY <2>1, <4>1, BackToNow
    <3>2. Date(Back(i)) = Elsewhere - i /\ Elsewhere \in {Today - 1, Today, Today + 1}
      BY <1>1, <2>1, TrendDate, ElsewhereIs
    <3>3. i \in Int /\ 1 <= i /\ i <= n - 1
      BY <3>1
    <3> QED  BY <1>2, <3>2, <3>3
  <2>2. CASE ~(Back(i) < switch /\ switch <= instant)
    <3>1. Date(Back(i)) = Today - i
      BY <1>1, <2>2, TrendDate
    <3> QED  BY <1>2, <3>1
  <2> QED  BY <2>1, <2>2
<1> QED  BY <1>1, <1>2, <1>3 DEF Shown

\* If all the trend is on one clock it has just its days.
LEMMA ShownOnOneClock ==
  ASSUME DayInv, \A i \in 0 .. TrendDays - 1 : Date(Back(i)) = Today - i
  PROVE  Shown = (Today - TrendDays + 1) .. Today
<1>1. PICK n \in Nat \ {0}, d \in Int : n = TrendDays /\ d = Today
  BY ZoneNumbers, ShownInRange
<1>2. ASSUME NEW v \in (d - n + 1) .. d PROVE v \in Shown
  <2>1. PICK i \in 0 .. n - 1 : v = d - i
    <3>1. d - v \in 0 .. n - 1 /\ v = d - (d - v)
      OBVIOUS
    <3> QED  BY <3>1
  <2> QED  BY <1>1, <2>1 DEF Shown
<1>3. ASSUME NEW v \in Shown PROVE v \in (d - n + 1) .. d
  <2>1. PICK i \in 0 .. n - 1 : v = d - i
    BY <1>1 DEF Shown
  <2> QED  BY <2>1
<1> QED  BY <1>1, <1>2, <1>3

\* A set that holds n - 1 numbers has at least so many.
LEMMA AtLeast ==
  ASSUME NEW S, IsFiniteSet(S), NEW a \in Int, NEW b \in Int, NEW n \in Nat, b - a + 1 = n, a .. b \subseteq S
  PROVE  Cardinality(S) \in Nat /\ n <= Cardinality(S)
<1>1. IsFiniteSet(a .. b) /\ Cardinality(a .. b) = n
  <2>1. IsFiniteSet(a .. b) /\ Cardinality(a .. b) = IF a > b THEN 0 ELSE b - a + 1
    BY FS_Interval
  <2> QED  BY <2>1
<1>2. Cardinality(a .. b) <= Cardinality(S)
  BY FS_Subset
<1> QED  BY <1>1, <1>2, FS_CardinalityType

LEMMA AtLeastButOne ==
  ASSUME NEW S, IsFiniteSet(S), NEW a \in Int, NEW b \in Int, NEW n \in Nat, b - a + 1 = n + 1,
         NEW x, (a .. b) \ {x} \subseteq S
  PROVE  Cardinality(S) \in Nat /\ n <= Cardinality(S)
<1>1. IsFiniteSet(a .. b) /\ Cardinality(a .. b) = n + 1
  <2>1. IsFiniteSet(a .. b) /\ Cardinality(a .. b) = IF a > b THEN 0 ELSE b - a + 1
    BY FS_Interval
  <2> QED  BY <2>1
<1>2. IsFiniteSet((a .. b) \ {x}) /\ Cardinality((a .. b) \ {x}) \in {n, n + 1}
  <2>1. IsFiniteSet((a .. b) \ {x})
        /\ Cardinality((a .. b) \ {x}) = IF x \in a .. b THEN Cardinality(a .. b) - 1 ELSE Cardinality(a .. b)
    BY <1>1, FS_RemoveElement
  <2> QED  BY <1>1, <2>1
<1>3. Cardinality((a .. b) \ {x}) <= Cardinality(S)
  BY FS_Subset
<1>4. Cardinality(S) \in Nat
  BY FS_CardinalityType
<1> QED  BY <1>2, <1>3, <1>4

\* One date is missed at most.
LEMMA ShownIsEnough ==
  ASSUME DayInv
  PROVE  Cardinality(Shown) \in Nat /\ TrendDays - 1 <= Cardinality(Shown)
<1>1. PICK n \in Nat, d \in Int : TrendDays = n + 1 /\ d = Today
  <2>1. TrendDays - 1 \in Nat /\ TrendDays = (TrendDays - 1) + 1
    BY ZoneNumbers
  <2> QED  BY <2>1, ShownInRange
<1> DEFINE Other(i) == Back(i) < switch /\ switch <= instant
<1>2. IsFiniteSet(Shown)
  <2>1. IsFiniteSet((Today - TrendDays) .. Today)
    <3>1. Today - TrendDays \in Int
      BY <1>1
    <3> QED  BY <1>1, <3>1, FS_Interval
  <2> QED  BY <2>1, ShownInRange, FS_Subset
<1>3. \A i \in 0 .. n : Date(Back(i)) = IF Other(i) THEN Elsewhere - i ELSE Today - i
  <2> SUFFICES ASSUME NEW i \in 0 .. n PROVE Date(Back(i)) = IF Other(i) THEN Elsewhere - i ELSE Today - i
    OBVIOUS
  <2>1. i \in 0 .. TrendDays - 1
    BY <1>1
  <2> QED  BY <2>1, TrendDate
<1>4. \A i \in 0 .. n : Date(Back(i)) \in Shown
  BY <1>1 DEF Shown
<1>5. \A i, j \in 0 .. n : i <= j /\ Other(i) => Other(j)
  <2> SUFFICES ASSUME NEW i \in 0 .. n, NEW j \in 0 .. n, i <= j, Other(i) PROVE Other(j)
    OBVIOUS
  <2>1. i \in 0 .. TrendDays - 1 /\ j \in 0 .. TrendDays - 1
    BY <1>1
  <2>2. Back(j) <= Back(i)
    BY <2>1, BackFalls
  <2>3. Back(i) \in Int /\ Back(j) \in Int /\ switch \in Int
    BY <2>1, BackTypes, SwitchType
  <2> QED  BY <2>2, <2>3
<1>6. Other(0) => FALSE
  <2>1. switch \in Int /\ instant \in Int
    BY SwitchType DEF DayInv
  <2> QED  BY <2>1, BackToNow
<1>7. CASE (\A i \in 0 .. n : ~Other(i)) \/ Elsewhere = Today
  <2>1. \A i \in 0 .. n : Date(Back(i)) = Today - i
    BY <1>3, <1>7
  <2>2. Shown = (Today - TrendDays + 1) .. Today
    BY <1>1, <2>1, ShownOnOneClock
  <2>3. PICK a \in Int : a = d - n /\ d - a + 1 = n + 1
    <3>1. d - n \in Int /\ d - (d - n) + 1 = n + 1
      OBVIOUS
    <3> QED  BY <3>1
  <2>4. a + 1 = d - n + 1 /\ a + 1 \in Int /\ d - (a + 1) + 1 = n
    BY <2>3
  <2>5. Today - TrendDays + 1 = a
    BY <1>1, <2>3
  <2>6. a .. d \subseteq Shown
    BY <1>1, <2>2, <2>5
  <2>7. (a + 1) .. d \subseteq Shown
    BY <2>6
  <2>8. TrendDays - 1 = n
    BY <1>1
  <2> QED  BY <1>2, <2>4, <2>7, <2>8, AtLeast
<1>8. ASSUME NEW i \in 0 .. n, Other(i), Elsewhere = Today + 1
      PROVE  (d - n + 1) .. d \subseteq Shown
  <2> SUFFICES ASSUME NEW v \in (d - n + 1) .. d PROVE v \in Shown
    OBVIOUS
  <2>1. PICK j \in 0 .. n - 1 : v = d - j
    <3>1. d - v \in 0 .. n - 1 /\ v = d - (d - v)
      OBVIOUS
    <3> QED  BY <3>1
  <2>2. j \in 0 .. n /\ j + 1 \in 0 .. n
    BY <2>1
  <2>3. CASE ~Other(j)
    <3>1. Date(Back(j)) = v
      BY <1>1, <1>3, <2>1, <2>2, <2>3
    <3> QED  BY <1>4, <2>2, <3>1
  <2>4. CASE Other(j)
    <3>1. Other(j + 1)
      <4>1. j <= j + 1
        BY <2>1
      <4> QED  BY <1>5, <2>2, <2>4, <4>1
    <3>2. Date(Back(j + 1)) = Elsewhere - (j + 1)
      BY <1>3, <2>2, <3>1
    <3>3. Elsewhere - (j + 1) = v
      BY <1>1, <1>8, <2>1
    <3> QED  BY <1>4, <2>2, <3>2, <3>3
  <2> QED  BY <2>3, <2>4
<1>9. ASSUME NEW i \in 0 .. n, Other(i), Elsewhere = Today - 1
      PROVE  \E x : ((d - n) .. d) \ {x} \subseteq Shown
  <2>1. PICK k \in 0 .. n : Other(k) /\ \A j \in 0 .. n : Other(j) => k <= j
    <3> DEFINE S == {j \in 0 .. n : Other(j)}
    <3>1. IsFiniteSet(0 .. n) /\ 0 .. n \subseteq Int
      BY FS_Interval
    <3>2. IsFiniteSet(S) /\ S \subseteq Int /\ S # {}
      BY <1>9, <3>1, FS_Subset
    <3> HIDE DEF S
    <3>3. PICK k \in S : \A j \in S : k <= j
      BY <3>2, SmallestNumber
    <3> QED  BY <3>3 DEF S
  <2>2. ASSUME NEW v \in ((d - n) .. d) \ {d - k} PROVE v \in Shown
    <3>1. PICK j \in 0 .. n : v = d - j
      <4>1. d - v \in 0 .. n /\ v = d - (d - v)
        OBVIOUS
      <4> QED  BY <4>1
    <3>2. j # k
      BY <2>2, <3>1
    <3>3. CASE j < k
      <4>1. ~Other(j)
        BY <2>1, <3>3
      <4>2. Date(Back(j)) = v
        BY <1>1, <1>3, <3>1, <4>1
      <4> QED  BY <1>4, <4>2
    <3>4. CASE k < j
      <4>1. j - 1 \in 0 .. n /\ k <= j - 1
        BY <3>4
      <4>2. Other(j - 1)
        BY <1>5, <2>1, <4>1
      <4>3. Date(Back(j - 1)) = Elsewhere - (j - 1)
        BY <1>3, <4>1, <4>2
      <4>4. Elsewhere - (j - 1) = v
        BY <1>1, <1>9, <3>1
      <4> QED  BY <1>4, <4>1, <4>3, <4>4
    <3> QED  BY <3>2, <3>3, <3>4
  <2> QED  BY <2>2
<1>10. CASE \E i \in 0 .. n : Other(i)
  <2>1. Elsewhere \in {Today - 1, Today, Today + 1}
    BY <1>10, ElsewhereIs
  <2> HIDE DEF Other
  <2>2. CASE Elsewhere = Today + 1
    <3>1. (d - n + 1) .. d \subseteq Shown
      BY <1>8, <1>10, <2>2
    <3>2. d - (d - n + 1) + 1 = n /\ d - n + 1 \in Int
      OBVIOUS
    <3>3. TrendDays - 1 = n
      BY <1>1
    <3> QED  BY <1>2, <3>1, <3>2, <3>3, AtLeast
  <2>3. CASE Elsewhere = Today - 1
    <3>1. PICK x : ((d - n) .. d) \ {x} \subseteq Shown
      BY <1>9, <1>10, <2>3
    <3>2. d - (d - n) + 1 = n + 1 /\ d - n \in Int
      OBVIOUS
    <3>3. TrendDays - 1 = n
      BY <1>1
    <3> QED  BY <1>2, <3>1, <3>2, <3>3, AtLeastButOne
  <2> QED  BY <1>7, <2>1, <2>2, <2>3
<1> QED  BY <1>7, <1>10

LEMMA TrendHolds ==
  ASSUME DayInv
  PROVE  Days!TrendHasEachDay
<1> DEFINE trend == Days!RevenueTrend
<1>1. DOMAIN trend = 0 .. TrendDays - 1
  BY DEF Days!RevenueTrend
<1>2. ASSUME NEW i \in 0 .. TrendDays - 1
      PROVE  /\ trend[i].date = Date(Back(i))
             /\ trend[i].label = Days!palestineStartOfDay(Back(i)) \div DayLength
  BY DEF Days!RevenueTrend, Date, Back
<1>3. {trend[i].date : i \in DOMAIN trend} = Shown
  BY <1>1, <1>2 DEF Shown
<1>4. \A i \in DOMAIN trend : trend[i].label \in {trend[i].date - 1, trend[i].date}
  <2> SUFFICES ASSUME NEW i \in 0 .. TrendDays - 1 PROVE trend[i].label = trend[i].date - 1
    BY <1>1
  <2>1. Back(i) \in Int
    BY BackTypes
  <2>2. Days!palestineStartOfDay(Back(i)) \div DayLength = Date(Back(i)) - 1
    BY <2>1, LabelIs
  <2> QED  BY <1>2, <2>2
<1>5. ASSUME ~(switch > instant - (TrendDays - 1) * DayLength /\ switch <= instant)
      PROVE  Shown = (Today - TrendDays + 1) .. Today
  <2>1. ASSUME NEW i \in 0 .. TrendDays - 1 PROVE Date(Back(i)) = Today - i
    <3>1. Back(i) \in Int /\ instant - (TrendDays - 1) * DayLength <= Back(i) /\ (TrendDays - 1) * DayLength \in Nat
      BY BackTypes
    <3>2. switch \in Int /\ instant \in Int
      BY SwitchType DEF DayInv
    <3>3. ~(Back(i) < switch /\ switch <= instant)
      <4>1. PICK c \in Nat : c = (TrendDays - 1) * DayLength
        BY <3>1
      <4> QED  BY <1>5, <3>1, <3>2, <4>1
    <3> QED  BY <3>3, TrendDate
  <2> QED  BY <2>1, ShownOnOneClock
<1>6. Days!Cardinality(Shown) >= TrendDays - 1
  <2>1. Days!Cardinality(Shown) = Cardinality(Shown)
    BY DEF Days!Cardinality, Cardinality
  <2> QED  BY <2>1, ShownIsEnough, ZoneNumbers
<1>7. Today = Days!getPalestineDateParts(instant)
  BY DEF Today, Date
<1> HIDE DEF trend
<1> QED  BY <1>3, <1>4, <1>5, <1>6, <1>7, ShownInRange DEF Days!TrendHasEachDay, trend

LEMMA DayInit == Days!Init => DayInv
<1>1. TrendDays * DayLength \in Int /\ Hour \in Int
  BY ZoneNumbers
<1>2. TrendDays * DayLength - Hour \in Int /\ TrendDays * DayLength - Hour <= TrendDays * DayLength - Hour
  BY <1>1
<1> QED  BY <1>2, ZoneNumbers DEF Days!Init, DayInv

LEMMA DayNext == DayInv /\ Days!Next => DayInv'
<1> SUFFICES ASSUME DayInv, Days!Next PROVE DayInv'
  OBVIOUS
<1>1. instant \in Int /\ instant < LastInstant /\ instant' = instant + 1 /\ UNCHANGED <<switch, spring>>
  BY DEF DayInv, Days!Next, Days!Tick
<1>2. PICK c \in Int : c = TrendDays * DayLength - Hour /\ c <= instant
  BY ZoneNumbers DEF DayInv
<1>3. instant' \in Int /\ c <= instant' /\ instant' <= LastInstant
  BY <1>1, <1>2, ZoneNumbers
<1> QED  BY <1>1, <1>2, <1>3 DEF DayInv

LEMMA DayStill == DayInv /\ UNCHANGED dayVars => DayInv'
BY DEF DayInv, dayVars

LEMMA DayApart == [Next]_vars /\ ~DayStep => UNCHANGED dayVars
BY DEF Next, vars, services, RoomStep, BookStep, SchoolStep, PlanStep, DoorStep, TillStep, SiteStep,
       RouterStep, PeopleStep, EntryStep, LedgerStep, CallStep

LEMMA DayInvariant == Spec => []DayInv
<1>1. Init => DayInv
  BY DayInit DEF Init
<1>2. DayInv /\ [Next]_vars => DayInv'
  BY DayNext, DayStill, DayApart DEF DayStep
<1> QED  BY <1>1, <1>2, PTL DEF Spec

\* The bounds that lib/timezone computes for a day hold that day and no other if the clocks
\* are not moved on it, are an hour off at most if they are, and the days of the dashboard's
\* trend are the last ones, of which the clocks hide one at most (lib/timezone.ts,
\* dashboard/service.ts getRevenueTrend).
THEOREM DaysHaveTheirBounds == Spec => []DaysAreWhole
<1>1. DayInv => DaysAreWhole
  BY BoundsHold, BoundsNear, TrendHolds DEF DaysAreWhole, Days!DaysAreWhole
<1> QED  BY <1>1, DayInvariant, PTL

-----------------------------------------------------------------------------
(* The types of all the services.                                          *)

LEMMA BookTypeInvariant ==
    ASSUME NoCardPhone \notin CardPhone
    PROVE  Spec => []Book!TypeOK
<1>1. Book!Init => BookInv
  BY BookInit
<1>2. BookInv /\ [Book!Next]_(Book!vars) => BookInv'
  BY BookNext
<1>3. BookInv => Book!TypeOK
  BY DEF BookInv
<1> QED  BY <1>1, <1>2, <1>3, BookImplemented, PTL DEF Book!Spec

LEMMA DayTypes == DayInv => Days!TypeOK
BY FirstIs, ZoneNumbers DEF DayInv, Days!TypeOK, Days!Instants

Focused == focus \in Service

LEMMA FocusInvariant == Spec => []Focused
<1>1. Init => Focused
  BY DEF Init, Focused
<1>2. Focused /\ [Next]_vars => Focused'
  BY DEF Focused, Next, vars, services, RoomStep, BookStep, SchoolStep, PlanStep, DoorStep, TillStep, SiteStep,
         RouterStep, PeopleStep, EntryStep, LedgerStep, CallStep, DayStep
<1> QED  BY <1>1, <1>2, PTL DEF Spec

\* What the services suppose of their numbers and names, together: the hypotheses of their
\* theorems.
OfficeNames ==
    /\ RoomNames /\ DoorNumbers /\ Coins /\ PeopleNames /\ TillNumbers /\ CallNumbers /\ Prices
    /\ RouterNames /\ NoRequest \notin Clerk /\ NoCardPhone \notin CardPhone
    /\ MaxOps \in Nat /\ MaxCalls \in Nat

\* The rows, requests and counters of every service keep their types in the program; among
\* them that an enrolled trainee has an open course (the cascade of courses/courses.service),
\* and that who is online is near (lib/mikrotik).
THEOREM OfficeTypes ==
    ASSUME OfficeNames
    PROVE  Spec => []TypeOK
<1>1. /\ Spec => []Focused
      /\ Spec => []RoomInv
      /\ Spec => []Book!TypeOK
      /\ Spec => []School!TypeOK
      /\ Spec => []PlanInv
      /\ Spec => []DoorInv
      /\ Spec => []Till!TypeOK
  BY FocusInvariant, RoomInvariant, BookTypeInvariant, SchoolTypeInvariant, PlanInvariant,
     DoorInvariant, TillInvariant DEF OfficeNames
<1>2. EntryNumbers
  BY OfficeAssumption DEF OfficeNames, EntryNumbers, Doors!Types
<1>3. /\ Spec => []SiteInv
      /\ Spec => []Router!TypeOK
      /\ Spec => []PeopleInv
      /\ Spec => []EntryInv
      /\ Spec => []Ledger!TypeOK
      /\ Spec => []CallInv
      /\ Spec => []DayInv
  BY <1>2, SiteInvariant, RouterRestInvariant, PeopleInvariant, EntryInvariant, LedgerTypes,
     CallInvariant, DayInvariant DEF OfficeNames
<1>4. /\ RoomInv => Rooms!TypeOK
      /\ PlanInv => Plans!TypeOK
      /\ DoorInv => Door!TypeOK
      /\ SiteInv => Site!TypeOK
      /\ PeopleInv => People!TypeOK
      /\ EntryInv => Doors!TypeOK
      /\ CallInv => Outreach!TypeOK
      /\ DayInv => Days!TypeOK
  BY DayTypes DEF RoomInv, PlanInv, DoorInv, SiteInv, PeopleInv, EntryInv, CallInv
<1>5. /\ Focused /\ RoomInv /\ Book!TypeOK /\ School!TypeOK /\ PlanInv /\ DoorInv
      /\ Till!TypeOK /\ SiteInv /\ Router!TypeOK /\ PeopleInv /\ EntryInv /\ Ledger!TypeOK
      /\ CallInv /\ DayInv
      => TypeOK
  BY <1>4 DEF TypeOK, Focused
<1> QED  BY <1>1, <1>3, <1>5, PTL
=============================================================================
