----------------------------- MODULE CafeProofs -----------------------------
(***************************************************************************)
(* Proofs, for every set of things, rows, requests and quantities, that    *)
(* the state of Cafe keeps its types, that only a batch oversells, and     *)
(* that units are neither lost nor made while no write is overtaken.       *)
(***************************************************************************)
EXTENDS Cafe, TLAPS, Sums

-----------------------------------------------------------------------------
(* Types.                                                                  *)

OrdersOK(f) == f \in [Orders -> Row] /\ \A o \in Orders : f[o].st = "live" => f[o].q > 0

SalesOK(f) == f \in [Sales -> SaleRow] /\ \A n \in Sales : f[n].st = "live" => f[n].q > 0

LEMMA Bounds == MaxStock \in Nat /\ \A n \in Qtys : n \in Units /\ n > 0
BY QtysAssumption, StockAssumption DEF Units

LEMMA NothingType == Nothing \in [Things -> Int]
BY DEF Nothing

LEMMA IdleType == Idle \in Request /\ Sane(Idle)
<1>1. 0 \in Quantity
  BY Bounds DEF Quantity
<1> QED  BY <1>1, NothingType DEF Idle, Request, Sane, Edits

\* A step that changes tables within their types, and gives r local variables that
\* are sane, keeps the invariant.
LEMMA GotoStep ==
  ASSUME IInv, NEW r \in Reqs, NEW local \in Request, Sane(local), Goto(r, local),
         stock' \in [Things -> Quantity], supplied' \in [Things -> Nat],
         OrdersOK(order'), SalesOK(sale'), exact' \in BOOLEAN
  PROVE  IInv'
<1>1. req \in [Reqs -> Request]
  BY DEF IInv, TypeOK
<1>2. req' \in [Reqs -> Request]
  BY <1>1 DEF Goto
<1>3. ASSUME NEW q \in Reqs
      PROVE  Sane(req'[q])
  <2>1. CASE q = r
    BY <1>1, <2>1 DEF Goto
  <2>2. CASE q # r
    <3>1. req'[q] = req[q]
      BY <1>1, <2>2 DEF Goto
    <3> QED  BY <3>1 DEF IInv
  <2> QED  BY <2>1, <2>2
<1>4. TypeOK'
  BY <1>2 DEF TypeOK, OrdersOK, SalesOK
<1>5. (\A q \in Reqs : Sane(req[q]))'
  BY <1>3
<1> QED  BY <1>4, <1>5 DEF IInv

LEMMA PutType ==
  ASSUME TypeOK, NEW r \in Reqs, NEW t, NEW less, Put(r, t, less)
  PROVE  stock' \in [Things -> Quantity]
BY DEF TypeOK, Put

LEMMA OwesType ==
  ASSUME NEW q \in Request, NEW t, NEW units \in Int
  PROVE  Owes(q, t, units) \in [Things -> Int]
<1>1. q.owed \in [Things -> Int]
  BY DEF Request
<1>2. CASE t \in Things
  <2>1. q.owed[t] + units \in Int
    BY <1>1, <1>2
  <2> QED  BY <1>1, <2>1 DEF Owes
<1>3. CASE t \notin Things
  BY <1>1, <1>3 DEF Owes
<1> QED  BY <1>2, <1>3

LEMMA RowsType ==
  ASSUME NEW i \in Things \cup {NoThing}, NEW n \in Units
  PROVE  /\ NewOrder(i, n) \in Row
         /\ \A linked \in BOOLEAN : NewSale(i, n, linked) \in SaleRow
         /\ n > 0
BY Bounds DEF NewOrder, NewSale, Row, SaleRow, Units

LEMMA TableType ==
  ASSUME IInv
  PROVE  /\ stock \in [Things -> Quantity] /\ supplied \in [Things -> Nat]
         /\ OrdersOK(order) /\ SalesOK(sale) /\ exact \in BOOLEAN
BY DEF IInv, TypeOK, OrdersOK, SalesOK

LEMMA RequestType ==
  ASSUME IInv, NEW r \in Reqs
  PROVE  req[r] \in Request /\ Sane(req[r])
BY DEF IInv, TypeOK

-----------------------------------------------------------------------------
(* The invariant, operation by operation.                                  *)

LEMMA AbortStep ==
  ASSUME IInv, NEW r \in Reqs, Abort(r)
  PROVE  IInv'
<1>1. exact' \in BOOLEAN
  BY DEF Abort
<1> QED  BY <1>1, GotoStep, IdleType, TableType DEF Abort

\* A request that starts by reading the quantity of t.
LEMMA StartType ==
  ASSUME IInv, NEW t \in Things, NEW units \in Qtys,
         NEW pc \in {"take", "counter", "restock"}, NEW op \in {"order", "sell", "restock"},
         pc # "restock" => stock[t] >= units
  PROVE  LET local == [Idle EXCEPT !.pc = pc, !.op = op, !.i = t, !.q = units,
                                   !.seen = stock[t]]
         IN  local \in Request /\ Sane(local)
<1> DEFINE local == [Idle EXCEPT !.pc = pc, !.op = op, !.i = t, !.q = units,
                                 !.seen = stock[t]]
<1>1. stock[t] \in Quantity
  BY TableType
<1>2. units \in Units /\ units > 0 /\ units \in Nat
  BY Bounds DEF Units
<1>3. local \in Request
  BY <1>1, <1>2, IdleType DEF Request, Idle
<1>4. Sane(local)
  BY <1>1, <1>2, Bounds DEF Sane, Edits, Idle, Quantity
<1> QED  BY <1>3, <1>4

LEMMA TakeLookStep ==
  ASSUME IInv, NEW r \in Reqs, NEW op \in {"order", "sell"}, NEW t \in Things,
         NEW units \in Qtys, TakeLook(r, op, t, units)
  PROVE  IInv'
BY StartType, GotoStep, TableType DEF TakeLook

LEMMA CounterLookStep ==
  ASSUME IInv, NEW r \in Reqs, NEW t \in Things, NEW units \in Qtys,
         CounterLook(r, t, units)
  PROVE  IInv'
BY StartType, GotoStep, TableType DEF CounterLook

LEMMA RestockLookStep ==
  ASSUME IInv, NEW r \in Reqs, NEW t \in Things, NEW units \in Qtys,
         RestockLook(r, t, units)
  PROVE  IInv'
BY StartType, GotoStep, TableType DEF RestockLook

LEMMA BatchLookStep ==
  ASSUME IInv, NEW r \in Reqs, NEW t \in Things, NEW a \in Qtys, NEW b \in Qtys \cup {0},
         BatchLook(r, t, a, b)
  PROVE  IInv'
<1> DEFINE local == [Idle EXCEPT !.pc = "batch", !.op = "batch", !.i = t, !.q = a, !.nq = b]
<1>1. local \in Request
  BY Bounds, IdleType DEF Request, Idle
<1>2. Sane(local)
  BY Bounds DEF Sane, Edits, Idle
<1> QED  BY <1>1, <1>2, GotoStep, TableType DEF BatchLook

LEMMA TakeStep ==
  ASSUME IInv, NEW r \in Reqs, Take(r)
  PROVE  IInv'
<1> DEFINE q == req[r]
           local == [q EXCEPT !.pc = "row", !.owed = Owes(q, q.i, q.q)]
<1>1. q \in Request /\ Sane(q) /\ q.pc = "take"
  BY RequestType DEF Take, At
<1>2. q.q \in Int
  BY <1>1, Bounds DEF Request, Units
<1>3. local \in Request
  BY <1>1, <1>2, OwesType DEF Request
<1>4. Sane(local)
  BY <1>1 DEF Sane, Edits, Request
<1>5. stock' \in [Things -> Quantity]
  BY PutType DEF Take, IInv
<1>6. exact' \in BOOLEAN
  BY DEF Take
<1> QED  BY <1>3, <1>4, <1>5, <1>6, GotoStep, TableType DEF Take

\* The line of a request, and what an edit makes of it, can be saved in a row.
LEMMA LineType ==
  ASSUME IInv, NEW r \in Reqs, ~At(r, "idle")
  PROVE  /\ req[r].q \in Units /\ req[r].q > 0 /\ req[r].i \in Things \cup {NoThing}
         /\ req[r].op \in Edits =>
              req[r].nq \in Units /\ req[r].nq > 0 /\ req[r].to \in Things \cup {NoThing}
<1>1. req[r] \in Request /\ Sane(req[r]) /\ req[r].pc # "idle"
  BY RequestType DEF At
<1> QED  BY <1>1, Bounds DEF Request, Sane, Units

LEMMA NewOrderType ==
  ASSUME IInv, NEW o \in Orders, NEW i \in Things \cup {NoThing}, NEW n \in Units,
         order' = [order EXCEPT ![o] = NewOrder(i, n)]
  PROVE  OrdersOK(order')
<1>1. OrdersOK(order) /\ NewOrder(i, n) \in Row /\ n > 0
  BY TableType, RowsType
<1>2. order' \in [Orders -> Row]
  BY <1>1 DEF OrdersOK
<1>3. ASSUME NEW x \in Orders, order'[x].st = "live"
      PROVE  order'[x].q > 0
  BY <1>1, <1>3 DEF OrdersOK, NewOrder
<1> QED  BY <1>2, <1>3 DEF OrdersOK

LEMMA NewSaleType ==
  ASSUME IInv, NEW n \in Sales, NEW i \in Things \cup {NoThing}, NEW u \in Units,
         NEW linked \in BOOLEAN, sale' = [sale EXCEPT ![n] = NewSale(i, u, linked)]
  PROVE  SalesOK(sale')
<1>1. SalesOK(sale) /\ NewSale(i, u, linked) \in SaleRow /\ u > 0
  BY TableType, RowsType
<1>2. sale' \in [Sales -> SaleRow]
  BY <1>1 DEF SalesOK
<1>3. ASSUME NEW x \in Sales, sale'[x].st = "live"
      PROVE  sale'[x].q > 0
  BY <1>1, <1>3 DEF SalesOK, NewSale
<1> QED  BY <1>2, <1>3 DEF SalesOK

LEMMA OrderRowStep ==
  ASSUME IInv, NEW r \in Reqs, OrderRow(r)
  PROVE  IInv'
<1> DEFINE q == req[r]
           local == [q EXCEPT !.pc = "sale", !.owed = Nothing]
<1>1. q \in Request /\ Sane(q) /\ q.pc = "row"
  BY RequestType DEF OrderRow, At
<1>2. local \in Request
  BY <1>1, NothingType DEF Request
<1>5. Sane(local)
  BY <1>1 DEF Request, Sane, Edits
<1>3. q.q \in Units /\ q.i \in Things \cup {NoThing}
  BY <1>1, LineType DEF At
<1>4. OrdersOK(order')
  BY <1>3, NewOrderType DEF OrderRow
<1> QED  BY <1>2, <1>4, <1>5, GotoStep, TableType DEF OrderRow

LEMMA SaleRowOfOrderStep ==
  ASSUME IInv, NEW r \in Reqs, SaleRowOfOrder(r)
  PROVE  IInv'
<1>1. req[r].q \in Units /\ req[r].i \in Things \cup {NoThing}
  BY LineType DEF SaleRowOfOrder, At
<1>2. SalesOK(sale')
  BY <1>1, NewSaleType DEF SaleRowOfOrder
<1> QED  BY <1>2, GotoStep, IdleType, TableType DEF SaleRowOfOrder

LEMMA SellRowStep ==
  ASSUME IInv, NEW r \in Reqs, SellRow(r)
  PROVE  IInv'
<1>1. req[r].q \in Units /\ req[r].i \in Things \cup {NoThing}
  BY LineType DEF SellRow, At
<1>2. SalesOK(sale')
  BY <1>1, NewSaleType DEF SellRow
<1> QED  BY <1>2, GotoStep, IdleType, TableType DEF SellRow

LEMMA BatchReadStep ==
  ASSUME IInv, NEW r \in Reqs, BatchRead(r)
  PROVE  IInv'
<1> DEFINE q == req[r]
           local == [q EXCEPT !.pc = "lines", !.seen = stock[q.i]]
<1>1. q \in Request /\ Sane(q) /\ q.pc = "batch"
  BY RequestType DEF BatchRead, At
<1>2. stock[q.i] \in Quantity
  BY <1>1, TableType DEF Sane
<1>3. local \in Request
  BY <1>1, <1>2 DEF Request
<1>4. Sane(local)
  BY <1>1 DEF Request, Sane, Edits
<1> QED  BY <1>3, <1>4, GotoStep, TableType DEF BatchRead

LEMMA BatchCommitStep ==
  ASSUME IInv, NEW r \in Reqs, BatchCommit(r)
  PROVE  IInv'
<1> DEFINE q == req[r]
<1>1. q.q \in Units /\ q.q > 0 /\ q.i \in Things \cup {NoThing} /\ q.nq \in Units \cup {0}
  BY LineType, RequestType DEF BatchCommit, At, Request
<1>2. PICK o1, o2 \in Orders, n1, n2 \in Sales :
        /\ order[o1].st = "none" /\ order[o2].st = "none" /\ (o1 = o2) = (q.nq = 0)
        /\ sale[n1].st = "none" /\ sale[n2].st = "none" /\ (n1 = n2) = (q.nq = 0)
        /\ order' = [order EXCEPT ![o2] = NewOrder(q.i, q.nq), ![o1] = NewOrder(q.i, q.q)]
        /\ sale' = [sale EXCEPT ![n2] = NewSale(q.i, q.nq, TRUE),
                                ![n1] = NewSale(q.i, q.q, TRUE)]
  BY DEF BatchCommit
<1>3. OrdersOK(order) /\ SalesOK(sale)
  BY TableType
<1>4. NewOrder(q.i, q.q) \in Row /\ NewSale(q.i, q.q, TRUE) \in SaleRow
  BY <1>1, RowsType
<1>5. NewOrder(q.i, q.nq) \in Row /\ NewSale(q.i, q.nq, TRUE) \in SaleRow
  BY <1>1 DEF NewOrder, NewSale, Row, SaleRow
<1>6. q.nq = 0 \/ q.nq > 0
  BY <1>1 DEF Units
<1>7. OrdersOK(order')
  <2>1. order' \in [Orders -> Row]
    BY <1>2, <1>3, <1>4, <1>5 DEF OrdersOK
  <2>2. ASSUME NEW x \in Orders, order'[x].st = "live"
        PROVE  order'[x].q > 0
    <3>1. CASE x = o1
      BY <1>1, <1>2, <1>3, <3>1 DEF OrdersOK, NewOrder
    <3>2. CASE x # o1 /\ x = o2
      BY <1>2, <1>3, <1>6, <3>2 DEF OrdersOK, NewOrder
    <3>3. CASE x # o1 /\ x # o2
      BY <1>2, <1>3, <2>2, <3>3 DEF OrdersOK
    <3> QED  BY <3>1, <3>2, <3>3
  <2> QED  BY <2>1, <2>2 DEF OrdersOK
<1>8. SalesOK(sale')
  <2>1. sale' \in [Sales -> SaleRow]
    BY <1>2, <1>3, <1>4, <1>5 DEF SalesOK
  <2>2. ASSUME NEW x \in Sales, sale'[x].st = "live"
        PROVE  sale'[x].q > 0
    <3>1. CASE x = n1
      BY <1>1, <1>2, <1>3, <3>1 DEF SalesOK, NewSale
    <3>2. CASE x # n1 /\ x = n2
      BY <1>2, <1>3, <1>6, <3>2 DEF SalesOK, NewSale
    <3>3. CASE x # n1 /\ x # n2
      BY <1>2, <1>3, <2>2, <3>3 DEF SalesOK
    <3> QED  BY <3>1, <3>2, <3>3
  <2> QED  BY <2>1, <2>2 DEF SalesOK
<1>9. stock' \in [Things -> Quantity] /\ exact' \in BOOLEAN
  BY PutType DEF BatchCommit, IInv
<1> QED  BY <1>7, <1>8, <1>9, GotoStep, IdleType, TableType DEF BatchCommit

LEMMA CounterCommitStep ==
  ASSUME IInv, NEW r \in Reqs, CounterCommit(r)
  PROVE  IInv'
<1>1. req[r].q \in Units /\ req[r].i \in Things \cup {NoThing}
  BY LineType DEF CounterCommit, At
<1>2. SalesOK(sale')
  BY <1>1, NewSaleType DEF CounterCommit
<1>3. stock' \in [Things -> Quantity] /\ exact' \in BOOLEAN
  BY PutType DEF CounterCommit, IInv
<1> QED  BY <1>2, <1>3, GotoStep, IdleType, TableType DEF CounterCommit

\* What an edit or a deletion may start with: the step pc, on a row as read.
Startable(op, pc, row, units) ==
    /\ row.i \in Things \cup {NoThing} /\ row.q \in Units
    /\ op \in Edits \cup {"deleteOrder", "deleteSale"}
    /\ units \in Units \cup {0} /\ (op \in Edits => units > 0)
    /\ pc \in {"back", "swap", "drop", "restore", "save", "adjust", "diff", "remove"}
    /\ pc \in {"swap", "save", "adjust", "diff"} => op \in Edits
    /\ pc \in {"diff", "adjust"} => units # row.q
    /\ pc = "restore" => op \in Edits \cup {"deleteSale"}
    /\ pc \in {"back", "diff"} => row.i \in Things

LEMMA LoadedType ==
  ASSUME IInv, NEW id \in Orders \cup Sales, NEW row, NEW op, NEW pc, NEW units,
         NEW to \in Things \cup {NoThing}, Startable(op, pc, row, units)
  PROVE  LET local == [Loaded(op, id, row) EXCEPT !.pc = pc, !.to = to, !.nq = units]
         IN  local \in Request /\ Sane(local)
<1> DEFINE seen == IF row.i \in Things THEN stock[row.i] ELSE 0
           local == [Loaded(op, id, row) EXCEPT !.pc = pc, !.to = to, !.nq = units]
<1>1. seen \in Quantity
  BY TableType, Bounds DEF Quantity
<1>2. local = [Idle EXCEPT !.op = op, !.row = id, !.i = row.i, !.q = row.q, !.seen = seen,
                           !.pc = pc, !.to = to, !.nq = units]
  BY DEF Loaded, Idle
<1>3. row.q > 0
  BY Bounds DEF Units, Startable
<1> HIDE DEF seen, local
<1>4. local \in Request
  BY <1>1, <1>2, NothingType DEF Idle, Request, Edits, Startable
<1>5. local.pc = pc /\ local.op = op /\ local.i = row.i /\ local.q = row.q /\ local.nq = units
  BY <1>2 DEF Idle
<1>6. Sane(local)
  BY <1>3, <1>5 DEF Sane, Edits, Startable
<1> QED  BY <1>4, <1>6 DEF local

LEMMA LiveRows ==
  ASSUME IInv
  PROVE  /\ \A o \in Orders : order[o].st = "live" =>
              order[o].i \in Things \cup {NoThing} /\ order[o].q \in Units
         /\ \A n \in Sales : sale[n].st = "live" =>
              sale[n].i \in Things \cup {NoThing} /\ sale[n].q \in Units
<1>1. OrdersOK(order) /\ SalesOK(sale)
  BY TableType
<1> QED  BY <1>1, Bounds DEF OrdersOK, SalesOK, Row, SaleRow

LEMMA StartEditSaleStep ==
  ASSUME IInv, NEW r \in Reqs, NEW n \in Sales, NEW t \in Things, NEW units \in Qtys,
         StartEditSale(r, n, t, units)
  PROVE  IInv'
<1> DEFINE row == sale[n]
           pc == IF row.i \in Items THEN "back" ELSE "swap"
           local == [Loaded("editSale", n, row) EXCEPT !.pc = pc, !.to = t, !.nq = units]
<1>1. row.i \in Things \cup {NoThing} /\ row.q \in Units
  BY LiveRows DEF StartEditSale
<1>2. units \in Units /\ units > 0
  BY Bounds
<1>3. Startable("editSale", pc, row, units) /\ t \in Things \cup {NoThing}
  BY <1>1, <1>2 DEF Startable, Things, Edits
<1>4. local \in Request /\ Sane(local)
  <2> HIDE DEF pc, row
  <2> QED  BY <1>3, LoadedType
<1> QED  BY <1>4, GotoStep, TableType DEF StartEditSale

\* A deletion makes nothing else of the line.
LEMMA DeletionType ==
  ASSUME IInv, NEW id \in Orders \cup Sales, NEW row,
         row.i \in Things \cup {NoThing}, row.q \in Units,
         NEW op \in {"deleteOrder", "deleteSale"},
         NEW pc \in {"back", "drop", "remove"}, pc = "back" => row.i \in Things
  PROVE  LET local == [Loaded(op, id, row) EXCEPT !.pc = pc]
         IN  local \in Request /\ Sane(local)
<1> DEFINE seen == IF row.i \in Things THEN stock[row.i] ELSE 0
           local == [Loaded(op, id, row) EXCEPT !.pc = pc]
<1>1. seen \in Quantity
  BY TableType, Bounds DEF Quantity
<1>2. local = [Idle EXCEPT !.op = op, !.row = id, !.i = row.i, !.q = row.q, !.seen = seen, !.pc = pc]
  BY DEF Loaded, Idle
<1>3. row.q > 0
  BY Bounds DEF Units
<1>4. local \in Request
  BY <1>1, <1>2, NothingType DEF Request, Idle
<1>5. local.pc = pc /\ local.op = op /\ local.i = row.i /\ local.q = row.q
  BY <1>2 DEF Idle
<1>6. Sane(local)
  BY <1>3, <1>5 DEF Sane, Edits
<1> QED  BY <1>4, <1>6

LEMMA StartDeleteSaleStep ==
  ASSUME IInv, NEW r \in Reqs, NEW n \in Sales, StartDeleteSale(r, n)
  PROVE  IInv'
<1> DEFINE row == sale[n]
           pc == IF row.i \in Items THEN "back" ELSE "drop"
           local == [Loaded("deleteSale", n, row) EXCEPT !.pc = pc]
<1>1. row.i \in Things \cup {NoThing} /\ row.q \in Units
  BY LiveRows DEF StartDeleteSale
<1>2. pc \in {"back", "drop", "remove"} /\ (pc = "back" => row.i \in Things)
  BY DEF Things
<1>3. local \in Request /\ Sane(local)
  BY <1>1, <1>2, DeletionType
<1> QED  BY <1>3, GotoStep, TableType DEF StartDeleteSale

LEMMA StartEditOrderStep ==
  ASSUME IInv, NEW r \in Reqs, NEW o \in Orders, NEW t \in Things \cup {NoThing},
         NEW units \in Qtys, StartEditOrder(r, o, t, units)
  PROVE  IInv'
<1> DEFINE row == order[o]
           next == IF t # row.i
                   THEN IF row.i = NoThing THEN "swap"
                        ELSE IF row.i \in Items THEN "restore" ELSE "back"
                   ELSE IF row.i = NoThing THEN "save"
                        ELSE IF row.i \in Items THEN "adjust" ELSE "diff"
           local == [Loaded("editOrder", o, row) EXCEPT !.pc = next, !.to = t, !.nq = units]
<1>1. row.i \in Things \cup {NoThing} /\ row.q \in Units
  BY LiveRows DEF StartEditOrder
<1>2. units \in Units /\ units > 0
  BY Bounds
<1>3. next \in {"diff", "adjust"} => units # row.q
  BY DEF StartEditOrder
<1>4. Startable("editOrder", next, row, units)
  BY <1>1, <1>2, <1>3 DEF Startable, Things, Edits
<1>5. local \in Request /\ Sane(local)
  <2> HIDE DEF next, row
  <2> QED  BY <1>4, LoadedType
<1> QED  BY <1>5, GotoStep, TableType DEF StartEditOrder

LEMMA StartDeleteOrderStep ==
  ASSUME IInv, NEW r \in Reqs, NEW o \in Orders, StartDeleteOrder(r, o)
  PROVE  IInv'
<1> DEFINE row == order[o]
           pc == IF row.i \in Drinks THEN "back" ELSE "remove"
           local == [Loaded("deleteOrder", o, row) EXCEPT !.pc = pc]
<1>1. row.i \in Things \cup {NoThing} /\ row.q \in Units
  BY LiveRows DEF StartDeleteOrder
<1>2. pc \in {"back", "drop", "remove"} /\ (pc = "back" => row.i \in Things)
  BY DEF Things
<1>3. local \in Request /\ Sane(local)
  BY <1>1, <1>2, DeletionType
<1> QED  BY <1>3, GotoStep, TableType DEF StartDeleteOrder

\* Between two steps of an edit or a deletion: another quantity read, other units owed.
LEMMA OnwardType ==
  ASSUME IInv, NEW r \in Reqs, NEW seen \in Quantity, NEW owed \in [Things -> Int],
         NEW pc \in {"restore", "remove", "drop", "swap", "replace", "adjust", "save"},
         req[r].op \in Edits \cup {"deleteOrder", "deleteSale"},
         pc \in {"swap", "replace", "adjust", "save"} => req[r].op \in Edits,
         pc = "restore" => req[r].op \in Edits \cup {"deleteSale"},
         pc = "replace" => req[r].nq =< seen,
         pc = "adjust" => req[r].nq # req[r].q
  PROVE  LET local == [req[r] EXCEPT !.pc = pc, !.seen = seen, !.owed = owed]
         IN  local \in Request /\ Sane(local)
<1> DEFINE local == [req[r] EXCEPT !.pc = pc, !.seen = seen, !.owed = owed]
<1>1. req[r] \in Request /\ Sane(req[r])
  BY RequestType
<1>2. local \in Request
  BY <1>1 DEF Request
<1>3. /\ local.pc = pc /\ local.seen = seen /\ local.op = req[r].op
      /\ local.q = req[r].q /\ local.nq = req[r].nq /\ local.i = req[r].i
  BY <1>1 DEF Request
<1>4. Sane(local)
  BY <1>1, <1>3 DEF Sane, Edits
<1> QED  BY <1>2, <1>4

LEMMA SameFields ==
  ASSUME NEW q \in Request, NEW pc, NEW x
  PROVE  /\ [q EXCEPT !.pc = pc] = [q EXCEPT !.pc = pc, !.seen = q.seen, !.owed = q.owed]
         /\ [q EXCEPT !.pc = pc, !.seen = x] = [q EXCEPT !.pc = pc, !.seen = x, !.owed = q.owed]
         /\ [q EXCEPT !.pc = pc, !.owed = x] = [q EXCEPT !.pc = pc, !.seen = q.seen, !.owed = x]
BY DEF Request

LEMMA BackLookStep ==
  ASSUME IInv, NEW r \in Reqs, BackLook(r)
  PROVE  IInv'
<1> DEFINE q == req[r]
           pc == IF q.op = "deleteOrder" THEN "remove" ELSE "restore"
<1>1. q \in Request /\ Sane(q) /\ q.pc = "back" /\ q.owed \in [Things -> Int]
  BY RequestType DEF BackLook, At, Request
<1>2. stock[q.i] \in Quantity
  BY <1>1, TableType DEF Sane
<1>3. Goto(r, [q EXCEPT !.pc = pc, !.seen = stock[q.i], !.owed = q.owed])
  BY <1>1, SameFields DEF BackLook
<1>4. /\ q.op \in Edits \cup {"deleteOrder", "deleteSale"}
      /\ pc \in {"remove", "restore"}
      /\ pc = "restore" => q.op \in Edits \cup {"deleteSale"}
  BY <1>1 DEF Sane
<1>5. [q EXCEPT !.pc = pc, !.seen = stock[q.i], !.owed = q.owed] \in Request
      /\ Sane([q EXCEPT !.pc = pc, !.seen = stock[q.i], !.owed = q.owed])
  <2> HIDE DEF pc
  <2> QED  BY <1>1, <1>2, <1>4, OnwardType
<1> QED  BY <1>3, <1>5, GotoStep, TableType DEF BackLook

LEMMA RestoreStep ==
  ASSUME IInv, NEW r \in Reqs, Restore(r)
  PROVE  IInv'
<1> DEFINE q == req[r]
           pc == IF q.op = "deleteSale" THEN "drop" ELSE "swap"
           owed == Owes(q, q.i, -q.q)
<1>1. q \in Request /\ Sane(q) /\ q.pc = "restore" /\ q.seen \in Quantity /\ -q.q \in Int
  BY RequestType, Bounds DEF Restore, At, Request, Units
<1>2. owed \in [Things -> Int]
  BY <1>1, OwesType
<1>3. Goto(r, [q EXCEPT !.pc = pc, !.seen = q.seen, !.owed = owed])
  BY <1>1, SameFields DEF Restore
<1>4. /\ q.op \in Edits \cup {"deleteOrder", "deleteSale"}
      /\ pc \in {"drop", "swap"}
      /\ pc = "swap" => q.op \in Edits
  BY <1>1 DEF Sane
<1>5. [q EXCEPT !.pc = pc, !.seen = q.seen, !.owed = owed] \in Request
      /\ Sane([q EXCEPT !.pc = pc, !.seen = q.seen, !.owed = owed])
  <2> HIDE DEF pc, owed
  <2> QED  BY <1>1, <1>2, <1>4, OnwardType
<1>6. stock' \in [Things -> Quantity] /\ exact' \in BOOLEAN
  BY PutType DEF Restore, IInv
<1> QED  BY <1>3, <1>5, <1>6, GotoStep, TableType DEF Restore

LEMMA SwapLookStep ==
  ASSUME IInv, NEW r \in Reqs, SwapLook(r)
  PROVE  IInv'
<1> DEFINE q == req[r]
<1>1. q \in Request /\ Sane(q) /\ q.pc = "swap" /\ q.seen \in Quantity
      /\ q.owed \in [Things -> Int] /\ q.to \in Things \cup {NoThing}
  BY RequestType DEF SwapLook, At, Request
<1>2. q.op \in Edits
  BY <1>1 DEF Sane
<1>3. CASE q.to = NoThing
  <2>1. Goto(r, [q EXCEPT !.pc = "save", !.seen = q.seen, !.owed = q.owed])
    BY <1>1, <1>3, SameFields DEF SwapLook
  <2>2. [q EXCEPT !.pc = "save", !.seen = q.seen, !.owed = q.owed] \in Request
        /\ Sane([q EXCEPT !.pc = "save", !.seen = q.seen, !.owed = q.owed])
    BY <1>1, <1>2, OnwardType
  <2> QED  BY <2>1, <2>2, GotoStep, TableType DEF SwapLook
<1>4. CASE q.to # NoThing
  <2>1. stock[q.to] \in Quantity /\ q.nq =< stock[q.to]
    BY <1>1, <1>4, TableType, Bounds DEF SwapLook, Request, Units, Quantity
  <2>2. Goto(r, [q EXCEPT !.pc = "replace", !.seen = stock[q.to], !.owed = q.owed])
    BY <1>1, <1>4, SameFields DEF SwapLook
  <2>3. [q EXCEPT !.pc = "replace", !.seen = stock[q.to], !.owed = q.owed] \in Request
        /\ Sane([q EXCEPT !.pc = "replace", !.seen = stock[q.to], !.owed = q.owed])
    BY <1>1, <1>2, <2>1, OnwardType
  <2> QED  BY <2>2, <2>3, GotoStep, TableType DEF SwapLook
<1> QED  BY <1>3, <1>4

LEMMA ReplaceStep ==
  ASSUME IInv, NEW r \in Reqs, Replace(r)
  PROVE  IInv'
<1> DEFINE q == req[r]
           owed == Owes(q, q.to, q.nq)
<1>1. q \in Request /\ Sane(q) /\ q.pc = "replace" /\ q.seen \in Quantity /\ q.nq \in Int
  BY RequestType, Bounds DEF Replace, At, Request, Units
<1>2. owed \in [Things -> Int] /\ q.op \in Edits
  BY <1>1, OwesType DEF Sane
<1>3. Goto(r, [q EXCEPT !.pc = "save", !.seen = q.seen, !.owed = owed])
  BY <1>1, SameFields DEF Replace
<1>4. [q EXCEPT !.pc = "save", !.seen = q.seen, !.owed = owed] \in Request
      /\ Sane([q EXCEPT !.pc = "save", !.seen = q.seen, !.owed = owed])
  <2> HIDE DEF owed
  <2> QED  BY <1>1, <1>2, OnwardType
<1>5. stock' \in [Things -> Quantity] /\ exact' \in BOOLEAN
  BY PutType DEF Replace, IInv
<1> QED  BY <1>3, <1>4, <1>5, GotoStep, TableType DEF Replace

LEMMA DiffLookStep ==
  ASSUME IInv, NEW r \in Reqs, DiffLook(r)
  PROVE  IInv'
<1> DEFINE q == req[r]
<1>1. q \in Request /\ Sane(q) /\ q.pc = "diff" /\ q.owed \in [Things -> Int]
  BY RequestType DEF DiffLook, At, Request
<1>2. stock[q.i] \in Quantity /\ q.op \in Edits /\ q.nq # q.q
  BY <1>1, TableType DEF Sane
<1>3. Goto(r, [q EXCEPT !.pc = "adjust", !.seen = stock[q.i], !.owed = q.owed])
  BY <1>1, SameFields DEF DiffLook
<1>4. [q EXCEPT !.pc = "adjust", !.seen = stock[q.i], !.owed = q.owed] \in Request
      /\ Sane([q EXCEPT !.pc = "adjust", !.seen = stock[q.i], !.owed = q.owed])
  BY <1>1, <1>2, OnwardType
<1> QED  BY <1>3, <1>4, GotoStep, TableType DEF DiffLook

LEMMA AdjustStep ==
  ASSUME IInv, NEW r \in Reqs, Adjust(r)
  PROVE  IInv'
<1> DEFINE q == req[r]
           owed == Owes(q, q.i, q.nq - q.q)
<1>1. q \in Request /\ Sane(q) /\ q.pc = "adjust" /\ q.seen \in Quantity
      /\ q.nq - q.q \in Int
  BY RequestType, Bounds DEF Adjust, At, Request, Units
<1>2. owed \in [Things -> Int] /\ q.op \in Edits
  BY <1>1, OwesType DEF Sane
<1>3. Goto(r, [q EXCEPT !.pc = "save", !.seen = q.seen, !.owed = owed])
  BY <1>1, SameFields DEF Adjust
<1>4. [q EXCEPT !.pc = "save", !.seen = q.seen, !.owed = owed] \in Request
      /\ Sane([q EXCEPT !.pc = "save", !.seen = q.seen, !.owed = owed])
  <2> HIDE DEF owed
  <2> QED  BY <1>1, <1>2, OnwardType
<1>5. stock' \in [Things -> Quantity] /\ exact' \in BOOLEAN
  BY PutType DEF Adjust, IInv
<1> QED  BY <1>3, <1>4, <1>5, GotoStep, TableType DEF Adjust

LEMMA SaveStep ==
  ASSUME IInv, NEW r \in Reqs, Save(r)
  PROVE  IInv'
<1> DEFINE q == req[r]
<1>1. q \in Request /\ Sane(q) /\ q.pc = "save"
  BY RequestType DEF Save, At
<1>2. q.nq \in Units /\ q.nq > 0 /\ q.to \in Things \cup {NoThing}
  BY <1>1, LineType DEF At, Sane
<1>3. exact' \in BOOLEAN
  BY DEF Save
<1>4. OrdersOK(order') /\ SalesOK(sale')
  <2>1. CASE q.row \in Orders /\ order' = [order EXCEPT ![q.row] = NewOrder(q.to, q.nq)]
             /\ UNCHANGED sale
    BY <1>2, <2>1, NewOrderType, TableType
  <2>2. CASE q.row \in Sales /\ sale' = [sale EXCEPT ![q.row].i = q.to, ![q.row].q = q.nq]
             /\ UNCHANGED order
    <3>1. SalesOK(sale)
      BY TableType
    <3>2. sale' \in [Sales -> SaleRow]
      BY <1>2, <2>2, <3>1 DEF SalesOK, SaleRow
    <3>3. ASSUME NEW x \in Sales, sale'[x].st = "live"
          PROVE  sale'[x].q > 0
      BY <1>2, <2>2, <3>1, <3>3 DEF SalesOK, SaleRow
    <3> QED  BY <2>2, <3>2, <3>3, TableType DEF SalesOK
  <2> QED  BY <2>1, <2>2 DEF Save
<1> QED  BY <1>3, <1>4, GotoStep, IdleType, TableType DEF Save

LEMMA DropSaleStep ==
  ASSUME IInv, NEW r \in Reqs, DropSale(r)
  PROVE  IInv'
<1>1. SalesOK(sale)
  BY TableType
<1>2. sale' \in [Sales -> SaleRow]
  BY <1>1 DEF DropSale, SalesOK, SaleRow
<1>3. ASSUME NEW x \in Sales, sale'[x].st = "live"
      PROVE  sale'[x].q > 0
  BY <1>1, <1>3 DEF DropSale, SalesOK, SaleRow
<1>4. exact' \in BOOLEAN
  BY DEF DropSale
<1> QED  BY <1>2, <1>3, <1>4, GotoStep, IdleType, TableType DEF DropSale, SalesOK

LEMMA RemoveOrderStep ==
  ASSUME IInv, NEW r \in Reqs, RemoveOrder(r)
  PROVE  IInv'
<1>1. OrdersOK(order)
  BY TableType
<1>2. order' \in [Orders -> Row]
  BY <1>1 DEF RemoveOrder, OrdersOK, Row
<1>3. ASSUME NEW x \in Orders, order'[x].st = "live"
      PROVE  order'[x].q > 0
  BY <1>1, <1>3 DEF RemoveOrder, OrdersOK, Row
<1>4. stock' \in [Things -> Quantity] /\ exact' \in BOOLEAN
  BY PutType, TableType DEF RemoveOrder, IInv
<1> QED  BY <1>2, <1>3, <1>4, GotoStep, IdleType, TableType DEF RemoveOrder, OrdersOK

LEMMA RestockStep ==
  ASSUME IInv, NEW r \in Reqs, Restock(r)
  PROVE  IInv'
<1>1. req[r].q \in Nat
  BY RequestType, Bounds DEF Request, Units
<1>2. supplied' \in [Things -> Nat]
  <2>1. supplied' = [supplied EXCEPT ![req[r].i] = @ + req[r].q]
    BY DEF Restock
  <2>2. CASE req[r].i \in Things
    <3>1. supplied[req[r].i] + req[r].q \in Nat
      BY <1>1, <2>2, TableType
    <3> QED  BY <2>1, <3>1, TableType
  <2>3. CASE req[r].i \notin Things
    BY <2>1, <2>3, TableType
  <2> QED  BY <2>2, <2>3
<1>3. stock' \in [Things -> Quantity] /\ exact' \in BOOLEAN
  BY PutType DEF Restock, IInv
<1> QED  BY <1>2, <1>3, GotoStep, IdleType, TableType DEF Restock

LEMMA InitInvariant == Init => IInv
<1> SUFFICES ASSUME Init
             PROVE  IInv
  OBVIOUS
<1>1. stock \in [Things -> Quantity] /\ supplied \in [Things -> Nat]
  BY StockAssumption DEF Init, Quantity
<1>2. TypeOK
  BY <1>1, IdleType DEF Init, TypeOK, Row, SaleRow
<1>3. \A r \in Reqs : Sane(req[r])
  BY IdleType DEF Init
<1> QED  BY <1>2, <1>3 DEF IInv

LEMMA NextInvariant ==
  ASSUME IInv, NEW r \in Reqs,
         Ordering(r) \/ Selling(r) \/ Take(r) \/ Amending(r) \/ Restocking(r) \/ Abort(r)
  PROVE  IInv'
<1>1. CASE Ordering(r)
  BY <1>1, TakeLookStep, BatchLookStep, OrderRowStep, SaleRowOfOrderStep, BatchReadStep,
     BatchCommitStep DEF Ordering
<1>2. CASE Selling(r)
  <2>1. ASSUME NEW t \in Things, NEW units \in Qtys,
               TakeLook(r, "sell", t, units) \/ CounterLook(r, t, units)
        PROVE  IInv'
    BY <2>1, TakeLookStep, CounterLookStep
  <2> QED  BY <1>2, <2>1, SellRowStep, CounterCommitStep DEF Selling
<1>3. CASE Amending(r)
  <2>1. ASSUME NEW o \in Orders, NEW t \in Things \cup {NoThing}, NEW units \in Qtys,
               StartEditOrder(r, o, t, units)
        PROVE  IInv'
    BY <2>1, StartEditOrderStep
  <2>2. ASSUME NEW n \in Sales, NEW t \in Things, NEW units \in Qtys,
               StartEditSale(r, n, t, units)
        PROVE  IInv'
    BY <2>2, StartEditSaleStep
  <2>3. CASE (\E n \in Sales : StartDeleteSale(r, n)) \/ (\E o \in Orders : StartDeleteOrder(r, o))
    BY <2>3, StartDeleteSaleStep, StartDeleteOrderStep
  <2>4. CASE BackLook(r) \/ Restore(r) \/ SwapLook(r) \/ Replace(r) \/ DiffLook(r)
             \/ Adjust(r) \/ Save(r) \/ DropSale(r) \/ RemoveOrder(r)
    BY <2>4, BackLookStep, RestoreStep, SwapLookStep, ReplaceStep, DiffLookStep, AdjustStep,
       SaveStep, DropSaleStep, RemoveOrderStep
  <2> QED  BY <1>3, <2>1, <2>2, <2>3, <2>4 DEF Amending
<1>4. CASE Restocking(r)
  BY <1>4, RestockLookStep, RestockStep DEF Restocking
<1>5. CASE Take(r) \/ Abort(r)
  BY <1>5, TakeStep, AbortStep
<1> QED  BY <1>1, <1>2, <1>3, <1>4, <1>5

\* The inductive invariant of Cafe: types, and what each step of a request may rely on.
LEMMA Invariant == Spec => []IInv
<1>1. IInv /\ [Next]_vars => IInv'
  <2> SUFFICES ASSUME IInv, [Next]_vars
               PROVE  IInv'
    OBVIOUS
  <2>1. CASE Next
    BY <2>1, NextInvariant DEF Next
  <2>2. CASE UNCHANGED vars
    BY <2>2 DEF vars, IInv, TypeOK, Sane, Edits
  <2> QED  BY <2>1, <2>2
<1> QED  BY <1>1, InitInvariant, PTL DEF Spec

-----------------------------------------------------------------------------
(* The theorems.                                                           *)

\* Whatever requests overlap or stop half way, every quantity, row and local
\* variable keeps its type, and no live row is one of no units.
THEOREM TypeCorrect == Spec => []TypeOK
<1>1. IInv => TypeOK
  BY DEF IInv
<1> QED  BY <1>1, Invariant, PTL

\* A request that writes the quantity of t leaves what it had read, less some units.
LEMMA PutLeaves ==
  ASSUME IInv, NEW r \in Reqs, NEW i, NEW less, Put(r, i, less),
         NEW t \in Things, stock'[t] # stock[t]
  PROVE  stock'[t] = req[r].seen - less
BY TableType DEF Put

LEMMA Amounts ==
  ASSUME IInv, NEW r \in Reqs
  PROVE  /\ req[r].seen \in Int /\ req[r].q \in Int /\ req[r].nq \in Int
         /\ ~At(r, "idle") => req[r].q > 0
<1>1. req[r] \in Request /\ Sane(req[r])
  BY RequestType
<1> QED  BY <1>1, Bounds DEF Request, Sane, Units, Quantity, At

LEMMA MovesOn ==
  ASSUME IInv, NEW r \in Reqs, NEW local, Goto(r, local), local.pc # req[r].pc
  PROVE  req'[r] # req[r]
<1>1. req'[r] = local
  BY DEF Goto, IInv, TypeOK
<1> QED  BY <1>1

\* The writes that take units leave at least none, ...
LEMMA TakesLeaveEnough ==
  ASSUME IInv, NEW r \in Reqs,
         Take(r) \/ CounterCommit(r) \/ Replace(r) \/ (Adjust(r) /\ req[r].nq > req[r].q),
         NEW t \in Things, stock'[t] # stock[t]
  PROVE  stock'[t] >= 0
<1> USE Amounts, RequestType
<1>1. CASE Take(r)
  BY <1>1, PutLeaves DEF Take, At, Sane
<1>2. CASE CounterCommit(r)
  BY <1>2, PutLeaves DEF CounterCommit, At, Sane
<1>3. CASE Replace(r)
  BY <1>3, PutLeaves DEF Replace, At, Sane
<1>4. CASE Adjust(r) /\ req[r].nq > req[r].q
  BY <1>4, PutLeaves DEF Adjust
<1> QED  BY <1>1, <1>2, <1>3, <1>4

\* ... and the writes that give units back leave more than was read: an edit to fewer
\* units, ...
LEMMA AdjustAdds ==
  ASSUME IInv, NEW r \in Reqs, Adjust(r), ~(req[r].nq > req[r].q),
         NEW t \in Things, stock'[t] # stock[t]
  PROVE  req[r].seen < stock'[t] /\ req'[r] # req[r]
<1> DEFINE local == [req[r] EXCEPT !.pc = "save",
                                   !.owed = Owes(req[r], req[r].i, req[r].nq - req[r].q)]
<1>1. req[r] \in Request /\ req[r].pc = "adjust" /\ req[r].nq # req[r].q
  BY RequestType DEF Adjust, At, Sane
<1>2. stock'[t] = req[r].seen - (req[r].nq - req[r].q)
  BY PutLeaves DEF Adjust
<1>3. Goto(r, local) /\ local.pc # "adjust"
  BY <1>1 DEF Adjust, Request
<1>4. req[r].seen < stock'[t]
  BY <1>1, <1>2, Amounts
<1>5. req'[r] # req[r]
  <2> HIDE DEF local
  <2> QED  BY <1>1, <1>3, MovesOn
<1> QED  BY <1>4, <1>5

\* ... a deletion, a restoration or a delivery.
LEMMA ReturnsAdd ==
  ASSUME IInv, NEW r \in Reqs, Restore(r) \/ RemoveOrder(r) \/ Restock(r),
         NEW t \in Things, stock'[t] # stock[t]
  PROVE  req[r].seen < stock'[t] /\ req'[r] # req[r]
<1>1. req[r] \in Request /\ ~At(r, "idle")
  BY RequestType DEF Restore, RemoveOrder, Restock, At
<1>2. Put(r, req[r].i, -req[r].q)
  BY DEF Restore, RemoveOrder, Restock
<1>3. stock'[t] = req[r].seen - (-req[r].q)
  BY <1>2, PutLeaves
<1>4. req[r].seen < stock'[t]
  BY <1>1, <1>3, Amounts
<1>5. req'[r] # req[r]
  <2>1. CASE Restore(r)
    <3> DEFINE local == [req[r] EXCEPT !.pc = IF req[r].op = "deleteSale" THEN "drop" ELSE "swap",
                                       !.owed = Owes(req[r], req[r].i, -req[r].q)]
    <3>1. Goto(r, local) /\ req[r].pc = "restore"
      BY <2>1 DEF Restore, At
    <3>2. local.pc # "restore"
      BY <1>1 DEF Request
    <3> QED  BY <3>1, <3>2, MovesOn
  <2>2. CASE RemoveOrder(r) \/ Restock(r)
    <3>1. Goto(r, Idle) /\ Idle.pc # req[r].pc
      BY <2>2 DEF RemoveOrder, Restock, At, Idle
    <3> QED  BY <3>1, MovesOn
  <2> QED  BY <2>1, <2>2
<1> QED  BY <1>4, <1>5

\* For every choice of the constants: whatever writes overtake each other, only a batch
\* of orders takes units that are not there; other writes that leave a quantity below
\* zero add to one that was.
THEOREM OversoldByBatches == Spec => OnlyBatchesOversell
<1> DEFINE Oversells(t) == stock'[t] < 0 /\ stock'[t] # stock[t]
           Excused(r, t) == /\ req'[r] # req[r]
                            /\ At(r, "lines") \/ req[r].seen < stock'[t]
<1>1. ASSUME IInv, IInv', NEW r \in Reqs, NEW t \in Things, Oversells(t),
             Ordering(r) \/ Selling(r) \/ Take(r) \/ Amending(r) \/ Restocking(r) \/ Abort(r)
      PROVE  Excused(r, t)
  <2>1. stock' # stock /\ ~(stock'[t] >= 0)
    <3>1. stock'[t] \in Int
      BY <1>1, Bounds DEF IInv, TypeOK, Quantity
    <3> QED  BY <1>1, <3>1
  <2>2. CASE BatchCommit(r)
    <3>1. Goto(r, Idle) /\ At(r, "lines") /\ Idle.pc # req[r].pc
      BY <2>2 DEF BatchCommit, At, Idle
    <3> QED  BY <1>1, <3>1, MovesOn
  <2>3. CASE Take(r) \/ CounterCommit(r) \/ Replace(r) \/ (Adjust(r) /\ req[r].nq > req[r].q)
    BY <1>1, <2>1, <2>3, TakesLeaveEnough
  <2>4. CASE \/ Restore(r) \/ RemoveOrder(r) \/ Restock(r)
             \/ Adjust(r) /\ ~(req[r].nq > req[r].q)
    BY <1>1, <2>4, ReturnsAdd, AdjustAdds
  <2> QED
    BY <1>1, <2>1, <2>2, <2>3, <2>4
       DEF Ordering, Selling, Amending, Restocking, TakeLook, BatchLook, OrderRow,
           SaleRowOfOrder, BatchRead, CounterLook, SellRow, StartEditSale, StartDeleteSale,
           StartEditOrder, StartDeleteOrder, BackLook, SwapLook, DiffLook, Save, DropSale,
           RestockLook, Abort
<1>2. ASSUME IInv, IInv', [Next]_vars
      PROVE  [\A t \in Things : Oversells(t) => \E r \in Reqs : Excused(r, t)]_vars
  <2>1. CASE Next
    BY <1>1, <1>2, <2>1 DEF Next
  <2>2. CASE UNCHANGED vars
    BY <2>2
  <2> QED  BY <1>2, <2>1, <2>2
<1> QED  BY <1>2, Invariant, PTL DEF Spec, OnlyBatchesOversell

-----------------------------------------------------------------------------
(* The sums of Conserved, over all rows and all requests.                  *)

\* Units of t that a row holds.
Part(i, n, t) == IF i = t THEN n ELSE 0

InOrder(row, t) == IF row.st = "live" THEN Part(row.i, row.q, t) ELSE 0

InSale(row, t) == IF row.st = "live" /\ ~row.linked THEN Part(row.i, row.q, t) ELSE 0

InOrders(f, t) == SumOver([o \in Orders |-> InOrder(f[o], t)], Orders)

InSales(f, t) == SumOver([n \in Sales |-> InSale(f[n], t)], Sales)

InHands(f, t) == SumOver([r \in Reqs |-> f[r].owed[t]], Reqs)

LEMMA OrderTotal ==
  ASSUME IInv, NEW S \in SUBSET Orders
  PROVE  LET ofOrder(o) == order[o].q
         IN  Total(S, ofOrder) = SumOver([o \in S |-> order[o].q], S)
<1> DEFINE ofOrder(o) == order[o].q
           g == [o \in S |-> order[o].q]
           F(f) == [T \in SUBSET S |-> IF T = {} THEN 0
                                       ELSE LET x == CHOOSE x \in T : TRUE
                                            IN  order[x].q + f[T \ {x}]]
           sum == CHOOSE f : f = F(f)
<1>1. Total(S, ofOrder) = sum[S]
  BY DEF Total, MapThenSumSet, MapThenFoldSet
<1>2. IsFiniteSet(S) /\ \A o \in S : g[o] \in Int
  BY RowsAssumption, FS_Subset, TableType, Bounds DEF OrdersOK, Row, Units
<1>3. \A f : AddsUp(f, g, S) <=> f = F(f)
  <2> SUFFICES ASSUME NEW f
               PROVE  [T \in SUBSET S |-> IF T = {} THEN 0
                                          ELSE LET x == CHOOSE x \in T : TRUE
                                               IN  g[x] + f[T \ {x}]] = F(f)
    BY DEF AddsUp
  <2>1. \A T \in SUBSET S : T # {} => (CHOOSE x \in T : TRUE) \in S
    OBVIOUS
  <2> QED  BY <2>1
<1> HIDE DEF g, F
<1>4. PICK k : AddsUpAnyhow(k, g, S)
  BY <1>2, SumsExist
<1>5. k = F(k)
  BY <1>3, <1>4, AnyhowAddsUp
<1>6. sum = F(sum)
  BY <1>5
<1> HIDE DEF sum
<1>7. SumOver(g, S) = sum[S]
  BY <1>2, <1>3, <1>6, SumIs
<1> QED  BY <1>1, <1>7 DEF g

LEMMA SaleTotal ==
  ASSUME IInv, NEW S \in SUBSET Sales
  PROVE  LET ofSale(n) == sale[n].q
         IN  Total(S, ofSale) = SumOver([n \in S |-> sale[n].q], S)
<1> DEFINE ofSale(n) == sale[n].q
           g == [n \in S |-> sale[n].q]
           F(f) == [T \in SUBSET S |-> IF T = {} THEN 0
                                       ELSE LET x == CHOOSE x \in T : TRUE
                                            IN  sale[x].q + f[T \ {x}]]
           sum == CHOOSE f : f = F(f)
<1>1. Total(S, ofSale) = sum[S]
  BY DEF Total, MapThenSumSet, MapThenFoldSet
<1>2. IsFiniteSet(S) /\ \A n \in S : g[n] \in Int
  BY RowsAssumption, FS_Subset, TableType, Bounds DEF SalesOK, SaleRow, Units
<1>3. \A f : AddsUp(f, g, S) <=> f = F(f)
  <2> SUFFICES ASSUME NEW f
               PROVE  [T \in SUBSET S |-> IF T = {} THEN 0
                                          ELSE LET x == CHOOSE x \in T : TRUE
                                               IN  g[x] + f[T \ {x}]] = F(f)
    BY DEF AddsUp
  <2>1. \A T \in SUBSET S : T # {} => (CHOOSE x \in T : TRUE) \in S
    OBVIOUS
  <2> QED  BY <2>1
<1> HIDE DEF g, F
<1>4. PICK k : AddsUpAnyhow(k, g, S)
  BY <1>2, SumsExist
<1>5. k = F(k)
  BY <1>3, <1>4, AnyhowAddsUp
<1>6. sum = F(sum)
  BY <1>5
<1> HIDE DEF sum
<1>7. SumOver(g, S) = sum[S]
  BY <1>2, <1>3, <1>6, SumIs
<1> QED  BY <1>1, <1>7 DEF g

LEMMA OwedTotal ==
  ASSUME IInv, NEW t \in Things
  PROVE  LET owed(r) == req[r].owed[t]
         IN  Total(Reqs, owed) = InHands(req, t)
<1> DEFINE owed(r) == req[r].owed[t]
           g == [r \in Reqs |-> req[r].owed[t]]
           F(f) == [T \in SUBSET Reqs |-> IF T = {} THEN 0
                                          ELSE LET x == CHOOSE x \in T : TRUE
                                               IN  req[x].owed[t] + f[T \ {x}]]
           sum == CHOOSE f : f = F(f)
<1>1. Total(Reqs, owed) = sum[Reqs]
  BY DEF Total, MapThenSumSet, MapThenFoldSet
<1>2. IsFiniteSet(Reqs) /\ \A r \in Reqs : g[r] \in Int
  BY RowsAssumption, RequestType DEF Request
<1>3. \A f : AddsUp(f, g, Reqs) <=> f = F(f)
  <2> SUFFICES ASSUME NEW f
               PROVE  [T \in SUBSET Reqs |-> IF T = {} THEN 0
                                             ELSE LET x == CHOOSE x \in T : TRUE
                                                  IN  g[x] + f[T \ {x}]] = F(f)
    BY DEF AddsUp
  <2>1. \A T \in SUBSET Reqs : T # {} => (CHOOSE x \in T : TRUE) \in Reqs
    OBVIOUS
  <2> QED  BY <2>1
<1> HIDE DEF g, F
<1>4. PICK k : AddsUpAnyhow(k, g, Reqs)
  BY <1>2, SumsExist
<1>5. k = F(k)
  BY <1>3, <1>4, AnyhowAddsUp
<1>6. sum = F(sum)
  BY <1>5
<1> HIDE DEF sum
<1>7. SumOver(g, Reqs) = sum[Reqs]
  BY <1>2, <1>3, <1>6, SumIs
<1> QED  BY <1>1, <1>7 DEF g, InHands

LEMMA UnitsOfRows ==
  ASSUME NEW f, OrdersOK(f), NEW g, SalesOK(g), NEW t \in Things
  PROVE  /\ \A o \in Orders : InOrder(f[o], t) \in Nat /\ f[o].q \in Nat
         /\ \A n \in Sales : InSale(g[n], t) \in Nat /\ g[n].q \in Nat
BY Bounds DEF OrdersOK, SalesOK, Row, SaleRow, Units, InOrder, InSale, Part

LEMMA HeldIs ==
  ASSUME IInv, NEW t \in Things
  PROVE  Held(t) = InOrders(order, t) + InSales(sale, t)
<1> DEFINE S == {o \in Orders : order[o].st = "live" /\ order[o].i = t}
           P == {n \in Sales : sale[n].st = "live" /\ sale[n].i = t /\ ~sale[n].linked}
           ofOrder(o) == order[o].q
           ofSale(n) == sale[n].q
<1>0. OrdersOK(order) /\ SalesOK(sale)
  BY TableType
<1>1. Total(S, ofOrder) = InOrders(order, t)
  <2> DEFINE g == [o \in S |-> order[o].q]
             f == [o \in Orders |-> InOrder(order[o], t)]
  <2>1. S \in SUBSET Orders /\ IsFiniteSet(Orders)
    BY RowsAssumption
  <2>2. Total(S, ofOrder) = SumOver(g, S)
    <3> HIDE DEF S
    <3> QED  BY <2>1, OrderTotal
  <2>3. /\ \A o \in Orders : f[o] \in Int
        /\ \A o \in S : f[o] = g[o]
        /\ \A o \in Orders \ S : f[o] = 0
    BY <1>0, UnitsOfRows DEF InOrder, Part
  <2> HIDE DEF f, g, S
  <2>4. SumOver(f, Orders) = SumOver(g, S)
    BY <2>1, <2>3, SumOfSome
  <2> QED  BY <2>2, <2>4 DEF f, InOrders
<1>2. Total(P, ofSale) = InSales(sale, t)
  <2> DEFINE g == [n \in P |-> sale[n].q]
             f == [n \in Sales |-> InSale(sale[n], t)]
  <2>1. P \in SUBSET Sales /\ IsFiniteSet(Sales)
    BY RowsAssumption
  <2>2. Total(P, ofSale) = SumOver(g, P)
    <3> HIDE DEF P
    <3> QED  BY <2>1, SaleTotal
  <2>3. /\ \A n \in Sales : f[n] \in Int
        /\ \A n \in P : f[n] = g[n]
        /\ \A n \in Sales \ P : f[n] = 0
    BY <1>0, UnitsOfRows DEF InSale, Part
  <2> HIDE DEF f, g, P
  <2>4. SumOver(f, Sales) = SumOver(g, P)
    BY <2>1, <2>3, SumOfSome
  <2> QED  BY <2>2, <2>4 DEF f, InSales
<1> QED  BY <1>1, <1>2 DEF Held

\* A sum over the rows changes by what its one changed row does.
LEMMA OneOrder ==
  ASSUME NEW f, OrdersOK(f), NEW g, OrdersOK(g), NEW t \in Things, NEW o \in Orders,
         \A x \in Orders \ {o} : g[x] = f[x]
  PROVE  InOrders(g, t) = InOrders(f, t) - InOrder(f[o], t) + InOrder(g[o], t)
<1> DEFINE a == [x \in Orders |-> InOrder(f[x], t)]
           b == [x \in Orders |-> InOrder(g[x], t)]
<1>1. \A x \in Orders : /\ a[x] \in Int /\ b[x] \in Int /\ (x # o => b[x] = a[x])
                        /\ a[x] = InOrder(f[x], t) /\ b[x] = InOrder(g[x], t)
  BY Bounds DEF OrdersOK, Row, Units, InOrder, Part
<1> HIDE DEF a, b
<1>2. SumOver(b, Orders) = SumOver(a, Orders) - a[o] + b[o]
  <2>1. \A y \in Orders : a[y] \in Int /\ b[y] \in Int /\ (y # o => b[y] = a[y])
    BY <1>1
  <2>2. IsFiniteSet(Orders)
    BY RowsAssumption
  <2> QED  BY <2>1, <2>2, SumChanges
<1> QED  BY <1>1, <1>2 DEF a, b, InOrders

LEMMA OneSale ==
  ASSUME NEW f, SalesOK(f), NEW g, SalesOK(g), NEW t \in Things, NEW n \in Sales,
         \A x \in Sales \ {n} : g[x] = f[x]
  PROVE  InSales(g, t) = InSales(f, t) - InSale(f[n], t) + InSale(g[n], t)
<1> DEFINE a == [x \in Sales |-> InSale(f[x], t)]
           b == [x \in Sales |-> InSale(g[x], t)]
<1>1. \A x \in Sales : /\ a[x] \in Int /\ b[x] \in Int /\ (x # n => b[x] = a[x])
                       /\ a[x] = InSale(f[x], t) /\ b[x] = InSale(g[x], t)
  BY Bounds DEF SalesOK, SaleRow, Units, InSale, Part
<1> HIDE DEF a, b
<1>2. SumOver(b, Sales) = SumOver(a, Sales) - a[n] + b[n]
  <2>1. \A y \in Sales : a[y] \in Int /\ b[y] \in Int /\ (y # n => b[y] = a[y])
    BY <1>1
  <2>2. IsFiniteSet(Sales)
    BY RowsAssumption
  <2> QED  BY <2>1, <2>2, SumChanges
<1> QED  BY <1>1, <1>2 DEF a, b, InSales

\* Sales of orders hold nothing of their own.
LEMMA SameSales ==
  ASSUME NEW f, SalesOK(f), NEW g, NEW t \in Things,
         \A x \in Sales : InSale(g[x], t) = InSale(f[x], t)
  PROVE  InSales(g, t) = InSales(f, t)
<1>1. [x \in Sales |-> InSale(f[x], t)] = [x \in Sales |-> InSale(g[x], t)]
  OBVIOUS
<1> QED  BY <1>1 DEF InSales

LEMMA OneRequest ==
  ASSUME NEW f \in [Reqs -> Request], NEW g \in [Reqs -> Request], NEW t \in Things,
         NEW r \in Reqs, \A x \in Reqs \ {r} : g[x] = f[x]
  PROVE  InHands(g, t) = InHands(f, t) - f[r].owed[t] + g[r].owed[t]
<1> DEFINE a == [x \in Reqs |-> f[x].owed[t]]
           b == [x \in Reqs |-> g[x].owed[t]]
<1>1. \A x \in Reqs : /\ a[x] \in Int /\ b[x] \in Int /\ (x # r => b[x] = a[x])
                      /\ a[x] = f[x].owed[t] /\ b[x] = g[x].owed[t]
  BY DEF Request
<1> HIDE DEF a, b
<1>2. SumOver(b, Reqs) = SumOver(a, Reqs) - a[r] + b[r]
  <2>1. \A y \in Reqs : a[y] \in Int /\ b[y] \in Int /\ (y # r => b[y] = a[y])
    BY <1>1
  <2>2. IsFiniteSet(Reqs)
    BY RowsAssumption
  <2> QED  BY <2>1, <2>2, SumChanges
<1> QED  BY <1>1, <1>2 DEF a, b, InHands

LEMMA SumTypes ==
  ASSUME NEW f, OrdersOK(f), NEW g, SalesOK(g), NEW h \in [Reqs -> Request], NEW t \in Things
  PROVE  InOrders(f, t) \in Int /\ InSales(g, t) \in Int /\ InHands(h, t) \in Int
<1>1. \A x \in Orders : [o \in Orders |-> InOrder(f[o], t)][x] \in Int
  BY UnitsOfRows
<1>2. \A x \in Sales : [n \in Sales |-> InSale(g[n], t)][x] \in Int
  BY UnitsOfRows
<1>3. \A x \in Reqs : [r \in Reqs |-> h[r].owed[t]][x] \in Int
  BY DEF Request
<1> DEFINE a == [o \in Orders |-> InOrder(f[o], t)]
           b == [n \in Sales |-> InSale(g[n], t)]
           c == [r \in Reqs |-> h[r].owed[t]]
<1>4. (\A x \in Orders : a[x] \in Int) /\ (\A x \in Sales : b[x] \in Int) /\ (\A x \in Reqs : c[x] \in Int)
  BY <1>1, <1>2, <1>3
<1> HIDE DEF a, b, c
<1>5. SumOver(a, Orders) \in Int /\ SumOver(b, Sales) \in Int /\ SumOver(c, Reqs) \in Int
  BY <1>4, RowsAssumption, SumType
<1> QED  BY <1>5 DEF a, b, c, InOrders, InSales, InHands

-----------------------------------------------------------------------------
(* The books: what is owed at each step, and where an edit is headed.      *)

OfSale == {"editSale", "deleteSale"}

\* What a request is about, given the sales in s.
Aims(q, s) ==
    /\ q.op \in OfSale => q.row \in Sales /\ s[q.row].st # "none"
    /\ q.op \in {"editOrder", "deleteOrder"} => q.row \in Orders
    /\ q.op = "editSale" => q.to \in Items
    /\ q.pc \in {"take", "row", "counter", "lines", "restock", "restore", "adjust", "diff"} =>
          q.i \in Things
    /\ q.pc = "counter" \/ (q.pc \in {"take", "row"} /\ q.op = "sell")
         \/ (q.pc \in {"back", "restore"} /\ q.op \in OfSale) => q.i \in Items
    /\ q.pc = "sale" => q.op = "order"
    /\ q.pc \in {"adjust", "diff"} => q.op = "editOrder" /\ q.to = q.i
    /\ q.pc = "replace" => q.to \in Things
    /\ q.pc = "drop" => q.op = "deleteSale"
    /\ q.pc = "remove" => q.op = "deleteOrder"

\* The units it has moved and not yet booked in a row.
Owed(q, t) ==
    /\ q.pc \notin {"row", "swap", "replace", "save", "drop"} => q.owed[t] = 0
    /\ q.pc = "row" => q.owed[t] = Part(q.i, q.q, t)
    /\ q.pc \in {"swap", "replace", "drop"} =>
          q.owed[t] = IF q.op \in OfSale /\ q.i \notin Items THEN 0 ELSE -Part(q.i, q.q, t)
    /\ q.pc = "save" => q.owed[t] = Part(q.to, q.nq, t) - Part(q.i, q.q, t)

\* Which sale it still may edit without touching that of an order.
Books(q, s) ==
    /\ \A t \in Things : Owed(q, t)
    /\ q.pc \in {"swap", "replace", "drop"} /\ q.op \in OfSale =>
          (s[q.row].linked <=> q.i \notin Items)
    /\ q.pc = "save" /\ q.op = "editSale" => ~s[q.row].linked

\* The sales page sells items.
OffThePage(s) == \A n \in Sales : s[n].st # "none" /\ ~s[n].linked => s[n].i \in Items

Balanced ==
    \A t \in Things : stock[t] + InOrders(order, t) + InSales(sale, t) + InHands(req, t) = supplied[t]

KInv ==
    /\ IInv
    /\ OffThePage(sale)
    /\ \A r \in Reqs : Aims(req[r], sale)
    /\ exact => Balanced /\ \A r \in Reqs : Books(req[r], sale)

LEMMA IdleBooks ==
  /\ \A s : Aims(Idle, s) /\ Books(Idle, s)
  /\ \A t \in Things : Idle.owed[t] = 0
BY DEF Idle, Nothing, Aims, Books, Owed, OfSale

\* Rows that are there stay there, as what they are.
SalesStay == \A n \in Sales : sale[n].st # "none" => sale'[n].st # "none" /\ sale'[n].linked = sale[n].linked

LEMMA OtherBooks ==
  ASSUME SalesStay, NEW q, Aims(q, sale)
  PROVE  Aims(q, sale') /\ (Books(q, sale) => Books(q, sale'))
<1>1. Aims(q, sale')
  BY DEF SalesStay, Aims
<1>2. q.op \in OfSale => sale'[q.row].linked = sale[q.row].linked
  BY DEF SalesStay, Aims
<1>3. q.op = "editSale" => q.op \in OfSale
  BY DEF OfSale
<1> QED  BY <1>1, <1>2, <1>3 DEF Books

\* What a request moves, it moves from one place to another.
LEMMA BookStep ==
  ASSUME KInv, IInv', NEW r \in Reqs, NEW local, Goto(r, local),
         SalesStay, OffThePage(sale'), Aims(local, sale'), exact' => exact,
         exact /\ Books(req[r], sale) /\ exact' =>
           /\ Books(local, sale')
           /\ \A t \in Things :
                stock'[t] + InOrders(order', t) + InSales(sale', t) + local.owed[t] - supplied'[t]
                  = stock[t] + InOrders(order, t) + InSales(sale, t) + req[r].owed[t] - supplied[t]
  PROVE  KInv'
<1>1. req \in [Reqs -> Request] /\ req' \in [Reqs -> Request]
  BY DEF KInv, IInv, TypeOK
<1>2. req'[r] = local /\ \A y \in Reqs \ {r} : req'[y] = req[y]
  BY <1>1 DEF Goto
<1>3. \A y \in Reqs : Aims(req'[y], sale')
  BY <1>2, OtherBooks DEF KInv
<1>4. ASSUME exact'
      PROVE  Balanced' /\ \A y \in Reqs : Books(req'[y], sale')
  <2>1. exact /\ Balanced /\ \A y \in Reqs : Books(req[y], sale)
    BY <1>4 DEF KInv
  <2>2. \A y \in Reqs : Books(req'[y], sale')
    BY <1>2, <1>4, <2>1, OtherBooks DEF KInv
  <2>3. ASSUME NEW t \in Things
        PROVE  stock'[t] + InOrders(order', t) + InSales(sale', t) + InHands(req', t) = supplied'[t]
    <3>1. InHands(req', t) = InHands(req, t) - req[r].owed[t] + req'[r].owed[t]
      BY <1>1, <1>2, OneRequest
    <3>2. /\ InOrders(order, t) \in Int /\ InSales(sale, t) \in Int /\ InHands(req, t) \in Int
          /\ InOrders(order', t) \in Int /\ InSales(sale', t) \in Int /\ InHands(req', t) \in Int
      BY <1>1, SumTypes DEF KInv, IInv, TypeOK, OrdersOK, SalesOK
    <3>3. /\ stock[t] \in Int /\ stock'[t] \in Int /\ supplied[t] \in Int /\ supplied'[t] \in Int
      BY Bounds DEF KInv, IInv, TypeOK, Quantity
    <3>4. req[r].owed[t] \in Int /\ req'[r].owed[t] \in Int
      BY <1>1 DEF Request
    <3>5. stock[t] + InOrders(order, t) + InSales(sale, t) + InHands(req, t) = supplied[t]
      BY <2>1 DEF Balanced
    <3>6. stock'[t] + InOrders(order', t) + InSales(sale', t) + req'[r].owed[t] - supplied'[t]
            = stock[t] + InOrders(order, t) + InSales(sale, t) + req[r].owed[t] - supplied[t]
      BY <1>2, <1>4, <2>1
    <3> DEFINE a == stock[t]       a1 == stock'[t]
               b == InOrders(order, t)  b1 == InOrders(order', t)
               c == InSales(sale, t)    c1 == InSales(sale', t)
               d == InHands(req, t)     d1 == InHands(req', t)
               e == req[r].owed[t]      e1 == req'[r].owed[t]
               f == supplied[t]         f1 == supplied'[t]
    <3>7. /\ a \in Int /\ b \in Int /\ c \in Int /\ d \in Int /\ e \in Int /\ f \in Int
          /\ a1 \in Int /\ b1 \in Int /\ c1 \in Int /\ d1 \in Int /\ e1 \in Int /\ f1 \in Int
          /\ d1 = d - e + e1 /\ a + b + c + d = f /\ a1 + b1 + c1 + e1 - f1 = a + b + c + e - f
      BY <3>1, <3>2, <3>3, <3>4, <3>5, <3>6
    <3> HIDE DEF a, b, c, d, e, f, a1, b1, c1, d1, e1, f1
    <3>8. a1 + b1 + c1 + d1 = f1
      BY <3>7
    <3> QED  BY <3>8 DEF a1, b1, c1, d1, f1
  <2> QED  BY <2>2, <2>3 DEF Balanced
<1>5. (exact => Balanced /\ \A y \in Reqs : Books(req[y], sale))'
  BY <1>4
<1> QED  BY <1>3, <1>5 DEF KInv

\* A request that only reads.
LEMMA LookBooks ==
  ASSUME KInv, IInv', NEW r \in Reqs, NEW local, Goto(r, local),
         UNCHANGED <<stock, supplied, order, sale, exact>>,
         Aims(local, sale),
         exact /\ Books(req[r], sale) => Books(local, sale) /\ local.owed = req[r].owed
  PROVE  KInv'
<1>1. SalesStay /\ OffThePage(sale')
  BY DEF KInv, SalesStay
<1> QED  BY <1>1, BookStep

\* It read what it had not moved anything for.
LEMMA Starts ==
  ASSUME KInv, IInv', NEW r \in Reqs, req[r].pc = "idle", NEW local, Goto(r, local),
         UNCHANGED <<stock, supplied, order, sale, exact>>, local.owed = Nothing,
         Aims(local, sale), exact => Books(local, sale)
  PROVE  KInv'
<1>1. Books(req[r], sale) => local.owed = req[r].owed
  <2>1. req[r].owed \in [Things -> Int]
    BY RequestType DEF KInv, Request
  <2>2. Books(req[r], sale) => \A t \in Things : req[r].owed[t] = 0
    BY DEF Books, Owed
  <2>3. req[r].owed = [t \in Things |-> req[r].owed[t]]
    BY <2>1
  <2> QED  BY <2>2, <2>3 DEF Nothing
<1> QED  BY <1>1, LookBooks

-----------------------------------------------------------------------------
(* The requests that read.                                                 *)

LEMMA KRequest ==
  ASSUME KInv, NEW r \in Reqs
  PROVE  req[r] \in Request /\ Sane(req[r]) /\ Aims(req[r], sale)
BY RequestType DEF KInv

LEMMA TakeLookBooks ==
  ASSUME KInv, IInv', NEW r \in Reqs, NEW op \in {"order", "sell"}, NEW t \in Things,
         NEW units \in Qtys, TakeLook(r, op, t, units)
  PROVE  KInv'
<1> DEFINE local == [Idle EXCEPT !.pc = "take", !.op = op, !.i = t, !.q = units, !.seen = stock[t]]
<1>1. local.owed = Nothing /\ Aims(local, sale) /\ Books(local, sale)
  BY DEF TakeLook, Idle, Nothing, Aims, Books, Owed, OfSale
<1>2. Goto(r, local) /\ req[r].pc = "idle" /\ UNCHANGED <<stock, supplied, order, sale, exact>>
  BY DEF TakeLook, At
<1> HIDE DEF local
<1> QED  BY <1>1, <1>2, Starts

LEMMA CounterLookBooks ==
  ASSUME KInv, IInv', NEW r \in Reqs, NEW t \in Things, NEW units \in Qtys, CounterLook(r, t, units)
  PROVE  KInv'
<1> DEFINE local == [Idle EXCEPT !.pc = "counter", !.op = "sell", !.i = t, !.q = units, !.seen = stock[t]]
<1>1. local.owed = Nothing /\ Aims(local, sale) /\ Books(local, sale)
  BY DEF CounterLook, Idle, Nothing, Aims, Books, Owed, OfSale
<1>2. Goto(r, local) /\ req[r].pc = "idle" /\ UNCHANGED <<stock, supplied, order, sale, exact>>
  BY DEF CounterLook, At
<1> HIDE DEF local
<1> QED  BY <1>1, <1>2, Starts

LEMMA RestockLookBooks ==
  ASSUME KInv, IInv', NEW r \in Reqs, NEW t \in Things, NEW units \in Qtys, RestockLook(r, t, units)
  PROVE  KInv'
<1> DEFINE local == [Idle EXCEPT !.pc = "restock", !.op = "restock", !.i = t, !.q = units, !.seen = stock[t]]
<1>1. local.owed = Nothing /\ Aims(local, sale) /\ Books(local, sale)
  BY DEF RestockLook, Idle, Nothing, Aims, Books, Owed, OfSale
<1>2. Goto(r, local) /\ req[r].pc = "idle" /\ UNCHANGED <<stock, supplied, order, sale, exact>>
  BY DEF RestockLook, At
<1> HIDE DEF local
<1> QED  BY <1>1, <1>2, Starts

LEMMA BatchLookBooks ==
  ASSUME KInv, IInv', NEW r \in Reqs, NEW t \in Things, NEW a \in Qtys, NEW b \in Qtys \cup {0},
         BatchLook(r, t, a, b)
  PROVE  KInv'
<1> DEFINE local == [Idle EXCEPT !.pc = "batch", !.op = "batch", !.i = t, !.q = a, !.nq = b]
<1>1. local.owed = Nothing /\ Aims(local, sale) /\ Books(local, sale)
  BY DEF BatchLook, Idle, Nothing, Aims, Books, Owed, OfSale
<1>2. Goto(r, local) /\ req[r].pc = "idle" /\ UNCHANGED <<stock, supplied, order, sale, exact>>
  BY DEF BatchLook, At
<1> HIDE DEF local
<1> QED  BY <1>1, <1>2, Starts

\* Where an edit or a deletion starts.
Leads(q) ==
    /\ q.op \in OfSale => q.row \in Sales /\ sale[q.row].st # "none" /\ sale[q.row].i = q.i
    /\ q.op \in {"editOrder", "deleteOrder"} => q.row \in Orders
    /\ q.op = "editSale" => q.to \in Items
    /\ q.pc \in {"restore", "adjust", "diff"} => q.i \in Things
    /\ q.pc \in {"back", "restore"} /\ q.op \in OfSale => q.i \in Items
    /\ q.pc \in {"adjust", "diff"} => q.op = "editOrder" /\ q.to = q.i
    /\ q.pc = "swap" => q.i = NoThing \/ (q.op = "editSale" /\ q.i \notin Items)
    /\ q.pc = "drop" => q.op = "deleteSale" /\ q.i \notin Items
    /\ q.pc = "remove" => q.op = "deleteOrder"
    /\ q.pc = "save" => q.op = "editOrder" /\ q.i = NoThing /\ q.to = NoThing
    /\ q.pc \in {"back", "swap", "drop", "restore", "save", "adjust", "diff", "remove"}
    /\ q.owed = Nothing

LEMMA LoadedBooks ==
  ASSUME KInv, IInv', NEW r \in Reqs, req[r].pc = "idle", NEW local, Goto(r, local),
         UNCHANGED <<stock, supplied, order, sale, exact>>, Leads(local)
  PROVE  KInv'
<1>2. Aims(local, sale)
  BY DEF Aims, OfSale, Leads, Things
<1>3. local.op \in OfSale /\ local.i \notin Items => sale[local.row].linked
  BY DEF KInv, OffThePage, Leads
<1>5. \A t \in Things : \A n : Part(NoThing, n, t) = 0 /\ local.owed[t] = 0
  BY NamesAssumption DEF Part, Things, Nothing, Leads
<1>6. \A t \in Things : Owed(local, t)
  BY <1>5 DEF Owed, OfSale, Leads
<1>8. local.pc \in {"swap", "drop"} /\ local.op \in OfSale => sale[local.row].linked /\ local.i \notin Items
  BY <1>3, NamesAssumption DEF OfSale, Leads, Things
<1>7. Books(local, sale)
  BY <1>6, <1>8 DEF Books, OfSale, Leads
<1> QED  BY <1>2, <1>7, Starts DEF Leads

LEMMA LoadedFields ==
  ASSUME NEW op, NEW id, NEW row, NEW pc, NEW to, NEW nq
  PROVE  /\ LET local == [Loaded(op, id, row) EXCEPT !.pc = pc, !.to = to, !.nq = nq]
            IN  /\ local.pc = pc /\ local.op = op /\ local.row = id /\ local.i = row.i
                /\ local.to = to /\ local.nq = nq /\ local.owed = Nothing
         /\ LET local == [Loaded(op, id, row) EXCEPT !.pc = pc]
            IN  /\ local.pc = pc /\ local.op = op /\ local.row = id /\ local.i = row.i
                /\ local.owed = Nothing
BY DEF Loaded, Idle

LEMMA StartEditSaleBooks ==
  ASSUME KInv, IInv', NEW r \in Reqs, NEW n \in Sales, NEW t \in Things, NEW units \in Qtys,
         StartEditSale(r, n, t, units)
  PROVE  KInv'
<1> DEFINE row == sale[n]
           pc == IF row.i \in Items THEN "back" ELSE "swap"
           local == [Loaded("editSale", n, row) EXCEPT !.pc = pc, !.to = t, !.nq = units]
<1>1. row.st = "live" /\ Goto(r, local) /\ req[r].pc = "idle" /\ t \in Items
      /\ UNCHANGED <<stock, supplied, order, sale, exact>>
  BY DEF StartEditSale, At
<1>2. (pc = "back" /\ row.i \in Items) \/ (pc = "swap" /\ row.i \notin Items)
  OBVIOUS
<1> HIDE DEF pc
<1>3. /\ local.pc = pc /\ local.op = "editSale" /\ local.row = n /\ local.i = row.i
      /\ local.to = t /\ local.owed = Nothing
  BY LoadedFields
<1> HIDE DEF local
<1>4. Leads(local)
  BY <1>1, <1>2, <1>3 DEF Leads, OfSale
<1> QED  BY <1>1, <1>4, LoadedBooks

LEMMA StartDeleteSaleBooks ==
  ASSUME KInv, IInv', NEW r \in Reqs, NEW n \in Sales, StartDeleteSale(r, n)
  PROVE  KInv'
<1> DEFINE row == sale[n]
           pc == IF row.i \in Items THEN "back" ELSE "drop"
           local == [Loaded("deleteSale", n, row) EXCEPT !.pc = pc]
<1>1. row.st = "live" /\ Goto(r, local) /\ req[r].pc = "idle"
      /\ UNCHANGED <<stock, supplied, order, sale, exact>>
  BY DEF StartDeleteSale, At
<1>2. (pc = "back" /\ row.i \in Items) \/ (pc = "drop" /\ row.i \notin Items)
  OBVIOUS
<1> HIDE DEF pc
<1>3. local.pc = pc /\ local.op = "deleteSale" /\ local.row = n /\ local.i = row.i /\ local.owed = Nothing
  BY LoadedFields
<1> HIDE DEF local
<1>4. Leads(local)
  BY <1>1, <1>2, <1>3 DEF Leads, OfSale
<1> QED  BY <1>1, <1>4, LoadedBooks

LEMMA StartEditOrderBooks ==
  ASSUME KInv, IInv', NEW r \in Reqs, NEW o \in Orders, NEW t \in Things \cup {NoThing},
         NEW units \in Qtys, StartEditOrder(r, o, t, units)
  PROVE  KInv'
<1> DEFINE row == order[o]
           next == IF t # row.i
                   THEN IF row.i = NoThing THEN "swap"
                        ELSE IF row.i \in Items THEN "restore" ELSE "back"
                   ELSE IF row.i = NoThing THEN "save"
                        ELSE IF row.i \in Items THEN "adjust" ELSE "diff"
           local == [Loaded("editOrder", o, row) EXCEPT !.pc = next, !.to = t, !.nq = units]
<1>1. row.st = "live" /\ Goto(r, local) /\ req[r].pc = "idle"
      /\ UNCHANGED <<stock, supplied, order, sale, exact>>
  BY DEF StartEditOrder, At
<1>2. row.i \in Things \cup {NoThing}
  BY <1>1, LiveRows DEF KInv
<1>3. /\ next \in {"restore", "adjust", "diff"} => row.i \in Things
      /\ next \in {"adjust", "diff"} => t = row.i
      /\ next = "swap" => row.i = NoThing
      /\ next = "save" => row.i = NoThing /\ t = NoThing
      /\ next \in {"swap", "restore", "back", "save", "adjust", "diff"}
  BY <1>2
<1> HIDE DEF next
<1>4. /\ local.pc = next /\ local.op = "editOrder" /\ local.row = o /\ local.i = row.i
      /\ local.to = t /\ local.owed = Nothing
  BY LoadedFields
<1> HIDE DEF local
<1>5. Leads(local)
  BY <1>3, <1>4 DEF Leads, OfSale
<1> QED  BY <1>1, <1>5, LoadedBooks

LEMMA StartDeleteOrderBooks ==
  ASSUME KInv, IInv', NEW r \in Reqs, NEW o \in Orders, StartDeleteOrder(r, o)
  PROVE  KInv'
<1> DEFINE row == order[o]
           pc == IF row.i \in Drinks THEN "back" ELSE "remove"
           local == [Loaded("deleteOrder", o, row) EXCEPT !.pc = pc]
<1>1. Goto(r, local) /\ req[r].pc = "idle" /\ UNCHANGED <<stock, supplied, order, sale, exact>>
  BY DEF StartDeleteOrder, At
<1>2. pc \in {"back", "remove"}
  OBVIOUS
<1> HIDE DEF pc
<1>3. local.pc = pc /\ local.op = "deleteOrder" /\ local.row = o /\ local.i = row.i /\ local.owed = Nothing
  BY LoadedFields
<1> HIDE DEF local
<1>4. Leads(local)
  BY <1>2, <1>3 DEF Leads, OfSale
<1> QED  BY <1>1, <1>4, LoadedBooks

LEMMA BatchReadBooks ==
  ASSUME KInv, IInv', NEW r \in Reqs, BatchRead(r)
  PROVE  KInv'
<1> DEFINE local == [req[r] EXCEPT !.pc = "lines", !.seen = stock[req[r].i]]
<1>1. req[r].pc = "batch" /\ Goto(r, local) /\ UNCHANGED <<stock, supplied, order, sale, exact>>
  BY DEF BatchRead, At
<1>2. local.owed = req[r].owed /\ Aims(local, sale) /\ (Books(req[r], sale) => Books(local, sale))
  BY <1>1, KRequest DEF Request, Sane, Aims, Books, Owed
<1> HIDE DEF local
<1> QED  BY <1>1, <1>2, LookBooks

LEMMA BackLookBooks ==
  ASSUME KInv, IInv', NEW r \in Reqs, BackLook(r)
  PROVE  KInv'
<1> DEFINE pc == IF req[r].op = "deleteOrder" THEN "remove" ELSE "restore"
           local == [req[r] EXCEPT !.pc = pc, !.seen = stock[req[r].i]]
<1>1. req[r].pc = "back" /\ Goto(r, local) /\ UNCHANGED <<stock, supplied, order, sale, exact>>
  BY DEF BackLook, At
<1>2. pc \in {"remove", "restore"} /\ (pc = "remove" <=> req[r].op = "deleteOrder")
  OBVIOUS
<1>3. local.owed = req[r].owed /\ Aims(local, sale) /\ (Books(req[r], sale) => Books(local, sale))
  <2> HIDE DEF pc
  <2> QED  BY <1>1, <1>2, KRequest DEF Request, Sane, Aims, Books, Owed, OfSale
<1> HIDE DEF local
<1> QED  BY <1>1, <1>3, LookBooks

LEMMA SwapLookBooks ==
  ASSUME KInv, IInv', NEW r \in Reqs, SwapLook(r)
  PROVE  KInv'
<1>1. req[r].pc = "swap" /\ UNCHANGED <<stock, supplied, order, sale, exact>> /\ req[r].op \in Edits
  BY KRequest DEF SwapLook, At, Sane
<1>2. CASE req[r].to = NoThing
  <2> DEFINE local == [req[r] EXCEPT !.pc = "save"]
  <2>1. req[r].op = "editOrder"
    BY <1>1, <1>2, KRequest, NamesAssumption DEF Edits, Aims
  <2>2. Goto(r, local) /\ local.owed = req[r].owed
    BY <1>2, KRequest DEF SwapLook, Request
  <2>3. Aims(local, sale)
    BY <1>1, <2>1, KRequest DEF Request, Aims, OfSale
  <2>4. ASSUME Books(req[r], sale)
        PROVE  Books(local, sale)
    <3>1. \A t \in Things : req[r].owed[t] = -Part(req[r].i, req[r].q, t)
      BY <1>1, <2>1, <2>4 DEF Books, Owed, OfSale
    <3>2. \A t \in Things : Part(NoThing, req[r].nq, t) = 0 /\ Part(req[r].i, req[r].q, t) \in Int
      BY KRequest, NamesAssumption, Bounds DEF Part, Things, Request, Units
    <3>3. local.pc = "save" /\ local.op = "editOrder" /\ local.to = NoThing /\ local.i = req[r].i /\ local.q = req[r].q
          /\ local.nq = req[r].nq
      BY <1>2, <2>1, KRequest DEF Request
    <3> HIDE DEF local
    <3>4. \A t \in Things : Owed(local, t)
      BY <2>2, <3>1, <3>2, <3>3 DEF Owed
    <3> QED  BY <3>3, <3>4 DEF Books
  <2> HIDE DEF local
  <2> QED  BY <1>1, <2>2, <2>3, <2>4, LookBooks
<1>3. CASE req[r].to # NoThing
  <2> DEFINE local == [req[r] EXCEPT !.pc = "replace", !.seen = stock[req[r].to]]
  <2>1. Goto(r, local) /\ local.owed = req[r].owed
    BY <1>3, KRequest DEF SwapLook, Request
  <2>2. Aims(local, sale) /\ (Books(req[r], sale) => Books(local, sale))
    BY <1>1, <1>3, KRequest DEF Request, Aims, Books, Owed, OfSale
  <2> HIDE DEF local
  <2> QED  BY <1>1, <2>1, <2>2, LookBooks
<1> QED  BY <1>2, <1>3

LEMMA DiffLookBooks ==
  ASSUME KInv, IInv', NEW r \in Reqs, DiffLook(r)
  PROVE  KInv'
<1> DEFINE local == [req[r] EXCEPT !.pc = "adjust", !.seen = stock[req[r].i]]
<1>1. req[r].pc = "diff" /\ Goto(r, local) /\ UNCHANGED <<stock, supplied, order, sale, exact>>
  BY DEF DiffLook, At
<1>2. local.owed = req[r].owed /\ Aims(local, sale) /\ (Books(req[r], sale) => Books(local, sale))
  BY <1>1, KRequest DEF Request, Sane, Aims, Books, Owed, OfSale
<1> HIDE DEF local
<1> QED  BY <1>1, <1>2, LookBooks

-----------------------------------------------------------------------------
(* The requests that write.                                                *)

LEMMA PutMoves ==
  ASSUME IInv, NEW r \in Reqs, NEW i \in Things, NEW less \in Int, Put(r, i, less), Untouched(r, i)
  PROVE  \A t \in Things : stock'[t] = stock[t] - Part(i, less, t)
BY TableType, Bounds DEF Put, Untouched, Part, Quantity

LEMMA OwesMoves ==
  ASSUME NEW q \in Request, NEW i \in Things, NEW units \in Int
  PROVE  \A t \in Things : Owes(q, i, units)[t] = q.owed[t] + Part(i, units, t)
BY DEF Owes, Part, Request

\* A new order, or an order that is edited or deleted.
LEMMA OrderMoves ==
  ASSUME IInv, NEW o \in Orders, NEW row, order' = [order EXCEPT ![o] = row], OrdersOK(order')
  PROVE  \A t \in Things :
           /\ InOrders(order', t) = InOrders(order, t) - InOrder(order[o], t) + InOrder(row, t)
           /\ InOrder(order[o], t) \in Int /\ InOrder(row, t) \in Int
<1>1. OrdersOK(order) /\ SalesOK(sale) /\ order'[o] = row /\ \A x \in Orders \ {o} : order'[x] = order[x]
  BY TableType DEF OrdersOK
<1>2. ASSUME NEW t \in Things
      PROVE  InOrders(order', t) = InOrders(order, t) - InOrder(order[o], t) + InOrder(order'[o], t)
  <2> DEFINE old == order  new == order'
  <2>1. OrdersOK(old) /\ OrdersOK(new) /\ \A x \in Orders \ {o} : new[x] = old[x]
    BY <1>1
  <2> HIDE DEF old, new
  <2>2. InOrders(new, t) = InOrders(old, t) - InOrder(old[o], t) + InOrder(new[o], t)
    BY <2>1, OneOrder
  <2> QED  BY <2>2 DEF old, new
<1>3. ASSUME NEW t \in Things
      PROVE  InOrder(order[o], t) \in Int /\ InOrder(order'[o], t) \in Int
  BY <1>1, Bounds DEF OrdersOK, Row, Units, InOrder, Part
<1> QED  BY <1>1, <1>2, <1>3

LEMMA SaleMoves ==
  ASSUME IInv, NEW n \in Sales, NEW row, sale' = [sale EXCEPT ![n] = row], SalesOK(sale')
  PROVE  \A t \in Things :
           /\ InSales(sale', t) = InSales(sale, t) - InSale(sale[n], t) + InSale(row, t)
           /\ InSale(sale[n], t) \in Int /\ InSale(row, t) \in Int
<1>1. OrdersOK(order) /\ SalesOK(sale) /\ sale'[n] = row /\ \A x \in Sales \ {n} : sale'[x] = sale[x]
  BY TableType DEF SalesOK
<1>2. ASSUME NEW t \in Things
      PROVE  InSales(sale', t) = InSales(sale, t) - InSale(sale[n], t) + InSale(sale'[n], t)
  <2> DEFINE old == sale  new == sale'
  <2>1. SalesOK(old) /\ SalesOK(new) /\ \A x \in Sales \ {n} : new[x] = old[x]
    BY <1>1
  <2> HIDE DEF old, new
  <2>2. InSales(new, t) = InSales(old, t) - InSale(old[n], t) + InSale(new[n], t)
    BY <2>1, OneSale
  <2> QED  BY <2>2 DEF old, new
<1>3. ASSUME NEW t \in Things
      PROVE  InSale(sale[n], t) \in Int /\ InSale(sale'[n], t) \in Int
  BY <1>1, Bounds DEF SalesOK, SaleRow, Units, InSale, Part
<1> QED  BY <1>1, <1>2, <1>3

\* The quantities, sums and debts of the balance are numbers.
LEMMA Numbers ==
  ASSUME IInv, IInv', NEW r \in Reqs, NEW t \in Things
  PROVE  /\ stock[t] \in Int /\ supplied[t] \in Int /\ req[r].owed[t] \in Int
         /\ InOrders(order, t) \in Int /\ InSales(sale, t) \in Int
         /\ stock'[t] \in Int /\ supplied'[t] \in Int /\ req'[r].owed[t] \in Int
         /\ InOrders(order', t) \in Int /\ InSales(sale', t) \in Int
         /\ Part(req[r].i, req[r].q, t) \in Int /\ Part(req[r].to, req[r].nq, t) \in Int
         /\ req[r].q \in Int /\ req[r].nq \in Int
<1>1. req \in [Reqs -> Request] /\ req' \in [Reqs -> Request]
  BY DEF IInv, TypeOK
<1>2. /\ InOrders(order, t) \in Int /\ InSales(sale, t) \in Int
      /\ InOrders(order', t) \in Int /\ InSales(sale', t) \in Int
  BY <1>1, SumTypes DEF IInv, TypeOK, OrdersOK, SalesOK
<1>3. /\ stock[t] \in Int /\ stock'[t] \in Int /\ supplied[t] \in Int /\ supplied'[t] \in Int
  BY Bounds DEF IInv, TypeOK, Quantity
<1>4. /\ req[r].owed[t] \in Int /\ req'[r].owed[t] \in Int /\ req[r].q \in Int /\ req[r].nq \in Int
  BY <1>1, Bounds DEF Request, Units
<1>5. Part(req[r].i, req[r].q, t) \in Int /\ Part(req[r].to, req[r].nq, t) \in Int
  BY <1>4 DEF Part
<1> QED  BY <1>2, <1>3, <1>4, <1>5

LEMMA TakeBooks ==
  ASSUME KInv, IInv', NEW r \in Reqs, Take(r)
  PROVE  KInv'
<1> DEFINE local == [req[r] EXCEPT !.pc = "row", !.owed = Owes(req[r], req[r].i, req[r].q)]
<1>1. /\ req[r] \in Request /\ req[r].pc = "take" /\ req[r].i \in Things /\ Aims(req[r], sale)
      /\ Goto(r, local) /\ UNCHANGED <<supplied, order, sale>> /\ exact' = (exact /\ Untouched(r, req[r].i))
  BY KRequest DEF Take, At, Aims
<1>2. Aims(local, sale) /\ local.owed = Owes(req[r], req[r].i, req[r].q) /\ local.pc = "row"
      /\ local.i = req[r].i /\ local.q = req[r].q
  BY <1>1 DEF Request, Aims, OfSale
<1> HIDE DEF local
<1>3. SalesStay /\ OffThePage(sale') /\ Aims(local, sale')
  BY <1>1, <1>2 DEF KInv, SalesStay
<1>4. ASSUME exact, Books(req[r], sale), exact'
      PROVE  /\ Books(local, sale')
             /\ \A t \in Things :
                  stock'[t] + InOrders(order', t) + InSales(sale', t) + local.owed[t] - supplied'[t]
                    = stock[t] + InOrders(order, t) + InSales(sale, t) + req[r].owed[t] - supplied[t]
  <2>1. req[r].q \in Int /\ Put(r, req[r].i, req[r].q) /\ Untouched(r, req[r].i)
    BY <1>1, <1>4, Amounts DEF KInv, Take
  <2>2. \A t \in Things : stock'[t] = stock[t] - Part(req[r].i, req[r].q, t)
    BY <1>1, <2>1, PutMoves DEF KInv
  <2>3. \A t \in Things : local.owed[t] = req[r].owed[t] + Part(req[r].i, req[r].q, t)
    BY <1>1, <1>2, <2>1, OwesMoves
  <2>4. \A t \in Things : req[r].owed[t] = 0
    BY <1>1, <1>4 DEF Books, Owed
  <2>5. ASSUME NEW t \in Things
        PROVE  /\ local.owed[t] = Part(req[r].i, req[r].q, t)
               /\ stock'[t] + InOrders(order', t) + InSales(sale', t) + local.owed[t] - supplied'[t]
                    = stock[t] + InOrders(order, t) + InSales(sale, t) + req[r].owed[t] - supplied[t]
    BY <1>1, <2>2, <2>3, <2>4, Numbers DEF KInv
  <2>6. Books(local, sale')
    BY <1>2, <2>5 DEF Books, Owed
  <2> QED  BY <2>5, <2>6
<1>5. exact' => exact
  BY <1>1
<1> QED  BY <1>1, <1>3, <1>4, <1>5, BookStep

LEMMA OrderRowBooks ==
  ASSUME KInv, IInv', NEW r \in Reqs, OrderRow(r)
  PROVE  KInv'
<1> DEFINE local == [req[r] EXCEPT !.pc = "sale", !.owed = Nothing]
<1>1. /\ req[r] \in Request /\ req[r].pc = "row" /\ req[r].op = "order" /\ Aims(req[r], sale)
      /\ Goto(r, local) /\ UNCHANGED <<stock, supplied, sale, exact>>
  BY KRequest DEF OrderRow, At
<1>2. Aims(local, sale) /\ local.owed = Nothing /\ local.pc = "sale" /\ local.op = "order"
  BY <1>1 DEF Request, Aims, OfSale
<1> HIDE DEF local
<1>3. SalesStay /\ OffThePage(sale')
  BY <1>1 DEF KInv, SalesStay
<1>4. PICK o \in Orders : order[o].st = "none" /\ order' = [order EXCEPT ![o] = NewOrder(req[r].i, req[r].q)]
  BY DEF OrderRow
<1>5. OrdersOK(order')
  BY DEF IInv, TypeOK, OrdersOK
<1>6. ASSUME Books(req[r], sale)
      PROVE  /\ Books(local, sale')
             /\ \A t \in Things :
                  stock'[t] + InOrders(order', t) + InSales(sale', t) + local.owed[t] - supplied'[t]
                    = stock[t] + InOrders(order, t) + InSales(sale, t) + req[r].owed[t] - supplied[t]
  <2>1. \A t \in Things : req[r].owed[t] = Part(req[r].i, req[r].q, t) /\ local.owed[t] = 0
    BY <1>1, <1>2, <1>6 DEF Books, Owed, Nothing
  <2>2. \A t \in Things : InOrders(order', t) = InOrders(order, t) - InOrder(order[o], t)
                                                 + InOrder(NewOrder(req[r].i, req[r].q), t)
    BY <1>4, <1>5, OrderMoves DEF KInv
  <2>3. \A t \in Things : InOrder(order[o], t) = 0
                          /\ InOrder(NewOrder(req[r].i, req[r].q), t) = Part(req[r].i, req[r].q, t)
    BY <1>4 DEF InOrder, NewOrder
  <2>4. ASSUME NEW t \in Things
        PROVE  stock'[t] + InOrders(order', t) + InSales(sale', t) + local.owed[t] - supplied'[t]
                 = stock[t] + InOrders(order, t) + InSales(sale, t) + req[r].owed[t] - supplied[t]
    BY <1>1, <2>1, <2>2, <2>3, Numbers DEF KInv
  <2>5. Books(local, sale')
    BY <1>2, <2>1 DEF Books, Owed
  <2> QED  BY <2>4, <2>5
<1> QED  BY <1>1, <1>2, <1>3, <1>6, BookStep

LEMMA NewSaleStays ==
  ASSUME KInv, NEW n \in Sales, sale[n].st = "none", NEW i, NEW q, NEW linked \in BOOLEAN,
         linked \/ i \in Items, sale' = [sale EXCEPT ![n] = NewSale(i, q, linked)]
  PROVE  SalesStay /\ OffThePage(sale')
<1>1. sale'[n] = NewSale(i, q, linked) /\ \A x \in Sales \ {n} : sale'[x] = sale[x]
  BY DEF KInv, IInv, TypeOK
<1>2. sale'[n].i = i /\ sale'[n].linked = linked
  BY <1>1 DEF NewSale
<1>3. SalesStay
  BY <1>1 DEF SalesStay
<1>4. ASSUME NEW x \in Sales, sale'[x].st # "none", ~sale'[x].linked
      PROVE  sale'[x].i \in Items
  BY <1>1, <1>2, <1>4 DEF KInv, OffThePage
<1> QED  BY <1>3, <1>4 DEF OffThePage

\* The units of a new sale of the sales page.
LEMMA NewSaleMoves ==
  ASSUME KInv, IInv', NEW n \in Sales, sale[n].st = "none", NEW r \in Reqs,
         sale' = [sale EXCEPT ![n] = NewSale(req[r].i, req[r].q, FALSE)]
  PROVE  \A t \in Things : InSales(sale', t) = InSales(sale, t) + Part(req[r].i, req[r].q, t)
<1>1. SalesOK(sale')
  BY DEF IInv, TypeOK, SalesOK
<1>2. ASSUME NEW t \in Things
      PROVE  InSales(sale', t) = InSales(sale, t) + Part(req[r].i, req[r].q, t)
  <2>1. InSales(sale', t) = InSales(sale, t) - InSale(sale[n], t) + InSale(NewSale(req[r].i, req[r].q, FALSE), t)
    BY <1>1, SaleMoves DEF KInv
  <2>2. InSale(sale[n], t) = 0 /\ InSale(NewSale(req[r].i, req[r].q, FALSE), t) = Part(req[r].i, req[r].q, t)
    BY DEF InSale, NewSale
  <2>3. InSales(sale, t) \in Int /\ Part(req[r].i, req[r].q, t) \in Int
    BY Numbers DEF KInv
  <2>4. InSales(sale', t) = InSales(sale, t) - 0 + Part(req[r].i, req[r].q, t)
    BY <2>1, <2>2
  <2> QED  BY <2>3, <2>4
<1> QED  BY <1>2

LEMMA SaleRowOfOrderBooks ==
  ASSUME KInv, IInv', NEW r \in Reqs, SaleRowOfOrder(r)
  PROVE  KInv'
<1>1. /\ req[r].pc = "sale" /\ Goto(r, Idle) /\ UNCHANGED <<stock, supplied, order, exact>>
  BY DEF SaleRowOfOrder, At
<1>2. PICK n \in Sales : sale[n].st = "none" /\ sale' = [sale EXCEPT ![n] = NewSale(req[r].i, req[r].q, TRUE)]
  BY DEF SaleRowOfOrder
<1>3. sale'[n] = NewSale(req[r].i, req[r].q, TRUE) /\ \A x \in Sales \ {n} : sale'[x] = sale[x]
  BY <1>2 DEF KInv, IInv, TypeOK
<1>4. SalesStay /\ OffThePage(sale')
  BY <1>2, NewSaleStays
<1>5. SalesOK(sale)
  BY TableType DEF KInv
<1>6. \A t \in Things : InSales(sale', t) = InSales(sale, t)
  <2>1. \A t \in Things : \A x \in Sales : InSale(sale'[x], t) = InSale(sale[x], t)
    BY <1>2, <1>3 DEF InSale, NewSale
  <2> QED  BY <1>5, <2>1, SameSales
<1>7. Books(req[r], sale) =>
        \A t \in Things :
          stock'[t] + InOrders(order', t) + InSales(sale', t) + Idle.owed[t] - supplied'[t]
            = stock[t] + InOrders(order, t) + InSales(sale, t) + req[r].owed[t] - supplied[t]
  BY <1>1, <1>6, IdleBooks DEF Books, Owed
<1> QED  BY <1>1, <1>4, <1>7, IdleBooks, BookStep

LEMMA SellRowBooks ==
  ASSUME KInv, IInv', NEW r \in Reqs, SellRow(r)
  PROVE  KInv'
<1>1. /\ req[r].pc = "row" /\ req[r].op = "sell" /\ Goto(r, Idle) /\ UNCHANGED <<stock, supplied, order, exact>>
      /\ req[r].i \in Items
  BY KRequest DEF SellRow, At, Aims
<1>2. PICK n \in Sales : sale[n].st = "none" /\ sale' = [sale EXCEPT ![n] = NewSale(req[r].i, req[r].q, FALSE)]
  BY DEF SellRow
<1>4. SalesStay /\ OffThePage(sale')
  BY <1>1, <1>2, NewSaleStays
<1>6. \A t \in Things : InSales(sale', t) = InSales(sale, t) + Part(req[r].i, req[r].q, t)
  BY <1>2, NewSaleMoves
<1>8. ASSUME Books(req[r], sale), NEW t \in Things
      PROVE  stock'[t] + InOrders(order', t) + InSales(sale', t) + Idle.owed[t] - supplied'[t]
               = stock[t] + InOrders(order, t) + InSales(sale, t) + req[r].owed[t] - supplied[t]
  <2>1. req[r].owed[t] = Part(req[r].i, req[r].q, t) /\ Idle.owed[t] = 0
    BY <1>1, <1>8, IdleBooks DEF Books, Owed
  <2> QED  BY <1>1, <1>6, <2>1, Numbers DEF KInv
<1> QED  BY <1>1, <1>4, <1>8, IdleBooks, BookStep

LEMMA CounterCommitBooks ==
  ASSUME KInv, IInv', NEW r \in Reqs, CounterCommit(r)
  PROVE  KInv'
<1>1. /\ req[r].pc = "counter" /\ Goto(r, Idle) /\ UNCHANGED <<supplied, order>>
      /\ req[r].i \in Items /\ req[r].i \in Things /\ Put(r, req[r].i, req[r].q) /\ req[r].q \in Int
      /\ exact' = (exact /\ Untouched(r, req[r].i))
  BY KRequest, Amounts DEF CounterCommit, At, Aims, KInv, Things
<1>2. PICK n \in Sales : sale[n].st = "none" /\ sale' = [sale EXCEPT ![n] = NewSale(req[r].i, req[r].q, FALSE)]
  BY DEF CounterCommit
<1>4. SalesStay /\ OffThePage(sale')
  BY <1>1, <1>2, NewSaleStays
<1>6. \A t \in Things : InSales(sale', t) = InSales(sale, t) + Part(req[r].i, req[r].q, t)
  BY <1>2, NewSaleMoves
<1>8. ASSUME Books(req[r], sale), exact', NEW t \in Things
      PROVE  stock'[t] + InOrders(order', t) + InSales(sale', t) + Idle.owed[t] - supplied'[t]
               = stock[t] + InOrders(order, t) + InSales(sale, t) + req[r].owed[t] - supplied[t]
  <2>1. req[r].owed[t] = 0 /\ Idle.owed[t] = 0
    BY <1>1, <1>8, IdleBooks DEF Books, Owed
  <2>2. stock'[t] = stock[t] - Part(req[r].i, req[r].q, t)
    BY <1>1, <1>8, PutMoves DEF KInv
  <2> QED  BY <1>1, <1>6, <2>1, <2>2, Numbers DEF KInv
<1>9. exact' => exact
  BY <1>1
<1> QED  BY <1>1, <1>4, <1>8, <1>9, IdleBooks, BookStep

LEMMA RestockBooks ==
  ASSUME KInv, IInv', NEW r \in Reqs, Restock(r)
  PROVE  KInv'
<1>1. /\ req[r].pc = "restock" /\ Goto(r, Idle) /\ UNCHANGED <<order, sale>>
      /\ req[r].i \in Things /\ Put(r, req[r].i, -req[r].q) /\ req[r].q \in Int /\ -req[r].q \in Int
      /\ exact' = (exact /\ Untouched(r, req[r].i))
      /\ supplied' = [supplied EXCEPT ![req[r].i] = @ + req[r].q]
  BY KRequest, Amounts DEF Restock, At, Aims, KInv
<1>2. SalesStay /\ OffThePage(sale')
  BY <1>1 DEF KInv, SalesStay
<1>3. \A t \in Things : supplied'[t] = supplied[t] + Part(req[r].i, req[r].q, t)
  BY <1>1 DEF KInv, IInv, TypeOK, Part
<1>4. ASSUME Books(req[r], sale), exact', NEW t \in Things
      PROVE  stock'[t] + InOrders(order', t) + InSales(sale', t) + Idle.owed[t] - supplied'[t]
               = stock[t] + InOrders(order, t) + InSales(sale, t) + req[r].owed[t] - supplied[t]
  <2>1. req[r].owed[t] = 0 /\ Idle.owed[t] = 0
    BY <1>1, <1>4, IdleBooks DEF Books, Owed
  <2>2. stock'[t] = stock[t] - Part(req[r].i, -req[r].q, t)
    BY <1>1, <1>4, PutMoves DEF KInv
  <2>3. stock'[t] = stock[t] + Part(req[r].i, req[r].q, t)
    BY <1>1, <2>2, Numbers DEF KInv, Part
  <2> QED  BY <1>1, <1>3, <2>1, <2>3, Numbers DEF KInv
<1>5. exact' => exact
  BY <1>1
<1> QED  BY <1>1, <1>2, <1>4, <1>5, IdleBooks, BookStep

LEMMA AbortBooks ==
  ASSUME KInv, IInv', NEW r \in Reqs, Abort(r)
  PROVE  KInv'
<1>1. /\ Goto(r, Idle) /\ UNCHANGED <<stock, supplied, order, sale>> /\ exact' = (exact /\ req[r].owed = Nothing)
  BY DEF Abort
<1>2. SalesStay /\ OffThePage(sale')
  BY <1>1 DEF KInv, SalesStay
<1>3. exact' => exact /\ \A t \in Things : req[r].owed[t] = 0
  BY <1>1 DEF Nothing
<1> QED  BY <1>1, <1>2, <1>3, IdleBooks, BookStep

\* The rows of a batch: an order of each line, and a sale of each order.
LEMMA BatchMoves ==
  ASSUME KInv, NEW r \in Reqs, BatchCommit(r)
  PROVE  /\ SalesStay /\ OffThePage(sale')
         /\ \A t \in Things : /\ InSales(sale', t) = InSales(sale, t)
                              /\ InOrders(order', t) = InOrders(order, t) + Part(req[r].i, req[r].q, t)
                                                                          + Part(req[r].i, req[r].nq, t)
<1> DEFINE q == req[r]
           A == NewOrder(q.i, q.q)
           B == NewOrder(q.i, q.nq)
<1>1. PICK o1, o2 \in Orders, n1, n2 \in Sales :
        /\ order[o1].st = "none" /\ order[o2].st = "none" /\ (o1 = o2) = (q.nq = 0)
        /\ sale[n1].st = "none" /\ sale[n2].st = "none" /\ (n1 = n2) = (q.nq = 0)
        /\ order' = [order EXCEPT ![o2] = B, ![o1] = A]
        /\ sale' = [sale EXCEPT ![n2] = NewSale(q.i, q.nq, TRUE),
                                ![n1] = NewSale(q.i, q.q, TRUE)]
  BY DEF BatchCommit
<1>2. OrdersOK(order) /\ SalesOK(sale)
  BY TableType DEF KInv
<1>3. /\ \A x \in Sales \ {n1, n2} : sale'[x] = sale[x]
      /\ \A x \in {n1, n2} : sale'[x].linked = TRUE /\ sale'[x].st = "live" /\ sale[x].st = "none"
  BY <1>1, <1>2 DEF SalesOK, NewSale
<1>4. SalesStay /\ OffThePage(sale')
  BY <1>3 DEF KInv, OffThePage, SalesStay
<1>5. \A t \in Things : InSales(sale', t) = InSales(sale, t)
  <2>1. \A t \in Things : \A x \in Sales : InSale(sale'[x], t) = InSale(sale[x], t)
    BY <1>3 DEF InSale
  <2> QED  BY <1>2, <2>1, SameSales
<1>6. q.q \in Units /\ q.i \in Things /\ q.nq \in Units \cup {0} /\ A \in Row /\ q.q > 0
  BY KRequest, LineType, RowsType DEF KInv, BatchCommit, At, Aims, Request
<1>7. ASSUME NEW t \in Things
      PROVE  InOrders(order', t) = InOrders(order, t) + Part(q.i, q.q, t) + Part(q.i, q.nq, t)
  <2>1. /\ InOrder(A, t) = Part(q.i, q.q, t) /\ InOrder(B, t) = Part(q.i, q.nq, t)
        /\ InOrder(order[o1], t) = 0 /\ InOrder(order[o2], t) = 0
    BY <1>1 DEF InOrder, NewOrder
  <2>2. InOrders(order, t) \in Int /\ Part(q.i, q.q, t) \in Int /\ Part(q.i, q.nq, t) \in Int
    BY <1>2, <1>6, SumTypes, Bounds DEF Part, Units, KInv, IInv, TypeOK
  <2> DEFINE next == [order EXCEPT ![o1] = A]
  <2>3. OrdersOK(next) /\ next[o1] = A /\ \A x \in Orders \ {o1} : next[x] = order[x]
    BY <1>2, <1>6 DEF OrdersOK, NewOrder
  <2> HIDE DEF next
  <2>4. InOrders(next, t) = InOrders(order, t) - InOrder(order[o1], t) + InOrder(next[o1], t)
    BY <1>2, <2>3, OneOrder
  <2>5. InOrders(next, t) = InOrders(order, t) + Part(q.i, q.q, t)
    BY <2>1, <2>2, <2>3, <2>4
  <2>6. CASE q.nq = 0
    <3>1. order' = next
      BY <1>1, <1>2, <2>6 DEF OrdersOK, next
    <3>2. Part(q.i, q.nq, t) = 0
      BY <2>6 DEF Part
    <3>3. InOrders(order', t) = InOrders(next, t)
      BY <3>1
    <3> QED  BY <2>2, <2>5, <3>2, <3>3
  <2>7. CASE q.nq # 0
    <3> DEFINE last == order'
    <3>1. q.nq \in Units /\ B \in Row /\ q.nq > 0 /\ o1 # o2
      BY <1>1, <1>6, <2>7, RowsType
    <3>2. last[o2] = B /\ \A x \in Orders \ {o2} : last[x] = next[x]
      BY <1>1, <1>2, <3>1 DEF OrdersOK, next
    <3>3. last \in [Orders -> Row]
      BY <1>1, <1>2, <1>6, <3>1 DEF OrdersOK
    <3>4. OrdersOK(last)
      BY <2>3, <3>1, <3>2, <3>3 DEF OrdersOK, NewOrder
    <3>5. next[o2] = order[o2]
      BY <2>3, <3>1
    <3> HIDE DEF last
    <3>6. InOrders(last, t) = InOrders(next, t) - InOrder(next[o2], t) + InOrder(last[o2], t)
      BY <2>3, <3>2, <3>4, OneOrder
    <3>7. InOrders(last, t) = InOrders(order, t) + Part(q.i, q.q, t) + Part(q.i, q.nq, t)
      BY <2>1, <2>2, <2>5, <3>2, <3>5, <3>6
    <3> QED  BY <3>7 DEF last
  <2> QED  BY <2>6, <2>7
<1> QED  BY <1>4, <1>5, <1>7

LEMMA BatchCommitBooks ==
  ASSUME KInv, IInv', NEW r \in Reqs, BatchCommit(r)
  PROVE  KInv'
<1>1. /\ req[r].pc = "lines" /\ Goto(r, Idle) /\ UNCHANGED supplied
      /\ req[r].i \in Things /\ Put(r, req[r].i, req[r].q + req[r].nq)
      /\ exact' = (exact /\ Untouched(r, req[r].i))
  BY KRequest DEF BatchCommit, At, Aims
<1>2. SalesStay /\ OffThePage(sale')
  BY BatchMoves
<1>3. req[r].q \in Int /\ req[r].nq \in Int /\ req[r].q + req[r].nq \in Int
  BY Amounts DEF KInv
<1>4. ASSUME Books(req[r], sale), exact', NEW t \in Things
      PROVE  stock'[t] + InOrders(order', t) + InSales(sale', t) + Idle.owed[t] - supplied'[t]
               = stock[t] + InOrders(order, t) + InSales(sale, t) + req[r].owed[t] - supplied[t]
  <2>1. req[r].owed[t] = 0 /\ Idle.owed[t] = 0
    BY <1>1, <1>4, IdleBooks DEF Books, Owed
  <2>2. stock'[t] = stock[t] - Part(req[r].i, req[r].q + req[r].nq, t)
    BY <1>1, <1>3, <1>4, PutMoves DEF KInv
  <2>3. /\ Part(req[r].i, req[r].q + req[r].nq, t) = Part(req[r].i, req[r].q, t) + Part(req[r].i, req[r].nq, t)
        /\ Part(req[r].i, req[r].q, t) \in Int /\ Part(req[r].i, req[r].nq, t) \in Int
    BY <1>3 DEF Part
  <2>4. /\ InSales(sale', t) = InSales(sale, t)
        /\ InOrders(order', t) = InOrders(order, t) + Part(req[r].i, req[r].q, t) + Part(req[r].i, req[r].nq, t)
    BY BatchMoves
  <2> QED  BY <1>1, <2>1, <2>2, <2>3, <2>4, Numbers DEF KInv
<1>5. exact' => exact
  BY <1>1
<1> QED  BY <1>1, <1>2, <1>4, <1>5, IdleBooks, BookStep

\* Units put back, or taken for an edit: from then on they are owed to a row.
LEMMA ShelfBooks ==
  ASSUME KInv, IInv', NEW r \in Reqs, NEW local, Goto(r, local), UNCHANGED <<supplied, order, sale>>,
         NEW i \in Things, NEW less \in Int, Put(r, i, less), local.owed = Owes(req[r], i, less),
         exact' => exact /\ Untouched(r, i), Aims(local, sale),
         exact' /\ Books(req[r], sale)
           /\ (\A t \in Things : local.owed[t] = req[r].owed[t] + Part(i, less, t)) => Books(local, sale)
  PROVE  KInv'
<1>1. SalesStay /\ OffThePage(sale')
  BY DEF KInv, SalesStay
<1>2. \A t \in Things : local.owed[t] = req[r].owed[t] + Part(i, less, t)
  BY KRequest, OwesMoves
<1>3. ASSUME exact', NEW t \in Things
      PROVE  stock'[t] + InOrders(order', t) + InSales(sale', t) + local.owed[t] - supplied'[t]
               = stock[t] + InOrders(order, t) + InSales(sale, t) + req[r].owed[t] - supplied[t]
  <2>1. stock'[t] = stock[t] - Part(i, less, t) /\ Part(i, less, t) \in Int
    BY <1>3, PutMoves DEF KInv, Part
  <2> QED  BY <1>2, <2>1, Numbers DEF KInv
<1> QED  BY <1>1, <1>2, <1>3, BookStep

LEMMA RestoreBooks ==
  ASSUME KInv, IInv', NEW r \in Reqs, Restore(r)
  PROVE  KInv'
<1> DEFINE q == req[r]
           pc == IF q.op = "deleteSale" THEN "drop" ELSE "swap"
           owed == Owes(q, q.i, -q.q)
           local == [q EXCEPT !.pc = pc, !.owed = owed]
<1>1. /\ q \in Request /\ q.pc = "restore" /\ Aims(q, sale) /\ q.i \in Things /\ Goto(r, local)
      /\ UNCHANGED <<supplied, order, sale>> /\ Put(r, q.i, -q.q) /\ q.q \in Int /\ -q.q \in Int
      /\ exact' = (exact /\ Untouched(r, q.i) /\ ~Linked(q)) /\ q.op \in Edits \cup {"deleteSale"}
  BY KRequest, Amounts DEF Restore, At, Aims, Sane, KInv
<1>2. pc \in {"drop", "swap"} /\ (pc = "drop" <=> q.op = "deleteSale")
  OBVIOUS
<1> HIDE DEF pc, owed
<1>3. /\ local.owed = owed /\ local.pc = pc /\ local.op = q.op /\ local.row = q.row
      /\ local.i = q.i /\ local.q = q.q /\ local.to = q.to /\ local.nq = q.nq
  BY <1>1 DEF Request
<1> HIDE DEF local
<1>4. Aims(local, sale)
  BY <1>1, <1>2, <1>3 DEF Aims, OfSale
<1>5. ASSUME exact', Books(q, sale), \A t \in Things : local.owed[t] = q.owed[t] + Part(q.i, -q.q, t)
      PROVE  Books(local, sale)
  <2>1. \A t \in Things : q.owed[t] = 0 /\ Part(q.i, -q.q, t) = -Part(q.i, q.q, t) /\ Part(q.i, q.q, t) \in Int
    BY <1>1, <1>5 DEF Books, Owed, Part
  <2>2. \A t \in Things : local.owed[t] = -Part(q.i, q.q, t)
    BY <1>5, <2>1
  <2>3. q.op \in OfSale => q.i \in Items /\ ~sale[q.row].linked
    BY <1>1, <1>5 DEF Aims, Linked
  <2>4. \A t \in Things : Owed(local, t)
    BY <1>2, <1>3, <2>2, <2>3 DEF Owed
  <2> QED  BY <1>2, <1>3, <2>3, <2>4 DEF Books
<1> QED  BY <1>1, <1>3, <1>4, <1>5, ShelfBooks DEF owed

LEMMA ReplaceBooks ==
  ASSUME KInv, IInv', NEW r \in Reqs, Replace(r)
  PROVE  KInv'
<1> DEFINE q == req[r]
           owed == Owes(q, q.to, q.nq)
           local == [q EXCEPT !.pc = "save", !.owed = owed]
<1>1. /\ q \in Request /\ q.pc = "replace" /\ Aims(q, sale) /\ q.to \in Things /\ Goto(r, local)
      /\ UNCHANGED <<supplied, order, sale>> /\ Put(r, q.to, q.nq) /\ q.q \in Int /\ q.nq \in Int
      /\ exact' = (exact /\ Untouched(r, q.to) /\ ~Linked(q)) /\ q.op \in Edits
  BY KRequest, Amounts DEF Replace, At, Aims, Sane, KInv
<1> HIDE DEF owed
<1>3. /\ local.owed = owed /\ local.pc = "save" /\ local.op = q.op /\ local.row = q.row
      /\ local.i = q.i /\ local.q = q.q /\ local.to = q.to /\ local.nq = q.nq
  BY <1>1 DEF Request
<1> HIDE DEF local
<1>4. Aims(local, sale)
  BY <1>1, <1>3 DEF Aims, OfSale
<1>5. ASSUME exact', Books(q, sale), \A t \in Things : local.owed[t] = q.owed[t] + Part(q.to, q.nq, t)
      PROVE  Books(local, sale)
  <2>1. q.op \in OfSale => q.i \in Items /\ ~sale[q.row].linked
    BY <1>1, <1>5 DEF Aims, Linked, Books
  <2>2. \A t \in Things : q.owed[t] = -Part(q.i, q.q, t) /\ Part(q.i, q.q, t) \in Int /\ Part(q.to, q.nq, t) \in Int
    BY <1>1, <1>5, <2>1 DEF Books, Owed, Part
  <2>3. \A t \in Things : local.owed[t] = Part(q.to, q.nq, t) - Part(q.i, q.q, t)
    BY <1>5, <2>2
  <2>4. \A t \in Things : Owed(local, t)
    BY <1>3, <2>3 DEF Owed
  <2> QED  BY <1>3, <2>1, <2>4 DEF Books, OfSale
<1> QED  BY <1>1, <1>3, <1>4, <1>5, ShelfBooks DEF owed

LEMMA AdjustBooks ==
  ASSUME KInv, IInv', NEW r \in Reqs, Adjust(r)
  PROVE  KInv'
<1> DEFINE q == req[r]
           more == q.nq - q.q
           owed == Owes(q, q.i, more)
           local == [q EXCEPT !.pc = "save", !.owed = owed]
<1>1. /\ q \in Request /\ q.pc = "adjust" /\ Aims(q, sale) /\ q.i \in Things /\ q.to = q.i /\ q.op = "editOrder"
      /\ UNCHANGED <<supplied, order, sale>> /\ Put(r, q.i, more) /\ q.q \in Int /\ q.nq \in Int
      /\ Goto(r, local) /\ exact' = (exact /\ Untouched(r, q.i))
  BY KRequest, Amounts DEF Adjust, At, Aims, Sane, KInv
<1>2. more \in Int
  BY <1>1
<1> HIDE DEF owed
<1>3. /\ local.owed = owed /\ local.pc = "save" /\ local.op = q.op /\ local.row = q.row
      /\ local.i = q.i /\ local.q = q.q /\ local.to = q.to /\ local.nq = q.nq
  BY <1>1 DEF Request
<1> HIDE DEF local
<1>4. Aims(local, sale)
  BY <1>1, <1>3 DEF Aims, OfSale
<1>5. ASSUME exact', Books(q, sale), \A t \in Things : local.owed[t] = q.owed[t] + Part(q.i, more, t)
      PROVE  Books(local, sale)
  <2>1. \A t \in Things : q.owed[t] = 0 /\ Part(q.i, more, t) = Part(q.to, q.nq, t) - Part(q.i, q.q, t)
                          /\ Part(q.i, q.q, t) \in Int /\ Part(q.to, q.nq, t) \in Int
    BY <1>1, <1>5 DEF Books, Owed, Part
  <2>3. \A t \in Things : local.owed[t] = Part(q.to, q.nq, t) - Part(q.i, q.q, t)
    BY <1>5, <2>1
  <2>4. \A t \in Things : Owed(local, t)
    BY <1>3, <2>3 DEF Owed
  <2> QED  BY <1>1, <1>3, <2>4 DEF Books, OfSale
<1> HIDE DEF more
<1> QED  BY <1>1, <1>2, <1>3, <1>4, <1>5, ShelfBooks DEF owed

\* The order an edit or a deletion read, if it is still that: its units are those of q.
LEMMA KeptOrder ==
  ASSUME KInv, NEW r \in Reqs, RowKept(r), req[r].row \in Orders
  PROVE  \A t \in Things : InOrder(order[req[r].row], t) = Part(req[r].i, req[r].q, t)
BY DEF RowKept, InOrder

LEMMA KeptSale ==
  ASSUME KInv, NEW r \in Reqs, RowKept(r), req[r].row \in Sales, ~sale[req[r].row].linked
  PROVE  \A t \in Things : InSale(sale[req[r].row], t) = Part(req[r].i, req[r].q, t)
BY NamesAssumption DEF RowKept, InSale

LEMMA SaveOrderBooks ==
  ASSUME KInv, IInv', NEW r \in Reqs, Save(r), req[r].row \in Orders
  PROVE  KInv'
<1> DEFINE q == req[r]  o == q.row
<1>1. /\ q.pc = "save" /\ Goto(r, Idle) /\ UNCHANGED <<stock, supplied, sale>>
      /\ exact' = (exact /\ RowKept(r)) /\ o \in Orders
      /\ order' = [order EXCEPT ![o] = NewOrder(q.to, q.nq)]
  BY NamesAssumption DEF Save, At
<1>2. SalesStay /\ OffThePage(sale') /\ OrdersOK(order')
  BY <1>1 DEF KInv, SalesStay, IInv, TypeOK, OrdersOK
<1>3. ASSUME Books(q, sale), exact', NEW t \in Things
      PROVE  stock'[t] + InOrders(order', t) + InSales(sale', t) + Idle.owed[t] - supplied'[t]
               = stock[t] + InOrders(order, t) + InSales(sale, t) + q.owed[t] - supplied[t]
  <2>1. q.owed[t] = Part(q.to, q.nq, t) - Part(q.i, q.q, t) /\ Idle.owed[t] = 0
    BY <1>1, <1>3, IdleBooks DEF Books, Owed
  <2>2. InOrders(order', t) = InOrders(order, t) - InOrder(order[o], t) + InOrder(NewOrder(q.to, q.nq), t)
    BY <1>1, <1>2, OrderMoves DEF KInv
  <2>3. InOrder(order[o], t) = Part(q.i, q.q, t) /\ InOrder(NewOrder(q.to, q.nq), t) = Part(q.to, q.nq, t)
    BY <1>1, <1>3, KeptOrder DEF InOrder, NewOrder
  <2> HIDE DEF q, o
  <2> QED  BY <1>1, <2>1, <2>2, <2>3, Numbers DEF KInv, q
<1>4. exact' => exact
  BY <1>1
<1> QED  BY <1>1, <1>2, <1>3, <1>4, IdleBooks, BookStep

\* A sale that keeps its place: its row changes, and no other.
LEMMA ChangedSaleStays ==
  ASSUME KInv, NEW n \in Sales, sale[n].st # "none", NEW row, row.st # "none",
         row.linked = sale[n].linked, row.linked \/ row.i \in Items,
         sale' = [sale EXCEPT ![n] = row]
  PROVE  SalesStay /\ OffThePage(sale')
<1>1. sale'[n] = row /\ \A x \in Sales \ {n} : sale'[x] = sale[x]
  BY DEF KInv, IInv, TypeOK
<1>2. SalesStay
  BY <1>1 DEF SalesStay
<1>3. ASSUME NEW x \in Sales, sale'[x].st # "none", ~sale'[x].linked
      PROVE  sale'[x].i \in Items
  BY <1>1, <1>3 DEF KInv, OffThePage
<1> QED  BY <1>2, <1>3 DEF OffThePage

LEMMA SaveSaleBooks ==
  ASSUME KInv, IInv', NEW r \in Reqs, Save(r), req[r].row \in Sales
  PROVE  KInv'
<1> DEFINE q == req[r]  n == q.row  row == [sale[n] EXCEPT !.i = q.to, !.q = q.nq]
<1>1. /\ q.pc = "save" /\ Goto(r, Idle) /\ UNCHANGED <<stock, supplied, order>>
      /\ exact' = (exact /\ RowKept(r)) /\ n \in Sales /\ sale[n].st = "live"
      /\ sale' = [sale EXCEPT ![n].i = q.to, ![n].q = q.nq]
  BY NamesAssumption DEF Save, At
<1>2. sale[n] \in SaleRow /\ sale \in [Sales -> SaleRow] /\ q.op = "editSale" /\ q.to \in Items
  BY <1>1, KRequest, NamesAssumption DEF KInv, IInv, TypeOK, Sane, Edits, Aims
<1>3. sale' = [sale EXCEPT ![n] = row]
  BY <1>1, <1>2 DEF SaleRow
<1>4. row.st = "live" /\ row.linked = sale[n].linked /\ row.i = q.to /\ row.q = q.nq
  BY <1>1, <1>2 DEF SaleRow
<1> HIDE DEF row
<1>5. SalesStay /\ OffThePage(sale')
  BY <1>1, <1>2, <1>3, <1>4, ChangedSaleStays
<1>6. SalesOK(sale')
  BY DEF IInv, TypeOK, SalesOK
<1>7. ASSUME Books(q, sale), exact', NEW t \in Things
      PROVE  stock'[t] + InOrders(order', t) + InSales(sale', t) + Idle.owed[t] - supplied'[t]
               = stock[t] + InOrders(order, t) + InSales(sale, t) + q.owed[t] - supplied[t]
  <2>1. q.owed[t] = Part(q.to, q.nq, t) - Part(q.i, q.q, t) /\ Idle.owed[t] = 0
    BY <1>1, <1>7, IdleBooks DEF Books, Owed
  <2>4. ~sale[n].linked
    BY <1>1, <1>2, <1>7 DEF Books
  <2>2. InSales(sale', t) = InSales(sale, t) - InSale(sale[n], t) + InSale(row, t)
    <3>1. IInv /\ n \in Sales
      BY <1>1 DEF KInv
    <3> HIDE DEF n
    <3> QED  BY <1>3, <1>6, <3>1, SaleMoves
  <2>3. InSale(sale[n], t) = Part(q.i, q.q, t) /\ InSale(row, t) = Part(q.to, q.nq, t)
    BY <1>1, <1>4, <1>7, <2>4, KeptSale DEF InSale
  <2> HIDE DEF q, n
  <2> QED  BY <1>1, <2>1, <2>2, <2>3, Numbers DEF KInv, q
<1>8. exact' => exact
  BY <1>1
<1> QED  BY <1>1, <1>5, <1>7, <1>8, IdleBooks, BookStep

LEMMA DropSaleBooks ==
  ASSUME KInv, IInv', NEW r \in Reqs, DropSale(r)
  PROVE  KInv'
<1> DEFINE q == req[r]  n == q.row  row == [sale[n] EXCEPT !.st = "deleted"]
<1>1. /\ q.pc = "drop" /\ Goto(r, Idle) /\ UNCHANGED <<stock, supplied, order>>
      /\ exact' = (exact /\ (RowKept(r) \/ Linked(q))) /\ sale[n].st = "live"
      /\ sale' = [sale EXCEPT ![n].st = "deleted"]
  BY DEF DropSale, At
<1>2. q.op = "deleteSale" /\ n \in Sales /\ q.op \in OfSale
  BY <1>1, KRequest DEF Aims, OfSale
<1>3. sale[n] \in SaleRow /\ sale \in [Sales -> SaleRow]
  BY <1>2 DEF KInv, IInv, TypeOK
<1>4. sale' = [sale EXCEPT ![n] = row] /\ row.st = "deleted" /\ row.linked = sale[n].linked /\ row.i = sale[n].i
  BY <1>1, <1>2, <1>3 DEF SaleRow
<1> HIDE DEF row
<1>5. SalesStay /\ OffThePage(sale')
  <2>1. row.linked \/ row.i \in Items
    BY <1>1, <1>2, <1>3, <1>4 DEF KInv, OffThePage, SaleRow
  <2> QED  BY <1>1, <1>2, <1>4, <2>1, ChangedSaleStays
<1>6. SalesOK(sale')
  BY DEF IInv, TypeOK, SalesOK
<1>7. ASSUME Books(q, sale), exact', NEW t \in Things
      PROVE  stock'[t] + InOrders(order', t) + InSales(sale', t) + Idle.owed[t] - supplied'[t]
               = stock[t] + InOrders(order, t) + InSales(sale, t) + q.owed[t] - supplied[t]
  <2>1. /\ q.owed[t] = IF q.i \notin Items THEN 0 ELSE -Part(q.i, q.q, t)
        /\ sale[n].linked <=> q.i \notin Items
        /\ Idle.owed[t] = 0
    BY <1>1, <1>2, <1>7, IdleBooks DEF Books, Owed
  <2>2. InSales(sale', t) = InSales(sale, t) - InSale(sale[n], t) + InSale(row, t)
    BY <1>2, <1>4, <1>6, SaleMoves DEF KInv
  <2>3. InSale(row, t) = 0
    BY <1>4 DEF InSale
  <2>4. q.owed[t] \in Int /\ InSale(sale[n], t) = 0 - q.owed[t]
    <3>1. CASE q.i \notin Items
      <4>1. q.owed[t] = 0
        BY <2>1, <3>1
      <4>2. InSale(sale[n], t) = 0
        BY <2>1, <3>1 DEF InSale
      <4> DEFINE a == q.owed[t]  b == InSale(sale[n], t)
      <4>3. a = 0 /\ b = 0
        BY <4>1, <4>2
      <4> HIDE DEF a, b
      <4>4. a \in Int /\ b = 0 - a
        BY <4>3
      <4> QED  BY <4>4 DEF a, b
    <3>2. CASE q.i \in Items
      <4>1. RowKept(r) /\ InSale(sale[n], t) = Part(q.i, q.q, t) /\ q.owed[t] = -Part(q.i, q.q, t)
        BY <1>1, <1>2, <1>7, <2>1, <3>2, KeptSale DEF Linked
      <4>2. Part(q.i, q.q, t) \in Int
        BY Numbers DEF KInv
      <4> QED  BY <4>1, <4>2
    <3> QED  BY <3>1, <3>2
  <2>5. InSales(sale', t) = InSales(sale, t) + q.owed[t]
    <3>1. InSales(sale, t) \in Int
      BY Numbers DEF KInv
    <3>2. InSales(sale', t) = InSales(sale, t) - (0 - q.owed[t]) + 0
      BY <2>2, <2>3, <2>4
    <3> HIDE DEF q
    <3> QED  BY <2>4, <3>1, <3>2
  <2>6. /\ stock'[t] = stock[t] /\ supplied'[t] = supplied[t] /\ InOrders(order', t) = InOrders(order, t)
        /\ Idle.owed[t] = 0
    BY <1>1, <2>1
  <2>7. /\ stock[t] \in Int /\ supplied[t] \in Int /\ InOrders(order, t) \in Int /\ InSales(sale, t) \in Int
    BY Numbers DEF KInv
  <2> HIDE DEF q, n
  <2> QED  BY <2>4, <2>5, <2>6, <2>7
<1>8. exact' => exact
  BY <1>1
<1> QED  BY <1>1, <1>5, <1>7, <1>8, IdleBooks, BookStep

LEMMA RemoveOrderBooks ==
  ASSUME KInv, IInv', NEW r \in Reqs, RemoveOrder(r)
  PROVE  KInv'
<1> DEFINE q == req[r]  o == q.row  row == [order[o] EXCEPT !.st = "deleted"]
<1>1. /\ q.pc = "remove" /\ Goto(r, Idle) /\ UNCHANGED <<supplied, sale>>
      /\ exact' = (exact /\ RowKept(r) /\ (q.i = NoThing \/ Untouched(r, q.i)))
      /\ order' = [order EXCEPT ![o].st = "deleted"] /\ q \in Request
  BY KRequest DEF RemoveOrder, At
<1>2. o \in Orders
  BY <1>1, KRequest DEF Aims
<1>3. order[o] \in Row /\ order \in [Orders -> Row]
  BY <1>2 DEF KInv, IInv, TypeOK
<1>4. order' = [order EXCEPT ![o] = row] /\ row.st = "deleted"
  BY <1>1, <1>2, <1>3 DEF Row
<1> HIDE DEF row
<1>5. SalesStay /\ OffThePage(sale') /\ OrdersOK(order')
  BY <1>1 DEF KInv, SalesStay, IInv, TypeOK, OrdersOK
<1>6. ASSUME Books(q, sale), exact', NEW t \in Things
      PROVE  stock'[t] + InOrders(order', t) + InSales(sale', t) + Idle.owed[t] - supplied'[t]
               = stock[t] + InOrders(order, t) + InSales(sale, t) + q.owed[t] - supplied[t]
  <2>1. q.owed[t] = 0 /\ Idle.owed[t] = 0
    BY <1>1, <1>6, IdleBooks DEF Books, Owed
  <2>2. InOrders(order', t) = InOrders(order, t) - InOrder(order[o], t) + InOrder(row, t)
    BY <1>2, <1>4, <1>5, OrderMoves DEF KInv
  <2>3. InOrder(order[o], t) = Part(q.i, q.q, t) /\ InOrder(row, t) = 0
    BY <1>1, <1>2, <1>4, <1>6, KeptOrder DEF InOrder
  <2>4. stock'[t] = stock[t] + Part(q.i, q.q, t)
    <3>1. CASE q.i = NoThing
      <4>1. stock' = stock /\ Part(q.i, q.q, t) = 0
        BY <3>1, NamesAssumption DEF RemoveOrder, Part, Things
      <4> QED  BY <4>1, Numbers DEF KInv
    <3>2. CASE q.i # NoThing
      <4>1. q.i \in Things /\ Put(r, q.i, -q.q) /\ Untouched(r, q.i) /\ q.q \in Int /\ -q.q \in Int
        <5>1. q.i \in Things /\ Put(r, q.i, -q.q) /\ Untouched(r, q.i)
          BY <1>1, <1>6, <3>2 DEF RemoveOrder, Request
        <5>2. q.q \in Int
          BY Amounts DEF KInv
        <5> QED  BY <5>1, <5>2
      <4>2. stock'[t] = stock[t] - Part(q.i, -q.q, t)
        BY <4>1, PutMoves DEF KInv
      <4>3. Part(q.i, -q.q, t) = -Part(q.i, q.q, t)
        BY <4>1 DEF Part
      <4> QED  BY <4>2, <4>3, Numbers DEF KInv
    <3> QED  BY <3>1, <3>2
  <2> HIDE DEF q, o
  <2> QED  BY <1>1, <2>1, <2>2, <2>3, <2>4, Numbers DEF KInv, q
<1>7. exact' => exact
  BY <1>1
<1> QED  BY <1>1, <1>5, <1>6, <1>7, IdleBooks, BookStep

-----------------------------------------------------------------------------
LEMMA InitBooks == Init => KInv
<1> SUFFICES ASSUME Init
             PROVE  KInv
  OBVIOUS
<1>1. IInv
  BY InitInvariant
<1>2. /\ \A o \in Orders : order[o].st = "none"
      /\ \A n \in Sales : sale[n].st = "none"
      /\ \A r \in Reqs : req[r] = Idle
      /\ supplied = stock
  BY DEF Init
<1>3. ASSUME NEW t \in Things
      PROVE  stock[t] + InOrders(order, t) + InSales(sale, t) + InHands(req, t) = supplied[t]
  <2>1. InOrders(order, t) = 0
    <3> DEFINE a == [o \in Orders |-> InOrder(order[o], t)]
    <3>1. \A o \in Orders : a[o] = 0
      BY <1>2 DEF InOrder
    <3> HIDE DEF a
    <3>2. SumOver(a, Orders) = 0
      BY <3>1, RowsAssumption, SumOfZeros
    <3> QED  BY <3>2 DEF a, InOrders
  <2>2. InSales(sale, t) = 0
    <3> DEFINE a == [n \in Sales |-> InSale(sale[n], t)]
    <3>1. \A n \in Sales : a[n] = 0
      BY <1>2 DEF InSale
    <3> HIDE DEF a
    <3>2. SumOver(a, Sales) = 0
      BY <3>1, RowsAssumption, SumOfZeros
    <3> QED  BY <3>2 DEF a, InSales
  <2>3. InHands(req, t) = 0
    <3> DEFINE a == [r \in Reqs |-> req[r].owed[t]]
    <3>1. \A r \in Reqs : a[r] = 0
      BY <1>2, IdleBooks
    <3> HIDE DEF a
    <3>2. SumOver(a, Reqs) = 0
      BY <3>1, RowsAssumption, SumOfZeros
    <3> QED  BY <3>2 DEF a, InHands
  <2>4. stock[t] \in Int /\ supplied[t] = stock[t]
    BY <1>1, <1>2, Bounds DEF IInv, TypeOK, Quantity
  <2> QED  BY <2>1, <2>2, <2>3, <2>4
<1>4. OffThePage(sale) /\ \A r \in Reqs : Aims(req[r], sale) /\ Books(req[r], sale)
  BY <1>2, IdleBooks DEF OffThePage
<1> QED  BY <1>1, <1>3, <1>4 DEF KInv, Balanced

LEMMA NextBooks ==
  ASSUME KInv, IInv', NEW r \in Reqs,
         Ordering(r) \/ Selling(r) \/ Take(r) \/ Amending(r) \/ Restocking(r) \/ Abort(r)
  PROVE  KInv'
<1>1. CASE Ordering(r)
  <2>1. ASSUME NEW t \in Things, NEW units \in Qtys, TakeLook(r, "order", t, units)
        PROVE  KInv'
    BY <2>1, TakeLookBooks
  <2>2. ASSUME NEW t \in Things, NEW a \in Qtys, NEW b \in Qtys \cup {0}, BatchLook(r, t, a, b)
        PROVE  KInv'
    BY <2>2, BatchLookBooks
  <2> QED  BY <1>1, <2>1, <2>2, OrderRowBooks, SaleRowOfOrderBooks, BatchReadBooks,
              BatchCommitBooks DEF Ordering
<1>2. CASE Selling(r)
  <2>1. ASSUME NEW t \in Things, NEW units \in Qtys,
               TakeLook(r, "sell", t, units) \/ CounterLook(r, t, units)
        PROVE  KInv'
    BY <2>1, TakeLookBooks, CounterLookBooks
  <2> QED  BY <1>2, <2>1, SellRowBooks, CounterCommitBooks DEF Selling
<1>3. CASE Amending(r)
  <2>1. ASSUME NEW o \in Orders, NEW t \in Things \cup {NoThing}, NEW units \in Qtys,
               StartEditOrder(r, o, t, units)
        PROVE  KInv'
    BY <2>1, StartEditOrderBooks
  <2>2. ASSUME NEW n \in Sales, NEW t \in Things, NEW units \in Qtys,
               StartEditSale(r, n, t, units)
        PROVE  KInv'
    BY <2>2, StartEditSaleBooks
  <2>3. CASE (\E n \in Sales : StartDeleteSale(r, n)) \/ (\E o \in Orders : StartDeleteOrder(r, o))
    BY <2>3, StartDeleteSaleBooks, StartDeleteOrderBooks
  <2>4. CASE Save(r)
    <3>1. req[r].row \in Orders \cup Sales
      BY <2>4 DEF Save
    <3> QED  BY <2>4, <3>1, SaveOrderBooks, SaveSaleBooks
  <2>5. CASE BackLook(r) \/ Restore(r) \/ SwapLook(r) \/ Replace(r) \/ DiffLook(r)
             \/ Adjust(r) \/ DropSale(r) \/ RemoveOrder(r)
    BY <2>5, BackLookBooks, RestoreBooks, SwapLookBooks, ReplaceBooks, DiffLookBooks, AdjustBooks,
       DropSaleBooks, RemoveOrderBooks
  <2> QED  BY <1>3, <2>1, <2>2, <2>3, <2>4, <2>5 DEF Amending
<1>4. CASE Restocking(r)
  <2>1. ASSUME NEW t \in Things, NEW units \in Qtys, RestockLook(r, t, units)
        PROVE  KInv'
    BY <2>1, RestockLookBooks
  <2> QED  BY <1>4, <2>1, RestockBooks DEF Restocking
<1>5. CASE Take(r) \/ Abort(r)
  BY <1>5, TakeBooks, AbortBooks
<1> QED  BY <1>1, <1>2, <1>3, <1>4, <1>5

LEMMA StillBooks == KInv /\ UNCHANGED vars => KInv'
BY DEF vars, KInv, IInv, TypeOK, Balanced, OffThePage

\* The inductive invariant of the books: it says what every request owes at each step.
LEMMA BooksKept == Spec => []KInv
<1>1. KInv /\ IInv' /\ [Next]_vars => KInv'
  BY NextBooks, StillBooks DEF Next
<1> QED  BY <1>1, InitBooks, Invariant, PTL DEF Spec

\* For every set of things, rows and requests, and whatever was ordered, sold, edited,
\* swapped, deleted and delivered: as long as no write was overtaken and no edit of the
\* sale of an order or half-done request moved units, the shelf, the rows and the
\* requests hold exactly the units that were supplied.
THEOREM UnitsConserved == Spec => []Conserved
<1>1. KInv => Conserved
  <2> SUFFICES ASSUME KInv, exact, NEW t \in Things
               PROVE  LET owed(r) == req[r].owed[t]
                      IN  stock[t] + Held(t) + Total(Reqs, owed) = supplied[t]
    BY DEF Conserved
  <2> DEFINE owed(r) == req[r].owed[t]
  <2>1. stock[t] + InOrders(order, t) + InSales(sale, t) + InHands(req, t) = supplied[t]
    BY DEF KInv, Balanced
  <2>2. Total(Reqs, owed) = InHands(req, t)
    BY OwedTotal DEF KInv
  <2>3. Held(t) = InOrders(order, t) + InSales(sale, t)
    BY HeldIs DEF KInv
  <2>4. stock[t] \in Int /\ InOrders(order, t) \in Int /\ InSales(sale, t) \in Int /\ InHands(req, t) \in Int
    BY SumTypes, Bounds DEF KInv, IInv, TypeOK, OrdersOK, SalesOK, Quantity
  <2> HIDE DEF owed
  <2>5. stock[t] + Held(t) + Total(Reqs, owed) = supplied[t]
    BY <2>1, <2>2, <2>3, <2>4
  <2> QED  BY <2>5 DEF owed
<1> QED  BY <1>1, BooksKept, PTL
=============================================================================
