-------------------------------- MODULE Cafe --------------------------------
(***************************************************************************)
(* The stock of the cafe: inventory items and drinks, the orders of the    *)
(* sessions and the sales that take units from them, and the edits,        *)
(* deletions and restocks that move units back (modules/sessions orders,   *)
(* modules/sales, modules/inventory, modules/drinks).                      *)
(*                                                                         *)
(* Outside of transactions every operation reads a quantity, awaits, and   *)
(* writes that quantity plus or minus its units: two requests on one item  *)
(* may lose units, and one that throws half way keeps what it moved.  The  *)
(* variable exact remembers whether that ever happened.  Checks of the     *)
(* session and of the wallet only refuse, so they are part of Abort.       *)
(***************************************************************************)
EXTENDS Integers, FiniteSets, FiniteSetsExt

CONSTANTS
    Items,          \* inventory items
    Drinks,         \* drinks, which have a table of their own
    Orders, Sales,  \* row ids
    Reqs,           \* requests in flight at the same time
    Qtys,           \* units of one line
    Opening,        \* units of each thing at the start, a function
    MaxStock,       \* bound on a quantity, either side of 0
    NoThing,        \* a hot drink: no stock
    NoRow

Things == Items \cup Drinks

ASSUME QtysAssumption == Qtys \subseteq 1 .. MaxStock
ASSUME StockAssumption == MaxStock \in Nat /\ Opening \in [Things -> 0 .. MaxStock]
ASSUME RowsAssumption == IsFiniteSet(Orders) /\ IsFiniteSet(Sales) /\ IsFiniteSet(Reqs)
ASSUME NamesAssumption ==
    /\ Items \cap Drinks = {} /\ Orders \cap Sales = {}
    /\ NoThing \notin Items \cup Drinks /\ NoRow \notin Orders \cup Sales

VARIABLES
    stock,      \* the quantity columns
    supplied,   \* history: the opening units and those restocked
    order, sale,
    req,        \* the local variables of each request
    exact       \* history: no write was overtaken, none was left half done

vars == <<stock, supplied, order, sale, req, exact>>

Quantity == -MaxStock .. MaxStock
Units == 1 .. 2 * MaxStock
Row == [st: {"none", "live", "deleted"}, i: Things \cup {NoThing}, q: Units \cup {0}]
SaleRow == [st: {"none", "live", "deleted"}, i: Things \cup {NoThing}, q: Units \cup {0},
            linked: BOOLEAN]    \* the sale of an order, not of the sales page

Request ==
    [pc: {"idle", "take", "row", "sale", "batch", "lines", "counter", "back", "restore",
          "swap", "replace", "diff", "adjust", "save", "drop", "remove", "restock"},
     op: {"none", "order", "sell", "batch", "editOrder", "editSale", "deleteOrder",
          "deleteSale", "restock"},
     row: Orders \cup Sales \cup {NoRow},
     i: Things \cup {NoThing}, q: Units \cup {0},     \* the line, as read or as asked for
     to: Things \cup {NoThing}, nq: Units \cup {0},   \* what an edit makes of it
     seen: Quantity,                                  \* the quantity read last
     owed: [Things -> Int]]                           \* history: units it moved for no row yet

Nothing == [t \in Things |-> 0]

Idle == [pc |-> "idle", op |-> "none", row |-> NoRow, i |-> NoThing, q |-> 0,
         to |-> NoThing, nq |-> 0, seen |-> 0, owed |-> Nothing]

TypeOK ==
    /\ stock \in [Things -> Quantity]
    /\ supplied \in [Things -> Nat]
    /\ order \in [Orders -> Row]
    /\ sale \in [Sales -> SaleRow]
    /\ req \in [Reqs -> Request]
    /\ exact \in BOOLEAN
    /\ \A o \in Orders : order[o].st = "live" => order[o].q > 0
    /\ \A n \in Sales : sale[n].st = "live" => sale[n].q > 0

Init ==
    /\ stock = Opening
    /\ supplied = stock
    /\ order = [o \in Orders |-> [st |-> "none", i |-> NoThing, q |-> 0]]
    /\ sale = [n \in Sales |-> [st |-> "none", i |-> NoThing, q |-> 0, linked |-> FALSE]]
    /\ req = [r \in Reqs |-> Idle]
    /\ exact = TRUE

-----------------------------------------------------------------------------
At(r, pc) == req[r].pc = pc

Goto(r, local) == req' = [req EXCEPT ![r] = local]

\* The quantity of t becomes what r read of it, less some units.
Put(r, t, less) ==
    /\ req[r].seen - less \in Quantity
    /\ stock' = [stock EXCEPT ![t] = req[r].seen - less]

Untouched(r, t) == req[r].seen = stock[t]

Owes(q, t, units) == [q.owed EXCEPT ![t] = @ + units]

\* The row that an edit or a deletion read is still what it was.
RowKept(r) ==
    LET q == req[r]
        same(x) == x.st = "live" /\ x.i = q.i /\ x.q = q.q
    IN  IF q.row \in Orders THEN same(order[q.row]) ELSE same(sale[q.row])

NewOrder(i, q) == [st |-> "live", i |-> i, q |-> q]

NewSale(i, q, linked) == [st |-> "live", i |-> i, q |-> q, linked |-> linked]

\* The process dies, a query throws, or a check refuses.
Abort(r) ==
    /\ ~At(r, "idle")
    /\ Goto(r, Idle)
    /\ exact' = (exact /\ req[r].owed = Nothing)
    /\ UNCHANGED <<stock, supplied, order, sale>>

-----------------------------------------------------------------------------
(* addOrder and createSnackSale: read and check, write, create the rows.   *)

\* The quantity is not compared with the units.
TakeLookUnchecked(r, op, t, units) ==
    /\ At(r, "idle")
    /\ op = "sell" => t \in Items
    /\ Goto(r, [Idle EXCEPT !.pc = "take", !.op = op, !.i = t, !.q = units, !.seen = stock[t]])
    /\ UNCHANGED <<stock, supplied, order, sale, exact>>

TakeLook(r, op, t, units) ==
    /\ At(r, "idle")
    /\ op = "sell" => t \in Items
    /\ stock[t] >= units
    /\ Goto(r, [Idle EXCEPT !.pc = "take", !.op = op, !.i = t, !.q = units, !.seen = stock[t]])
    /\ UNCHANGED <<stock, supplied, order, sale, exact>>

Take(r) ==
    LET q == req[r]
    IN  /\ At(r, "take")
        /\ Put(r, q.i, q.q)
        /\ exact' = (exact /\ Untouched(r, q.i))
        /\ Goto(r, [q EXCEPT !.pc = "row", !.owed = Owes(q, q.i, q.q)])
        /\ UNCHANGED <<supplied, order, sale>>

\* After the order come the wallet, which may refuse it, and then the sale.
OrderRow(r) ==
    LET q == req[r]
    IN  /\ At(r, "row")
        /\ q.op = "order"
        /\ \E o \in Orders :
             /\ order[o].st = "none"
             /\ order' = [order EXCEPT ![o] = NewOrder(q.i, q.q)]
        /\ Goto(r, [q EXCEPT !.pc = "sale", !.owed = Nothing])
        /\ UNCHANGED <<stock, supplied, sale, exact>>

SaleRowOfOrder(r) ==
    LET q == req[r]
    IN  /\ At(r, "sale")
        /\ \E n \in Sales :
             /\ sale[n].st = "none"
             /\ sale' = [sale EXCEPT ![n] = NewSale(q.i, q.q, TRUE)]
        /\ Goto(r, Idle)
        /\ UNCHANGED <<stock, supplied, order, exact>>

SellRow(r) ==
    LET q == req[r]
    IN  /\ At(r, "row")
        /\ q.op = "sell"
        /\ \E n \in Sales :
             /\ sale[n].st = "none"
             /\ sale' = [sale EXCEPT ![n] = NewSale(q.i, q.q, FALSE)]
        /\ Goto(r, Idle)
        /\ UNCHANGED <<stock, supplied, order, exact>>

-----------------------------------------------------------------------------
(* Batches.                                                                *)

\* addBatchOrders with one or two lines of one thing: each line is compared with the
\* quantity, outside of the transaction ...
BatchLook(r, t, a, b) ==
    /\ At(r, "idle")
    /\ stock[t] >= a /\ stock[t] >= b
    /\ Goto(r, [Idle EXCEPT !.pc = "batch", !.op = "batch", !.i = t, !.q = a, !.nq = b])
    /\ UNCHANGED <<stock, supplied, order, sale, exact>>

\* ... in which it is read again, not checked again, ...
BatchRead(r) ==
    /\ At(r, "batch")
    /\ Goto(r, [req[r] EXCEPT !.pc = "lines", !.seen = stock[req[r].i]])
    /\ UNCHANGED <<stock, supplied, order, sale, exact>>

\* ... and the second line sees what the first has written.
BatchCommit(r) ==
    LET q == req[r]
    IN  /\ At(r, "lines")
        /\ Put(r, q.i, q.q + q.nq)
        /\ exact' = (exact /\ Untouched(r, q.i))
        /\ \E o1, o2 \in Orders, n1, n2 \in Sales :
             /\ order[o1].st = "none" /\ order[o2].st = "none" /\ (o1 = o2) = (q.nq = 0)
             /\ sale[n1].st = "none" /\ sale[n2].st = "none" /\ (n1 = n2) = (q.nq = 0)
             /\ order' = [order EXCEPT ![o2] = NewOrder(q.i, q.nq), ![o1] = NewOrder(q.i, q.q)]
             /\ sale' = [sale EXCEPT ![n2] = NewSale(q.i, q.nq, TRUE),
                                     ![n1] = NewSale(q.i, q.q, TRUE)]
        /\ Goto(r, Idle)
        /\ UNCHANGED supplied

\* createBatchSale checks every line inside the transaction, after the line before:
\* the lines of one item are like one line.
CounterLook(r, t, units) ==
    /\ At(r, "idle")
    /\ t \in Items
    /\ stock[t] >= units
    /\ Goto(r, [Idle EXCEPT !.pc = "counter", !.op = "sell", !.i = t, !.q = units,
                            !.seen = stock[t]])
    /\ UNCHANGED <<stock, supplied, order, sale, exact>>

CounterCommit(r) ==
    LET q == req[r]
    IN  /\ At(r, "counter")
        /\ Put(r, q.i, q.q)
        /\ exact' = (exact /\ Untouched(r, q.i))
        /\ \E n \in Sales :
             /\ sale[n].st = "none"
             /\ sale' = [sale EXCEPT ![n] = NewSale(q.i, q.q, FALSE)]
        /\ Goto(r, Idle)
        /\ UNCHANGED <<supplied, order>>

-----------------------------------------------------------------------------
(* Edits and deletions.                                                    *)

\* The row, with the quantity of an inventory item in the same query if it is an
\* order: the stock of that is not read again.
Loaded(op, id, row) ==
    [Idle EXCEPT !.op = op, !.row = id, !.i = row.i, !.q = row.q,
                 !.seen = IF row.i \in Things THEN stock[row.i] ELSE 0]

\* editSnackSale: the item, which must still be in the inventory, or the units.
StartEditSale(r, n, t, units) ==
    LET row == sale[n]
    IN  /\ At(r, "idle")
        /\ row.st = "live"
        /\ t \in Items
        /\ t # row.i \/ units # row.q
        /\ Goto(r, [Loaded("editSale", n, row) EXCEPT
                      !.pc = IF row.i \in Items THEN "back" ELSE "swap",
                      !.to = t, !.nq = units])
        /\ UNCHANGED <<stock, supplied, order, sale, exact>>

\* Nothing is given back for a drink, which is not an inventory item.
StartDeleteSale(r, n) ==
    LET row == sale[n]
    IN  /\ At(r, "idle")
        /\ row.st = "live"
        /\ Goto(r, [Loaded("deleteSale", n, row) EXCEPT
                      !.pc = IF row.i \in Items THEN "back" ELSE "drop"])
        /\ UNCHANGED <<stock, supplied, order, sale, exact>>

\* editOrderItem: another item, or a hot drink; else other units of the same.
StartEditOrder(r, o, t, units) ==
    LET row == order[o]
        next == IF t # row.i
                THEN IF row.i = NoThing THEN "swap"
                     ELSE IF row.i \in Items THEN "restore" ELSE "back"
                ELSE IF row.i = NoThing THEN "save"
                     ELSE IF row.i \in Items THEN "adjust" ELSE "diff"
    IN  /\ At(r, "idle")
        /\ row.st = "live"
        /\ t # row.i \/ units # row.q
        /\ Goto(r, [Loaded("editOrder", o, row) EXCEPT !.pc = next, !.to = t, !.nq = units])
        /\ UNCHANGED <<stock, supplied, order, sale, exact>>

StartDeleteOrder(r, o) ==
    LET row == order[o]
    IN  /\ At(r, "idle")
        /\ row.st = "live"
        /\ Goto(r, [Loaded("deleteOrder", o, row) EXCEPT
                      !.pc = IF row.i \in Drinks THEN "back" ELSE "remove"])
        /\ UNCHANGED <<stock, supplied, order, sale, exact>>

\* The quantity of the old item, or inside the transaction of a deletion, the drink.
BackLook(r) ==
    LET q == req[r]
    IN  /\ At(r, "back")
        /\ Goto(r, [q EXCEPT !.pc = IF q.op = "deleteOrder" THEN "remove" ELSE "restore",
                             !.seen = stock[q.i]])
        /\ UNCHANGED <<stock, supplied, order, sale, exact>>

\* The sale of an order gives back what the order still holds.
Linked(q) == q.row \in Sales /\ sale[q.row].linked

Restore(r) ==
    LET q == req[r]
    IN  /\ At(r, "restore")
        /\ Put(r, q.i, -q.q)
        /\ exact' = (exact /\ Untouched(r, q.i) /\ ~Linked(q))
        /\ Goto(r, [q EXCEPT !.pc = IF q.op = "deleteSale" THEN "drop" ELSE "swap",
                             !.owed = Owes(q, q.i, -q.q)])
        /\ UNCHANGED <<supplied, order, sale>>

\* The new item; too few units of it, and the edit ends here (Abort), with the old
\* ones restored.
SwapLook(r) ==
    LET q == req[r]
    IN  /\ At(r, "swap")
        /\ \/ q.to = NoThing /\ Goto(r, [q EXCEPT !.pc = "save"])
           \/ /\ q.to # NoThing
              /\ stock[q.to] >= q.nq
              /\ Goto(r, [q EXCEPT !.pc = "replace", !.seen = stock[q.to]])
        /\ UNCHANGED <<stock, supplied, order, sale, exact>>

Replace(r) ==
    LET q == req[r]
    IN  /\ At(r, "replace")
        /\ Put(r, q.to, q.nq)
        /\ exact' = (exact /\ Untouched(r, q.to) /\ ~Linked(q))
        /\ Goto(r, [q EXCEPT !.pc = "save", !.owed = Owes(q, q.to, q.nq)])
        /\ UNCHANGED <<supplied, order, sale>>

\* The units of a drink are read at the time they are adjusted.
DiffLook(r) ==
    LET q == req[r]
    IN  /\ At(r, "diff")
        /\ Goto(r, [q EXCEPT !.pc = "adjust", !.seen = stock[q.i]])
        /\ UNCHANGED <<stock, supplied, order, sale, exact>>

\* All the new units are taken, not those that are more.
AdjustAll(r) ==
    LET q == req[r]
    IN  /\ At(r, "adjust")
        /\ q.nq > q.q => q.seen >= q.nq - q.q
        /\ Put(r, q.i, q.nq)
        /\ exact' = (exact /\ Untouched(r, q.i))
        /\ Goto(r, [q EXCEPT !.pc = "save", !.owed = Owes(q, q.i, q.nq - q.q)])
        /\ UNCHANGED <<supplied, order, sale>>

Adjust(r) ==
    LET q == req[r]
    IN  /\ At(r, "adjust")
        /\ q.nq > q.q => q.seen >= q.nq - q.q
        /\ Put(r, q.i, q.nq - q.q)
        /\ exact' = (exact /\ Untouched(r, q.i))
        /\ Goto(r, [q EXCEPT !.pc = "save", !.owed = Owes(q, q.i, q.nq - q.q)])
        /\ UNCHANGED <<supplied, order, sale>>

\* The units that are more are saved, not all the new ones.
SaveMore(r) ==
    LET q == req[r]
    IN  /\ At(r, "save")
        /\ exact' = (exact /\ RowKept(r))
        /\ \/ /\ q.row \in Orders /\ order[q.row].st = "live"
              /\ order' = [order EXCEPT ![q.row] = NewOrder(q.to, q.nq - q.q)]
              /\ UNCHANGED sale
           \/ /\ q.row \in Sales /\ sale[q.row].st = "live"
              /\ sale' = [sale EXCEPT ![q.row].i = q.to, ![q.row].q = q.nq]
              /\ UNCHANGED order
        /\ Goto(r, Idle)
        /\ UNCHANGED <<stock, supplied>>

\* The wallet comes before the order, the total before the sale; a row that is gone
\* throws (Abort).
Save(r) ==
    LET q == req[r]
    IN  /\ At(r, "save")
        /\ exact' = (exact /\ RowKept(r))
        /\ \/ /\ q.row \in Orders /\ order[q.row].st = "live"
              /\ order' = [order EXCEPT ![q.row] = NewOrder(q.to, q.nq)]
              /\ UNCHANGED sale
           \/ /\ q.row \in Sales /\ sale[q.row].st = "live"
              /\ sale' = [sale EXCEPT ![q.row].i = q.to, ![q.row].q = q.nq]
              /\ UNCHANGED order
        /\ Goto(r, Idle)
        /\ UNCHANGED <<stock, supplied>>

DropSale(r) ==
    LET q == req[r]
    IN  /\ At(r, "drop")
        /\ sale[q.row].st = "live"
        /\ sale' = [sale EXCEPT ![q.row].st = "deleted"]
        /\ exact' = (exact /\ (RowKept(r) \/ Linked(q)))
        /\ Goto(r, Idle)
        /\ UNCHANGED <<stock, supplied, order>>

\* The transaction of deleteOrderItem; the sale stays.
RemoveOrder(r) ==
    LET q == req[r]
    IN  /\ At(r, "remove")
        /\ order[q.row].st = "live"
        /\ IF q.i = NoThing THEN UNCHANGED stock ELSE Put(r, q.i, -q.q)
        /\ order' = [order EXCEPT ![q.row].st = "deleted"]
        /\ exact' = (exact /\ RowKept(r) /\ (q.i = NoThing \/ Untouched(r, q.i)))
        /\ Goto(r, Idle)
        /\ UNCHANGED <<supplied, sale>>

-----------------------------------------------------------------------------
(* restockItem and restockDrink.                                           *)

RestockLook(r, t, units) ==
    /\ At(r, "idle")
    /\ supplied[t] + units =< MaxStock
    /\ Goto(r, [Idle EXCEPT !.pc = "restock", !.op = "restock", !.i = t, !.q = units,
                            !.seen = stock[t]])
    /\ UNCHANGED <<stock, supplied, order, sale, exact>>

Restock(r) ==
    LET q == req[r]
    IN  /\ At(r, "restock")
        /\ Put(r, q.i, -q.q)
        /\ supplied' = [supplied EXCEPT ![q.i] = @ + q.q]
        /\ exact' = (exact /\ Untouched(r, q.i))
        /\ Goto(r, Idle)
        /\ UNCHANGED <<order, sale>>

-----------------------------------------------------------------------------
Ordering(r) ==
    \/ \E t \in Things, units \in Qtys : TakeLook(r, "order", t, units)
    \/ \E t \in Things, a \in Qtys, b \in Qtys \cup {0} : BatchLook(r, t, a, b)
    \/ OrderRow(r) \/ SaleRowOfOrder(r) \/ BatchRead(r) \/ BatchCommit(r)

Selling(r) ==
    \/ \E t \in Things, units \in Qtys : TakeLook(r, "sell", t, units)
                                         \/ CounterLook(r, t, units)
    \/ SellRow(r) \/ CounterCommit(r)

Amending(r) ==
    \/ \E n \in Sales, t \in Things, units \in Qtys : StartEditSale(r, n, t, units)
    \/ \E n \in Sales : StartDeleteSale(r, n)
    \/ \E o \in Orders, t \in Things \cup {NoThing}, units \in Qtys :
         StartEditOrder(r, o, t, units)
    \/ \E o \in Orders : StartDeleteOrder(r, o)
    \/ BackLook(r) \/ Restore(r) \/ SwapLook(r) \/ Replace(r) \/ DiffLook(r) \/ Adjust(r)
    \/ Save(r) \/ DropSale(r) \/ RemoveOrder(r)

Restocking(r) ==
    \/ \E t \in Things, units \in Qtys : RestockLook(r, t, units)
    \/ Restock(r)

Next ==
    \E r \in Reqs : Ordering(r) \/ Selling(r) \/ Take(r) \/ Amending(r) \/ Restocking(r)
                    \/ Abort(r)

Spec == Init /\ [][Next]_vars

-----------------------------------------------------------------------------
(* Properties.                                                             *)

Edits == {"editOrder", "editSale"}

\* What a request has read and was asked for, at each of its steps.
Sane(q) ==
    /\ q.op # "none" => q.q > 0
    /\ q.op \in Edits => q.nq > 0
    /\ q.pc # "idle" => q.op # "none"
    /\ q.pc \in {"take", "counter"} => q.q =< q.seen
    /\ q.pc = "replace" => q.nq =< q.seen
    /\ q.pc \in {"swap", "replace", "diff", "adjust", "save"} => q.op \in Edits
    /\ q.pc \in {"diff", "adjust"} => q.nq # q.q
    /\ q.pc = "restore" => q.op \in Edits \cup {"deleteSale"}
    /\ q.pc = "back" => q.op \in Edits \cup {"deleteSale", "deleteOrder"}
    /\ q.pc \in {"batch", "back", "diff"} => q.i \in Things

IInv == TypeOK /\ \A r \in Reqs : Sane(req[r])

Total(S, f(_)) == MapThenSumSet(f, S)

\* Units that orders and sales of the sales page hold.
Held(t) ==
    LET ofOrder(o) == order[o].q
        ofSale(n) == sale[n].q
    IN  Total({o \in Orders : order[o].st = "live" /\ order[o].i = t}, ofOrder)
        + Total({n \in Sales : sale[n].st = "live" /\ sale[n].i = t /\ ~sale[n].linked}, ofSale)

\* As long as no write was overtaken or left half done, and no sale of an order was
\* touched, the units of a thing are on the shelf, in an order or a sale, or in the
\* hands of a request, whatever was added, edited, swapped and deleted.
Conserved ==
    exact => \A t \in Things :
               LET owed(r) == req[r].owed[t]
               IN  stock[t] + Held(t) + Total(Reqs, owed) = supplied[t]

\* Whatever writes overtake each other, a write that leaves a quantity below zero is
\* that of a batch of orders, which does not look again in its transaction, or adds to
\* a quantity that was below zero when it was read.
OnlyBatchesOversell ==
    [][\A t \in Things :
         stock'[t] < 0 /\ stock'[t] # stock[t] =>
           \E r \in Reqs : /\ req'[r] # req[r]
                           /\ At(r, "lines") \/ req[r].seen < stock'[t]]_vars
=============================================================================
