------------------------------ MODULE Billing ------------------------------
(***************************************************************************)
(* What a session costs and who still owes it: orders, the two checkouts,  *)
(* edits and deletion of a session, and the debts of sessions and of       *)
(* subscriptions paid in instalments (modules/sessions, modules/debts,     *)
(* the instalment half of modules/subscribers).                            *)
(*                                                                         *)
(* Every operation reads its session or debt first, awaits, and then       *)
(* writes in one statement or one transaction, without looking again; an   *)
(* unpaid checkout writes the session and the debt in two, and a collected *)
(* subscription is read inside the transaction, at READ COMMITTED.  The    *)
(* set disturbed remembers where requests overlapped, and the sessions and *)
(* subscriptions that were edited by hand in ways no invariant survives.   *)
(***************************************************************************)
EXTENDS Integers, FiniteSets, FiniteSetsExt

CONSTANTS
    Sessions, Subs, Debts, Reqs,
    Hours,          \* what the time in the space, or its override, may cost
    MaxOrders,      \* bound on the orders of a session, each of price 1
    Fee,            \* of a subscription
    NoOwner, NoDebt

Owners == Sessions \cup Subs

ASSUME PricesAssumption == Hours \subseteq Nat /\ MaxOrders \in Nat /\ Fee \in Nat \ {0}
ASSUME FiniteAssumption == IsFiniteSet(Debts) /\ IsFiniteSet(Hours)
ASSUME NamesAssumption ==
    Sessions \cap Subs = {} /\ NoOwner \notin Owners /\ NoDebt \notin Debts

VARIABLES
    session, sub, debt,
    req,            \* the local variables of each request
    disturbed       \* history, see above

vars == <<session, sub, debt, req, disturbed>>

Pays == {"paid", "full_debt"}    \* partial_debt is treated like full_debt

SessionRow == [st: {"open", "closed", "deleted"}, pay: Pays, amount: Nat, orders: 0 .. MaxOrders]
SubRow == [st: {"none", "live"}, paid: Nat]
DebtRow == [st: {"none", "unpaid", "collected", "deleted"}, of: Owners \cup {NoOwner},
            amount: Nat,
            taken: Nat]             \* history: the money that was handed over for it

Request ==
    [pc: {"idle", "order", "drop", "pay", "owe", "debt", "edit", "delete", "collect",
          "sync"},
     on: Owners \cup {NoOwner},     \* the session or subscription it is about
     d: Debts \cup {NoDebt},
     orders: 0 .. MaxOrders, pay: Pays, amount: Nat, paid: Nat,  \* as read, or as asked for
     overlapped: BOOLEAN]           \* history: another request wrote to the same since

Idle == [pc |-> "idle", on |-> NoOwner, d |-> NoDebt, orders |-> 0, pay |-> "full_debt",
         amount |-> 0, paid |-> 0, overlapped |-> FALSE]

TypeOK ==
    /\ session \in [Sessions -> SessionRow]
    /\ sub \in [Subs -> SubRow]
    /\ debt \in [Debts -> DebtRow]
    /\ req \in [Reqs -> Request]
    /\ disturbed \subseteq Owners

\* A session starts with its check-in: "full_debt" and nothing to pay.
Init ==
    /\ session = [s \in Sessions |-> [st |-> "open", pay |-> "full_debt", amount |-> 0,
                                      orders |-> 0]]
    /\ sub = [b \in Subs |-> [st |-> "none", paid |-> 0]]
    /\ debt = [d \in Debts |-> [st |-> "none", of |-> NoOwner, amount |-> 0, taken |-> 0]]
    /\ req = [r \in Reqs |-> Idle]
    /\ disturbed = {}

-----------------------------------------------------------------------------
At(r, pc) == req[r].pc = pc

Goto(r, local) == req' = [req EXCEPT ![r] = local]

\* r goes on to local after a write to x, which the other requests on x do not know.
\* Orders are counted by the database: they do not disturb each other.
Ordered == {"order", "drop"}
Wrote(r, x, local) ==
    req' = [y \in Reqs |->
              IF y = r THEN local
              ELSE [req[y] EXCEPT !.overlapped =
                      @ \/ (req[y].on = x /\ ~({req[r].pc, req[y].pc} \subseteq Ordered))]]

Disturb(r, x, odd) == disturbed' = IF req[r].overlapped \/ odd THEN disturbed \cup {x}
                                   ELSE disturbed

Unpaid(x) == {d \in Debts : debt[d].st = "unpaid" /\ debt[d].of = x}

NewDebt(x, amount) == [st |-> "unpaid", of |-> x, amount |-> amount, taken |-> 0]

\* The process dies, a query throws, or a check refuses: of an unpaid checkout, the
\* session may be closed and the debt never written.
Abort(r) ==
    /\ ~At(r, "idle")
    /\ Goto(r, Idle)
    /\ disturbed' = IF At(r, "debt") THEN disturbed \cup {req[r].on} ELSE disturbed
    /\ UNCHANGED <<session, sub, debt>>

\* A request on session s that is refused unless the session is open.
LookOpen(r, s, pc) ==
    /\ At(r, "idle")
    /\ session[s].st = "open"
    /\ Goto(r, [Idle EXCEPT !.pc = pc, !.on = s, !.orders = session[s].orders])
    /\ UNCHANGED <<session, sub, debt, disturbed>>

-----------------------------------------------------------------------------
(* Orders.                                                                 *)

OrderLook(r, s) == LookOpen(r, s, "order")

\* The order is created whatever became of the session, unless it is gone.
AddOrder(r) ==
    LET s == req[r].on
    IN  /\ At(r, "order")
        /\ session[s].st # "deleted" /\ session[s].orders < MaxOrders
        /\ session' = [session EXCEPT ![s].orders = @ + 1]
        /\ Wrote(r, s, Idle)
        /\ Disturb(r, s, FALSE)
        /\ UNCHANGED <<sub, debt>>

DropLook(r, s) == LookOpen(r, s, "drop")

DropOrder(r) ==
    LET s == req[r].on
    IN  /\ At(r, "drop")
        /\ session[s].st # "deleted" /\ session[s].orders > 0
        /\ session' = [session EXCEPT ![s].orders = @ - 1]
        /\ Wrote(r, s, Idle)
        /\ Disturb(r, s, FALSE)
        /\ UNCHANGED <<sub, debt>>

-----------------------------------------------------------------------------
(* checkout and checkoutUnpaid.                                            *)

CheckoutLook(r, s) == LookOpen(r, s, "pay")

Close(s, pay, amount) ==
    session' = [session EXCEPT ![s].st = "closed", ![s].pay = pay, ![s].amount = amount]

Checkout(r) ==
    LET s == req[r].on
    IN  /\ At(r, "pay")
        /\ session[s].st # "deleted"
        /\ \E h \in Hours : Close(s, "paid", h + req[r].orders)
        /\ Wrote(r, s, Idle)
        /\ Disturb(r, s, FALSE)
        /\ UNCHANGED <<sub, debt>>

UnpaidLook(r, s) == LookOpen(r, s, "owe")

CloseUnpaid(r) ==
    LET s == req[r].on
    IN  /\ At(r, "owe")
        /\ session[s].st # "deleted"
        /\ \E h \in Hours :
             /\ Close(s, "full_debt", h + req[r].orders)
             /\ Wrote(r, s, [req[r] EXCEPT !.pc = "debt", !.amount = h + req[r].orders])
        /\ Disturb(r, s, FALSE)
        /\ UNCHANGED <<sub, debt>>

\* No look at the debts there are; the session may be gone by now.
CreateDebt(r) ==
    LET s == req[r].on
    IN  /\ At(r, "debt")
        /\ \E d \in Debts :
             /\ debt[d].st = "none"
             /\ debt' = [debt EXCEPT ![d] = NewDebt(s, req[r].amount)]
        /\ Wrote(r, s, Idle)
        /\ Disturb(r, s, FALSE)
        /\ UNCHANGED <<session, sub>>

-----------------------------------------------------------------------------
(* editSession and deleteSession.                                          *)

EditLook(r, s) ==
    /\ At(r, "idle")
    /\ session[s].st # "deleted"
    /\ Goto(r, [Idle EXCEPT !.pc = "edit", !.on = s, !.orders = session[s].orders,
                            !.pay = session[s].pay])
    /\ UNCHANGED <<session, sub, debt, disturbed>>

\* An unpaid debt that is there is not looked for.
OwedAgain(r, s, pay, amount) ==
    IF pay = "full_debt"
    THEN IF amount = 0 THEN UNCHANGED debt
         ELSE \E d \in Debts : /\ debt[d].st = "none"
                               /\ debt' = [debt EXCEPT ![d] = NewDebt(s, amount)]
    ELSE IF req[r].pay = "paid" \/ Unpaid(s) = {} THEN UNCHANGED debt
         ELSE \E d \in Unpaid(s) :
                debt' = [debt EXCEPT ![d].st = "collected", ![d].taken = @ + debt[d].amount]

\* What the transaction of an edit leaves of the debts of s: a debt if the session is
\* to be owed and nothing unpaid is there, one unpaid debt less if it was owed when
\* it was read and is to be paid.  Not if the edit moves the session to another day.
Owed(r, s, pay, amount) ==
    IF pay = "full_debt"
    THEN IF Unpaid(s) # {} \/ amount = 0 THEN UNCHANGED debt
         ELSE \E d \in Debts : /\ debt[d].st = "none"
                               /\ debt' = [debt EXCEPT ![d] = NewDebt(s, amount)]
    ELSE IF req[r].pay = "paid" \/ Unpaid(s) = {} THEN UNCHANGED debt
         ELSE \E d \in Unpaid(s) :
                debt' = [debt EXCEPT ![d].st = "collected", ![d].taken = @ + debt[d].amount]

\* Some of the check-in day, the check-out, the price and the payment.
Edit(r) ==
    LET s == req[r].on
        now == session[s]
    IN  /\ At(r, "edit")
        /\ now.st # "deleted"
        /\ \E st \in {"open", "closed"}, pay \in Pays, moved, repriced, repaid \in BOOLEAN :
             \E h \in IF repriced THEN Hours ELSE {0} :
               LET amount == IF repriced THEN h + req[r].orders ELSE now.amount
               IN  /\ repaid \/ pay = now.pay
                   /\ session' = [session EXCEPT ![s].st = st, ![s].pay = pay,
                                                 ![s].amount = amount]
                   /\ IF repaid /\ ~moved THEN Owed(r, s, pay, amount) ELSE UNCHANGED debt
                   /\ Disturb(r, s, \/ st # now.st
                                    \/ repaid /\ (moved \/ st = "open")
                                    \/ repriced /\ now.pay = "full_debt")
        /\ Wrote(r, s, Idle)
        /\ UNCHANGED sub

\* "Block delete if unpaid session debt exists": before the transaction.  The code
\* looks for a debt of the visitor; here each session is of a visitor of its own.
DeleteLook(r, s) ==
    /\ At(r, "idle")
    /\ session[s].st # "deleted"
    /\ Unpaid(s) = {}
    /\ Goto(r, [Idle EXCEPT !.pc = "delete", !.on = s])
    /\ UNCHANGED <<session, sub, debt, disturbed>>

Delete(r) ==
    LET s == req[r].on
    IN  /\ At(r, "delete")
        /\ session[s].st # "deleted"
        /\ session' = [session EXCEPT ![s].st = "deleted", ![s].orders = 0]
        /\ Wrote(r, s, Idle)
        /\ Disturb(r, s, FALSE)
        /\ UNCHANGED <<sub, debt>>

-----------------------------------------------------------------------------
(* Debts.                                                                  *)

\* createSubscriber and renewSubscription: the subscription and the debt of what was
\* not paid, in one transaction.
Subscribe(b, paid) ==
    /\ sub[b].st = "none"
    /\ sub' = [sub EXCEPT ![b] = [st |-> "live", paid |-> paid]]
    /\ IF paid = Fee THEN UNCHANGED debt
       ELSE \E d \in Debts : /\ debt[d].st = "none"
                             /\ debt' = [debt EXCEPT ![d] = NewDebt(b, Fee - paid)]
    /\ UNCHANGED <<session, req, disturbed>>

\* A transaction that has written a debt keeps the row to its end.
Locked(d) == \E y \in Reqs : At(y, "sync") /\ req[y].d = d

\* Whoever is at work on x does not know of a write by hand.
WroteByHand(x) == req' = [y \in Reqs |-> [req[y] EXCEPT !.overlapped = @ \/ req[y].on = x]]

\* editDebt: the amount or the status.  deleteDebt.
EditDebt(d, st, amount) ==
    /\ debt[d].st \in {"unpaid", "collected"} /\ ~Locked(d)
    /\ debt' = [debt EXCEPT ![d].st = st, ![d].amount = amount]
    /\ disturbed' = disturbed \cup {debt[d].of}
    /\ WroteByHand(debt[d].of)
    /\ UNCHANGED <<session, sub>>

DeleteDebt(d) ==
    /\ debt[d].st \in {"unpaid", "collected"} /\ ~Locked(d)
    /\ debt' = [debt EXCEPT ![d].st = "deleted"]
    /\ disturbed' = IF debt[d].of \in Subs THEN disturbed \cup {debt[d].of} ELSE disturbed
    /\ WroteByHand(debt[d].of)
    /\ UNCHANGED <<session, sub>>

\* createDebt, which may name a subscription; updateSubscriber, with an amountPaid.
DebtByHand(b, amount) ==
    /\ sub[b].st = "live"
    /\ \E d \in Debts : debt[d].st = "none" /\ debt' = [debt EXCEPT ![d] = NewDebt(b, amount)]
    /\ disturbed' = disturbed \cup {b}
    /\ WroteByHand(b)
    /\ UNCHANGED <<session, sub>>

EditFee(b, paid) ==
    /\ sub[b].st = "live"
    /\ sub' = [sub EXCEPT ![b].paid = paid]
    /\ disturbed' = disturbed \cup {b}
    /\ WroteByHand(b)
    /\ UNCHANGED <<session, debt>>

\* collectDebt and collectPartialDebt; the second remembers what is paid of it.
CollectLook(r, d) ==
    /\ At(r, "idle")
    /\ debt[d].st = "unpaid"
    /\ Goto(r, [Idle EXCEPT !.pc = "collect", !.on = debt[d].of, !.d = d,
                            !.amount = debt[d].amount, !.orders = 0])
    /\ UNCHANGED <<session, sub, debt, disturbed>>

\* The transaction writes the debt, which nobody sees yet, and reads the subscription.
Sync(r) ==
    LET q == req[r]
    IN  /\ At(r, "collect") /\ q.on \in Subs
        /\ debt[q.d].st \in {"unpaid", "collected"} /\ ~Locked(q.d)
        /\ Goto(r, [q EXCEPT !.pc = "sync", !.paid = sub[q.on].paid])
        /\ UNCHANGED <<session, sub, debt, disturbed>>

\* There is nothing more to read.
Ready(q) ==
    /\ q.pc = "sync" \/ (q.pc = "collect" /\ q.on \in Sessions)
    /\ debt[q.d].st \in {"unpaid", "collected"}

\* The subscription does not hear of it.
SyncedNot(q, money) == UNCHANGED sub

\* The money goes to what the subscription was when it was read.
Synced(q, money) ==
    IF q.on \in Subs THEN sub' = [sub EXCEPT ![q.on].paid = q.paid + money] ELSE UNCHANGED sub

Collect(r) ==
    LET q == req[r]
    IN  /\ Ready(q)
        /\ debt' = [debt EXCEPT ![q.d].st = "collected", ![q.d].taken = @ + q.amount]
        /\ Synced(q, q.amount)
        /\ Wrote(r, q.on, Idle)
        /\ Disturb(r, q.on, FALSE)
        /\ UNCHANGED session

\* The balance is what is left of it now, unchecked.
CollectPartNow(r) ==
    LET q == req[r]
    IN  /\ Ready(q)
        /\ \E part \in 1 .. q.amount :
             /\ debt' = [debt EXCEPT ![q.d].taken = @ + part, ![q.d].amount = @ - part]
             /\ Synced(q, part)
        /\ Wrote(r, q.on, Idle)
        /\ Disturb(r, q.on, FALSE)
        /\ UNCHANGED session

\* The balance is what was read less what is paid; the last part keeps its amount.
CollectPart(r) ==
    LET q == req[r]
    IN  /\ Ready(q)
        /\ \E part \in 1 .. q.amount :
             /\ debt' = [debt EXCEPT ![q.d].taken = @ + part,
                                     ![q.d].st = IF part = q.amount THEN "collected" ELSE @,
                                     ![q.d].amount = IF part = q.amount THEN @
                                                     ELSE q.amount - part]
             /\ Synced(q, part)
        /\ Wrote(r, q.on, Idle)
        /\ Disturb(r, q.on, FALSE)
        /\ UNCHANGED session

-----------------------------------------------------------------------------
Ordering(r) ==
    \/ \E s \in Sessions : OrderLook(r, s) \/ DropLook(r, s)
    \/ AddOrder(r) \/ DropOrder(r)

CheckingOut(r) ==
    \/ \E s \in Sessions : CheckoutLook(r, s) \/ UnpaidLook(r, s)
    \/ Checkout(r) \/ CloseUnpaid(r) \/ CreateDebt(r)

Amending(r) ==
    \/ \E s \in Sessions : EditLook(r, s) \/ DeleteLook(r, s)
    \/ Edit(r) \/ Delete(r)

Collecting(r) ==
    \/ \E d \in Debts : CollectLook(r, d)
    \/ Sync(r) \/ Collect(r) \/ CollectPart(r)

Amounts == 0 .. Fee

ByHand ==
    \/ \E d \in Debts, st \in {"unpaid", "collected"}, a \in Amounts : EditDebt(d, st, a)
    \/ \E d \in Debts : DeleteDebt(d)
    \/ \E b \in Subs, a \in Amounts : DebtByHand(b, a) \/ EditFee(b, a)

Next ==
    \/ \E r \in Reqs : Ordering(r) \/ CheckingOut(r) \/ Amending(r) \/ Collecting(r) \/ Abort(r)
    \/ \E b \in Subs, paid \in Amounts : Subscribe(b, paid)
    \/ ByHand

Spec == Init /\ [][Next]_vars

-----------------------------------------------------------------------------
(* Properties, of sessions and subscriptions that were not disturbed.      *)

\* What a closed session costs is its time and the orders it has.
BillMatchesOrders ==
    \A s \in Sessions \ disturbed :
        session[s].st = "closed" => session[s].amount - session[s].orders \in Hours

\* A session is owed once.
OneUnpaidDebt == \A s \in Sessions \ disturbed : Cardinality(Unpaid(s)) =< 1

\* A closed session that is not paid is in the debts with all of its amount, whatever
\* of that was collected, once the request that closed it has finished.
OwedIsADebt ==
    \A s \in Sessions \ disturbed :
        session[s].st = "closed" /\ session[s].pay = "full_debt" /\ session[s].amount > 0 =>
          \/ \E d \in Debts :
               /\ debt[d].of = s
               /\ \/ debt[d].st = "deleted"
                  \/ session[s].amount = debt[d].taken
                                         + (IF debt[d].st = "unpaid" THEN debt[d].amount ELSE 0)
          \/ \E r \in Reqs : At(r, "debt") /\ req[r].on = s

\* Nobody who paid for a session owes it, and nobody owes a session that is gone.
PaidOwesNothing ==
    \A s \in Sessions \ disturbed :
        session[s].st = "deleted" \/ (session[s].st = "closed" /\ session[s].pay = "paid") =>
          Unpaid(s) = {}

\* Every session is billed for its time and its orders and owed as it should be: what is not
\* paid is in the debts once and in full, and nothing else is - through checkouts, edits,
\* collections and deletions.
SessionsAreOwedOnce == BillMatchesOrders /\ OneUnpaidDebt /\ OwedIsADebt /\ PaidOwesNothing

\* However it is paid, a subscription is paid or owed to the last coin.
FeeIsPaidOrOwed ==
    \A b \in Subs \ disturbed :
        LET owed(d) == debt[d].amount
        IN  sub[b].st = "live" => sub[b].paid + MapThenSumSet(owed, Unpaid(b)) = Fee
=============================================================================
