---------------------------- MODULE SnackWallet ----------------------------
(***************************************************************************)
(* The prepaid snack wallet: SnackWallet.balance and its ledger of         *)
(* SnackWalletTransaction rows, and every request that moves money in or   *)
(* out of it (modules/snack-wallet and the order, checkout and delete      *)
(* paths of modules/sessions).                                             *)
(*                                                                         *)
(* Every request reads the wallet in one database round trip and writes an *)
(* absolute balance in a later one, so each is a read step and a commit    *)
(* step, with other requests between them.  A $transaction commits in one  *)
(* step; what it reads before its first write is a step of its own (READ   *)
(* COMMITTED).  Stock, prices and payment details are left to Cafe.        *)
(***************************************************************************)
EXTENDS Integers, Sequences, FiniteSets

CONSTANTS
    Wallets,        \* wallet ids (uuids: never used twice)
    Sessions,       \* attendance sessions
    Orders,         \* SnackOrder ids
    Reqs,           \* requests in flight at the same time
    Deposits,       \* what the front desk may top a wallet up with, in whole units
    Prices,         \* what an order or a checkout may charge, in whole units
    WalletOf,       \* the wallet with the phone of a session's visitor
    MaxRows,        \* bound on the ledger of a wallet
    NoWallet, NoSession, NoOrder

ASSUME WalletOfAssumption == WalletOf \in [Sessions -> Wallets]
ASSUME AmountsAssumption == Deposits \subseteq Nat \ {0} /\ Prices \subseteq Nat \ {0}
ASSUME OrdersAssumption == IsFiniteSet(Orders)
ASSUME MaxRowsAssumption == MaxRows \in Nat
ASSUME NullAssumption ==
    /\ NoWallet \notin Wallets
    /\ NoSession \notin Sessions
    /\ NoOrder \notin Orders

VARIABLES
    wallet,     \* wallet[w]: "none" before create, "live", "removed"
    balance,    \* SnackWallet.balance
    ledger,     \* the SnackWalletTransaction rows of a wallet, oldest first
    session,    \* session[s]: "open", "closed" (checkOut set), "deleted"
    order,      \* SnackOrder rows
    sale,       \* sale[o]: the paymentMethod of the Sale written for an order
    req         \* the local variables of each request

vars == <<wallet, balance, ledger, session, order, sale, req>>

Row == [type: {"topup", "deduction"}, amount: Nat, before: Int, after: Int,
        session: Sessions \cup {NoSession}, order: Orders \cup {NoOrder}]

Unplaced == [st |-> "none", s |-> NoSession, total |-> 0]

OrderRow == {Unplaced} \cup [st: {"live", "gone"}, s: Sessions, total: Nat]

Request ==
    [pc: {"idle", "topup", "create", "charge", "deduct", "record", "edit", "adjust",
          "remove", "removeTx", "purge", "purgeRead", "purgeApply"},
     op: {"none", "order", "batch", "checkout"},
     w: Wallets \cup {NoWallet}, s: Sessions \cup {NoSession}, o: Orders \cup {NoOrder},
     lines: SUBSET Orders,        \* the orders the request is to create
     price: Nat,                  \* the total of each of those orders
     amt: Nat,                    \* what is to be charged or topped up
     back: Nat,                   \* what is to be refunded
     seen: Int,                   \* the balance it has read
     paid: {"none", "cash", "wallet"},
     todo: SUBSET (Nat \X Nat),   \* deductions still to be refunded: <<row, amount>>
     rows: Seq(Row),              \* ledger rows of an uncommitted transaction
     overtaken: BOOLEAN]          \* history: another commit hit w since seen was read

Idle == [pc |-> "idle", op |-> "none", w |-> NoWallet, s |-> NoSession, o |-> NoOrder,
         lines |-> {}, price |-> 0, amt |-> 0, back |-> 0, seen |-> 0, paid |-> "none",
         todo |-> {}, rows |-> <<>>, overtaken |-> FALSE]

TypeOK ==
    /\ wallet \in [Wallets -> {"none", "live", "removed"}]
    /\ balance \in [Wallets -> Int]
    /\ ledger \in [Wallets -> Seq(Row)]
    /\ session \in [Sessions -> {"open", "closed", "deleted"}]
    /\ order \in [Orders -> OrderRow]
    /\ sale \in [Orders -> {"none", "cash", "wallet"}]
    /\ req \in [Reqs -> Request]

Init ==
    /\ wallet = [w \in Wallets |-> "none"]
    /\ balance = [w \in Wallets |-> 0]
    /\ ledger = [w \in Wallets |-> <<>>]
    /\ session = [s \in Sessions |-> "open"]
    /\ order = [o \in Orders |-> Unplaced]
    /\ sale = [o \in Orders |-> "none"]
    /\ req = [r \in Reqs |-> Idle]

-----------------------------------------------------------------------------
(* Requests.                                                               *)

At(r, pc) == req[r].pc = pc

\* A request that has read the wallet and not written it yet.
Holding == {"topup", "deduct", "adjust", "removeTx", "purgeApply"}

\* The row lock: the first UPDATE of the refund loop holds it until commit.
LockedBy(w, r) == req[r].pc = "purgeApply" /\ req[r].w = w /\ req[r].rows # <<>>

\* r can write wallet w and n more rows of its ledger (MaxRows is the bound).
Writable(w, r, n) ==
    /\ wallet[w] = "live"
    /\ \A q \in Reqs \ {r} : ~LockedBy(w, q)
    /\ Len(ledger[w]) + n =< MaxRows

Goto(r, local) == req' = [req EXCEPT ![r] = local]

\* r has committed to wallet w and goes on with local; everyone else that holds
\* a read of w now holds a stale one.
Commit(r, w, local) ==
    req' = [q \in Reqs |->
              IF q = r THEN local
              ELSE IF req[q].pc \in Holding /\ req[q].w = w
                   THEN [req[q] EXCEPT !.overtaken = TRUE]
                   ELSE req[q]]

\* The process dies, or a query throws: committed steps stay, a transaction rolls back.
Abort(r) ==
    /\ ~At(r, "idle")
    /\ Goto(r, Idle)
    /\ UNCHANGED <<wallet, balance, ledger, session, order, sale>>

TopupRow(a, before, after, s, o) ==
    [type |-> "topup", amount |-> a, before |-> before, after |-> after,
     session |-> s, order |-> o]

DeductionRow(a, before, after, s, o) ==
    [type |-> "deduction", amount |-> a, before |-> before, after |-> after,
     session |-> s, order |-> o]

-----------------------------------------------------------------------------
(* Wallet administration.                                                  *)

CreateWallet(w) ==
    /\ wallet[w] = "none"
    /\ wallet' = [wallet EXCEPT ![w] = "live"]
    /\ balance' = [balance EXCEPT ![w] = 0]
    /\ UNCHANGED <<ledger, session, order, sale, req>>

\* Deleting a wallet deletes its rows with it (onDelete: Cascade).
RemoveWallet(w) ==
    /\ wallet[w] = "live"
    /\ \A q \in Reqs : ~LockedBy(w, q)
    /\ wallet' = [wallet EXCEPT ![w] = "removed"]
    /\ balance' = [balance EXCEPT ![w] = 0]
    /\ ledger' = [ledger EXCEPT ![w] = <<>>]
    /\ UNCHANGED <<session, order, sale, req>>

TopUpRead(r, w, a) ==
    /\ At(r, "idle")
    /\ wallet[w] = "live"
    /\ Goto(r, [Idle EXCEPT !.pc = "topup", !.w = w, !.amt = a, !.seen = balance[w]])
    /\ UNCHANGED <<wallet, balance, ledger, session, order, sale>>

TopUpCommit(r) ==
    LET q == req[r]
        after == q.seen + q.amt
    IN  /\ At(r, "topup")
        /\ Writable(q.w, r, 1)
        /\ balance' = [balance EXCEPT ![q.w] = after]
        /\ ledger' = [ledger EXCEPT ![q.w] =
                        Append(@, TopupRow(q.amt, q.seen, after, NoSession, NoOrder))]
        /\ Commit(r, q.w, Idle)
        /\ UNCHANGED <<wallet, session, order, sale>>

-----------------------------------------------------------------------------
(* Charging a wallet: addOrder, addBatchOrders and checkout.               *)

StartOrder(r, s, o, a) ==
    /\ At(r, "idle")
    /\ session[s] = "open"
    /\ order[o].st = "none"
    /\ Goto(r, [Idle EXCEPT !.pc = "create", !.op = "order", !.w = WalletOf[s],
                            !.s = s, !.o = o, !.lines = {o}, !.price = a,
                            !.amt = a])
    /\ UNCHANGED <<wallet, balance, ledger, session, order, sale>>

\* The order row is written before the wallet is looked at, and stays if the
\* wallet then refuses.
CreateOrder(r) ==
    LET q == req[r]
    IN  /\ At(r, "create")
        /\ session[q.s] # "deleted"
        /\ order[q.o].st = "none"
        /\ order' = [order EXCEPT ![q.o] = [st |-> "live", s |-> q.s, total |-> q.price]]
        /\ Goto(r, [q EXCEPT !.pc = "charge"])
        /\ UNCHANGED <<wallet, balance, ledger, session, sale>>

\* A batch of lines of the same price a (more prices change only the sum),
\* charged as one deduction that names no order.
StartBatch(r, s, lines, a) ==
    /\ At(r, "idle")
    /\ session[s] = "open"
    /\ \A o \in lines : order[o].st = "none"
    /\ Goto(r, [Idle EXCEPT !.pc = "charge", !.op = "batch", !.w = WalletOf[s],
                            !.s = s, !.lines = lines, !.price = a,
                            !.amt = a * Cardinality(lines)])
    /\ UNCHANGED <<wallet, balance, ledger, session, order, sale>>

StartCheckout(r, s, a) ==
    /\ At(r, "idle")
    /\ session[s] = "open"
    /\ Goto(r, [Idle EXCEPT !.pc = "charge", !.op = "checkout", !.w = WalletOf[s],
                            !.s = s, !.amt = a])
    /\ UNCHANGED <<wallet, balance, ledger, session, order, sale>>

\* A payment method the Sale table does not have.
ChargeSkippedUnknown(r) ==
    /\ At(r, "charge")
    /\ Goto(r, [req[r] EXCEPT !.pc = "record", !.paid = "skipped"])
    /\ UNCHANGED <<wallet, balance, ledger, session, order, sale>>

\* skipWallet, no wallet with this phone, or a checkout that uses no wallet.
ChargeSkipped(r) ==
    /\ At(r, "charge")
    /\ Goto(r, [req[r] EXCEPT !.pc = "record", !.paid = "cash"])
    /\ UNCHANGED <<wallet, balance, ledger, session, order, sale>>

\* 402 (order, batch) or 400 (checkout): the request ends here.
ChargeRefused(r) ==
    /\ At(r, "charge")
    /\ wallet[req[r].w] = "live"
    /\ balance[req[r].w] < req[r].amt
    /\ Goto(r, Idle)
    /\ UNCHANGED <<wallet, balance, ledger, session, order, sale>>

ChargeRead(r) ==
    LET q == req[r]
    IN  /\ At(r, "charge")
        /\ wallet[q.w] = "live"
        /\ balance[q.w] >= q.amt
        /\ Goto(r, [q EXCEPT !.pc = "deduct", !.seen = balance[q.w]])
        /\ UNCHANGED <<wallet, balance, ledger, session, order, sale>>

\* deduct() with a relative decrement and no second look at the balance.
DeductRelative(r) ==
    LET q == req[r]
        after == balance[q.w] - q.amt
    IN  /\ At(r, "deduct")
        /\ Writable(q.w, r, 1)
        /\ balance' = [balance EXCEPT ![q.w] = after]
        /\ ledger' = [ledger EXCEPT ![q.w] =
                        Append(@, DeductionRow(q.amt, balance[q.w], after, q.s, q.o))]
        /\ Commit(r, q.w, [q EXCEPT !.pc = "record", !.paid = "wallet", !.seen = 0,
                                  !.overtaken = FALSE])
        /\ UNCHANGED <<wallet, session, order, sale>>

Deduct(r) ==
    LET q == req[r]
        after == q.seen - q.amt
    IN  /\ At(r, "deduct")
        /\ Writable(q.w, r, 1)
        /\ balance' = [balance EXCEPT ![q.w] = after]
        /\ ledger' = [ledger EXCEPT ![q.w] =
                        Append(@, DeductionRow(q.amt, q.seen, after, q.s, q.o))]
        /\ Commit(r, q.w, [q EXCEPT !.pc = "record", !.paid = "wallet", !.seen = 0,
                                  !.overtaken = FALSE])
        /\ UNCHANGED <<wallet, session, order, sale>>

RecordOrder(r) ==
    LET q == req[r]
    IN  /\ At(r, "record")
        /\ q.op = "order"
        /\ session[q.s] # "deleted"
        /\ sale' = [sale EXCEPT ![q.o] = q.paid]
        /\ Goto(r, Idle)
        /\ UNCHANGED <<wallet, balance, ledger, session, order>>

\* The transaction of addBatchOrders, after the wallet has been charged.
RecordBatch(r) ==
    LET q == req[r]
    IN  /\ At(r, "record")
        /\ q.op = "batch"
        /\ session[q.s] # "deleted"
        /\ \A o \in q.lines : order[o].st = "none"
        /\ order' = [o \in Orders |->
                       IF o \in q.lines
                       THEN [st |-> "live", s |-> q.s, total |-> q.price]
                       ELSE order[o]]
        /\ sale' = [o \in Orders |-> IF o \in q.lines THEN q.paid ELSE sale[o]]
        /\ Goto(r, Idle)
        /\ UNCHANGED <<wallet, balance, ledger, session>>

\* The update is unconditional: a session closed meanwhile is closed again.
RecordCheckout(r) ==
    LET q == req[r]
    IN  /\ At(r, "record")
        /\ q.op = "checkout"
        /\ session[q.s] # "deleted"
        /\ session' = [session EXCEPT ![q.s] = "closed"]
        /\ Goto(r, Idle)
        /\ UNCHANGED <<wallet, balance, ledger, order, sale>>

-----------------------------------------------------------------------------
(* Editing and deleting an order.                                          *)

\* The ledger rows findFirst({orderId, type: "deduction"}) may return.
DeductionsOf(w, o) ==
    {i \in DOMAIN ledger[w] : ledger[w][i].type = "deduction" /\ ledger[w][i].order = o}

\* Stock and price are settled; the new total differs from the old one.
StartEdit(r, o, a) ==
    /\ At(r, "idle")
    /\ order[o].st = "live"
    /\ session[order[o].s] = "open"
    /\ order[o].total # a
    /\ Goto(r, [Idle EXCEPT !.pc = "edit", !.w = WalletOf[order[o].s],
                            !.s = order[o].s, !.o = o, !.amt = a])
    /\ UNCHANGED <<wallet, balance, ledger, session, order, sale>>

\* No deduction: the order was paid in cash.
EditCash(r) ==
    LET q == req[r]
    IN  /\ At(r, "edit")
        /\ DeductionsOf(q.w, q.o) = {}
        /\ order[q.o].st = "live"
        /\ order' = [order EXCEPT ![q.o].total = q.amt]
        /\ Goto(r, Idle)
        /\ UNCHANGED <<wallet, balance, ledger, session, sale>>

EditFind(r) ==
    LET q == req[r]
    IN  /\ At(r, "edit")
        /\ wallet[q.w] = "live"
        /\ \E i \in DeductionsOf(q.w, q.o) :
             Goto(r, [q EXCEPT !.pc = "adjust", !.back = ledger[q.w][i].amount,
                               !.seen = balance[q.w]])
        /\ UNCHANGED <<wallet, balance, ledger, session, order, sale>>

\* The new charge computed from the wallet read before the refund.
EditCommitStale(r) ==
    LET q == req[r]
        refunded == q.seen + q.back
    IN  /\ At(r, "adjust")
        /\ Writable(q.w, r, 2)
        /\ order[q.o].st = "live"
        /\ refunded >= q.amt
        /\ balance' = [balance EXCEPT ![q.w] = q.seen - q.amt]
        /\ ledger' = [ledger EXCEPT ![q.w] =
                        @ \o <<TopupRow(q.back, q.seen, refunded, q.s, q.o),
                               DeductionRow(q.amt, q.seen, q.seen - q.amt, q.s, q.o)>>]
        /\ order' = [order EXCEPT ![q.o].total = q.amt]
        /\ Commit(r, q.w, Idle)
        /\ UNCHANGED <<wallet, session, sale>>

\* The refund leg is forgotten.
EditCommitNoRefund(r) ==
    LET q == req[r]
        after == q.seen - q.amt
    IN  /\ At(r, "adjust")
        /\ Writable(q.w, r, 1)
        /\ order[q.o].st = "live"
        /\ after >= 0
        /\ balance' = [balance EXCEPT ![q.w] = after]
        /\ ledger' = [ledger EXCEPT ![q.w] =
                        Append(@, DeductionRow(q.amt, q.seen, after, q.s, q.o))]
        /\ order' = [order EXCEPT ![q.o].total = q.amt]
        /\ Commit(r, q.w, Idle)
        /\ UNCHANGED <<wallet, session, sale>>

\* Refund the old amount, then charge the new one if the refunded balance
\* covers it; otherwise the order becomes a cash order.
EditCommit(r) ==
    LET q == req[r]
        refunded == q.seen + q.back
        charged == refunded - q.amt
        refund == TopupRow(q.back, q.seen, refunded, q.s, q.o)
    IN  /\ At(r, "adjust")
        /\ Writable(q.w, r, IF refunded >= q.amt THEN 2 ELSE 1)
        /\ order[q.o].st = "live"
        /\ \/ /\ refunded >= q.amt
              /\ balance' = [balance EXCEPT ![q.w] = charged]
              /\ ledger' = [ledger EXCEPT ![q.w] =
                   @ \o <<refund, DeductionRow(q.amt, refunded, charged, q.s, q.o)>>]
           \/ /\ refunded < q.amt
              /\ balance' = [balance EXCEPT ![q.w] = refunded]
              /\ ledger' = [ledger EXCEPT ![q.w] = Append(@, refund)]
        /\ order' = [order EXCEPT ![q.o].total = q.amt]
        /\ Commit(r, q.w, Idle)
        /\ UNCHANGED <<wallet, session, sale>>

StartRemove(r, o) ==
    /\ At(r, "idle")
    /\ order[o].st = "live"
    /\ session[order[o].s] = "open"
    /\ Goto(r, [Idle EXCEPT !.pc = "remove", !.w = WalletOf[order[o].s],
                            !.s = order[o].s, !.o = o])
    /\ UNCHANGED <<wallet, balance, ledger, session, order, sale>>

\* No deduction row, or its wallet is gone: the order is deleted without a
\* refund.  A second delete of the same order throws, and is an Abort.
RemoveUnpaid(r) ==
    LET q == req[r]
    IN  /\ At(r, "remove")
        /\ DeductionsOf(q.w, q.o) = {}
        /\ order[q.o].st = "live"
        /\ order' = [order EXCEPT ![q.o].st = "gone"]
        /\ Goto(r, Idle)
        /\ UNCHANGED <<wallet, balance, ledger, session, sale>>

RemoveFind(r) ==
    LET q == req[r]
    IN  /\ At(r, "remove")
        /\ \E i \in DeductionsOf(q.w, q.o) :
             Goto(r, [q EXCEPT !.pc = "removeTx", !.back = ledger[q.w][i].amount,
                               !.seen = balance[q.w]])
        /\ UNCHANGED <<wallet, balance, ledger, session, order, sale>>

\* The refund forgets its ledger row.
RemoveCommitNoRow(r) ==
    LET q == req[r]
    IN  /\ At(r, "removeTx")
        /\ Writable(q.w, r, 1)
        /\ order[q.o].st = "live"
        /\ balance' = [balance EXCEPT ![q.w] = q.seen + q.back]
        /\ order' = [order EXCEPT ![q.o].st = "gone"]
        /\ Commit(r, q.w, Idle)
        /\ UNCHANGED <<wallet, ledger, session, sale>>

RemoveCommit(r) ==
    LET q == req[r]
        after == q.seen + q.back
    IN  /\ At(r, "removeTx")
        /\ Writable(q.w, r, 1)
        /\ order[q.o].st = "live"
        /\ balance' = [balance EXCEPT ![q.w] = after]
        /\ ledger' = [ledger EXCEPT ![q.w] =
                        Append(@, TopupRow(q.back, q.seen, after, q.s, q.o))]
        /\ order' = [order EXCEPT ![q.o].st = "gone"]
        /\ Commit(r, q.w, Idle)
        /\ UNCHANGED <<wallet, session, sale>>

-----------------------------------------------------------------------------
(* Deleting a session: refundSessionDeductions and the cascade, in one     *)
(* transaction.  Whether a debt blocks the delete is decided elsewhere.    *)

StartPurge(r, s) ==
    /\ At(r, "idle")
    /\ session[s] # "deleted"
    /\ Goto(r, [Idle EXCEPT !.pc = "purge", !.w = WalletOf[s], !.s = s])
    /\ UNCHANGED <<wallet, balance, ledger, session, order, sale>>

\* findMany: every deduction of the session, whatever was refunded since.
SessionDeductions(w, s) ==
    {i \in DOMAIN ledger[w] : ledger[w][i].type = "deduction" /\ ledger[w][i].session = s}

PurgeList(r) ==
    LET q == req[r]
    IN  /\ At(r, "purge")
        /\ Goto(r, [q EXCEPT !.pc = "purgeRead",
                             !.todo = {<<i, ledger[q.w][i].amount>> :
                                         i \in SessionDeductions(q.w, q.s)}])
        /\ UNCHANGED <<wallet, balance, ledger, session, order, sale>>

\* A removed wallet is skipped, whatever was listed.
PurgeRead(r) ==
    LET q == req[r]
    IN  /\ At(r, "purgeRead")
        /\ Goto(r, [q EXCEPT !.pc = "purgeApply", !.seen = balance[q.w],
                             !.todo = IF wallet[q.w] = "live" THEN @ ELSE {}])
        /\ UNCHANGED <<wallet, balance, ledger, session, order, sale>>

\* One turn of the loop, in whatever order the rows came; its writes are not
\* visible before the commit, but the first one locks the wallet row.
PurgeApply(r) ==
    LET q == req[r]
    IN  /\ At(r, "purgeApply")
        /\ Writable(q.w, r, Len(q.rows) + 1)
        /\ \E t \in q.todo :
             Goto(r, [q EXCEPT
                        !.todo = @ \ {t},
                        !.seen = q.seen + t[2],
                        !.rows = Append(@, TopupRow(t[2], q.seen, q.seen + t[2],
                                                    q.s, NoOrder))])
        /\ UNCHANGED <<wallet, balance, ledger, session, order, sale>>

\* SnackOrders go with the session; Sales stay.
PurgeCommit(r) ==
    LET q == req[r]
    IN  /\ At(r, "purgeApply")
        /\ q.todo = {}
        /\ session[q.s] # "deleted"
        /\ session' = [session EXCEPT ![q.s] = "deleted"]
        /\ order' = [o \in Orders |-> IF order[o].st = "live" /\ order[o].s = q.s
                                      THEN [order[o] EXCEPT !.st = "gone"]
                                      ELSE order[o]]
        /\ \/ /\ q.rows = <<>>
              /\ Goto(r, Idle)
              /\ UNCHANGED <<balance, ledger>>
           \/ /\ q.rows # <<>>
              /\ balance' = [balance EXCEPT ![q.w] = q.seen]
              /\ ledger' = [ledger EXCEPT ![q.w] = @ \o q.rows]
              /\ Commit(r, q.w, Idle)
        /\ UNCHANGED <<wallet, sale>>

-----------------------------------------------------------------------------
Administer == \E w \in Wallets : CreateWallet(w) \/ RemoveWallet(w)

TopUp(r) == (\E w \in Wallets, a \in Deposits : TopUpRead(r, w, a)) \/ TopUpCommit(r)

Charge(r) ==
    \/ \E s \in Sessions, o \in Orders, a \in Prices : StartOrder(r, s, o, a)
    \/ \E s \in Sessions, lines \in SUBSET Orders \ {{}}, a \in Prices :
         StartBatch(r, s, lines, a)
    \/ \E s \in Sessions, a \in Prices : StartCheckout(r, s, a)
    \/ CreateOrder(r) \/ ChargeSkipped(r) \/ ChargeRefused(r) \/ ChargeRead(r) \/ Deduct(r)
    \/ RecordOrder(r) \/ RecordBatch(r) \/ RecordCheckout(r)

EditOrder(r) ==
    \/ \E o \in Orders, a \in Prices : StartEdit(r, o, a)
    \/ EditCash(r) \/ EditFind(r) \/ EditCommit(r)

RemoveOrder(r) ==
    \/ \E o \in Orders : StartRemove(r, o)
    \/ RemoveUnpaid(r) \/ RemoveFind(r) \/ RemoveCommit(r)

DeleteSession(r) ==
    \/ \E s \in Sessions : StartPurge(r, s)
    \/ PurgeList(r) \/ PurgeRead(r) \/ PurgeApply(r) \/ PurgeCommit(r)

Next ==
    \/ Administer
    \/ \E r \in Reqs : \/ TopUp(r) \/ Charge(r) \/ EditOrder(r) \/ RemoveOrder(r)
                       \/ DeleteSession(r) \/ Abort(r)

Spec == Init /\ [][Next]_vars

-----------------------------------------------------------------------------
(* Properties.                                                             *)

\* The balance of a wallet is the balanceAfter of its newest row, although no
\* request locks the wallet between its read and its write.
HeadAgrees ==
    \A w \in Wallets :
        balance[w] = IF ledger[w] = <<>> THEN 0 ELSE ledger[w][Len(ledger[w])].after

\* No interleaving of charges, refunds and top-ups drives a wallet below zero.
NonNegative == \A w \in Wallets : balance[w] >= 0

\* A row whose balanceBefore is not the balance it overwrites (a lost update) is
\* only written by a request that another commit overtook between its read and
\* its write; the rows one request writes always follow on from each other.
ChainedUnlessOvertaken ==
    [][\A w \in Wallets :
         Len(ledger'[w]) > Len(ledger[w]) =>
           /\ \/ ledger'[w][Len(ledger[w]) + 1].before = balance[w]
              \/ \E r \in Reqs : /\ req[r].overtaken /\ req[r].w = w
                                 /\ req'[r].pc # req[r].pc
           /\ \A i \in Len(ledger[w]) + 2 .. Len(ledger'[w]) :
                ledger'[w][i].before = ledger'[w][i - 1].after]_vars

\* Money only enters a wallet as a cash top-up or as the refund of an earlier
\* deduction of the same session (and order, if it names one), of that amount.
RefundBacked ==
    \A w \in Wallets : \A i \in DOMAIN ledger[w] :
        LET t == ledger[w][i]
        IN  t.type = "topup" /\ t.session # NoSession =>
              \E j \in 1 .. i - 1 : /\ ledger[w][j].type = "deduction"
                                    /\ ledger[w][j].session = t.session
                                    /\ ledger[w][j].amount = t.amount
                                    /\ t.order \in {NoOrder, ledger[w][j].order}

RefundsOf(w, o) ==
    {i \in DOMAIN ledger[w] : ledger[w][i].type = "topup" /\ ledger[w][i].order = o}

\* However often an order is edited, it is never charged again without a refund of
\* one of its charges.  Of which charge is another matter: the edit of an order that
\* was edited before may find any of them (EditFind), and refund what it no longer costs.
ChargedAtMostOnce ==
    \A w \in Wallets, o \in Orders :
        Cardinality(DeductionsOf(w, o)) =< Cardinality(RefundsOf(w, o)) + 1

\* The first edit or removal of an order that was charged gives back just what it was
\* charged, whatever other requests on the order and the wallet come in between.
FirstRefundExact ==
    \A w \in Wallets, o \in Orders :
        \A i \in RefundsOf(w, o), j \in DeductionsOf(w, o) :
            j < i /\ (\A k \in RefundsOf(w, o) : i =< k) =>
                ledger[w][i].amount = ledger[w][j].amount

\* A Sale marked as paid from the wallet has a deduction of its session behind
\* it, for that very order or for the batch it came in.
WalletSaleIsCharged ==
    \A o \in Orders :
        sale[o] = "wallet" /\ wallet[WalletOf[order[o].s]] = "live" =>
          \E i \in SessionDeductions(WalletOf[order[o].s], order[o].s) :
            ledger[WalletOf[order[o].s]][i].order \in {o, NoOrder}

\* The ledger and the orders tell the same story: every refund and every Sale paid from
\* the wallet has a deduction behind it, every further charge a refund, and the first
\* refund of an order is the whole of its charge (sessions/service.ts addOrder,
\* addBatchOrders, editOrderItem, deleteOrderItem, deleteSession).
ChargesMatchOrders ==
    RefundBacked /\ ChargedAtMostOnce /\ FirstRefundExact /\ WalletSaleIsCharged

-----------------------------------------------------------------------------
(* The inductive invariant.                                                *)

\* What holds of the local variables of a request, whatever the others do.
Sane(q) ==
    /\ q.pc # "idle" => q.w \in Wallets
    /\ q.pc \notin {"idle", "topup"} => q.s \in Sessions
    /\ q.op = "order" \/ q.pc \in {"edit", "adjust", "remove", "removeTx"} => q.o \in Orders
    /\ q.pc \in Holding => q.seen >= 0
    /\ q.pc = "deduct" => q.seen >= q.amt
    /\ q.rows # <<>> => q.pc = "purgeApply" /\ q.rows[Len(q.rows)].after = q.seen
    /\ \A i \in 2 .. Len(q.rows) : q.rows[i].before = q.rows[i - 1].after

\* A wallet that does not exist holds nothing.
Dormant == \A w \in Wallets : wallet[w] # "live" => ledger[w] = <<>>

\* What a request has read still is the balance, unless it was overtaken.
Fresh ==
    \A r \in Reqs :
        LET q == req[r]
        IN  q.pc \in Holding /\ ~q.overtaken /\ wallet[q.w] # "removed" =>
              balance[q.w] = IF q.rows = <<>> THEN q.seen ELSE q.rows[1].before

\* A wallet whose row is locked cannot be removed.
LockHeld == \A r \in Reqs : req[r].rows # <<>> => wallet[req[r].w] = "live"

IInv ==
    /\ TypeOK
    /\ \A r \in Reqs : Sane(req[r])
    /\ HeadAgrees
    /\ NonNegative
    /\ Dormant
    /\ Fresh
    /\ LockHeld
=============================================================================
