------------------------- MODULE SnackWalletProofs -------------------------
(***************************************************************************)
(* Proofs, for every number of wallets, sessions, orders and requests,     *)
(* that the safety properties of SnackWallet hold: types, the balance and  *)
(* its ledger, the chaining of the ledger, and the ledger and the orders.  *)
(***************************************************************************)
EXTENDS SnackWallet, SequenceTheorems, FiniteSetTheorems, TLAPS

-----------------------------------------------------------------------------
(* Types.                                                                  *)

LEMMA IdleType == Idle \in Request
<1>1. <<>> \in Seq(Row)
  OBVIOUS
<1> QED  BY <1>1 DEF Idle, Request

LEMMA GotoType ==
  ASSUME TypeOK, NEW r \in Reqs, NEW local \in Request, Goto(r, local)
  PROVE  req' \in [Reqs -> Request]
BY DEF TypeOK, Goto

LEMMA CommitType ==
  ASSUME TypeOK, NEW r \in Reqs, NEW w, NEW local \in Request, Commit(r, w, local)
  PROVE  req' \in [Reqs -> Request]
<1>1. ASSUME NEW q \in Reqs
      PROVE  [req[q] EXCEPT !.overtaken = TRUE] \in Request
  <2>1. req[q] \in Request
    BY DEF TypeOK
  <2> QED  BY ZenonT(30), <2>1 DEF Request
<1>2. \A q \in Reqs : req[q] \in Request
  BY DEF TypeOK
<1> QED  BY <1>1, <1>2 DEF Commit

LEMMA RowType ==
  ASSUME NEW a \in Nat, NEW b \in Int, NEW c \in Int,
         NEW s \in Sessions \cup {NoSession}, NEW o \in Orders \cup {NoOrder}
  PROVE  TopupRow(a, b, c, s, o) \in Row /\ DeductionRow(a, b, c, s, o) \in Row
BY DEF TopupRow, DeductionRow, Row

LEMMA SeenType ==
  ASSUME NEW x \in Request, NEW b \in Int
  PROVE  [x EXCEPT !.seen = b] \in Request
BY SMTT(30) DEF Request

\* The last row of a ledger after rows are appended to it.
LEMMA PostRows ==
  ASSUME NEW l \in Seq(Row), NEW new \in Seq(Row), new # <<>>
  PROVE  /\ l \o new \in Seq(Row)
         /\ l \o new # <<>>
         /\ (l \o new)[Len(l \o new)] = new[Len(new)]
<1>1. Len(new) \in Nat \ {0}
  BY EmptySeq
<1>2. Len(l) \in Nat
  BY LenProperties
<1> QED  BY <1>1, <1>2, ConcatProperties

-----------------------------------------------------------------------------
(* The two shapes of a step.                                               *)

\* A step of r that leaves the wallets alone keeps the invariant if the new local
\* variables of r are sane and, if they hold a read, it is the balance.
LEMMA GotoStep ==
  ASSUME IInv, NEW r \in Reqs, NEW local \in Request, Sane(local), Goto(r, local),
         wallet' = wallet, balance' = balance, ledger' = ledger,
         session' \in [Sessions -> {"open", "closed", "deleted"}],
         order' \in [Orders -> OrderRow],
         sale' \in [Orders -> {"none", "cash", "wallet"}],
         local.pc \in Holding /\ ~local.overtaken /\ wallet[local.w] # "removed" =>
           balance[local.w] = IF local.rows = <<>> THEN local.seen ELSE local.rows[1].before,
         local.pc \in Holding /\ local.rows # <<>> => wallet[local.w] = "live"
  PROVE  IInv'
<1>1. TypeOK'
  BY GotoType DEF IInv, TypeOK
<1>2. \A q \in Reqs : req'[q] = IF q = r THEN local ELSE req[q]
  BY DEF Goto, IInv, TypeOK
<1>3. \A q \in Reqs : Sane(req'[q])
  BY <1>2 DEF IInv
<1>4. HeadAgrees' /\ NonNegative' /\ Dormant'
  BY DEF IInv, HeadAgrees, NonNegative, Dormant
<1>5. Fresh'
  BY <1>2 DEF IInv, Fresh
<1>6. \A q \in Reqs : Sane(req[q])'
  BY <1>3 DEF Sane
<1>7. LockHeld'
  <2>1. local.rows # <<>> => wallet[local.w] = "live"
    BY DEF Sane, Holding
  <2> QED  BY <1>2, <2>1 DEF IInv, LockHeld
<1> QED  BY <1>1, <1>4, <1>5, <1>6, <1>7 DEF IInv

\* A step of r that appends rows to the ledger of w and writes the balance of the
\* last one keeps the invariant if that balance is not negative.
LEMMA CommitStep ==
  ASSUME IInv, NEW r \in Reqs, NEW w \in Wallets, NEW local \in Request, Sane(local),
         local.pc \notin Holding, NEW new \in Seq(Row), new # <<>>,
         wallet[w] = "live", Commit(r, w, local),
         new[Len(new)].after >= 0,
         wallet' = wallet,
         balance' = [balance EXCEPT ![w] = new[Len(new)].after],
         ledger' = [ledger EXCEPT ![w] = @ \o new],
         session' \in [Sessions -> {"open", "closed", "deleted"}],
         order' \in [Orders -> OrderRow],
         sale' \in [Orders -> {"none", "cash", "wallet"}]
  PROVE  IInv'
<1> USE DEF IInv
<1>1. ledger[w] \in Seq(Row) /\ new[Len(new)] \in Row
  <2>1. Len(new) \in 1 .. Len(new)
    BY EmptySeq, LenProperties
  <2> QED  BY <2>1, ElementOfSeq DEF TypeOK
<1>2. /\ ledger[w] \o new \in Seq(Row)
      /\ ledger[w] \o new # <<>>
      /\ (ledger[w] \o new)[Len(ledger[w] \o new)] = new[Len(new)]
  BY <1>1, PostRows
<1>3. TypeOK'
  BY <1>1, <1>2, CommitType DEF TypeOK, Row
<1>4. \A q \in Reqs : req'[q] = IF q = r THEN local
                                ELSE IF req[q].pc \in Holding /\ req[q].w = w
                                     THEN [req[q] EXCEPT !.overtaken = TRUE]
                                     ELSE req[q]
  BY DEF Commit
<1>5. ASSUME NEW q \in Reqs
      PROVE  Sane(req[q])'
  <2>1. req[q] \in Request /\ Sane(req[q])
    BY DEF TypeOK
  <2>2. Sane([req[q] EXCEPT !.overtaken = TRUE])
    BY <2>1 DEF Sane, Request
  <2>3. Sane(req'[q])
    BY <1>4, <2>1, <2>2
  <2> QED  BY <2>3 DEF Sane
<1>6. HeadAgrees'
  BY <1>2 DEF HeadAgrees, TypeOK
<1>7. NonNegative'
  BY DEF NonNegative, TypeOK
<1>8. Dormant'
  BY DEF Dormant, TypeOK
<1>9. ASSUME NEW q \in Reqs, req'[q].pc \in Holding, ~req'[q].overtaken,
             wallet'[req'[q].w] # "removed"
      PROVE  balance'[req'[q].w] = IF req'[q].rows = <<>> THEN req'[q].seen
                                   ELSE req'[q].rows[1].before
  <2>1. req[q] \in Request /\ Sane(req[q])
    BY DEF TypeOK
  <2>2. q # r
    BY <1>4, <1>9
  <2>3. ~(req[q].pc \in Holding /\ req[q].w = w)
    BY <1>4, <1>9, <2>1, <2>2 DEF Request
  <2>4. req'[q] = req[q]
    BY <1>4, <2>2, <2>3
  <2>5. req[q].w \in Wallets /\ req[q].w # w
    BY <1>9, <2>1, <2>3, <2>4 DEF Sane, Holding
  <2>6. balance'[req[q].w] = balance[req[q].w]
    BY <2>5 DEF TypeOK
  <2> QED  BY <1>9, <2>4, <2>6 DEF Fresh
<1>10. Fresh'
  BY <1>9 DEF Fresh
<1>11. LockHeld'
  <2>1. local.rows = <<>>
    BY DEF Sane, Holding
  <2>2. \A q \in Reqs : /\ [req[q] EXCEPT !.overtaken = TRUE].rows = req[q].rows
                         /\ [req[q] EXCEPT !.overtaken = TRUE].w = req[q].w
    BY DEF TypeOK, Request
  <2> QED  BY <1>4, <2>1, <2>2 DEF LockHeld
<1> QED  BY <1>3, <1>5, <1>6, <1>7, <1>8, <1>10, <1>11

LEMMA AppendStep ==
  ASSUME IInv, NEW r \in Reqs, NEW w \in Wallets, NEW local \in Request, Sane(local),
         local.pc \notin Holding, NEW t \in Row,
         wallet[w] = "live", Commit(r, w, local), t.after >= 0,
         wallet' = wallet,
         balance' = [balance EXCEPT ![w] = t.after],
         ledger' = [ledger EXCEPT ![w] = Append(@, t)],
         session' \in [Sessions -> {"open", "closed", "deleted"}],
         order' \in [Orders -> OrderRow],
         sale' \in [Orders -> {"none", "cash", "wallet"}]
  PROVE  IInv'
<1>1. ledger[w] \in Seq(Row)
  BY DEF IInv, TypeOK
<1>2. Append(ledger[w], t) = ledger[w] \o <<t>>
  BY <1>1, AppendIsConcat
<1>3. /\ <<t>> \in Seq(Row)
      /\ <<t>> # <<>>
      /\ <<t>>[Len(<<t>>)] = t
  OBVIOUS
<1>4. ledger' = [ledger EXCEPT ![w] = @ \o <<t>>]
  BY <1>2
<1> QED  BY <1>3, <1>4, CommitStep

-----------------------------------------------------------------------------
(* The steps.                                                              *)

LEMMA IdleSane == Sane(Idle) /\ Idle.pc \notin Holding
BY DEF Sane, Idle, Holding

LEMMA InitInv == Init => IInv
<1> SUFFICES ASSUME Init PROVE IInv
  OBVIOUS
<1>1. [w \in Wallets |-> <<>>] \in [Wallets -> Seq(Row)]
  OBVIOUS
<1>2. TypeOK
  BY <1>1, IdleType DEF Init, TypeOK, OrderRow, Unplaced
<1> QED
  BY <1>2, IdleSane DEF Init, IInv, HeadAgrees, NonNegative, Dormant, Fresh, LockHeld, Idle

LEMMA AdministerInv ==
  ASSUME IInv, Administer
  PROVE  IInv'
<1> USE DEF IInv
<1>1. ASSUME NEW w \in Wallets, CreateWallet(w)
      PROVE  IInv'
  <2>1. TypeOK'
    BY <1>1 DEF TypeOK, CreateWallet
  <2>2. ledger[w] = <<>> /\ balance[w] = 0
    BY <1>1 DEF CreateWallet, Dormant, HeadAgrees
  <2>3. balance' = balance
    BY <1>1, <2>2 DEF CreateWallet, TypeOK
  <2>4. HeadAgrees' /\ NonNegative' /\ Dormant'
    BY <1>1, <2>3 DEF CreateWallet, HeadAgrees, NonNegative, Dormant, TypeOK
  <2>5. Fresh'
    <3>1. \A r \in Reqs : req[r].pc \in Holding => req[r].w \in Wallets
      BY DEF Sane, Holding
    <3> QED  BY <1>1, <2>3, <3>1 DEF CreateWallet, Fresh, TypeOK
  <2>6. LockHeld'
    <3>1. \A r \in Reqs : req[r].rows # <<>> => req[r].w \in Wallets
      BY DEF Sane
    <3> QED  BY <1>1, <3>1 DEF CreateWallet, LockHeld, TypeOK
  <2> QED  BY <1>1, <2>1, <2>4, <2>5, <2>6 DEF CreateWallet, Sane
<1>2. ASSUME NEW w \in Wallets, RemoveWallet(w)
      PROVE  IInv'
  <2>1. <<>> \in Seq(Row)
    OBVIOUS
  <2>2. TypeOK'
    BY <1>2, <2>1 DEF TypeOK, RemoveWallet
  <2>3. HeadAgrees' /\ NonNegative' /\ Dormant'
    BY <1>2 DEF RemoveWallet, HeadAgrees, NonNegative, Dormant, TypeOK
  <2>4. Fresh'
    <3>1. \A r \in Reqs : req[r].pc \in Holding => req[r].w \in Wallets
      BY DEF Sane, Holding
    <3> QED  BY <1>2, <3>1 DEF RemoveWallet, Fresh, TypeOK
  <2>5. LockHeld'
    <3>1. \A r \in Reqs : req[r].rows # <<>> => req[r].w \in Wallets /\ req[r].w # w
      BY <1>2 DEF Sane, RemoveWallet, LockedBy
    <3> QED  BY <1>2, <3>1 DEF RemoveWallet, LockHeld, TypeOK
  <2> QED  BY <1>2, <2>2, <2>3, <2>4, <2>5 DEF RemoveWallet, Sane
<1> QED  BY <1>1, <1>2 DEF Administer

LEMMA TopUpInv ==
  ASSUME IInv, NEW r \in Reqs, TopUp(r)
  PROVE  IInv'
<1> DEFINE q == req[r]
<1>q. q \in Request /\ Sane(q)
  BY DEF IInv, TypeOK
<1>1. ASSUME NEW w \in Wallets, NEW a \in Deposits, TopUpRead(r, w, a)
      PROVE  IInv'
  <2> DEFINE local == [Idle EXCEPT !.pc = "topup", !.w = w, !.amt = a, !.seen = balance[w]]
  <2>1. local \in Request
    BY ZenonT(30), IdleType, AmountsAssumption DEF Request, IInv, TypeOK
  <2>2. Sane(local)
    BY DEF Sane, Idle, Holding, IInv, NonNegative
  <2>3. local.rows = <<>> /\ local.seen = balance[w] /\ local.w = w
    BY DEF Idle
  <2> QED  BY <1>1, <2>1, <2>2, <2>3, GotoStep DEF TopUpRead, IInv, TypeOK
<1>2. CASE TopUpCommit(r)
  <2> DEFINE after == q.seen + q.amt
             t == TopupRow(q.amt, q.seen, after, NoSession, NoOrder)
  <2>1. q.w \in Wallets /\ q.seen \in Int /\ q.seen >= 0 /\ q.amt \in Nat
    BY <1>2, <1>q DEF TopUpCommit, At, Sane, Request, Holding
  <2>0. after \in Int /\ after >= 0
    BY <2>1
  <2>2. t \in Row /\ t.after = after /\ after >= 0
    <3> HIDE DEF after
    <3>1. t.after = after
      BY DEF TopupRow
    <3>2. t \in Row
      BY <2>0, <2>1, RowType
    <3> QED  BY <2>0, <3>1, <3>2
  <2>3. ledger' = [ledger EXCEPT ![q.w] = Append(@, t)]
    BY <1>2 DEF TopUpCommit
  <2> HIDE DEF t
  <2> QED  BY <1>2, <2>1, <2>2, <2>3, AppendStep, IdleType, IdleSane
           DEF TopUpCommit, Writable, IInv, TypeOK
<1> QED  BY <1>1, <1>2 DEF TopUp

LEMMA ChargeInv ==
  ASSUME IInv, NEW r \in Reqs, Charge(r)
  PROVE  IInv'
<1> DEFINE q == req[r]
<1>q. q \in Request /\ Sane(q)
  BY DEF IInv, TypeOK
<1>1. ASSUME NEW s \in Sessions, NEW o \in Orders, NEW a \in Prices, StartOrder(r, s, o, a)
      PROVE  IInv'
  <2> DEFINE local == [Idle EXCEPT !.pc = "create", !.op = "order", !.w = WalletOf[s],
                                   !.s = s, !.o = o, !.lines = {o}, !.price = a, !.amt = a]
  <2>1. local \in Request
    BY ZenonT(30), IdleType, AmountsAssumption, WalletOfAssumption DEF Request
  <2>2. Sane(local) /\ local.pc \notin Holding
    BY WalletOfAssumption DEF Sane, Idle, Holding
  <2> QED  BY <1>1, <2>1, <2>2, GotoStep DEF StartOrder, IInv, TypeOK
<1>2. ASSUME NEW s \in Sessions, NEW lines \in SUBSET Orders \ {{}}, NEW a \in Prices,
             StartBatch(r, s, lines, a)
      PROVE  IInv'
  <2> DEFINE n == Cardinality(lines)
             local == [Idle EXCEPT !.pc = "charge", !.op = "batch", !.w = WalletOf[s],
                                   !.s = s, !.lines = lines, !.price = a,
                                   !.amt = a * n]
  <2>1. n \in Nat
    BY OrdersAssumption, FS_Subset, FS_CardinalityType
  <2>2. a \in Nat /\ a * n \in Nat
    BY <2>1, AmountsAssumption
  <2>3. local \in Request
    BY ZenonT(30), <2>2, IdleType, WalletOfAssumption DEF Request
  <2>4. Sane(local) /\ local.pc \notin Holding
    BY WalletOfAssumption DEF Sane, Idle, Holding
  <2> QED  BY <1>2, <2>3, <2>4, GotoStep DEF StartBatch, IInv, TypeOK
<1>3. ASSUME NEW s \in Sessions, NEW a \in Prices, StartCheckout(r, s, a)
      PROVE  IInv'
  <2> DEFINE local == [Idle EXCEPT !.pc = "charge", !.op = "checkout", !.w = WalletOf[s],
                                   !.s = s, !.amt = a]
  <2>1. local \in Request
    BY ZenonT(30), IdleType, AmountsAssumption, WalletOfAssumption DEF Request
  <2>2. Sane(local) /\ local.pc \notin Holding
    BY WalletOfAssumption DEF Sane, Idle, Holding
  <2> QED  BY <1>3, <2>1, <2>2, GotoStep DEF StartCheckout, IInv, TypeOK
<1>4. CASE CreateOrder(r)
  <2> DEFINE local == [q EXCEPT !.pc = "charge"]
  <2>1. local \in Request
    BY <1>q DEF Request
  <2>2. Sane(local) /\ local.pc \notin Holding
    BY <1>4, <1>q DEF CreateOrder, At, Sane, Request, Holding
  <2>3. order' \in [Orders -> OrderRow]
    <3>1. q.s \in Sessions /\ q.price \in Nat
      BY <1>4, <1>q DEF CreateOrder, At, Sane, Request
    <3>2. [st |-> "live", s |-> q.s, total |-> q.price] \in OrderRow
      BY <3>1 DEF OrderRow
    <3> QED  BY <1>4, <3>2 DEF CreateOrder, IInv, TypeOK
  <2> QED  BY <1>4, <2>1, <2>2, <2>3, GotoStep DEF CreateOrder, IInv, TypeOK
<1>5. CASE ChargeSkipped(r)
  <2> DEFINE local == [q EXCEPT !.pc = "record", !.paid = "cash"]
  <2>1. local \in Request
    BY ZenonT(30), <1>q DEF Request
  <2>2. Sane(local) /\ local.pc \notin Holding
    BY <1>5, <1>q DEF ChargeSkipped, At, Sane, Request, Holding
  <2> QED  BY <1>5, <2>1, <2>2, GotoStep DEF ChargeSkipped, IInv, TypeOK
<1>6. CASE ChargeRefused(r)
  BY <1>6, IdleType, IdleSane, GotoStep DEF ChargeRefused, IInv, TypeOK
<1>7. CASE ChargeRead(r)
  <2> DEFINE local == [q EXCEPT !.pc = "deduct", !.seen = balance[q.w]]
  <2>1. q.w \in Wallets /\ q.rows = <<>>
    BY <1>7, <1>q DEF ChargeRead, At, Sane
  <2>2. balance[q.w] \in Int /\ balance[q.w] >= 0 /\ balance[q.w] >= q.amt
    BY <1>7, <2>1 DEF ChargeRead, IInv, TypeOK, NonNegative
  <2>3. local \in Request
    BY <1>q, <2>2 DEF Request
  <2>4. Sane(local)
    BY <1>7, <1>q, <2>1, <2>2 DEF ChargeRead, At, Sane, Request, Holding
  <2>5. local.rows = <<>> /\ local.seen = balance[q.w] /\ local.w = q.w
    BY <1>q, <2>1 DEF Request
  <2> QED  BY <1>7, <2>3, <2>4, <2>5, GotoStep DEF ChargeRead, IInv, TypeOK
<1>8. CASE Deduct(r)
  <2> DEFINE local == [q EXCEPT !.pc = "record", !.paid = "wallet", !.seen = 0,
                                !.overtaken = FALSE]
             after == q.seen - q.amt
             t == DeductionRow(q.amt, q.seen, after, q.s, q.o)
  <2>1. /\ q.w \in Wallets /\ q.rows = <<>>
        /\ q.seen \in Int /\ q.amt \in Nat /\ q.seen >= q.amt
    BY <1>8, <1>q DEF Deduct, At, Sane, Request, Holding
  <2>2. local \in Request
    <3>1. [q EXCEPT !.pc = "record", !.paid = "wallet"] \in Request
      BY ZenonT(30), <1>q DEF Request
    <3>2. \A x \in Request : [x EXCEPT !.seen = 0] \in Request
      BY DEF Request
    <3>3. \A x \in Request : [x EXCEPT !.overtaken = FALSE] \in Request
      BY ZenonT(30) DEF Request
    <3>4. local = [[[q EXCEPT !.pc = "record", !.paid = "wallet"]
                       EXCEPT !.seen = 0] EXCEPT !.overtaken = FALSE]
      BY <1>q DEF Request
    <3> QED  BY <3>1, <3>2, <3>3, <3>4
  <2>3. Sane(local) /\ local.pc \notin Holding
    BY <1>8, <1>q, <2>1 DEF Deduct, At, Sane, Request, Holding
  <2>0. after \in Int /\ after >= 0
    BY <2>1
  <2>4. t \in Row /\ t.after = after /\ after >= 0
    <3>1. q.s \in Sessions \cup {NoSession} /\ q.o \in Orders \cup {NoOrder}
      BY <1>q DEF Request
    <3> HIDE DEF after
    <3>2. t.after = after
      BY DEF DeductionRow
    <3>3. t \in Row
      BY <2>0, <2>1, <3>1, RowType
    <3> QED  BY <2>0, <3>2, <3>3
  <2>5. ledger' = [ledger EXCEPT ![q.w] = Append(@, t)]
    BY <1>8 DEF Deduct
  <2>6. Commit(r, q.w, local) /\ wallet[q.w] = "live"
    BY <1>8 DEF Deduct, Writable
  <2>7. balance' = [balance EXCEPT ![q.w] = t.after]
    BY <1>8, <2>4 DEF Deduct
  <2> HIDE DEF t, local, after
  <2> QED  BY <1>8, <2>1, <2>2, <2>3, <2>4, <2>5, <2>6, <2>7, AppendStep
           DEF Deduct, IInv, TypeOK
<1>9. CASE RecordOrder(r)
  <2>1. q.o \in Orders /\ q.paid \in {"none", "cash", "wallet"}
    BY <1>9, <1>q DEF RecordOrder, At, Sane, Request
  <2>2. sale' \in [Orders -> {"none", "cash", "wallet"}]
    BY <1>9, <2>1 DEF RecordOrder, IInv, TypeOK
  <2> QED  BY <1>9, <2>2, IdleType, IdleSane, GotoStep DEF RecordOrder, IInv, TypeOK
<1>10. CASE RecordBatch(r)
  <2>1. sale' \in [Orders -> {"none", "cash", "wallet"}]
    BY <1>10, <1>q DEF RecordBatch, IInv, TypeOK, Request
  <2>2. order' \in [Orders -> OrderRow]
    <3>1. q.s \in Sessions /\ q.price \in Nat
      BY <1>10, <1>q DEF RecordBatch, At, Sane, Request
    <3>2. [st |-> "live", s |-> q.s, total |-> q.price] \in OrderRow
      BY <3>1 DEF OrderRow
    <3> QED  BY <1>10, <3>2 DEF RecordBatch, IInv, TypeOK
  <2> QED  BY <1>10, <2>1, <2>2, IdleType, IdleSane, GotoStep DEF RecordBatch, IInv, TypeOK
<1>11. CASE RecordCheckout(r)
  BY <1>11, IdleType, IdleSane, GotoStep DEF RecordCheckout, IInv, TypeOK
<1> QED
  BY <1>1, <1>2, <1>3, <1>4, <1>5, <1>6, <1>7, <1>8, <1>9, <1>10, <1>11 DEF Charge

LEMMA FoundRow ==
  ASSUME TypeOK, NEW w \in Wallets, NEW i \in DOMAIN ledger[w]
  PROVE  ledger[w][i].amount \in Nat
<1>1. ledger[w] \in Seq(Row)
  BY DEF TypeOK
<1>2. ledger[w][i] \in Row
  BY <1>1, LenProperties, ElementOfSeq
<1> QED  BY <1>2 DEF Row

LEMMA LiveOrder ==
  ASSUME TypeOK, NEW o \in Orders, order[o].st = "live"
  PROVE  order[o] \in [st: {"live", "gone"}, s: Sessions, total: Nat]
BY DEF TypeOK, OrderRow, Unplaced

LEMMA EditOrderInv ==
  ASSUME IInv, NEW r \in Reqs, EditOrder(r)
  PROVE  IInv'
<1> DEFINE q == req[r]
<1>q. q \in Request /\ Sane(q)
  BY DEF IInv, TypeOK
<1>1. ASSUME NEW o \in Orders, NEW a \in Prices, StartEdit(r, o, a)
      PROVE  IInv'
  <2> DEFINE s == order[o].s
             local == [Idle EXCEPT !.pc = "edit", !.w = WalletOf[s], !.s = s,
                                   !.o = o, !.amt = a]
  <2>1. s \in Sessions
    BY <1>1, LiveOrder DEF StartEdit, IInv
  <2>2. local \in Request
    BY <2>1, IdleType, AmountsAssumption, WalletOfAssumption DEF Request
  <2>3. Sane(local) /\ local.pc \notin Holding
    BY <2>1, WalletOfAssumption DEF Sane, Idle, Holding
  <2>4. Goto(r, local)
    BY <1>1 DEF StartEdit
  <2> HIDE DEF local
  <2> QED  BY <1>1, <2>2, <2>3, <2>4, GotoStep DEF StartEdit, IInv, TypeOK
<1>2. CASE EditCash(r)
  <2>1. q.o \in Orders /\ q.amt \in Nat
    BY <1>2, <1>q DEF EditCash, At, Sane, Request
  <2>2. order' \in [Orders -> OrderRow]
    BY ZenonT(30), <1>2, <2>1, LiveOrder DEF EditCash, IInv, TypeOK, OrderRow
  <2> QED  BY <1>2, <2>2, IdleType, IdleSane, GotoStep DEF EditCash, IInv, TypeOK
<1>3. CASE EditFind(r)
  <2>1. q.w \in Wallets /\ q.o \in Orders /\ q.s \in Sessions /\ q.rows = <<>>
    BY <1>3, <1>q DEF EditFind, At, Sane
  <2>2. PICK i \in DeductionsOf(q.w, q.o) :
          Goto(r, [q EXCEPT !.pc = "adjust", !.back = ledger[q.w][i].amount,
                            !.seen = balance[q.w]])
    BY <1>3 DEF EditFind
  <2> DEFINE local == [q EXCEPT !.pc = "adjust", !.back = ledger[q.w][i].amount,
                                !.seen = balance[q.w]]
  <2>3. ledger[q.w][i].amount \in Nat
    BY <2>1, FoundRow DEF IInv, DeductionsOf
  <2>4. balance[q.w] \in Int /\ balance[q.w] >= 0
    BY <2>1 DEF IInv, TypeOK, NonNegative
  <2>5. local \in Request
    BY <1>q, <2>3, <2>4 DEF Request
  <2>6. Sane(local)
    BY <1>3, <1>q, <2>1, <2>4 DEF EditFind, At, Sane, Request, Holding
  <2>7. local.rows = <<>> /\ local.seen = balance[q.w] /\ local.w = q.w
    BY <1>q, <2>1 DEF Request
  <2>8. Goto(r, local)
    BY <2>2
  <2> HIDE DEF local
  <2> QED  BY <1>3, <2>5, <2>6, <2>7, <2>8, GotoStep DEF EditFind, IInv, TypeOK
<1>4. CASE EditCommit(r)
  <2> DEFINE refunded == q.seen + q.back
             charged == refunded - q.amt
             refund == TopupRow(q.back, q.seen, refunded, q.s, q.o)
             charge == DeductionRow(q.amt, refunded, charged, q.s, q.o)
  <2>1. /\ q.w \in Wallets /\ q.s \in Sessions /\ q.o \in Orders
        /\ q.seen \in Int /\ q.seen >= 0 /\ q.back \in Nat /\ q.amt \in Nat
    BY <1>4, <1>q DEF EditCommit, At, Sane, Request, Holding
  <2>8. refunded \in Int /\ charged \in Int /\ refunded >= 0
    BY <2>1
  <2>2. /\ refund \in Row /\ refund.after = refunded
        /\ charge \in Row /\ charge.after = charged
    <3> HIDE DEF refunded, charged
    <3>1. refund.after = refunded /\ charge.after = charged
      BY DEF TopupRow, DeductionRow
    <3>2. refund \in Row
      BY <2>1, <2>8, RowType
    <3>3. charge \in Row
      BY <2>1, <2>8, RowType
    <3> QED  BY <3>1, <3>2, <3>3
  <2>3. order' \in [Orders -> OrderRow]
    BY ZenonT(30), <1>4, <2>1, LiveOrder DEF EditCommit, IInv, TypeOK, OrderRow
  <2>4. wallet[q.w] = "live" /\ wallet' = wallet /\ Commit(r, q.w, Idle)
    BY <1>4 DEF EditCommit, Writable
  <2>5. session' = session /\ sale' = sale
    BY <1>4 DEF EditCommit
  <2>0. \/ /\ refunded >= q.amt
           /\ balance' = [balance EXCEPT ![q.w] = charged]
           /\ ledger' = [ledger EXCEPT ![q.w] = @ \o <<refund, charge>>]
        \/ /\ refunded < q.amt
           /\ balance' = [balance EXCEPT ![q.w] = refunded]
           /\ ledger' = [ledger EXCEPT ![q.w] = Append(@, refund)]
    BY <1>4, Zenon DEF EditCommit
  <2>6. CASE /\ refunded >= q.amt
             /\ balance' = [balance EXCEPT ![q.w] = charged]
             /\ ledger' = [ledger EXCEPT ![q.w] = @ \o <<refund, charge>>]
    <3>3. charge.after >= 0 /\ balance' = [balance EXCEPT ![q.w] = charge.after]
      <4>1. charged >= 0
        BY <2>1, <2>6
      <4> HIDE DEF refund, charge, refunded, charged
      <4> QED  BY <2>2, <2>6, <4>1
    <3> HIDE DEF refund, charge, refunded, charged
    <3>4. /\ <<refund, charge>> \in Seq(Row) /\ <<refund, charge>> # <<>>
          /\ <<refund, charge>>[Len(<<refund, charge>>)] = charge
      BY <2>2
    <3> QED  BY <2>1, <2>3, <2>4, <2>5, <2>6, <3>3, <3>4, CommitStep, IdleType, IdleSane
             DEF IInv, TypeOK
  <2>7. CASE /\ refunded < q.amt
             /\ balance' = [balance EXCEPT ![q.w] = refunded]
             /\ ledger' = [ledger EXCEPT ![q.w] = Append(@, refund)]
    <3>3. refund.after >= 0 /\ balance' = [balance EXCEPT ![q.w] = refund.after]
      <4> HIDE DEF refund, charge, refunded, charged
      <4> QED  BY <2>2, <2>7, <2>8
    <3> HIDE DEF refund, charge, refunded, charged
    <3> QED  BY <2>1, <2>2, <2>3, <2>4, <2>5, <2>7, <3>3, AppendStep, IdleType, IdleSane
             DEF IInv, TypeOK
  <2> QED  BY <2>0, <2>6, <2>7
<1> QED  BY <1>1, <1>2, <1>3, <1>4 DEF EditOrder

LEMMA RemoveOrderInv ==
  ASSUME IInv, NEW r \in Reqs, RemoveOrder(r)
  PROVE  IInv'
<1> DEFINE q == req[r]
<1>q. q \in Request /\ Sane(q)
  BY DEF IInv, TypeOK
<1>1. ASSUME NEW o \in Orders, StartRemove(r, o)
      PROVE  IInv'
  <2> DEFINE s == order[o].s
             local == [Idle EXCEPT !.pc = "remove", !.w = WalletOf[s], !.s = s, !.o = o]
  <2>1. s \in Sessions
    BY <1>1, LiveOrder DEF StartRemove, IInv
  <2>2. local \in Request
    BY <2>1, IdleType, WalletOfAssumption DEF Request
  <2>3. Sane(local) /\ local.pc \notin Holding
    BY <2>1, WalletOfAssumption DEF Sane, Idle, Holding
  <2>4. Goto(r, local)
    BY <1>1 DEF StartRemove
  <2> HIDE DEF local
  <2> QED  BY <1>1, <2>2, <2>3, <2>4, GotoStep DEF StartRemove, IInv, TypeOK
<1>2. CASE RemoveUnpaid(r)
  <2>1. q.o \in Orders
    BY <1>2, <1>q DEF RemoveUnpaid, At, Sane
  <2>2. order' \in [Orders -> OrderRow]
    BY ZenonT(30), <1>2, <2>1, LiveOrder DEF RemoveUnpaid, IInv, TypeOK, OrderRow
  <2> QED  BY <1>2, <2>2, IdleType, IdleSane, GotoStep DEF RemoveUnpaid, IInv, TypeOK
<1>3. CASE RemoveFind(r)
  <2>1. q.w \in Wallets /\ q.o \in Orders /\ q.s \in Sessions /\ q.rows = <<>>
    BY <1>3, <1>q DEF RemoveFind, At, Sane
  <2>2. PICK i \in DeductionsOf(q.w, q.o) :
          Goto(r, [q EXCEPT !.pc = "removeTx", !.back = ledger[q.w][i].amount,
                            !.seen = balance[q.w]])
    BY <1>3 DEF RemoveFind
  <2> DEFINE local == [q EXCEPT !.pc = "removeTx", !.back = ledger[q.w][i].amount,
                                !.seen = balance[q.w]]
  <2>3. ledger[q.w][i].amount \in Nat
    BY <2>1, FoundRow DEF IInv, DeductionsOf
  <2>4. balance[q.w] \in Int /\ balance[q.w] >= 0
    BY <2>1 DEF IInv, TypeOK, NonNegative
  <2>5. local \in Request
    BY <1>q, <2>3, <2>4 DEF Request
  <2>6. Sane(local)
    BY <1>3, <1>q, <2>1, <2>4 DEF RemoveFind, At, Sane, Request, Holding
  <2>7. local.rows = <<>> /\ local.seen = balance[q.w] /\ local.w = q.w
    BY <1>q, <2>1 DEF Request
  <2>8. Goto(r, local)
    BY <2>2
  <2> HIDE DEF local
  <2> QED  BY <1>3, <2>5, <2>6, <2>7, <2>8, GotoStep DEF RemoveFind, IInv, TypeOK
<1>4. CASE RemoveCommit(r)
  <2> DEFINE after == q.seen + q.back
             t == TopupRow(q.back, q.seen, after, q.s, q.o)
  <2>1. /\ q.w \in Wallets /\ q.s \in Sessions /\ q.o \in Orders
        /\ q.seen \in Int /\ q.seen >= 0 /\ q.back \in Nat
    BY <1>4, <1>q DEF RemoveCommit, At, Sane, Request, Holding
  <2>2. after \in Int /\ after >= 0
    BY <2>1
  <2>3. t \in Row /\ t.after = after /\ after >= 0
    <3> HIDE DEF after
    <3>1. t.after = after
      BY DEF TopupRow
    <3>2. t \in Row
      BY <2>1, <2>2, RowType
    <3> QED  BY <2>2, <3>1, <3>2
  <2>4. order' \in [Orders -> OrderRow]
    BY ZenonT(30), <1>4, <2>1, LiveOrder DEF RemoveCommit, IInv, TypeOK, OrderRow
  <2>5. ledger' = [ledger EXCEPT ![q.w] = Append(@, t)]
    BY <1>4 DEF RemoveCommit
  <2>6. balance' = [balance EXCEPT ![q.w] = t.after]
    BY <1>4, <2>3 DEF RemoveCommit
  <2> HIDE DEF t, after
  <2> QED  BY <1>4, <2>1, <2>3, <2>4, <2>5, <2>6, AppendStep, IdleType, IdleSane
           DEF RemoveCommit, Writable, IInv, TypeOK
<1> QED  BY <1>1, <1>2, <1>3, <1>4 DEF RemoveOrder

LEMMA PurgeApplyInv ==
  ASSUME IInv, NEW r \in Reqs, PurgeApply(r)
  PROVE  IInv'
<1> DEFINE q == req[r]
           n == Len(q.rows)
<1>q. q \in Request /\ Sane(q)
  BY DEF IInv, TypeOK
<1>1. PICK t \in q.todo :
        Goto(r, [q EXCEPT
                   !.todo = @ \ {t},
                   !.seen = q.seen + t[2],
                   !.rows = Append(@, TopupRow(t[2], q.seen, q.seen + t[2], q.s, NoOrder))])
  BY DEF PurgeApply
<1> DEFINE after == q.seen + t[2]
           row == TopupRow(t[2], q.seen, after, q.s, NoOrder)
           local == [q EXCEPT !.todo = @ \ {t}, !.seen = after, !.rows = Append(@, row)]
<1>2. /\ q.pc = "purgeApply" /\ q.w \in Wallets /\ q.s \in Sessions
      /\ q.seen \in Int /\ q.seen >= 0 /\ t[2] \in Nat /\ q.rows \in Seq(Row)
      /\ q.todo \in SUBSET (Nat \X Nat)
  BY <1>q DEF PurgeApply, At, Sane, Request, Holding
<1>3. after \in Int /\ after >= 0
  BY <1>2
<1>4. row \in Row /\ row.after = after /\ row.before = q.seen
  <2> HIDE DEF after
  <2>1. row.after = after /\ row.before = q.seen
    BY DEF TopupRow
  <2>2. row \in Row
    BY <1>2, <1>3, RowType
  <2> QED  BY <2>1, <2>2
<1>5. wallet[q.w] = "live"
  BY DEF PurgeApply, Writable
<1>6. Goto(r, local)
  BY <1>1
<1> HIDE DEF after, row
<1>7. /\ Append(q.rows, row) \in Seq(Row)
      /\ Len(Append(q.rows, row)) = n + 1
      /\ Append(q.rows, row)[n + 1] = row
      /\ \A i \in 1 .. n : Append(q.rows, row)[i] = q.rows[i]
      /\ n \in Nat
  BY <1>2, <1>4, AppendProperties, LenProperties
<1>8. /\ local.pc = "purgeApply" /\ local.w = q.w /\ local.s = q.s /\ local.o = q.o
      /\ local.op = q.op /\ local.seen = after /\ local.amt = q.amt
      /\ local.rows = Append(q.rows, row) /\ local.overtaken = q.overtaken
  BY <1>q, <1>2 DEF Request
<1>9. local \in Request
  <2>1. q.todo \ {t} \in SUBSET (Nat \X Nat)
    BY <1>2
  <2>2. [q EXCEPT !.todo = @ \ {t}] \in Request
    BY <1>q, <2>1 DEF Request
  <2>3. \A x \in Request : [x EXCEPT !.seen = after] \in Request
    BY <1>3, SeenType
  <2>4. ASSUME NEW x \in Request, NEW s \in Seq(Row)
        PROVE  [x EXCEPT !.rows = s] \in Request
    BY DEF Request
  <2>5. local = [[[q EXCEPT !.todo = @ \ {t}] EXCEPT !.seen = after]
                  EXCEPT !.rows = Append(q.rows, row)]
    BY <1>q DEF Request
  <2> HIDE DEF local
  <2> QED  BY <1>7, <2>2, <2>3, <2>4, <2>5
<1> HIDE DEF local
<1>10. \A i \in 2 .. n + 1 : local.rows[i].before = local.rows[i - 1].after
  <2> SUFFICES ASSUME NEW i \in 2 .. n + 1
               PROVE  local.rows[i].before = local.rows[i - 1].after
    OBVIOUS
  <2>1. CASE i = n + 1
    <3>1. n \in 1 .. n /\ i - 1 = n /\ q.rows # <<>>
      BY <1>2, <1>7, <2>1, EmptySeq
    <3>2. q.rows[n].after = q.seen
      BY <1>q, <3>1 DEF Sane
    <3>3. local.rows[i] = row /\ local.rows[i - 1] = q.rows[n]
      BY <1>7, <1>8, <2>1, <3>1
    <3> QED  BY <1>4, <3>2, <3>3
  <2>2. CASE i # n + 1
    <3>1. i \in 2 .. n /\ i \in 1 .. n /\ i - 1 \in 1 .. n
      BY <1>7, <2>2
    <3>2. q.rows[i].before = q.rows[i - 1].after
      BY <1>q, <3>1 DEF Sane
    <3>3. local.rows[i] = q.rows[i] /\ local.rows[i - 1] = q.rows[i - 1]
      BY <1>7, <1>8, <3>1
    <3> QED  BY <3>2, <3>3
  <2> QED  BY <2>1, <2>2
<1>11. /\ Len(local.rows) = n + 1 /\ local.rows # <<>>
       /\ local.rows[Len(local.rows)].after = local.seen
  <2>1. Len(local.rows) = n + 1 /\ local.rows \in Seq(Row)
    BY <1>7, <1>8
  <2>2. local.rows # <<>>
    BY <1>7, <2>1, EmptySeq
  <2>3. local.rows[n + 1].after = local.seen
    BY <1>4, <1>7, <1>8
  <2> QED  BY <2>1, <2>2, <2>3
<1>12. Sane(local)
  BY <1>2, <1>3, <1>8, <1>10, <1>11, <1>q DEF Sane, Holding
<1>13. ~local.overtaken /\ wallet[local.w] # "removed" =>
         balance[local.w] = local.rows[1].before
  <2>1. CASE q.rows = <<>>
    <3>1. n = 0
      BY <2>1
    <3>2. local.rows[1] = row
      BY <1>7, <1>8, <3>1
    <3>3. ~q.overtaken => balance[q.w] = q.seen
      BY <1>2, <1>5, <2>1 DEF IInv, Fresh, Holding
    <3> QED  BY <1>4, <1>8, <3>2, <3>3
  <2>2. CASE q.rows # <<>>
    <3>1. 1 \in 1 .. n
      BY <1>2, <1>7, <2>2, EmptySeq
    <3>2. local.rows[1] = q.rows[1]
      BY <1>7, <1>8, <3>1
    <3>3. ~q.overtaken => balance[q.w] = q.rows[1].before
      BY <1>2, <1>5, <2>2 DEF IInv, Fresh, Holding
    <3> QED  BY <1>8, <3>2, <3>3
  <2> QED  BY <2>1, <2>2
<1> QED
  BY <1>5, <1>6, <1>8, <1>9, <1>11, <1>12, <1>13, GotoStep DEF PurgeApply, IInv, TypeOK

LEMMA DeleteSessionInv ==
  ASSUME IInv, NEW r \in Reqs, DeleteSession(r)
  PROVE  IInv'
<1> DEFINE q == req[r]
<1>q. q \in Request /\ Sane(q)
  BY DEF IInv, TypeOK
<1>1. ASSUME NEW s \in Sessions, StartPurge(r, s)
      PROVE  IInv'
  <2> DEFINE local == [Idle EXCEPT !.pc = "purge", !.w = WalletOf[s], !.s = s]
  <2>1. local \in Request
    BY IdleType, WalletOfAssumption DEF Request
  <2>2. Sane(local) /\ local.pc \notin Holding
    BY WalletOfAssumption DEF Sane, Idle, Holding
  <2> QED  BY <1>1, <2>1, <2>2, GotoStep DEF StartPurge, IInv, TypeOK
<1>2. CASE PurgeList(r)
  <2> DEFINE list == {<<i, ledger[q.w][i].amount>> : i \in SessionDeductions(q.w, q.s)}
             local == [q EXCEPT !.pc = "purgeRead", !.todo = list]
  <2>1. q.w \in Wallets
    BY <1>2, <1>q DEF PurgeList, At, Sane
  <2>2. list \in SUBSET (Nat \X Nat)
    <3>1. ledger[q.w] \in Seq(Row)
      BY <2>1 DEF IInv, TypeOK
    <3>2. \A i \in SessionDeductions(q.w, q.s) : i \in Nat /\ ledger[q.w][i].amount \in Nat
      BY <2>1, <3>1, FoundRow, LenProperties DEF SessionDeductions, IInv
    <3> QED  BY <3>2
  <2>3. Goto(r, local)
    BY <1>2 DEF PurgeList
  <2> HIDE DEF list
  <2>4. local \in Request
    BY <1>q, <2>2 DEF Request
  <2>5. Sane(local) /\ local.pc \notin Holding
    BY <1>2, <1>q DEF PurgeList, At, Sane, Request, Holding
  <2> HIDE DEF local
  <2> QED  BY <1>2, <2>3, <2>4, <2>5, GotoStep DEF PurgeList, IInv, TypeOK
<1>3. CASE PurgeRead(r)
  <2> DEFINE list == IF wallet[q.w] = "live" THEN q.todo ELSE {}
             local == [q EXCEPT !.pc = "purgeApply", !.seen = balance[q.w], !.todo = list]
  <2>1. q.w \in Wallets /\ q.s \in Sessions /\ q.rows = <<>>
    BY <1>3, <1>q DEF PurgeRead, At, Sane
  <2>2. balance[q.w] \in Int /\ balance[q.w] >= 0
    BY <2>1 DEF IInv, TypeOK, NonNegative
  <2>3. list \in SUBSET (Nat \X Nat)
    BY <1>q DEF Request
  <2>4. Goto(r, local)
    BY <1>3 DEF PurgeRead
  <2> HIDE DEF list
  <2>5. local \in Request
    BY ZenonT(30), <1>q, <2>2, <2>3 DEF Request
  <2>6. Sane(local)
    BY <1>3, <1>q, <2>1, <2>2 DEF PurgeRead, At, Sane, Request, Holding
  <2>7. local.rows = <<>> /\ local.seen = balance[q.w] /\ local.w = q.w
    BY <1>q, <2>1 DEF Request
  <2> HIDE DEF local
  <2> QED  BY <1>3, <2>4, <2>5, <2>6, <2>7, GotoStep DEF PurgeRead, IInv, TypeOK
<1>4. CASE PurgeCommit(r)
  <2>1. /\ q.w \in Wallets /\ q.s \in Sessions /\ q.seen >= 0 /\ q.rows \in Seq(Row)
    BY <1>4, <1>q DEF PurgeCommit, At, Sane, Request, Holding
  <2>2. session' \in [Sessions -> {"open", "closed", "deleted"}]
    BY <1>4, <2>1 DEF PurgeCommit, IInv, TypeOK
  <2>3. order' \in [Orders -> OrderRow]
    <3>1. \A o \in Orders : order[o].st = "live" =>
                              [order[o] EXCEPT !.st = "gone"] \in OrderRow
      BY LiveOrder DEF IInv, OrderRow
    <3> QED  BY <1>4, <3>1 DEF PurgeCommit, IInv, TypeOK
  <2>4. CASE q.rows = <<>>
    BY <1>4, <2>2, <2>3, <2>4, GotoStep, IdleType, IdleSane DEF PurgeCommit, IInv, TypeOK
  <2>5. CASE q.rows # <<>>
    <3>1. wallet[q.w] = "live"
      BY <2>5 DEF IInv, LockHeld
    <3>2. q.rows[Len(q.rows)].after = q.seen
      BY <1>q, <2>5 DEF Sane
    <3>3. /\ balance' = [balance EXCEPT ![q.w] = q.seen]
          /\ ledger' = [ledger EXCEPT ![q.w] = @ \o q.rows]
          /\ Commit(r, q.w, Idle)
          /\ wallet' = wallet /\ sale' = sale
      BY <1>4, <2>5 DEF PurgeCommit
    <3> QED  BY <2>1, <2>2, <2>3, <2>5, <3>1, <3>2, <3>3, CommitStep, IdleType, IdleSane
             DEF IInv, TypeOK
  <2> QED  BY <2>4, <2>5
<1> QED  BY <1>1, <1>2, <1>3, <1>4, PurgeApplyInv DEF DeleteSession

LEMMA AbortInv ==
  ASSUME IInv, NEW r \in Reqs, Abort(r)
  PROVE  IInv'
BY IdleType, IdleSane, GotoStep DEF Abort, IInv, TypeOK

LEMMA NextInv == IInv /\ [Next]_vars => IInv'
<1> SUFFICES ASSUME IInv, [Next]_vars
             PROVE  IInv'
  OBVIOUS
<1>1. CASE UNCHANGED vars
  BY <1>1 DEF vars, IInv, TypeOK, Sane, HeadAgrees, NonNegative, Dormant, Fresh, LockHeld
<1>2. CASE Administer
  BY <1>2, AdministerInv
<1>3. ASSUME NEW r \in Reqs,
             \/ TopUp(r) \/ Charge(r) \/ EditOrder(r) \/ RemoveOrder(r)
             \/ DeleteSession(r) \/ Abort(r)
      PROVE  IInv'
  BY <1>3, TopUpInv, ChargeInv, EditOrderInv, RemoveOrderInv, DeleteSessionInv, AbortInv
<1> QED  BY <1>1, <1>2, <1>3 DEF Next

-----------------------------------------------------------------------------
(* The theorems.                                                           *)

LEMMA Invariant == Spec => []IInv
BY InitInv, NextInv, PTL DEF Spec

\* In every reachable state the rows, balances and requests have their types.
THEOREM TypeCorrect == Spec => []TypeOK
<1>1. IInv => TypeOK
  BY DEF IInv
<1> QED  BY <1>1, Invariant, PTL

\* However many requests read and write a wallet without locking it, its balance
\* is the balanceAfter of its newest ledger row.
THEOREM BalanceIsHead == Spec => []HeadAgrees
<1>1. IInv => HeadAgrees
  BY DEF IInv
<1> QED  BY <1>1, Invariant, PTL

\* No interleaving of charges, refunds, top-ups, deletions and failures drives a
\* wallet below zero.
THEOREM NeverNegative == Spec => []NonNegative
<1>1. IInv => NonNegative
  BY DEF IInv
<1> QED  BY <1>1, Invariant, PTL

-----------------------------------------------------------------------------
(* The chain of the ledger.                                                *)

\* What ChainedUnlessOvertaken says of one step.
ChainedStep ==
    \A w \in Wallets :
      Len(ledger'[w]) > Len(ledger[w]) =>
        /\ \/ ledger'[w][Len(ledger[w]) + 1].before = balance[w]
           \/ \E r \in Reqs : /\ req[r].overtaken /\ req[r].w = w
                              /\ req'[r].pc # req[r].pc
        /\ \A i \in Len(ledger[w]) + 2 .. Len(ledger'[w]) :
             ledger'[w][i].before = ledger'[w][i - 1].after

\* A step of r that appends rows which follow on from each other, and of which the
\* first follows on from the balance unless r was overtaken.
LEMMA RowsChain ==
  ASSUME IInv, NEW r \in Reqs, NEW w \in Wallets, NEW new \in Seq(Row), new # <<>>,
         req[r].w = w, req'[r].pc # req[r].pc,
         ledger' = [ledger EXCEPT ![w] = @ \o new],
         ~req[r].overtaken => new[1].before = balance[w],
         \A i \in 2 .. Len(new) : new[i].before = new[i - 1].after
  PROVE  ChainedStep
<1> DEFINE l == ledger[w]
           n == Len(l)
<1>1. l \in Seq(Row) /\ n \in Nat /\ Len(new) \in Nat \ {0}
  BY EmptySeq, LenProperties DEF IInv, TypeOK
<1>2. ledger'[w] = l \o new /\ \A v \in Wallets \ {w} : ledger'[v] = ledger[v]
  BY DEF IInv, TypeOK
<1>3. /\ Len(l \o new) = n + Len(new)
      /\ \A i \in 1 .. Len(new) : (l \o new)[n + i] = new[i]
  BY <1>1, ConcatProperties
<1>4. ledger'[w][n + 1].before = balance[w] \/ req[r].overtaken
  BY <1>1, <1>2, <1>3
<1>5. ASSUME NEW i \in n + 2 .. Len(ledger'[w])
      PROVE  ledger'[w][i].before = ledger'[w][i - 1].after
  <2>1. i - n \in 2 .. Len(new) /\ i - n - 1 \in 1 .. Len(new) /\ i - n \in 1 .. Len(new)
    BY <1>1, <1>2, <1>3
  <2>2. (l \o new)[n + (i - n)] = new[i - n] /\ (l \o new)[n + (i - n - 1)] = new[i - n - 1]
    BY <1>3, <2>1
  <2>3. n + (i - n) = i /\ n + (i - n - 1) = i - 1
    BY <1>1
  <2> QED  BY <1>2, <2>1, <2>2, <2>3
<1>6. \A v \in Wallets \ {w} : ~(Len(ledger'[v]) > Len(ledger[v]))
  <2> SUFFICES ASSUME NEW v \in Wallets \ {w} PROVE ~(Len(ledger'[v]) > Len(ledger[v]))
    OBVIOUS
  <2>1. Len(ledger[v]) \in Nat
    BY LenProperties DEF IInv, TypeOK
  <2> QED  BY <1>2, <2>1
<1> QED  BY <1>4, <1>5, <1>6 DEF ChainedStep

LEMMA RowChains ==
  ASSUME IInv, NEW r \in Reqs, NEW w \in Wallets, NEW t \in Row,
         req[r].w = w, req'[r].pc # req[r].pc,
         ledger' = [ledger EXCEPT ![w] = Append(@, t)],
         ~req[r].overtaken => t.before = balance[w]
  PROVE  ChainedStep
<1> DEFINE new == <<t>>
<1>1. ledger[w] \in Seq(Row)
  BY DEF IInv, TypeOK
<1>2. Append(ledger[w], t) = ledger[w] \o new
  BY <1>1, AppendIsConcat
<1>3. new \in Seq(Row) /\ new # <<>> /\ new[1] = t /\ Len(new) = 1
  OBVIOUS
<1>4. ledger' = [ledger EXCEPT ![w] = @ \o new]
  BY <1>2
<1> HIDE DEF new
<1>5. ~req[r].overtaken => new[1].before = balance[w]
  BY <1>3
<1>6. \A i \in 2 .. Len(new) : new[i].before = new[i - 1].after
  BY <1>3
<1> QED  BY <1>3, <1>4, <1>5, <1>6, RowsChain

\* What a request that holds a read knows of the balance.
LEMMA HoldsBalance ==
  ASSUME IInv, NEW r \in Reqs, req[r].pc \in Holding, wallet[req[r].w] = "live",
         ~req[r].overtaken
  PROVE  balance[req[r].w] = IF req[r].rows = <<>> THEN req[r].seen ELSE req[r].rows[1].before
BY DEF IInv, Fresh

LEMMA TopUpCommitChains ==
  ASSUME IInv, NEW r \in Reqs, TopUpCommit(r)
  PROVE  ChainedStep
<1> DEFINE q == req[r]
           after == q.seen + q.amt
           t == TopupRow(q.amt, q.seen, after, NoSession, NoOrder)
<1>1. /\ q \in Request /\ q.pc = "topup" /\ q.w \in Wallets /\ q.rows = <<>>
      /\ q.amt \in Nat /\ q.seen \in Int
  BY DEF IInv, TypeOK, TopUpCommit, At, Sane, Request
<1>2. t \in Row /\ t.before = q.seen
  <2>1. after \in Int
    BY <1>1
  <2> HIDE DEF after
  <2>2. t \in Row
    BY <1>1, <2>1, RowType
  <2> QED  BY <2>2 DEF TopupRow
<1>3. ~q.overtaken => balance[q.w] = q.seen
  BY <1>1, HoldsBalance DEF TopUpCommit, Writable, Holding
<1>4. req'[r].pc # q.pc
  BY <1>1 DEF TopUpCommit, Commit, Idle
<1>5. ledger' = [ledger EXCEPT ![q.w] = Append(@, t)]
  BY DEF TopUpCommit
<1> HIDE DEF t
<1> QED  BY <1>1, <1>2, <1>3, <1>4, <1>5, RowChains

LEMMA DeductChains ==
  ASSUME IInv, NEW r \in Reqs, Deduct(r)
  PROVE  ChainedStep
<1> DEFINE q == req[r]
           after == q.seen - q.amt
           t == DeductionRow(q.amt, q.seen, after, q.s, q.o)
<1>1. /\ q \in Request /\ q.pc = "deduct" /\ q.w \in Wallets /\ q.rows = <<>>
      /\ q.amt \in Nat /\ q.seen \in Int
      /\ q.s \in Sessions \cup {NoSession} /\ q.o \in Orders \cup {NoOrder}
  BY DEF IInv, TypeOK, Deduct, At, Sane, Request
<1>2. t \in Row /\ t.before = q.seen
  <2>1. after \in Int
    BY <1>1
  <2> HIDE DEF after
  <2>2. t \in Row
    BY <1>1, <2>1, RowType
  <2> QED  BY <2>2 DEF DeductionRow
<1>3. ~q.overtaken => balance[q.w] = q.seen
  BY <1>1, HoldsBalance DEF Deduct, Writable, Holding
<1>4. req'[r].pc = "record"
  BY <1>1 DEF Deduct, Commit, Request
<1>5. ledger' = [ledger EXCEPT ![q.w] = Append(@, t)]
  BY DEF Deduct
<1> HIDE DEF t
<1> QED  BY <1>1, <1>2, <1>3, <1>4, <1>5, RowChains

LEMMA RemoveCommitChains ==
  ASSUME IInv, NEW r \in Reqs, RemoveCommit(r)
  PROVE  ChainedStep
<1> DEFINE q == req[r]
           after == q.seen + q.back
           t == TopupRow(q.back, q.seen, after, q.s, q.o)
<1>1. /\ q \in Request /\ q.pc = "removeTx" /\ q.w \in Wallets /\ q.rows = <<>>
      /\ q.back \in Nat /\ q.seen \in Int
      /\ q.s \in Sessions \cup {NoSession} /\ q.o \in Orders \cup {NoOrder}
  BY DEF IInv, TypeOK, RemoveCommit, At, Sane, Request
<1>2. t \in Row /\ t.before = q.seen
  <2>1. after \in Int
    BY <1>1
  <2> HIDE DEF after
  <2>2. t \in Row
    BY <1>1, <2>1, RowType
  <2> QED  BY <2>2 DEF TopupRow
<1>3. ~q.overtaken => balance[q.w] = q.seen
  BY <1>1, HoldsBalance DEF RemoveCommit, Writable, Holding
<1>4. req'[r].pc # q.pc
  BY <1>1 DEF RemoveCommit, Commit, Idle
<1>5. ledger' = [ledger EXCEPT ![q.w] = Append(@, t)]
  BY DEF RemoveCommit
<1> HIDE DEF t
<1> QED  BY <1>1, <1>2, <1>3, <1>4, <1>5, RowChains

\* The refund and the new charge of an edit follow on from each other.
LEMMA EditCommitChains ==
  ASSUME IInv, NEW r \in Reqs, EditCommit(r)
  PROVE  ChainedStep
<1> DEFINE q == req[r]
           refunded == q.seen + q.back
           charged == refunded - q.amt
           refund == TopupRow(q.back, q.seen, refunded, q.s, q.o)
           charge == DeductionRow(q.amt, refunded, charged, q.s, q.o)
<1>1. /\ q \in Request /\ q.pc = "adjust" /\ q.w \in Wallets /\ q.rows = <<>>
      /\ q.back \in Nat /\ q.amt \in Nat /\ q.seen \in Int
      /\ q.s \in Sessions \cup {NoSession} /\ q.o \in Orders \cup {NoOrder}
  BY DEF IInv, TypeOK, EditCommit, At, Sane, Request
<1>2. /\ refund \in Row /\ refund.before = q.seen /\ refund.after = refunded
      /\ charge \in Row /\ charge.before = refunded
  <2>1. refunded \in Int /\ charged \in Int
    BY <1>1
  <2> HIDE DEF refunded, charged
  <2>2. refund \in Row /\ charge \in Row
    BY <1>1, <2>1, RowType
  <2> QED  BY <2>2 DEF TopupRow, DeductionRow
<1>3. ~q.overtaken => balance[q.w] = q.seen
  BY <1>1, HoldsBalance DEF EditCommit, Writable, Holding
<1>4. req'[r].pc # q.pc
  BY <1>1 DEF EditCommit, Commit, Idle
<1>5. \/ ledger' = [ledger EXCEPT ![q.w] = @ \o <<refund, charge>>]
      \/ ledger' = [ledger EXCEPT ![q.w] = Append(@, refund)]
  BY DEF EditCommit
<1> HIDE DEF refund, charge, refunded
<1>6. CASE ledger' = [ledger EXCEPT ![q.w] = Append(@, refund)]
  BY <1>1, <1>2, <1>3, <1>4, <1>6, RowChains
<1>7. CASE ledger' = [ledger EXCEPT ![q.w] = @ \o <<refund, charge>>]
  <2> DEFINE new == <<refund, charge>>
  <2>1. /\ new \in Seq(Row) /\ new # <<>> /\ Len(new) = 2
        /\ new[1] = refund /\ new[2] = charge
    BY <1>2
  <2>2. ledger' = [ledger EXCEPT ![q.w] = @ \o new]
    BY <1>7
  <2> HIDE DEF new
  <2>3. ~q.overtaken => new[1].before = balance[q.w]
    BY <1>2, <1>3, <2>1
  <2>4. \A i \in 2 .. Len(new) : new[i].before = new[i - 1].after
    BY <1>2, <2>1
  <2> QED  BY <1>1, <1>4, <2>1, <2>2, <2>3, <2>4, RowsChain
<1> QED  BY <1>5, <1>6, <1>7

\* The rows of a purge were chained one by one while its transaction ran.
LEMMA PurgeCommitChains ==
  ASSUME IInv, NEW r \in Reqs, PurgeCommit(r), req[r].rows # <<>>
  PROVE  ChainedStep
<1> DEFINE q == req[r]
<1>1. /\ q \in Request /\ q.pc = "purgeApply" /\ q.w \in Wallets /\ q.rows \in Seq(Row)
      /\ \A i \in 2 .. Len(q.rows) : q.rows[i].before = q.rows[i - 1].after
  BY DEF IInv, TypeOK, PurgeCommit, At, Sane, Request
<1>2. ~q.overtaken => balance[q.w] = q.rows[1].before
  BY <1>1, HoldsBalance DEF Holding, IInv, LockHeld
<1>3. Commit(r, q.w, Idle) /\ ledger' = [ledger EXCEPT ![q.w] = @ \o q.rows]
  BY DEF PurgeCommit
<1>4. req'[r].pc # q.pc
  BY <1>1, <1>3 DEF Commit, Idle
<1> HIDE DEF q
<1> QED  BY <1>1, <1>2, <1>3, <1>4, RowsChain DEF q

\* A ledger that nobody writes, or that is deleted with its wallet, has no new rows.
LEMMA NoNewRows ==
  ASSUME IInv, ledger' = ledger \/ \E w \in Wallets : RemoveWallet(w)
  PROVE  ChainedStep
<1>1. \A w \in Wallets : Len(ledger[w]) \in Nat
  BY LenProperties DEF IInv, TypeOK
<1>2. \A w \in Wallets : ledger'[w] = ledger[w] \/ Len(ledger'[w]) = 0
  BY DEF RemoveWallet, IInv, TypeOK
<1>3. \A w \in Wallets : ~(Len(ledger'[w]) > Len(ledger[w]))
  BY <1>1, <1>2
<1> QED  BY <1>3 DEF ChainedStep

LEMMA NextChains == IInv /\ [Next]_vars => ChainedStep
<1> SUFFICES ASSUME IInv, [Next]_vars PROVE ChainedStep
  OBVIOUS
<1>1. CASE UNCHANGED vars
  BY <1>1, NoNewRows DEF vars
<1>2. ASSUME Administer PROVE ChainedStep
  BY <1>2, NoNewRows DEF Administer, CreateWallet
<1>3. ASSUME NEW r \in Reqs, TopUp(r) PROVE ChainedStep
  BY <1>3, NoNewRows, TopUpCommitChains DEF TopUp, TopUpRead
<1>4. ASSUME NEW r \in Reqs, Charge(r) PROVE ChainedStep
  <2>1. Deduct(r) \/ ledger' = ledger
    BY <1>4 DEF Charge, StartOrder, StartBatch, StartCheckout, CreateOrder, ChargeSkipped,
                ChargeRefused, ChargeRead, RecordOrder, RecordBatch, RecordCheckout
  <2> QED  BY <2>1, NoNewRows, DeductChains
<1>5. ASSUME NEW r \in Reqs, EditOrder(r) PROVE ChainedStep
  BY <1>5, NoNewRows, EditCommitChains DEF EditOrder, StartEdit, EditCash, EditFind
<1>6. ASSUME NEW r \in Reqs, RemoveOrder(r) PROVE ChainedStep
  BY <1>6, NoNewRows, RemoveCommitChains DEF RemoveOrder, StartRemove, RemoveUnpaid, RemoveFind
<1>7. ASSUME NEW r \in Reqs, DeleteSession(r) PROVE ChainedStep
  <2>1. ledger' = ledger \/ (PurgeCommit(r) /\ req[r].rows # <<>>)
    BY <1>7 DEF DeleteSession, StartPurge, PurgeList, PurgeRead, PurgeApply, PurgeCommit
  <2> QED  BY <2>1, NoNewRows, PurgeCommitChains
<1>8. ASSUME NEW r \in Reqs, Abort(r) PROVE ChainedStep
  BY <1>8, NoNewRows DEF Abort
<1> QED  BY <1>1, <1>2, <1>3, <1>4, <1>5, <1>6, <1>7, <1>8 DEF Next

\* The absolute balances lose an update only in a request that another commit
\* overtook between its read and its write, and never among the rows of one request.
THEOREM OvertakenOnly == Spec => ChainedUnlessOvertaken
<1>1. IInv /\ [Next]_vars => [ChainedStep]_vars
  BY NextChains
<1>2. Spec => [][ChainedStep]_vars
  BY <1>1, Invariant, PTL DEF Spec
<1> QED  BY <1>2 DEF ChainedUnlessOvertaken, ChainedStep

-----------------------------------------------------------------------------
(* The ledger and the orders.  A charge or a refund is written long after  *)
(* the order was looked at, so it has to be known of each request what it  *)
(* is about, and that the deduction it refunds is still there.             *)

\* What is deducted stays in the ledger of a wallet until the wallet is removed.
Kept(w) == wallet[w] # "removed"

\* The deduction a refund may name.
Backs(u, t) ==
    /\ u.type = "deduction" /\ u.session = t.session /\ u.amount = t.amount
    /\ t.order \in {NoOrder, u.order}

Deducted(w, s, a, o) ==
    \E i \in DOMAIN ledger[w] :
        /\ ledger[w][i].type = "deduction" /\ ledger[w][i].session = s
        /\ ledger[w][i].amount = a /\ ledger[w][i].order = o

DeductedOnce(w, s, a) == \E o \in Orders \cup {NoOrder} : Deducted(w, s, a, o)

\* A row that names an order names its session too.
RowsNameOrders ==
    \A w \in Wallets : \A i \in DOMAIN ledger[w] :
        LET t == ledger[w][i]
        IN  t.order \in Orders => order[t.order].st # "none" /\ t.session = order[t.order].s

\* A Sale is of an order, and one paid from a wallet has its deduction.
SalesAreCharged ==
    \A o \in Orders :
        /\ sale[o] # "none" => order[o].st # "none"
        /\ sale[o] = "wallet" /\ Kept(WalletOf[order[o].s]) =>
             \E i \in SessionDeductions(WalletOf[order[o].s], order[o].s) :
               ledger[WalletOf[order[o].s]][i].order \in {o, NoOrder}

\* The order of a request, once it was created, and the charge it refunds.
AboutOrder(q) ==
    /\ q.pc = "create" => q.op = "order"
    /\ \/ q.op = "order" /\ q.pc \in {"charge", "deduct", "record"}
       \/ q.pc \in {"edit", "adjust", "remove", "removeTx"}
       => order[q.o].st # "none" /\ order[q.o].s = q.s
    /\ q.pc \in {"charge", "deduct", "record"} /\ q.op # "order" => q.o = NoOrder
    /\ q.pc \in {"adjust", "removeTx"} /\ Kept(q.w) => Deducted(q.w, q.s, q.back, q.o)

\* What was charged, and what a deletion is to refund.
AboutSession(q) ==
    /\ q.pc \notin {"idle", "topup"} => q.w = WalletOf[q.s]
    /\ q.pc = "record" /\ q.paid = "wallet" /\ Kept(q.w) => Deducted(q.w, q.s, q.amt, q.o)
    /\ q.pc \in {"purgeRead", "purgeApply"} /\ Kept(q.w) =>
         /\ \A t \in q.todo : DeductedOnce(q.w, q.s, t[2])
         /\ \A k \in DOMAIN q.rows :
              /\ q.rows[k].type = "topup" /\ q.rows[k].session = q.s /\ q.rows[k].order = NoOrder
              /\ DeductedOnce(q.w, q.s, q.rows[k].amount)

Knows(q) == AboutOrder(q) /\ AboutSession(q)

\* A request that charges an order it has created is the only one, and the first.
Charging(q) == q.op = "order" /\ q.pc \in {"charge", "deduct"}
FirstCharge ==
    \A r \in Reqs : Charging(req[r]) =>
        /\ \A w \in Wallets : DeductionsOf(w, req[r].o) = {}
        /\ \A p \in Reqs \ {r} : Charging(req[p]) => req[p].o # req[r].o

Settled == ChargedAtMostOnce /\ FirstRefundExact

MInv ==
    /\ IInv
    /\ RowsNameOrders /\ RefundBacked /\ Settled /\ SalesAreCharged
    /\ \A r \in Reqs : Knows(req[r])
    /\ FirstCharge

\* The rows of a ledger that name an order.
Named(l, type, o) == {i \in DOMAIN l : l[i].type = type /\ l[i].order = o}
FirstExact(l) ==
    \A o \in Orders : \A i \in Named(l, "topup", o), j \in Named(l, "deduction", o) :
        j < i /\ (\A k \in Named(l, "topup", o) : i =< k) => l[i].amount = l[j].amount
OnceCharged(l) ==
    /\ \A o \in Orders :
         Cardinality(Named(l, "deduction", o)) =< Cardinality(Named(l, "topup", o)) + 1
    /\ FirstExact(l)

\* The row is no refund of an order, or it is one of a charge that l holds.
RefundOf(l, t) ==
    t.order \in Orders => \E j \in Named(l, "deduction", t.order) : l[j].amount = t.amount

\* What no step takes away.
Older ==
    \A w \in Wallets : wallet'[w] # "removed" =>
        /\ wallet[w] # "removed"
        /\ \A i \in DOMAIN ledger[w] : i \in DOMAIN ledger'[w] /\ ledger'[w][i] = ledger[w][i]
OrdersKept ==
    \A o \in Orders : order[o].st # "none" => order'[o].st # "none" /\ order'[o].s = order[o].s
Alike(p, q) == p = q \/ p = [q EXCEPT !.overtaken = TRUE]

\* The rows of a ledger of a type that name an order are finitely many.
LEMMA NamedFinite ==
  ASSUME NEW l \in Seq(Row), NEW type, NEW o
  PROVE  IsFiniteSet(Named(l, type, o)) /\ Cardinality(Named(l, type, o)) \in Nat
<1>1. DOMAIN l = 1 .. Len(l) /\ Len(l) \in Nat
  BY LenProperties
<1>2. IsFiniteSet(1 .. Len(l))
  BY <1>1, FS_Interval
<1>3. Named(l, type, o) \subseteq 1 .. Len(l)
  BY <1>1 DEF Named
<1> QED  BY <1>2, <1>3, FS_Subset, FS_CardinalityType

\* A row that is appended adds itself to the rows of its type and order.
LEMMA NamedAppend ==
  ASSUME NEW l \in Seq(Row), NEW t \in Row, NEW type, NEW o
  PROVE  Cardinality(Named(Append(l, t), type, o))
           = Cardinality(Named(l, type, o)) + (IF t.type = type /\ t.order = o THEN 1 ELSE 0)
<1>1. DOMAIN l = 1 .. Len(l) /\ Len(l) \in Nat
  BY LenProperties
<1>2. /\ DOMAIN Append(l, t) = 1 .. Len(l) + 1
      /\ \A i \in 1 .. Len(l) : Append(l, t)[i] = l[i]
      /\ Append(l, t)[Len(l) + 1] = t
  BY <1>1, AppendProperties
<1>3. \A i : i \in 1 .. Len(l) + 1 <=> i \in 1 .. Len(l) \/ i = Len(l) + 1
  BY <1>1
<1>4. Len(l) + 1 \notin Named(l, type, o)
  BY <1>1 DEF Named
<1>5. CASE t.type = type /\ t.order = o
  <2>1. Named(Append(l, t), type, o) = Named(l, type, o) \cup {Len(l) + 1}
    BY <1>1, <1>2, <1>3, <1>5 DEF Named
  <2>2. Cardinality(Named(l, type, o) \cup {Len(l) + 1}) = Cardinality(Named(l, type, o)) + 1
    BY <1>4, NamedFinite, FS_AddElement
  <2> QED  BY <1>5, <2>1, <2>2
<1>6. CASE ~(t.type = type /\ t.order = o)
  <2>1. Named(Append(l, t), type, o) = Named(l, type, o)
    BY <1>1, <1>2, <1>3, <1>6 DEF Named
  <2> QED  BY <1>6, <2>1, NamedFinite
<1> QED  BY <1>5, <1>6

\* Only the first refund of an order has to be of the amount that was charged before it.
LEMMA ExactAppend ==
  ASSUME NEW l \in Seq(Row), NEW t \in Row, FirstExact(l),
         t.type = "topup" /\ t.order \in Orders /\ Named(l, "topup", t.order) = {} =>
           \A j \in Named(l, "deduction", t.order) : l[j].amount = t.amount
  PROVE  FirstExact(Append(l, t))
<1> DEFINE m == Append(l, t)
<1>1. DOMAIN l = 1 .. Len(l) /\ Len(l) \in Nat
  BY LenProperties
<1>2. /\ DOMAIN m = 1 .. Len(l) + 1
      /\ \A i \in 1 .. Len(l) : m[i] = l[i]
      /\ m[Len(l) + 1] = t
  BY <1>1, AppendProperties
<1> HIDE DEF m
<1>3. \A type, o : Named(l, type, o) = Named(m, type, o) \ {Len(l) + 1}
  BY <1>1, <1>2 DEF Named
<1> SUFFICES ASSUME NEW o \in Orders, NEW i \in Named(m, "topup", o), NEW j \in Named(m, "deduction", o),
                    j < i, \A k \in Named(m, "topup", o) : i =< k
             PROVE  m[i].amount = m[j].amount
  BY DEF FirstExact, m
<1>4. i \in 1 .. Len(l) + 1 /\ j \in 1 .. Len(l) /\ j \in Named(l, "deduction", o) /\ m[j] = l[j]
  <2>1. i \in 1 .. Len(l) + 1 /\ j \in 1 .. Len(l) + 1
    BY <1>2 DEF Named
  <2>2. j # Len(l) + 1 /\ j \in 1 .. Len(l)
    BY <1>1, <2>1
  <2> QED  BY <1>2, <1>3, <2>1, <2>2
<1>5. CASE i = Len(l) + 1
  <2>1. t.type = "topup" /\ t.order = o
    BY <1>2, <1>5 DEF Named
  <2>2. Named(l, "topup", o) = {}
    <3> SUFFICES ASSUME NEW k \in Named(l, "topup", o) PROVE FALSE
      OBVIOUS
    <3>1. k \in 1 .. Len(l)
      BY <1>1 DEF Named
    <3>2. k \in Named(m, "topup", o)
      BY <1>3
    <3>3. i =< k
      BY <3>2
    <3> QED  BY <1>1, <1>5, <3>1, <3>3
  <2> QED  BY <1>2, <1>4, <1>5, <2>1, <2>2
<1>6. CASE i \in 1 .. Len(l)
  <2>1. i \in Named(l, "topup", o) /\ m[i] = l[i]
    BY <1>1, <1>2, <1>3, <1>6
  <2>2. \A k \in Named(l, "topup", o) : i =< k
    BY <1>3
  <2> QED  BY <1>4, <2>1, <2>2 DEF FirstExact
<1> QED  BY <1>1, <1>4, <1>5, <1>6

\* Before an order is refunded it has one charge at most, so a refund of one is of all.
LEMMA OneCharge ==
  ASSUME NEW l \in Seq(Row), OnceCharged(l), NEW t \in Row, RefundOf(l, t), t.order \in Orders,
         Named(l, "topup", t.order) = {}
  PROVE  \A j \in Named(l, "deduction", t.order) : l[j].amount = t.amount
<1> DEFINE D == Named(l, "deduction", t.order)
<1>1. PICK i \in D : l[i].amount = t.amount
  BY DEF RefundOf
<1>2. Cardinality(D) =< 1 /\ Cardinality(D) \in Nat /\ IsFiniteSet(D)
  BY FS_EmptySet, NamedFinite DEF OnceCharged
<1> HIDE DEF D
<1>3. Cardinality(D) = 1
  <2>1. Cardinality(D) # 0
    BY <1>1, <1>2, FS_EmptySet
  <2> QED  BY <1>2, <2>1
<1>4. PICK x : D = {x}
  BY <1>2, <1>3, FS_Singleton
<1> QED  BY <1>1, <1>4 DEF D

\* A refund leaves room for another charge.
LEMMA OnceRefunded ==
  ASSUME NEW l \in Seq(Row), NEW t \in Row, OnceCharged(l), t.type = "topup", RefundOf(l, t)
  PROVE  OnceCharged(Append(l, t))
<1>0. FirstExact(Append(l, t))
  BY OneCharge, ExactAppend DEF OnceCharged
<1> SUFFICES ASSUME NEW o \in Orders
             PROVE  Cardinality(Named(Append(l, t), "deduction", o))
                      =< Cardinality(Named(Append(l, t), "topup", o)) + 1
  BY <1>0 DEF OnceCharged
<1>1. Cardinality(Named(Append(l, t), "deduction", o)) = Cardinality(Named(l, "deduction", o)) + 0
  BY NamedAppend
<1>2. \/ Cardinality(Named(Append(l, t), "topup", o)) = Cardinality(Named(l, "topup", o)) + 0
      \/ Cardinality(Named(Append(l, t), "topup", o)) = Cardinality(Named(l, "topup", o)) + 1
  BY NamedAppend
<1>3. Cardinality(Named(l, "deduction", o)) =< Cardinality(Named(l, "topup", o)) + 1
  BY DEF OnceCharged
<1>4. Cardinality(Named(l, "deduction", o)) \in Nat /\ Cardinality(Named(l, "topup", o)) \in Nat
  BY NamedFinite
<1> QED  BY <1>1, <1>2, <1>3, <1>4

\* The first charge of an order, and one that names none.
LEMMA OnceCharges ==
  ASSUME NEW l \in Seq(Row), NEW t \in Row, OnceCharged(l), t.type = "deduction",
         t.order \in Orders => Named(l, "deduction", t.order) = {}
  PROVE  OnceCharged(Append(l, t))
<1>0. FirstExact(Append(l, t))
  BY ExactAppend DEF OnceCharged
<1> SUFFICES ASSUME NEW o \in Orders
             PROVE  Cardinality(Named(Append(l, t), "deduction", o))
                      =< Cardinality(Named(Append(l, t), "topup", o)) + 1
  BY <1>0 DEF OnceCharged
<1>1. Cardinality(Named(Append(l, t), "topup", o)) = Cardinality(Named(l, "topup", o)) + 0
  BY NamedAppend
<1>2. Cardinality(Named(l, "deduction", o)) \in Nat /\ Cardinality(Named(l, "topup", o)) \in Nat
  BY NamedFinite
<1>3. CASE t.order # o
  <2>1. Cardinality(Named(Append(l, t), "deduction", o)) = Cardinality(Named(l, "deduction", o)) + 0
    BY <1>3, NamedAppend
  <2>2. Cardinality(Named(l, "deduction", o)) =< Cardinality(Named(l, "topup", o)) + 1
    BY DEF OnceCharged
  <2> QED  BY <1>1, <1>2, <2>1, <2>2
<1>4. CASE t.order = o
  <2>1. Cardinality(Named(Append(l, t), "deduction", o)) = Cardinality(Named(l, "deduction", o)) + 1
    BY <1>4, NamedAppend
  <2>2. Cardinality(Named(l, "deduction", o)) = 0
    BY <1>4, FS_EmptySet
  <2> QED  BY <1>1, <1>2, <2>1, <2>2
<1> QED  BY <1>3, <1>4

\* A charge after the refund of the same order.
LEMMA OnceAdjusted ==
  ASSUME NEW l \in Seq(Row), NEW t \in Row, NEW u \in Row, OnceCharged(l),
         t.type = "topup", u.type = "deduction", t.order = u.order, RefundOf(l, t)
  PROVE  OnceCharged(Append(Append(l, t), u))
<1>0. FirstExact(Append(Append(l, t), u))
  <2>1. FirstExact(Append(l, t))
    BY OneCharge, ExactAppend DEF OnceCharged
  <2>2. PICK m \in Seq(Row) : m = Append(l, t)
    BY AppendProperties
  <2>3. FirstExact(Append(m, u))
    BY <2>1, <2>2, ExactAppend
  <2> QED  BY <2>2, <2>3
<1> SUFFICES ASSUME NEW o \in Orders
             PROVE  Cardinality(Named(Append(Append(l, t), u), "deduction", o))
                      =< Cardinality(Named(Append(Append(l, t), u), "topup", o)) + 1
  BY <1>0 DEF OnceCharged
<1> DEFINE n == IF t.order = o THEN 1 ELSE 0
<1>1. Append(l, t) \in Seq(Row)
  BY AppendProperties
<1>2. Cardinality(Named(Append(l, t), "deduction", o)) = Cardinality(Named(l, "deduction", o)) + 0
  BY NamedAppend
<1>3. Cardinality(Named(Append(l, t), "topup", o)) = Cardinality(Named(l, "topup", o)) + n
  BY NamedAppend
<1> DEFINE m == Append(l, t)
<1>m. m \in Seq(Row)
  BY <1>1
<1> HIDE DEF m
<1>4. Cardinality(Named(Append(m, u), "deduction", o)) = Cardinality(Named(m, "deduction", o)) + n
  BY <1>m, NamedAppend
<1>5. Cardinality(Named(Append(m, u), "topup", o)) = Cardinality(Named(m, "topup", o)) + 0
  BY <1>m, NamedAppend
<1>6. Cardinality(Named(l, "deduction", o)) \in Nat /\ Cardinality(Named(l, "topup", o)) \in Nat
  BY NamedFinite
<1>7. Cardinality(Named(l, "deduction", o)) =< Cardinality(Named(l, "topup", o)) + 1
  BY DEF OnceCharged
<1>8. n \in Nat
  OBVIOUS
<1> HIDE DEF n
<1> QED  BY <1>2, <1>3, <1>4, <1>5, <1>6, <1>7, <1>8 DEF m

\* Rows that name no order.
LEMMA OnceUnnamed ==
  ASSUME NEW l \in Seq(Row), NEW new \in Seq(Row), OnceCharged(l),
         \A k \in DOMAIN new : new[k].order = NoOrder
  PROVE  OnceCharged(l \o new)
<1>1. /\ Len(l \o new) = Len(l) + Len(new)
      /\ \A i \in 1 .. Len(l) : (l \o new)[i] = l[i]
      /\ \A i \in Len(l) + 1 .. Len(l) + Len(new) : (l \o new)[i] = new[i - Len(l)]
      /\ l \o new \in Seq(Row)
  BY ConcatProperties
<1>2. /\ DOMAIN l = 1 .. Len(l) /\ Len(l) \in Nat /\ DOMAIN new = 1 .. Len(new) /\ Len(new) \in Nat
      /\ DOMAIN (l \o new) = 1 .. Len(l) + Len(new)
  BY <1>1, LenProperties
<1>3. ASSUME NEW type, NEW o \in Orders
      PROVE  Named(l \o new, type, o) = Named(l, type, o)
  <2>1. ASSUME NEW i \in Len(l) + 1 .. Len(l) + Len(new)
        PROVE  (l \o new)[i].order = NoOrder
    <3>1. i - Len(l) \in 1 .. Len(new)
      BY <1>2
    <3> QED  BY <1>1, <1>2, <3>1
  <2>2. \A i : i \in 1 .. Len(l) + Len(new) <=>
                 i \in 1 .. Len(l) \/ i \in Len(l) + 1 .. Len(l) + Len(new)
    BY <1>2
  <2> QED  BY <1>1, <1>2, <2>1, <2>2, NullAssumption DEF Named
<1>4. FirstExact(l \o new)
  <2>1. \A type, o : \A i \in Named(l, type, o) : (l \o new)[i] = l[i]
    BY <1>1, <1>2 DEF Named
  <2>2. FirstExact(l)
    BY DEF OnceCharged
  <2> SUFFICES ASSUME NEW o \in Orders, NEW i \in Named(l, "topup", o), NEW j \in Named(l, "deduction", o),
                      j < i, \A k \in Named(l, "topup", o) : i =< k
               PROVE  (l \o new)[i].amount = (l \o new)[j].amount
    BY <1>3 DEF FirstExact
  <2>3. l[i].amount = l[j].amount
    BY <2>2 DEF FirstExact
  <2> QED  BY <2>1, <2>3
<1> QED  BY <1>3, <1>4 DEF OnceCharged

\* What was deducted from a wallet that is not removed stays deducted.
LEMMA DeductedStays ==
  ASSUME Older, NEW w \in Wallets, Kept(w)'
  PROVE  /\ Kept(w)
         /\ \A s, a, o : Deducted(w, s, a, o) => Deducted(w, s, a, o)'
         /\ \A s, a : DeductedOnce(w, s, a) => DeductedOnce(w, s, a)'
<1>1. Kept(w) /\ \A i \in DOMAIN ledger[w] : i \in DOMAIN ledger'[w] /\ ledger'[w][i] = ledger[w][i]
  BY DEF Kept, Older
<1>2. \A s, a, o : Deducted(w, s, a, o) => Deducted(w, s, a, o)'
  BY <1>1 DEF Deducted
<1>3. \A s, a : DeductedOnce(w, s, a) => DeductedOnce(w, s, a)'
  BY <1>2 DEF DeductedOnce
<1> QED  BY <1>1, <1>2, <1>3

\* What a request knows it goes on to know, whatever the others write.
LEMMA KnowsOn ==
  ASSUME Older, OrdersKept, NEW q \in Request, Sane(q), Knows(q), NEW p, Alike(p, q)
  PROVE  Knows(p)'
<1>1. /\ p.pc = q.pc /\ p.op = q.op /\ p.w = q.w /\ p.s = q.s /\ p.o = q.o /\ p.amt = q.amt
      /\ p.back = q.back /\ p.paid = q.paid /\ p.todo = q.todo /\ p.rows = q.rows
  BY DEF Alike, Request
<1>2. (q.pc # "idle" => q.w \in Wallets)
      /\ (q.op = "order" \/ q.pc \in {"edit", "adjust", "remove", "removeTx"} => q.o \in Orders)
  BY DEF Sane
<1>3. AboutOrder(p)'
  <2>1. \/ p.op = "order" /\ p.pc \in {"charge", "deduct", "record"}
        \/ p.pc \in {"edit", "adjust", "remove", "removeTx"}
        => order'[p.o].st # "none" /\ order'[p.o].s = p.s
    BY <1>1, <1>2 DEF Knows, AboutOrder, OrdersKept
  <2>2. p.pc \in {"charge", "deduct", "record"} /\ p.op # "order" => p.o = NoOrder
    BY <1>1 DEF Knows, AboutOrder
  <2>3. ASSUME p.pc \in {"adjust", "removeTx"}, Kept(p.w)'
        PROVE  Deducted(p.w, p.s, p.back, p.o)'
    <3>1. p.w \in Wallets
      BY <1>1, <1>2, <2>3
    <3>2. Kept(p.w)
      BY <2>3, <3>1, DeductedStays
    <3>3. Deducted(p.w, p.s, p.back, p.o)
      BY <1>1, <2>3, <3>2 DEF Knows, AboutOrder
    <3> QED  BY <2>3, <3>1, <3>3, DeductedStays
  <2>4. p.pc = "create" => p.op = "order"
    BY <1>1 DEF Knows, AboutOrder
  <2> QED  BY <2>1, <2>2, <2>3, <2>4 DEF AboutOrder
<1>4. AboutSession(p)'
  <2>1. p.pc \notin {"idle", "topup"} => p.w = WalletOf[p.s]
    BY <1>1 DEF Knows, AboutSession
  <2>2. ASSUME p.pc = "record", p.paid = "wallet", Kept(p.w)'
        PROVE  Deducted(p.w, p.s, p.amt, p.o)'
    <3>1. p.w \in Wallets
      BY <1>1, <1>2, <2>2
    <3>2. Kept(p.w)
      BY <2>2, <3>1, DeductedStays
    <3>3. Deducted(p.w, p.s, p.amt, p.o)
      BY <1>1, <2>2, <3>2 DEF Knows, AboutSession
    <3> QED  BY <2>2, <3>1, <3>3, DeductedStays
  <2>3. ASSUME p.pc \in {"purgeRead", "purgeApply"}, Kept(p.w)'
        PROVE  /\ \A t \in p.todo : DeductedOnce(p.w, p.s, t[2])'
               /\ \A k \in DOMAIN p.rows :
                    /\ p.rows[k].type = "topup" /\ p.rows[k].session = p.s
                    /\ p.rows[k].order = NoOrder
                    /\ DeductedOnce(p.w, p.s, p.rows[k].amount)'
    <3>1. p.w \in Wallets
      BY <1>1, <1>2, <2>3
    <3>2. Kept(p.w) /\ \A s, a : DeductedOnce(p.w, s, a) => DeductedOnce(p.w, s, a)'
      BY <2>3, <3>1, DeductedStays
    <3>3. /\ \A t \in p.todo : DeductedOnce(p.w, p.s, t[2])
          /\ \A k \in DOMAIN p.rows :
               /\ p.rows[k].type = "topup" /\ p.rows[k].session = p.s
               /\ p.rows[k].order = NoOrder
               /\ DeductedOnce(p.w, p.s, p.rows[k].amount)
      BY <1>1, <2>3, <3>2 DEF Knows, AboutSession
    <3> QED  BY <3>2, <3>3
  <2> QED  BY <2>1, <2>2, <2>3 DEF AboutSession
<1> QED  BY <1>3, <1>4 DEF Knows

\* A step of r keeps the invariant if r, the rows and the sales are in order after it.
LEMMA MatchStep ==
  ASSUME MInv, IInv', Older, OrdersKept, NEW r \in Reqs, NEW local, req'[r] = local,
         \A p \in Reqs \ {r} : Alike(req'[p], req[p]),
         Knows(local)', RowsNameOrders', RefundBacked', Settled', SalesAreCharged',
         \A p \in Reqs \ {r} : Charging(req[p]) =>
            \A w \in Wallets : Named(ledger'[w], "deduction", req[p].o) = {},
         Charging(local) =>
            /\ \A w \in Wallets : Named(ledger'[w], "deduction", local.o) = {}
            /\ \A p \in Reqs \ {r} : Charging(req[p]) => req[p].o # local.o
  PROVE  MInv'
<1>1. ASSUME NEW p \in Reqs
      PROVE  Knows(req[p])'
  <2>1. PICK x : x = req'[p]
    OBVIOUS
  <2>2. Knows(x)'
    <3>1. CASE p = r
      BY <2>1, <3>1
    <3>2. CASE p # r
      <4>1. Alike(x, req[p]) /\ req[p] \in Request /\ Sane(req[p]) /\ Knows(req[p])
        BY <2>1, <3>2 DEF MInv, IInv, TypeOK
      <4>2. PICK q : q = req[p]
        OBVIOUS
      <4>3. Alike(x, q) /\ q \in Request /\ Sane(q) /\ Knows(q)
        BY <4>1, <4>2
      <4> QED  BY <4>3, KnowsOn
    <3> QED  BY <3>1, <3>2
  <2>5. AboutOrder(req[p])'
    BY SMTT(30), <2>1, <2>2 DEF Knows, AboutOrder, Kept, Deducted
  <2>6. AboutSession(req[p])'
    BY SMTT(30), <2>1, <2>2 DEF Knows, AboutSession, Kept, Deducted, DeductedOnce
  <2> QED  BY <2>5, <2>6 DEF Knows
<1>2. FirstCharge'
  <2>1. \A p \in Reqs \ {r} : req'[p].op = req[p].op /\ req'[p].pc = req[p].pc /\ req'[p].o = req[p].o
    <3>1. \A q \in Request : \A p : Alike(p, q) => p.op = q.op /\ p.pc = q.pc /\ p.o = q.o
      BY DEF Alike, Request
    <3>2. \A p \in Reqs : req[p] \in Request
      BY DEF MInv, IInv, TypeOK
    <3> QED  BY <3>1, <3>2
  <2>2. ASSUME NEW p \in Reqs, Charging(req'[p])
        PROVE  /\ \A w \in Wallets : Named(ledger'[w], "deduction", req'[p].o) = {}
               /\ \A u \in Reqs \ {p} : Charging(req'[u]) => req'[u].o # req'[p].o
    <3>1. \A u \in Reqs \ {r} : Charging(req'[u]) <=> Charging(req[u])
      BY <2>1 DEF Charging
    <3>2. CASE p = r
      BY <2>1, <2>2, <3>1, <3>2
    <3>3. CASE p # r
      BY <2>1, <2>2, <3>1, <3>3 DEF MInv, FirstCharge
    <3> QED  BY <3>2, <3>3
  <2> QED  BY <2>2 DEF FirstCharge, Charging, Named, DeductionsOf
<1> QED  BY <1>1, <1>2 DEF MInv

\* Nothing is deducted yet for an order whose first charge is under way.
LEMMA NothingNamed ==
  ASSUME MInv, NEW p \in Reqs, Charging(req[p]), NEW w \in Wallets
  PROVE  Named(ledger[w], "deduction", req[p].o) = {}
BY DEF MInv, FirstCharge, Named, DeductionsOf

\* A step that changes the local variables of r only.
LEMMA QuietStep ==
  ASSUME MInv, IInv', NEW r \in Reqs, NEW local, Goto(r, local), Knows(local),
         Charging(local) => Charging(req[r]) /\ local.o = req[r].o,
         UNCHANGED <<wallet, ledger, order, sale>>
  PROVE  MInv'
<1>1. /\ Older /\ OrdersKept
  BY DEF Older, OrdersKept
<1>2. req'[r] = local /\ \A p \in Reqs \ {r} : Alike(req'[p], req[p])
  BY DEF Goto, MInv, IInv, TypeOK, Alike
<1>3. PICK x : x = local
  OBVIOUS
<1>4. Knows(x)'
  BY <1>3 DEF Knows, AboutOrder, AboutSession, Kept, Deducted, DeductedOnce
<1>5. RowsNameOrders' /\ RefundBacked' /\ Settled' /\ SalesAreCharged'
  BY SMTT(30) DEF MInv, RowsNameOrders, RefundBacked, Settled, ChargedAtMostOnce, FirstRefundExact, SalesAreCharged, Kept,
         SessionDeductions, DeductionsOf, RefundsOf
<1>6. \A p \in Reqs : Charging(req[p]) => \A w \in Wallets : Named(ledger'[w], "deduction", req[p].o) = {}
  BY NothingNamed
<1>7. Charging(x) => \A p \in Reqs \ {r} : Charging(req[p]) => req[p].o # x.o
  BY <1>3 DEF MInv, FirstCharge
<1> QED  BY <1>1, <1>2, <1>3, <1>4, <1>5, <1>6, <1>7, MatchStep

\* The rows that a step has left alone are in order after it.
LEMMA SalesOn ==
  ASSUME MInv, Older, OrdersKept, sale' = sale
  PROVE  SalesAreCharged'
<1> SUFFICES ASSUME NEW o \in Orders
             PROVE  /\ sale[o] # "none" => order'[o].st # "none"
                    /\ sale[o] = "wallet" /\ wallet'[WalletOf[order'[o].s]] # "removed" =>
                         \E i \in DOMAIN ledger'[WalletOf[order'[o].s]] :
                           /\ ledger'[WalletOf[order'[o].s]][i].type = "deduction"
                           /\ ledger'[WalletOf[order'[o].s]][i].session = order'[o].s
                           /\ ledger'[WalletOf[order'[o].s]][i].order \in {o, NoOrder}
  BY DEF SalesAreCharged, SessionDeductions, Kept
<1>1. sale[o] # "none" => order[o].st # "none" /\ order'[o].st # "none" /\ order'[o].s = order[o].s
  BY DEF MInv, SalesAreCharged, OrdersKept
<1>2. ASSUME sale[o] = "wallet", wallet'[WalletOf[order'[o].s]] # "removed"
      PROVE  \E i \in DOMAIN ledger'[WalletOf[order'[o].s]] :
                           /\ ledger'[WalletOf[order'[o].s]][i].type = "deduction"
                           /\ ledger'[WalletOf[order'[o].s]][i].session = order'[o].s
                           /\ ledger'[WalletOf[order'[o].s]][i].order \in {o, NoOrder}
  <2>1. PICK s \in Sessions : s = order[o].s
    BY <1>1, <1>2 DEF MInv, IInv, TypeOK, OrderRow, Unplaced
  <2>2. PICK w \in Wallets : w = WalletOf[s]
    BY WalletOfAssumption
  <2>3. order'[o].s = s
    BY <1>1, <1>2, <2>1
  <2>4. wallet'[w] # "removed"
    BY <1>2, <2>2, <2>3
  <2>5. wallet[w] # "removed" /\ \A i \in DOMAIN ledger[w] : i \in DOMAIN ledger'[w] /\ ledger'[w][i] = ledger[w][i]
    BY <2>4 DEF Older
  <2>6. \E i \in DOMAIN ledger[w] : ledger[w][i].type = "deduction" /\ ledger[w][i].session = s
                                      /\ ledger[w][i].order \in {o, NoOrder}
    BY <1>2, <2>1, <2>2, <2>5 DEF MInv, SalesAreCharged, Kept, SessionDeductions
  <2> QED  BY <2>2, <2>3, <2>5, <2>6
<1> QED  BY <1>1, <1>2

\* A step that leaves wallets and ledgers alone leaves the rows in order.
LEMMA RowsOn ==
  ASSUME MInv, OrdersKept, wallet' = wallet, ledger' = ledger
  PROVE  /\ Older /\ RowsNameOrders' /\ RefundBacked' /\ Settled'
         /\ \A p \in Reqs : Charging(req[p]) =>
               \A w \in Wallets : Named(ledger'[w], "deduction", req[p].o) = {}
<1>1. Older
  BY DEF Older
<1>2. RowsNameOrders'
  BY DEF MInv, RowsNameOrders, OrdersKept
<1>3. RefundBacked' /\ Settled'
  BY DEF MInv, RefundBacked, Settled, ChargedAtMostOnce, FirstRefundExact, DeductionsOf, RefundsOf
<1> QED  BY <1>1, <1>2, <1>3, NothingNamed

\* A step outside a transaction leaves the other requests as they are,
LEMMA GotoAlike ==
  ASSUME MInv, NEW r \in Reqs, NEW local, Goto(r, local)
  PROVE  req'[r] = local /\ \A p \in Reqs \ {r} : Alike(req'[p], req[p])
BY DEF Goto, MInv, IInv, TypeOK, Alike

\* and a commit makes them overtaken at most.
LEMMA CommitAlike ==
  ASSUME NEW r \in Reqs, NEW w, NEW local, Commit(r, w, local)
  PROVE  req'[r] = local /\ \A p \in Reqs \ {r} : Alike(req'[p], req[p])
BY DEF Commit, Alike

\* Rows that are appended keep the ledger in order if each names what exists and each
\* refund has its deduction.
InOrder(w, t) ==
    /\ t.order \in Orders => order[t.order].st # "none" /\ order[t.order].s = t.session
    /\ t.type = "topup" /\ t.session # NoSession => \E j \in DOMAIN ledger[w] : Backs(ledger[w][j], t)

\* RefundBacked, in terms of the deduction that backs a refund.
LEMMA BackedRows ==
  RefundBacked <=> \A w \in Wallets : \A i \in DOMAIN ledger[w] :
                      ledger[w][i].type = "topup" /\ ledger[w][i].session # NoSession =>
                        \E j \in 1 .. i - 1 : Backs(ledger[w][j], ledger[w][i])
BY DEF RefundBacked, Backs

\* ChargedAtMostOnce and FirstRefundExact, of the rows of one wallet, before a step and after.
LEMMA OnceOf ==
  ASSUME MInv, NEW w \in Wallets
  PROVE  OnceCharged(ledger[w])
BY DEF MInv, Settled, ChargedAtMostOnce, FirstRefundExact, OnceCharged, FirstExact, DeductionsOf, RefundsOf, Named

LEMMA SettledRows ==
  ASSUME \A w \in Wallets : OnceCharged(ledger'[w])
  PROVE  Settled'
BY DEF Settled, ChargedAtMostOnce, FirstRefundExact, OnceCharged, FirstExact, DeductionsOf, RefundsOf, Named

\* Nothing is charged in an empty ledger.
LEMMA NothingCharged == OnceCharged(<<>>)
<1>1. \A type, o : Named(<<>>, type, o) = {}
  BY DEF Named
<1>2. Cardinality({}) = 0 /\ 0 =< 0 + 1
  BY FS_EmptySet
<1> QED  BY <1>1, <1>2 DEF OnceCharged, FirstExact

\* Rows that are in order themselves can be appended to a ledger.
LEMMA LedgerStep ==
  ASSUME MInv, NEW w \in Wallets, NEW new \in Seq(Row), wallet[w] = "live", wallet' = wallet,
         ledger' = [ledger EXCEPT ![w] = @ \o new], OrdersKept,
         \A k \in DOMAIN new : InOrder(w, new[k]),
         OnceCharged(ledger[w] \o new)
  PROVE  Older /\ RowsNameOrders' /\ RefundBacked' /\ Settled'
<1> DEFINE l == ledger[w]
           m == l \o new
<1>0. l \in Seq(Row) /\ ledger \in [Wallets -> Seq(Row)]
  BY DEF MInv, IInv, TypeOK
<1>1. /\ DOMAIN l = 1 .. Len(l) /\ Len(l) \in Nat /\ DOMAIN new = 1 .. Len(new) /\ Len(new) \in Nat
      /\ DOMAIN m = 1 .. Len(l) + Len(new)
      /\ \A i \in 1 .. Len(l) : m[i] = l[i]
      /\ \A i \in Len(l) + 1 .. Len(l) + Len(new) : m[i] = new[i - Len(l)]
  BY <1>0, ConcatProperties, LenProperties
<1>2. ASSUME NEW i \in DOMAIN m, i \notin DOMAIN l
      PROVE  i - Len(l) \in DOMAIN new /\ m[i] = new[i - Len(l)] /\ i > Len(l)
  <2>1. i \in Len(l) + 1 .. Len(l) + Len(new)
    BY <1>1, <1>2
  <2>2. m[i] = new[i - Len(l)]
    BY <1>1, <2>1
  <2>3. i - Len(l) \in 1 .. Len(new) /\ i > Len(l)
    BY <1>1, <2>1
  <2> QED  BY <1>1, <2>2, <2>3
<1>3. \A i \in DOMAIN l : i \in DOMAIN m /\ m[i] = l[i]
  BY <1>1
<1>4. ledger'[w] = m /\ \A v \in Wallets \ {w} : ledger'[v] = ledger[v]
  BY <1>0
<1> HIDE DEF l, m
<1>5. Older
  BY <1>3, <1>4 DEF Older, l
<1>6. RowsNameOrders'
  <2> SUFFICES ASSUME NEW v \in Wallets, NEW i \in DOMAIN ledger'[v], ledger'[v][i].order \in Orders
               PROVE  /\ order'[ledger'[v][i].order].st # "none"
                      /\ ledger'[v][i].session = order'[ledger'[v][i].order].s
    BY DEF RowsNameOrders
  <2>1. PICK t : t = ledger'[v][i]
    OBVIOUS
  <2>2. order[t.order].st # "none" /\ t.session = order[t.order].s
    <3>1. CASE v # w
      BY <1>4, <2>1, <3>1 DEF MInv, RowsNameOrders
    <3>2. CASE v = w /\ i \in DOMAIN l
      BY <1>3, <1>4, <2>1, <3>2 DEF MInv, RowsNameOrders, l
    <3>3. CASE v = w /\ i \notin DOMAIN l
      <4>1. i - Len(l) \in DOMAIN new /\ t = new[i - Len(l)]
        BY <1>2, <1>4, <2>1, <3>3
      <4> QED  BY <2>1, <4>1 DEF InOrder
    <3> QED  BY <3>1, <3>2, <3>3
  <2> QED  BY <2>1, <2>2 DEF OrdersKept
<1>7. RefundBacked'
  <2> SUFFICES ASSUME NEW v \in Wallets, NEW i \in DOMAIN ledger'[v], ledger'[v][i].type = "topup",
                      ledger'[v][i].session # NoSession
               PROVE  \E j \in 1 .. i - 1 : Backs(ledger'[v][j], ledger'[v][i])
    BY DEF RefundBacked, Backs
  <2>1. CASE v # w
    BY <1>4, <2>1 DEF MInv, RefundBacked, Backs
  <2>2. CASE v = w /\ i \in DOMAIN l
    <3>1. ledger'[v][i] = l[i]
      BY <1>3, <1>4, <2>2
    <3>2. PICK j \in 1 .. i - 1 : Backs(l[j], l[i])
      BY <2>2, <3>1, BackedRows DEF MInv, l
    <3>3. j \in DOMAIN l
      BY <1>1, <2>2
    <3> QED  BY <1>3, <1>4, <2>2, <3>1, <3>2, <3>3
  <2>3. CASE v = w /\ i \notin DOMAIN l
    <3>1. i - Len(l) \in DOMAIN new /\ ledger'[v][i] = new[i - Len(l)] /\ i > Len(l)
      BY <1>2, <1>4, <2>3
    <3>2. PICK j \in DOMAIN l : Backs(l[j], ledger'[v][i])
      BY <3>1 DEF InOrder, l
    <3>3. j \in 1 .. i - 1
      BY <1>1, <1>4, <2>3, <3>1
    <3> QED  BY <1>3, <1>4, <2>3, <3>2, <3>3
  <2> QED  BY <2>1, <2>2, <2>3
<1>8. Settled'
  <2>1. \A v \in Wallets : OnceCharged(ledger'[v])
    <3> SUFFICES ASSUME NEW v \in Wallets PROVE OnceCharged(ledger'[v])
      OBVIOUS
    <3>1. CASE v = w
      BY <1>4, <3>1 DEF l, m
    <3>2. CASE v # w
      BY <1>4, <3>2, OnceOf
    <3> QED  BY <3>1, <3>2
  <2> QED  BY <2>1, SettledRows
<1> QED  BY <1>5, <1>6, <1>7, <1>8

\* Nothing is charged to the orders of others by rows that do not name them.
LEMMA OthersUnnamed ==
  ASSUME MInv, NEW w \in Wallets, NEW new \in Seq(Row), ledger' = [ledger EXCEPT ![w] = @ \o new],
         NEW p \in Reqs, Charging(req[p]),
         \A k \in DOMAIN new : new[k].type = "deduction" => new[k].order # req[p].o
  PROVE  \A v \in Wallets : Named(ledger'[v], "deduction", req[p].o) = {}
<1>1. ledger[w] \in Seq(Row) /\ ledger \in [Wallets -> Seq(Row)]
  BY DEF MInv, IInv, TypeOK
<1>2. ledger'[w] = ledger[w] \o new /\ \A v \in Wallets \ {w} : ledger'[v] = ledger[v]
  BY <1>1
<1> DEFINE l == ledger[w]
           m == l \o new
<1>3. /\ DOMAIN l = 1 .. Len(l) /\ Len(l) \in Nat /\ DOMAIN new = 1 .. Len(new) /\ Len(new) \in Nat
      /\ DOMAIN m = 1 .. Len(l) + Len(new)
      /\ \A i \in 1 .. Len(l) : m[i] = l[i]
      /\ \A i \in Len(l) + 1 .. Len(l) + Len(new) : m[i] = new[i - Len(l)]
  BY <1>1, ConcatProperties, LenProperties
<1>4. ASSUME NEW i \in DOMAIN m
      PROVE  \/ i \in DOMAIN l /\ m[i] = l[i]
             \/ i - Len(l) \in DOMAIN new /\ m[i] = new[i - Len(l)]
  <2>1. CASE i \in 1 .. Len(l)
    BY <1>3, <2>1
  <2>2. CASE i \in Len(l) + 1 .. Len(l) + Len(new)
    <3>1. m[i] = new[i - Len(l)]
      BY <1>3, <2>2
    <3>2. i - Len(l) \in 1 .. Len(new)
      BY <1>3, <2>2
    <3> QED  BY <1>3, <3>1, <3>2
  <2> QED  BY <1>3, <2>1, <2>2
<1> HIDE DEF m, l
<1>5. Named(l, "deduction", req[p].o) = {}
  BY NothingNamed DEF l
<1>6. Named(m, "deduction", req[p].o) = {}
  BY <1>4, <1>5 DEF Named
<1> QED  BY <1>2, <1>6, NothingNamed DEF l, m

\* A request that has ended knows nothing and charges nothing.
LEMMA IdleKnows == Knows(Idle) /\ ~Charging(Idle)
BY DEF Knows, AboutOrder, AboutSession, Charging, Idle

\* The initial states.
LEMMA InitMatch == Init => MInv
<1> SUFFICES ASSUME Init PROVE MInv
  OBVIOUS
<1>1. RowsNameOrders /\ RefundBacked
  BY DEF Init, RowsNameOrders, RefundBacked
<1>2. Settled
  <2>1. \A w \in Wallets : OnceCharged(ledger[w])
    BY NothingCharged DEF Init
  <2> QED  BY <2>1 DEF Settled, ChargedAtMostOnce, FirstRefundExact, OnceCharged, FirstExact, DeductionsOf,
                       RefundsOf, Named
<1>3. SalesAreCharged
  BY DEF Init, SalesAreCharged
<1>4. \A r \in Reqs : req[r] = Idle
  BY DEF Init
<1>5. \A r \in Reqs : Knows(req[r]) /\ ~Charging(req[r])
  BY <1>4, IdleKnows
<1> QED  BY <1>1, <1>2, <1>3, <1>5, InitInv DEF MInv, FirstCharge

\* Creating and removing wallets, opening and closing sessions.
LEMMA AdministerMatch ==
  ASSUME MInv, IInv', Administer
  PROVE  MInv'
<1>1. PICK w \in Wallets : CreateWallet(w) \/ RemoveWallet(w)
  BY DEF Administer
<1>2. UNCHANGED <<session, order, sale, req>>
  BY <1>1 DEF CreateWallet, RemoveWallet
<1>3. /\ wallet' \in [Wallets -> {"none", "live", "removed"}] /\ ledger \in [Wallets -> Seq(Row)]
      /\ wallet \in [Wallets -> {"none", "live", "removed"}]
      /\ \/ ledger' = ledger /\ wallet[w] = "none" /\ wallet' = [wallet EXCEPT ![w] = "live"]
         \/ ledger' = [ledger EXCEPT ![w] = <<>>] /\ wallet' = [wallet EXCEPT ![w] = "removed"]
  BY <1>1 DEF CreateWallet, RemoveWallet, MInv, IInv, TypeOK
<1>4. Older /\ OrdersKept
  BY <1>2, <1>3 DEF Older, OrdersKept
<1>5. \A v \in Wallets : ledger'[v] = ledger[v] \/ ledger'[v] = <<>>
  BY <1>3
<1>6. RowsNameOrders' /\ RefundBacked'
  BY <1>2, <1>5 DEF MInv, RowsNameOrders, RefundBacked
<1>7. Settled'
  BY <1>5, OnceOf, NothingCharged, SettledRows
<1>8. SalesAreCharged'
  BY <1>2, <1>4, SalesOn
<1>9. ASSUME NEW p \in Reqs
      PROVE  Knows(req[p])'
  <2>1. req[p] \in Request /\ Sane(req[p]) /\ Knows(req[p]) /\ req'[p] = req[p]
    BY <1>2 DEF MInv, IInv, TypeOK
  <2>2. PICK q : q = req[p]
    OBVIOUS
  <2>3. q \in Request /\ Sane(q) /\ Knows(q) /\ Alike(q, q)
    BY <2>1, <2>2 DEF Alike
  <2>4. Knows(q)'
    BY <1>4, <2>3, KnowsOn
  <2>5. AboutOrder(req[p])'
    BY SMTT(30), <2>1, <2>2, <2>4 DEF Knows, AboutOrder, Kept, Deducted
  <2>6. AboutSession(req[p])'
    BY SMTT(30), <2>1, <2>2, <2>4 DEF Knows, AboutSession, Kept, Deducted, DeductedOnce
  <2> QED  BY <2>5, <2>6 DEF Knows
<1>10. FirstCharge'
  BY <1>2, <1>5 DEF MInv, FirstCharge, DeductionsOf, Charging
<1> QED  BY <1>6, <1>7, <1>8, <1>9, <1>10 DEF MInv

\* A step of r that writes one row.
LEMMA RowStep ==
  ASSUME MInv, IInv', NEW r \in Reqs, NEW local, NEW w \in Wallets, NEW t \in Row, wallet[w] = "live",
         Commit(r, w, local), wallet' = wallet, ledger' = [ledger EXCEPT ![w] = Append(@, t)],
         OrdersKept, Older => SalesAreCharged', InOrder(w, t), OnceCharged(Append(ledger[w], t)),
         ~Charging(local), Older => Knows(local)',
         t.type = "deduction" =>
            \A p \in Reqs \ {r} : Charging(req[p]) => req[p].o # t.order
  PROVE  MInv'
<1>1. ledger \in [Wallets -> Seq(Row)]
  BY DEF MInv, IInv, TypeOK
<1>2. PICK new \in Seq(Row) : new = <<t>>
  <2>1. <<t>> \in Seq(Row)
    OBVIOUS
  <2> QED  BY <2>1
<1>3. Append(ledger[w], t) = ledger[w] \o new /\ \A k \in DOMAIN new : new[k] = t
  BY <1>1, <1>2, AppendIsConcat
<1>4. ledger' = [ledger EXCEPT ![w] = @ \o new]
  BY <1>3
<1>5. Older /\ RowsNameOrders' /\ RefundBacked' /\ Settled'
  BY ZenonT(30), <1>3, <1>4, LedgerStep
<1>6. ASSUME NEW p \in Reqs \ {r}, Charging(req[p])
      PROVE  \A v \in Wallets : Named(ledger'[v], "deduction", req[p].o) = {}
  <2>1. \A k \in DOMAIN new : new[k].type = "deduction" => new[k].order # req[p].o
    BY <1>3, <1>6
  <2> QED  BY ZenonT(30), <1>4, <1>6, <2>1, OthersUnnamed
<1>7. req'[r] = local /\ \A p \in Reqs \ {r} : Alike(req'[p], req[p])
  BY CommitAlike
<1> QED  BY <1>5, <1>6, <1>7, MatchStep

\* A cash top-up names no order.
LEMMA TopUpMatch ==
  ASSUME MInv, IInv', NEW r \in Reqs, TopUp(r)
  PROVE  MInv'
<1> DEFINE q == req[r]
<1>q. q \in Request /\ Sane(q) /\ ledger \in [Wallets -> Seq(Row)]
  BY DEF MInv, IInv, TypeOK
<1>1. ASSUME NEW w \in Wallets, NEW a \in Deposits, TopUpRead(r, w, a)
      PROVE  MInv'
  <2> DEFINE local == [Idle EXCEPT !.pc = "topup", !.w = w, !.amt = a, !.seen = balance[w]]
  <2>1. Knows(local) /\ ~Charging(local)
    BY DEF Idle, Knows, AboutOrder, AboutSession, Charging
  <2>2. Goto(r, local) /\ UNCHANGED <<wallet, ledger, order, sale>>
    BY <1>1 DEF TopUpRead
  <2> HIDE DEF local
  <2> QED  BY <2>1, <2>2, QuietStep
<1>2. CASE TopUpCommit(r)
  <2> DEFINE after == q.seen + q.amt
             t == TopupRow(q.amt, q.seen, after, NoSession, NoOrder)
  <2>1. q.w \in Wallets /\ q.seen \in Int /\ q.amt \in Nat /\ after \in Int
    BY <1>2, <1>q DEF TopUpCommit, At, Sane, Request
  <2>2. t.type = "topup" /\ t.session = NoSession /\ t.order = NoOrder
    BY DEF TopupRow
  <2>3. t \in Row
    BY <2>1, RowType
  <2>4. /\ ledger' = [ledger EXCEPT ![q.w] = Append(@, t)] /\ Commit(r, q.w, Idle)
        /\ UNCHANGED <<wallet, order, sale>> /\ wallet[q.w] = "live"
    BY <1>2 DEF TopUpCommit, Writable
  <2> HIDE DEF t, after
  <2>5. OrdersKept /\ InOrder(q.w, t)
    BY <2>2, <2>4, NullAssumption DEF OrdersKept, InOrder
  <2>6. OnceCharged(ledger[q.w]) /\ RefundOf(ledger[q.w], t)
    BY <2>1, <2>2, OnceOf, NullAssumption DEF RefundOf
  <2>7. OnceCharged(Append(ledger[q.w], t))
    BY <1>q, <2>1, <2>2, <2>3, <2>6, OnceRefunded
  <2>8. PICK idle : idle = Idle
    OBVIOUS
  <2>9. Knows(idle)' /\ ~Charging(idle)
    BY <2>8 DEF Idle, Knows, AboutOrder, AboutSession, Charging
  <2>10. Older => SalesAreCharged'
    BY <2>4, <2>5, SalesOn
  <2> QED  BY <2>1, <2>2, <2>3, <2>4, <2>5, <2>7, <2>8, <2>9, <2>10, RowStep
<1> QED  BY <1>1, <1>2 DEF TopUp

\* The steps of a charge that write at most a Sale of a checkout.
LEMMA ChargeQuiet ==
  ASSUME MInv, IInv', NEW r \in Reqs,
         \/ \E s \in Sessions, o \in Orders, a \in Prices : StartOrder(r, s, o, a)
         \/ \E s \in Sessions, lines \in SUBSET Orders \ {{}}, a \in Prices :
              StartBatch(r, s, lines, a)
         \/ \E s \in Sessions, a \in Prices : StartCheckout(r, s, a)
         \/ ChargeSkipped(r) \/ ChargeRefused(r) \/ ChargeRead(r) \/ RecordCheckout(r)
  PROVE  MInv'
<1> DEFINE q == req[r]
<1>q. q \in Request /\ Sane(q) /\ Knows(q)
  BY DEF MInv, IInv, TypeOK
<1>1. ASSUME NEW s \in Sessions, NEW o \in Orders, NEW a \in Prices, StartOrder(r, s, o, a)
      PROVE  MInv'
  <2> DEFINE local == [Idle EXCEPT !.pc = "create", !.op = "order", !.w = WalletOf[s],
                                   !.s = s, !.o = o, !.lines = {o}, !.price = a, !.amt = a]
  <2>1. Knows(local) /\ ~Charging(local)
    BY DEF Idle, Knows, AboutOrder, AboutSession, Charging
  <2>2. Goto(r, local) /\ UNCHANGED <<wallet, ledger, order, sale>>
    BY <1>1 DEF StartOrder
  <2> HIDE DEF local
  <2> QED  BY <2>1, <2>2, QuietStep
<1>2. ASSUME NEW s \in Sessions, NEW lines \in SUBSET Orders \ {{}}, NEW a \in Prices,
             StartBatch(r, s, lines, a)
      PROVE  MInv'
  <2> DEFINE n == a * Cardinality(lines)
             local == [Idle EXCEPT !.pc = "charge", !.op = "batch", !.w = WalletOf[s],
                                   !.s = s, !.lines = lines, !.price = a, !.amt = n]
  <2>1. Goto(r, local) /\ UNCHANGED <<wallet, ledger, order, sale>>
    BY <1>2 DEF StartBatch
  <2> HIDE DEF n
  <2>2. Knows(local) /\ ~Charging(local)
    BY DEF Idle, Knows, AboutOrder, AboutSession, Charging
  <2> HIDE DEF local
  <2> QED  BY <2>1, <2>2, QuietStep
<1>3. ASSUME NEW s \in Sessions, NEW a \in Prices, StartCheckout(r, s, a)
      PROVE  MInv'
  <2> DEFINE local == [Idle EXCEPT !.pc = "charge", !.op = "checkout", !.w = WalletOf[s],
                                   !.s = s, !.amt = a]
  <2>1. Knows(local) /\ ~Charging(local)
    BY DEF Idle, Knows, AboutOrder, AboutSession, Charging
  <2>2. Goto(r, local) /\ UNCHANGED <<wallet, ledger, order, sale>>
    BY <1>3 DEF StartCheckout
  <2> HIDE DEF local
  <2> QED  BY <2>1, <2>2, QuietStep
<1>4. CASE ChargeSkipped(r)
  <2> DEFINE local == [q EXCEPT !.pc = "record", !.paid = "cash"]
  <2>1. Knows(local) /\ ~Charging(local)
    BY <1>4, <1>q DEF ChargeSkipped, At, Request, Knows, AboutOrder, AboutSession, Charging
  <2>2. Goto(r, local) /\ UNCHANGED <<wallet, ledger, order, sale>>
    BY <1>4 DEF ChargeSkipped
  <2> HIDE DEF local
  <2> QED  BY <2>1, <2>2, QuietStep
<1>5. CASE ChargeRead(r)
  <2> DEFINE local == [q EXCEPT !.pc = "deduct", !.seen = balance[q.w]]
  <2>1. Knows(local) /\ (Charging(local) => Charging(q) /\ local.o = q.o)
    BY <1>5, <1>q DEF ChargeRead, At, Request, Knows, AboutOrder, AboutSession, Charging
  <2>2. Goto(r, local) /\ UNCHANGED <<wallet, ledger, order, sale>>
    BY <1>5 DEF ChargeRead
  <2> HIDE DEF local
  <2> QED  BY <2>1, <2>2, QuietStep
<1>6. CASE ChargeRefused(r) \/ RecordCheckout(r)
  <2>1. Goto(r, Idle) /\ UNCHANGED <<wallet, ledger, order, sale>>
    BY <1>6 DEF ChargeRefused, RecordCheckout
  <2> QED  BY <2>1, IdleKnows, QuietStep
<1> QED  BY <1>1, <1>2, <1>3, <1>4, <1>5, <1>6

\* The order is created before it is charged.
LEMMA CreateOrderMatch ==
  ASSUME MInv, IInv', NEW r \in Reqs, CreateOrder(r)
  PROVE  MInv'
<1> DEFINE q == req[r]
<1>q. /\ q \in Request /\ Sane(q) /\ Knows(q) /\ q.pc = "create" /\ order[q.o].st = "none"
      /\ \A p \in Reqs : req[p] \in Request /\ Sane(req[p]) /\ Knows(req[p])
  BY DEF MInv, IInv, TypeOK, CreateOrder, At
<1>1. q.op = "order" /\ q.o \in Orders /\ q.w = WalletOf[q.s]
  BY <1>q DEF Knows, AboutOrder, AboutSession, Sane
<1>2. /\ order' = [order EXCEPT ![q.o] = [st |-> "live", s |-> q.s, total |-> q.price]]
      /\ Goto(r, [q EXCEPT !.pc = "charge"])
      /\ UNCHANGED <<wallet, ledger, sale>>
  BY DEF CreateOrder
<1>3. OrdersKept /\ order'[q.o].st # "none" /\ order'[q.o].s = q.s
  BY <1>1, <1>2, <1>q DEF OrdersKept, MInv, IInv, TypeOK
<1>4. PICK local : local = [q EXCEPT !.pc = "charge"]
  OBVIOUS
<1>5. local.pc = "charge" /\ local.op = "order" /\ local.o = q.o /\ local.s = q.s /\ local.w = q.w
  BY <1>1, <1>4, <1>q DEF Request
<1>6. Knows(local)'
  BY <1>1, <1>3, <1>5 DEF Knows, AboutOrder, AboutSession
<1>7. \A w \in Wallets : Named(ledger'[w], "deduction", local.o) = {}
  BY <1>1, <1>2, <1>5, <1>q DEF MInv, RowsNameOrders, Named
<1>8. \A p \in Reqs \ {r} : Charging(req[p]) => req[p].o # local.o
  BY <1>5, <1>q DEF Charging, Knows, AboutOrder
<1>9. /\ Older /\ RowsNameOrders' /\ RefundBacked' /\ Settled'
      /\ \A p \in Reqs : Charging(req[p]) =>
           \A w \in Wallets : Named(ledger'[w], "deduction", req[p].o) = {}
  BY <1>2, <1>3, RowsOn
<1>10. SalesAreCharged'
  BY <1>2, <1>3, <1>9, SalesOn
<1>11. req'[r] = local /\ \A p \in Reqs \ {r} : Alike(req'[p], req[p])
  BY <1>2, <1>4, GotoAlike
<1> QED  BY <1>3, <1>6, <1>7, <1>8, <1>9, <1>10, <1>11, MatchStep

\* A step of r that changes orders or sales and ends it.
LEMMA EndStep ==
  ASSUME MInv, IInv', NEW r \in Reqs, Goto(r, Idle), OrdersKept,
         wallet' = wallet, ledger' = ledger, SalesAreCharged'
  PROVE  MInv'
<1>1. /\ Older /\ RowsNameOrders' /\ RefundBacked' /\ Settled'
      /\ \A p \in Reqs : Charging(req[p]) =>
           \A w \in Wallets : Named(ledger'[w], "deduction", req[p].o) = {}
  BY RowsOn
<1>2. PICK idle : idle = Idle
  OBVIOUS
<1>3. Knows(idle)' /\ ~Charging(idle)
  BY <1>2 DEF Idle, Knows, AboutOrder, AboutSession, Charging
<1>4. req'[r] = idle /\ \A p \in Reqs \ {r} : Alike(req'[p], req[p])
  BY <1>2, GotoAlike
<1> QED  BY <1>1, <1>3, <1>4, MatchStep

\* The Sale is written after the deduction it tells of.
LEMMA RecordMatch ==
  ASSUME MInv, IInv', NEW r \in Reqs, RecordOrder(r) \/ RecordBatch(r)
  PROVE  MInv'
<1> DEFINE q == req[r]
<1>q. q \in Request /\ Sane(q) /\ Knows(q) /\ q.pc = "record" /\ q.s \in Sessions /\ q.w = WalletOf[q.s]
  BY DEF MInv, IInv, TypeOK, RecordOrder, RecordBatch, At, Sane, Knows, AboutSession
<1>1. Goto(r, Idle) /\ UNCHANGED <<wallet, ledger>>
  BY DEF RecordOrder, RecordBatch
\* The deduction of a request that was paid from the wallet.
<1>2. q.paid = "wallet" /\ wallet[WalletOf[q.s]] # "removed" =>
        \E i \in DOMAIN ledger[WalletOf[q.s]] :
           /\ ledger[WalletOf[q.s]][i].type = "deduction"
           /\ ledger[WalletOf[q.s]][i].session = q.s
           /\ ledger[WalletOf[q.s]][i].order = q.o
  BY <1>q DEF Knows, AboutSession, Kept, Deducted
<1>3. CASE RecordOrder(r)
  <2>1. /\ q.op = "order" /\ q.o \in Orders /\ order[q.o].st # "none" /\ order[q.o].s = q.s
        /\ sale' = [sale EXCEPT ![q.o] = q.paid] /\ order' = order /\ sale \in [Orders -> {"none", "cash", "wallet"}]
    BY <1>3, <1>q DEF RecordOrder, Sane, Knows, AboutOrder, MInv, IInv, TypeOK
  <2>2. SalesAreCharged'
    <3> SUFFICES ASSUME NEW o \in Orders
                 PROVE  /\ sale'[o] # "none" => order[o].st # "none"
                        /\ sale'[o] = "wallet" /\ wallet[WalletOf[order[o].s]] # "removed" =>
                             \E i \in DOMAIN ledger[WalletOf[order[o].s]] :
                               /\ ledger[WalletOf[order[o].s]][i].type = "deduction"
                               /\ ledger[WalletOf[order[o].s]][i].session = order[o].s
                               /\ ledger[WalletOf[order[o].s]][i].order \in {o, NoOrder}
      BY <1>1, <2>1 DEF SalesAreCharged, SessionDeductions, Kept
    <3>1. CASE o = q.o
      BY <1>2, <2>1, <3>1
    <3>2. CASE o # q.o
      BY <2>1, <3>2 DEF MInv, SalesAreCharged, SessionDeductions, Kept
    <3> QED  BY <3>1, <3>2
  <2>3. OrdersKept
    BY <2>1 DEF OrdersKept
  <2> QED  BY <1>1, <2>2, <2>3, EndStep
<1>4. CASE RecordBatch(r)
  <2>1. /\ q.op = "batch" /\ q.o = NoOrder
        /\ \A o \in q.lines : order[o].st = "none"
        /\ \A o \in Orders : order'[o] = IF o \in q.lines THEN [st |-> "live", s |-> q.s, total |-> q.price]
                                                          ELSE order[o]
        /\ \A o \in Orders : sale'[o] = IF o \in q.lines THEN q.paid ELSE sale[o]
    BY <1>4, <1>q DEF RecordBatch, Knows, AboutOrder
  <2>2. SalesAreCharged'
    <3> SUFFICES ASSUME NEW o \in Orders
                 PROVE  /\ sale'[o] # "none" => order'[o].st # "none"
                        /\ sale'[o] = "wallet" /\ wallet[WalletOf[order'[o].s]] # "removed" =>
                             \E i \in DOMAIN ledger[WalletOf[order'[o].s]] :
                               /\ ledger[WalletOf[order'[o].s]][i].type = "deduction"
                               /\ ledger[WalletOf[order'[o].s]][i].session = order'[o].s
                               /\ ledger[WalletOf[order'[o].s]][i].order \in {o, NoOrder}
      BY <1>1 DEF SalesAreCharged, SessionDeductions, Kept
    <3>1. CASE o \in q.lines
      BY SMTT(30), <1>2, <2>1, <3>1
    <3>2. CASE o \notin q.lines
      BY <2>1, <3>2 DEF MInv, SalesAreCharged, SessionDeductions, Kept
    <3> QED  BY <3>1, <3>2
  <2>3. OrdersKept
    BY <2>1 DEF OrdersKept
  <2> QED  BY <1>1, <2>2, <2>3, EndStep
<1> QED  BY <1>3, <1>4

\* The deduction of a charge, which may be the first of its order.
LEMMA DeductMatch ==
  ASSUME MInv, IInv', NEW r \in Reqs, Deduct(r)
  PROVE  MInv'
<1> DEFINE q == req[r]
           after == q.seen - q.amt
           t == DeductionRow(q.amt, q.seen, after, q.s, q.o)
<1>q. /\ q \in Request /\ Sane(q) /\ Knows(q) /\ q.pc = "deduct"
      /\ \A p \in Reqs : req[p] \in Request /\ Sane(req[p]) /\ Knows(req[p])
  BY DEF MInv, IInv, TypeOK, Deduct, At
<1>1. /\ q.w \in Wallets /\ q.s \in Sessions /\ q.w = WalletOf[q.s]
      /\ (q.op = "order" => q.o \in Orders /\ order[q.o].st # "none" /\ order[q.o].s = q.s)
      /\ (q.op # "order" => q.o = NoOrder)
  BY <1>q DEF Sane, Knows, AboutOrder, AboutSession
<1>2. /\ ledger' = [ledger EXCEPT ![q.w] = Append(@, t)] /\ wallet[q.w] = "live"
      /\ Commit(r, q.w, [q EXCEPT !.pc = "record", !.paid = "wallet", !.seen = 0, !.overtaken = FALSE])
      /\ UNCHANGED <<wallet, order, sale>>
  BY DEF Deduct, Writable
<1>3. t \in Row /\ t.type = "deduction" /\ t.session = q.s /\ t.order = q.o /\ t.amount = q.amt
  <2>1. q.amt \in Nat /\ q.seen \in Int /\ after \in Int
    BY <1>q DEF Request
  <2>2. q.s \in Sessions \cup {NoSession} /\ q.o \in Orders \cup {NoOrder}
    BY <1>q DEF Request
  <2>3. t.type = "deduction" /\ t.session = q.s /\ t.order = q.o /\ t.amount = q.amt
    BY DEF DeductionRow
  <2> HIDE DEF after
  <2>4. t \in Row
    BY <2>1, <2>2, RowType
  <2> QED  BY <2>3, <2>4
<1> HIDE DEF t, after
<1>4. OrdersKept /\ InOrder(q.w, t)
  BY <1>1, <1>2, <1>3, NullAssumption DEF OrdersKept, InOrder
<1>5. OnceCharged(Append(ledger[q.w], t))
  <2>1. ledger[q.w] \in Seq(Row)
    BY <1>1 DEF MInv, IInv, TypeOK
  <2>2. t.order \in Orders => Named(ledger[q.w], "deduction", t.order) = {}
    BY <1>1, <1>3, <1>q, NothingNamed, NullAssumption DEF Charging
  <2> QED  BY <1>1, <1>3, <2>1, <2>2, OnceOf, OnceCharges
<1>6. \A p \in Reqs \ {r} : Charging(req[p]) => req[p].o # t.order
  <2>1. \A p \in Reqs : Charging(req[p]) => req[p].o \in Orders
    BY <1>q DEF Charging, Sane
  <2> QED  BY <1>1, <1>3, <1>q, <2>1, NullAssumption DEF MInv, FirstCharge, Charging
<1>7. PICK local : local = [q EXCEPT !.pc = "record", !.paid = "wallet", !.seen = 0, !.overtaken = FALSE]
  OBVIOUS
<1>8. /\ local.pc = "record" /\ local.op = q.op /\ local.o = q.o /\ local.s = q.s /\ local.w = q.w
      /\ local.amt = q.amt
  BY <1>7, <1>q DEF Request
<1>9. ASSUME Older
      PROVE  Knows(local)'
  <2>1. ledger[q.w] \in Seq(Row) /\ Len(ledger[q.w]) \in Nat
    BY <1>1, LenProperties DEF MInv, IInv, TypeOK
  <2>2. ledger'[q.w] = Append(ledger[q.w], t)
    BY <1>1, <1>2 DEF MInv, IInv, TypeOK
  <2>3. /\ Len(ledger[q.w]) + 1 \in DOMAIN Append(ledger[q.w], t)
        /\ Append(ledger[q.w], t)[Len(ledger[q.w]) + 1] = t
    BY <1>3, <2>1, AppendProperties
  <2>4. Deducted(local.w, local.s, local.amt, local.o)'
    BY <1>3, <1>8, <2>2, <2>3 DEF Deducted
  <2> QED  BY <1>1, <1>2, <1>8, <2>4 DEF Knows, AboutOrder, AboutSession
<1>10. ~Charging(local)
  BY <1>8 DEF Charging
<1>11. Older => SalesAreCharged'
  BY <1>2, <1>4, SalesOn
<1>12. Commit(r, q.w, local)
  BY <1>2, <1>7
<1> HIDE DEF q
<1>13. q.w \in Wallets /\ wallet[q.w] = "live" /\ wallet' = wallet
  BY <1>1, <1>2
<1>14. ledger' = [ledger EXCEPT ![q.w] = Append(@, t)] /\ t \in Row
  BY <1>2, <1>3
<1> QED  BY <1>4, <1>5, <1>6, <1>9, <1>10, <1>11, <1>12, <1>13, <1>14, RowStep

\* Every step of a charge.
LEMMA ChargeMatch ==
  ASSUME MInv, IInv', NEW r \in Reqs, Charge(r)
  PROVE  MInv'
BY ChargeQuiet, CreateOrderMatch, DeductMatch, RecordMatch DEF Charge

\* The row that findFirst returned is of this session, and stays.
LEMMA FoundDeduction ==
  ASSUME MInv, NEW q, AboutOrder(q), NEW w \in Wallets, NEW i \in DeductionsOf(w, q.o),
         q.o \in Orders, q.pc \in {"edit", "remove"}
  PROVE  Deducted(w, q.s, ledger[w][i].amount, q.o)
BY DEF MInv, RowsNameOrders, AboutOrder, DeductionsOf, Deducted

\* An edit or a removal that only reads.
LEMMA OrderQuiet ==
  ASSUME MInv, IInv', NEW r \in Reqs,
         \/ \E o \in Orders, a \in Prices : StartEdit(r, o, a)
         \/ \E o \in Orders : StartRemove(r, o)
         \/ EditFind(r) \/ RemoveFind(r)
  PROVE  MInv'
<1> DEFINE q == req[r]
<1>q. q \in Request /\ Sane(q) /\ Knows(q)
  BY DEF MInv, IInv, TypeOK
<1>1. ASSUME NEW o \in Orders, NEW a \in Prices, StartEdit(r, o, a)
      PROVE  MInv'
  <2> DEFINE local == [Idle EXCEPT !.pc = "edit", !.w = WalletOf[order[o].s],
                            !.s = order[o].s, !.o = o, !.amt = a]
  <2>1. Goto(r, local) /\ order[o].st = "live" /\ UNCHANGED <<wallet, ledger, order, sale>>
    BY <1>1 DEF StartEdit
  <2>2. Knows(local) /\ ~Charging(local)
    BY <2>1 DEF Idle, Knows, AboutOrder, AboutSession, Charging
  <2> HIDE DEF local
  <2> QED  BY <2>1, <2>2, QuietStep
<1>2. ASSUME NEW o \in Orders, StartRemove(r, o)
      PROVE  MInv'
  <2> DEFINE local == [Idle EXCEPT !.pc = "remove", !.w = WalletOf[order[o].s],
                            !.s = order[o].s, !.o = o]
  <2>1. Goto(r, local) /\ order[o].st = "live" /\ UNCHANGED <<wallet, ledger, order, sale>>
    BY <1>2 DEF StartRemove
  <2>2. Knows(local) /\ ~Charging(local)
    BY <2>1 DEF Idle, Knows, AboutOrder, AboutSession, Charging
  <2> HIDE DEF local
  <2> QED  BY <2>1, <2>2, QuietStep
<1>3. ASSUME EditFind(r) \/ RemoveFind(r)
      PROVE  MInv'
  <2>1. PICK pc \in {"adjust", "removeTx"}, i \in DeductionsOf(q.w, q.o) :
          Goto(r, [q EXCEPT !.pc = pc, !.back = ledger[q.w][i].amount, !.seen = balance[q.w]])
    BY <1>3 DEF EditFind, RemoveFind
  <2>2. q.pc \in {"edit", "remove"} /\ UNCHANGED <<wallet, ledger, order, sale>>
    BY <1>3 DEF EditFind, RemoveFind, At
  <2>3. q.o \in Orders /\ q.w \in Wallets
    BY <1>q, <2>2 DEF Sane
  <2> DEFINE back == ledger[q.w][i].amount
             local == [q EXCEPT !.pc = pc, !.back = back, !.seen = balance[q.w]]
  <2>4. Deducted(q.w, q.s, back, q.o)
    BY <1>q, <2>2, <2>3, FoundDeduction DEF Knows
  <2> HIDE DEF back
  <2>5. Knows(local) /\ ~Charging(local)
    BY <1>q, <2>2, <2>4 DEF Request, Knows, AboutOrder, AboutSession, Charging
  <2>6. Goto(r, local)
    BY <2>1 DEF back
  <2> HIDE DEF local
  <2> QED  BY <2>2, <2>5, <2>6, QuietStep
<1> QED  BY <1>1, <1>2, <1>3

\* An order that is charged anew, or removed, is still of its session.
LEMMA OrderWritten ==
  ASSUME MInv, NEW o \in Orders, order[o].st = "live",
         \/ \E a : order' = [order EXCEPT ![o].total = a]
         \/ order' = [order EXCEPT ![o].st = "gone"]
  PROVE  OrdersKept
<1>1. order \in [Orders -> OrderRow] /\ order[o] \in [st: {"live", "gone"}, s: Sessions, total: Nat]
  BY DEF MInv, IInv, TypeOK, OrderRow, Unplaced
<1>2. ASSUME NEW a
      PROVE  [order[o] EXCEPT !.total = a].st = "live" /\ [order[o] EXCEPT !.total = a].s = order[o].s
  <2>1. PICK row \in [st: {"live", "gone"}, s: Sessions, total: Nat] : row = order[o] /\ row.st = "live"
    BY <1>1
  <2>2. [row EXCEPT !.total = a].st = "live" /\ [row EXCEPT !.total = a].s = row.s
    BY <2>1
  <2> QED  BY <2>1, <2>2
<1>3. [order[o] EXCEPT !.st = "gone"].st = "gone" /\ [order[o] EXCEPT !.st = "gone"].s = order[o].s
  BY <1>1
<1>4. \/ \E a : order'[o] = [order[o] EXCEPT !.total = a]
      \/ order'[o] = [order[o] EXCEPT !.st = "gone"]
  <2>1. CASE \E a : order' = [order EXCEPT ![o].total = a]
    BY <1>1, <2>1
  <2>2. CASE order' = [order EXCEPT ![o].st = "gone"]
    BY <1>1, <2>2
  <2> QED  BY <2>1, <2>2
<1>5. \A p \in Orders \ {o} : order'[p] = order[p]
  BY <1>1
<1>6. order'[o].st # "none" /\ order'[o].s = order[o].s
  <2>1. CASE \E a : order'[o] = [order[o] EXCEPT !.total = a]
    <3>1. PICK a : order'[o] = [order[o] EXCEPT !.total = a]
      BY <2>1
    <3>2. PICK row : row = [order[o] EXCEPT !.total = a]
      OBVIOUS
    <3>3. row.st = "live" /\ row.s = order[o].s
      BY <1>2, <3>2
    <3> QED  BY <3>1, <3>2, <3>3
  <2>2. CASE order'[o] = [order[o] EXCEPT !.st = "gone"]
    <3>1. PICK row : row = [order[o] EXCEPT !.st = "gone"]
      OBVIOUS
    <3>2. row.st = "gone" /\ row.s = order[o].s
      BY <1>3, <3>1
    <3> QED  BY <2>2, <3>1, <3>2
  <2> QED  BY <1>4, <2>1, <2>2
<1> QED  BY <1>5, <1>6 DEF OrdersKept

\* An edit or a removal of an order that was not charged.
LEMMA OrderEnds ==
  ASSUME MInv, IInv', NEW r \in Reqs, EditCash(r) \/ RemoveUnpaid(r)
  PROVE  MInv'
<1>1. req[r].o \in Orders
  BY DEF EditCash, RemoveUnpaid, At, MInv, IInv, Sane
<1>2. Goto(r, Idle) /\ UNCHANGED <<wallet, ledger, sale>>
  BY DEF EditCash, RemoveUnpaid
<1>3. OrdersKept
  <2>1. order' = [order EXCEPT ![req[r].o].total = req[r].amt] \/ order' = [order EXCEPT ![req[r].o].st = "gone"]
    BY DEF EditCash, RemoveUnpaid
  <2>2. order[req[r].o].st = "live"
    BY DEF EditCash, RemoveUnpaid
  <2> QED  BY <1>1, <2>1, <2>2, OrderWritten
<1>4. Older
  BY <1>2 DEF Older
<1> QED  BY <1>2, <1>3, <1>4, SalesOn, EndStep

\* What a request at its refund knows: the deduction is there, and nobody else charges the order.
LEMMA RefundKnows ==
  ASSUME MInv, NEW r \in Reqs, req[r].pc \in {"adjust", "removeTx"}, wallet[req[r].w] = "live"
  PROVE  /\ req[r].o \in Orders /\ req[r].w \in Wallets
         /\ order[req[r].o].st # "none" /\ order[req[r].o].s = req[r].s
         /\ Deducted(req[r].w, req[r].s, req[r].back, req[r].o)
         /\ \A p \in Reqs : Charging(req[p]) => req[p].o # req[r].o
<1> DEFINE q == req[r]
<1>1. q.o \in Orders /\ q.w \in Wallets
  BY DEF MInv, IInv, Sane
<1>2. order[q.o].st # "none" /\ order[q.o].s = q.s /\ Deducted(q.w, q.s, q.back, q.o)
  BY DEF MInv, Knows, AboutOrder, Kept
<1>3. DeductionsOf(q.w, q.o) # {}
  BY <1>2 DEF Deducted, DeductionsOf
<1>4. \A p \in Reqs : Charging(req[p]) => req[p].o # q.o
  BY <1>1, <1>3 DEF MInv, FirstCharge
<1> QED  BY <1>1, <1>2, <1>4

\* A step of r that appends rows and ends it.
LEMMA RowsStep ==
  ASSUME MInv, IInv', NEW r \in Reqs, NEW w \in Wallets, NEW new \in Seq(Row), wallet[w] = "live",
         Commit(r, w, Idle), wallet' = wallet, ledger' = [ledger EXCEPT ![w] = @ \o new],
         OrdersKept, sale' = sale,
         \A k \in DOMAIN new : InOrder(w, new[k]), OnceCharged(ledger[w] \o new),
         \A p \in Reqs : Charging(req[p]) =>
            \A k \in DOMAIN new : new[k].type = "deduction" => new[k].order # req[p].o
  PROVE  MInv'
<1>1. Older /\ RowsNameOrders' /\ RefundBacked' /\ Settled'
  BY LedgerStep
<1>2. SalesAreCharged'
  BY <1>1, SalesOn
<1>3. \A p \in Reqs : Charging(req[p]) => \A v \in Wallets : Named(ledger'[v], "deduction", req[p].o) = {}
  BY OthersUnnamed
<1>4. PICK idle : idle = Idle
  OBVIOUS
<1>5. Knows(idle)' /\ ~Charging(idle)
  BY <1>4 DEF Idle, Knows, AboutOrder, AboutSession, Charging
<1>6. req'[r] = idle /\ \A p \in Reqs \ {r} : Alike(req'[p], req[p])
  BY <1>4, CommitAlike
<1> QED  BY <1>1, <1>2, <1>3, <1>5, <1>6, MatchStep

\* Appending two rows at once is appending them one after the other.
LEMMA TwoRows ==
  ASSUME NEW l \in Seq(Row), NEW t \in Row, NEW u \in Row
  PROVE  /\ <<t, u>> \in Seq(Row) /\ \A k \in DOMAIN <<t, u>> : <<t, u>>[k] \in {t, u}
         /\ l \o <<t, u>> = Append(Append(l, t), u)
<1>1. <<t, u>> \in Seq(Row) /\ <<t>> \in Seq(Row) /\ <<u>> \in Seq(Row) /\ <<t>> \o <<u>> = <<t, u>>
  <2>1. <<t, u>> \in Seq(Row)
    OBVIOUS
  <2>2. <<t>> \in Seq(Row) /\ <<u>> \in Seq(Row)
    OBVIOUS
  <2>3. Append(<<t>>, u) = <<t, u>>
    <3>1. Len(<<t, u>>) = 2 /\ <<t, u>>[1] = t /\ <<t, u>>[2] = u /\ Len(<<t>>) = 1 /\ <<t>>[1] = t
      OBVIOUS
    <3>2. PICK a \in Seq(Row) : a = <<t>>
      BY <2>2
    <3>3. PICK b \in Seq(Row) : b = <<t, u>>
      BY <2>1
    <3>4. /\ Append(a, u) \in Seq(Row) /\ Len(Append(a, u)) = Len(a) + 1
          /\ (\A i \in 1 .. Len(a) : Append(a, u)[i] = a[i]) /\ Append(a, u)[Len(a) + 1] = u
      BY AppendProperties
    <3>5. PICK c \in Seq(Row) : c = Append(a, u)
      BY <3>4
    <3>6. Len(c) = 2 /\ c[1] = t /\ c[2] = u
      BY <3>1, <3>2, <3>4, <3>5
    <3>7. Len(b) = 2 /\ b[1] = t /\ b[2] = u
      BY <3>1, <3>3
    <3>8. c = b
      <4>1. Len(c) = Len(b) /\ \A i \in 1 .. Len(c) : c[i] = b[i]
        BY <3>6, <3>7
      <4> QED  BY <4>1, SeqEqual
    <3> QED  BY <3>2, <3>3, <3>5, <3>8
  <2>4. Append(<<t>>, u) = <<t>> \o <<u>>
    BY <2>2, AppendIsConcat
  <2> QED  BY <2>1, <2>2, <2>3, <2>4
<1>2. \A k \in DOMAIN <<t, u>> : <<t, u>>[k] \in {t, u}
  <2>1. Len(<<t, u>>) = 2 /\ <<t, u>>[1] = t /\ <<t, u>>[2] = u
    OBVIOUS
  <2>2. PICK pair \in Seq(Row) : pair = <<t, u>>
    BY <1>1
  <2>3. Len(pair) = 2 /\ pair[1] = t /\ pair[2] = u
    BY <2>1, <2>2
  <2>4. DOMAIN pair = 1..2
    BY <2>2, <2>3, LenProperties
  <2>5. \A k \in DOMAIN pair : pair[k] \in {t, u}
    BY <2>3, <2>4
  <2> QED  BY <2>2, <2>5
<1>3. Append(l, t) = l \o <<t>> /\ Append(l, t) \in Seq(Row)
  BY AppendIsConcat, AppendProperties
<1>4. Append(Append(l, t), u) = (l \o <<t>>) \o <<u>>
  BY <1>3, AppendIsConcat
<1>5. (l \o <<t>>) \o <<u>> = l \o (<<t>> \o <<u>>)
  BY <1>1, ConcatAssociative
<1> QED  BY <1>1, <1>2, <1>4, <1>5

\* The same for one row.
LEMMA OneRow ==
  ASSUME NEW l \in Seq(Row), NEW t \in Row
  PROVE  <<t>> \in Seq(Row) /\ (\A k \in DOMAIN <<t>> : <<t>>[k] = t) /\ l \o <<t>> = Append(l, t)
<1>1. <<t>> \in Seq(Row) /\ \A k \in DOMAIN <<t>> : <<t>>[k] = t
  OBVIOUS
<1> QED  BY <1>1, AppendIsConcat

\* The refund of an order, by a request that knows its deduction.
LEMMA RefundInOrder ==
  ASSUME MInv, NEW r \in Reqs, req[r].pc \in {"adjust", "removeTx"}, wallet[req[r].w] = "live",
         NEW after \in Int
  PROVE  LET t == TopupRow(req[r].back, req[r].seen, after, req[r].s, req[r].o)
         IN  /\ t \in Row /\ t.type = "topup" /\ t.order = req[r].o /\ t.session = req[r].s
             /\ InOrder(req[r].w, t) /\ RefundOf(ledger[req[r].w], t)
<1> DEFINE q == req[r]
           t == TopupRow(q.back, q.seen, after, q.s, q.o)
<1>1. t.type = "topup" /\ t.order = q.o /\ t.session = q.s /\ t.amount = q.back
  BY DEF TopupRow
<1>2. t \in Row
  <2>1. q.back \in Nat /\ q.seen \in Int /\ q.s \in Sessions \cup {NoSession} /\ q.o \in Orders \cup {NoOrder}
    BY DEF MInv, IInv, TypeOK, Request
  <2> QED  BY <2>1, RowType
<1> HIDE DEF t
<1>3. InOrder(q.w, t) /\ RefundOf(ledger[q.w], t)
  <2>1. /\ q.o \in Orders /\ order[q.o].st # "none" /\ order[q.o].s = q.s
        /\ Deducted(q.w, q.s, q.back, q.o)
    BY RefundKnows
  <2> QED  BY <1>1, <2>1 DEF InOrder, Deducted, Backs, RefundOf, Named
<1> QED  BY <1>1, <1>2, <1>3 DEF t

\* An edit refunds the old charge and charges the new one.
LEMMA EditCommitMatch ==
  ASSUME MInv, IInv', NEW r \in Reqs, EditCommit(r)
  PROVE  MInv'
<1> DEFINE q == req[r]
           refunded == q.seen + q.back
           charged == refunded - q.amt
           t == TopupRow(q.back, q.seen, refunded, q.s, q.o)
           u == DeductionRow(q.amt, refunded, charged, q.s, q.o)
<1>1. /\ q.pc = "adjust" /\ wallet[q.w] = "live" /\ Commit(r, q.w, Idle) /\ UNCHANGED <<wallet, sale>>
      /\ order[q.o].st = "live" /\ order' = [order EXCEPT ![q.o].total = q.amt]
      /\ \/ ledger' = [ledger EXCEPT ![q.w] = @ \o <<t, u>>]
         \/ ledger' = [ledger EXCEPT ![q.w] = Append(@, t)]
  BY DEF EditCommit, At, Writable
<1>2. /\ q.back \in Nat /\ q.seen \in Int /\ q.amt \in Nat /\ refunded \in Int /\ charged \in Int
      /\ q.s \in Sessions \cup {NoSession} /\ q.o \in Orders \cup {NoOrder}
  BY DEF MInv, IInv, TypeOK, Request
<1>3. /\ q.o \in Orders /\ q.w \in Wallets /\ order[q.o].st # "none" /\ order[q.o].s = q.s
      /\ \A p \in Reqs : Charging(req[p]) => req[p].o # q.o
  BY <1>1, RefundKnows
<1>4. OrdersKept
  BY <1>1, <1>3, OrderWritten
<1>5. u.type = "deduction" /\ u.order = q.o /\ u.session = q.s
  BY DEF DeductionRow
<1> HIDE DEF refunded, charged
<1>6. /\ t \in Row /\ t.type = "topup" /\ t.order = q.o /\ t.session = q.s
      /\ InOrder(q.w, t) /\ RefundOf(ledger[q.w], t)
  BY <1>1, <1>2, RefundInOrder
<1>7. u \in Row
  BY <1>2, RowType
<1>8. InOrder(q.w, u)
  BY <1>3, <1>5 DEF InOrder
<1>9. ledger[q.w] \in Seq(Row) /\ OnceCharged(ledger[q.w])
  BY <1>3, OnceOf DEF MInv, IInv, TypeOK
<1> HIDE DEF t, u
<1>10. CASE ledger' = [ledger EXCEPT ![q.w] = @ \o <<t, u>>]
  <2>0. /\ <<t, u>> \in Seq(Row) /\ \A k \in DOMAIN <<t, u>> : <<t, u>>[k] \in {t, u}
        /\ ledger[q.w] \o <<t, u>> = Append(Append(ledger[q.w], t), u)
    <3>1. t \in Row /\ u \in Row /\ ledger[q.w] \in Seq(Row)
      BY <1>6, <1>7, <1>9
    <3> HIDE DEF q
    <3> QED  BY <3>1, TwoRows
  <2>1. PICK new : new = <<t, u>>
    OBVIOUS
  <2>2. /\ new \in Seq(Row) /\ \A k \in DOMAIN new : new[k] \in {t, u}
        /\ ledger[q.w] \o new = Append(Append(ledger[q.w], t), u)
    BY <2>0, <2>1
  <2>3. OnceCharged(ledger[q.w] \o new)
    BY <1>5, <1>6, <1>7, <1>9, <2>2, OnceAdjusted
  <2>4. \A k \in DOMAIN new : InOrder(q.w, new[k]) /\ new[k].order = q.o
    BY <1>5, <1>6, <1>8, <2>2
  <2>5. ledger' = [ledger EXCEPT ![q.w] = @ \o new]
    BY <1>10, <2>1
  <2>6. \A p \in Reqs : Charging(req[p]) =>
           \A k \in DOMAIN new : new[k].type = "deduction" => new[k].order # req[p].o
    BY <1>3, <2>4
  <2>7. \A k \in DOMAIN new : InOrder(q.w, new[k])
    BY <2>4
  <2> HIDE DEF q
  <2> QED  BY <1>1, <1>3, <1>4, <2>2, <2>3, <2>5, <2>6, <2>7, RowsStep
<1>11. CASE ledger' = [ledger EXCEPT ![q.w] = Append(@, t)]
  <2>1. PICK new : new = <<t>>
    OBVIOUS
  <2>2. /\ new \in Seq(Row) /\ \A k \in DOMAIN new : new[k] = t
        /\ ledger[q.w] \o new = Append(ledger[q.w], t)
    BY <1>6, <1>9, <2>1, OneRow
  <2>3. OnceCharged(ledger[q.w] \o new)
    BY <1>6, <1>9, <2>2, OnceRefunded
  <2>4. \A k \in DOMAIN new : InOrder(q.w, new[k]) /\ new[k].order = q.o
    BY <1>6, <2>2
  <2>5. ledger' = [ledger EXCEPT ![q.w] = @ \o new]
    BY <1>11, <2>2
  <2>6. \A p \in Reqs : Charging(req[p]) =>
           \A k \in DOMAIN new : new[k].type = "deduction" => new[k].order # req[p].o
    BY <1>3, <2>4
  <2>7. \A k \in DOMAIN new : InOrder(q.w, new[k])
    BY <2>4
  <2> HIDE DEF q
  <2> QED  BY <1>1, <1>3, <1>4, <2>2, <2>3, <2>5, <2>6, <2>7, RowsStep
<1> QED  BY <1>1, <1>10, <1>11

\* A removal refunds the charge of its order.
LEMMA RemoveCommitMatch ==
  ASSUME MInv, IInv', NEW r \in Reqs, RemoveCommit(r)
  PROVE  MInv'
<1> DEFINE q == req[r]
           after == q.seen + q.back
           t == TopupRow(q.back, q.seen, after, q.s, q.o)
<1>1. /\ q.pc = "removeTx" /\ wallet[q.w] = "live" /\ Commit(r, q.w, Idle) /\ UNCHANGED <<wallet, sale>>
      /\ order[q.o].st = "live" /\ order' = [order EXCEPT ![q.o].st = "gone"]
      /\ ledger' = [ledger EXCEPT ![q.w] = Append(@, t)]
  BY DEF RemoveCommit, At, Writable
<1>2. after \in Int
  BY DEF MInv, IInv, TypeOK, Request
<1>3. q.o \in Orders /\ q.w \in Wallets /\ \A p \in Reqs : Charging(req[p]) => req[p].o # q.o
  BY <1>1, RefundKnows
<1>4. OrdersKept
  BY <1>1, <1>3, OrderWritten
<1> HIDE DEF after
<1>6. t \in Row /\ t.type = "topup" /\ t.order = q.o /\ InOrder(q.w, t) /\ RefundOf(ledger[q.w], t)
  BY <1>1, <1>2, RefundInOrder
<1>9. ledger[q.w] \in Seq(Row) /\ OnceCharged(ledger[q.w])
  BY <1>3, OnceOf DEF MInv, IInv, TypeOK
<1> HIDE DEF t
<1>10. PICK new : new = <<t>>
  OBVIOUS
<1>11. /\ new \in Seq(Row) /\ \A k \in DOMAIN new : new[k] = t
       /\ ledger[q.w] \o new = Append(ledger[q.w], t)
  BY <1>6, <1>9, <1>10, OneRow
<1>12. OnceCharged(ledger[q.w] \o new)
  BY <1>6, <1>9, <1>11, OnceRefunded
<1>13. \A k \in DOMAIN new : InOrder(q.w, new[k]) /\ new[k].order = q.o
  BY <1>6, <1>11
<1>14. ledger' = [ledger EXCEPT ![q.w] = @ \o new]
  BY <1>1, <1>11
<1>15. \A p \in Reqs : Charging(req[p]) =>
          \A k \in DOMAIN new : new[k].type = "deduction" => new[k].order # req[p].o
  BY <1>3, <1>13
<1>16. \A k \in DOMAIN new : InOrder(q.w, new[k])
  BY <1>13
<1> HIDE DEF q
<1> QED  BY <1>1, <1>3, <1>4, <1>11, <1>12, <1>14, <1>15, <1>16, RowsStep

\* The deletion of a session, up to its commit.
LEMMA PurgeQuiet ==
  ASSUME MInv, IInv', NEW r \in Reqs,
         (\E s \in Sessions : StartPurge(r, s)) \/ PurgeList(r) \/ PurgeRead(r) \/ PurgeApply(r)
  PROVE  MInv'
<1> DEFINE q == req[r]
<1>q. q \in Request /\ Sane(q) /\ Knows(q)
  BY DEF MInv, IInv, TypeOK
<1>1. ASSUME NEW s \in Sessions, StartPurge(r, s)
      PROVE  MInv'
  <2> DEFINE local == [Idle EXCEPT !.pc = "purge", !.w = WalletOf[s], !.s = s]
  <2>1. Knows(local) /\ ~Charging(local)
    BY DEF Idle, Knows, AboutOrder, AboutSession, Charging
  <2>2. Goto(r, local) /\ UNCHANGED <<wallet, ledger, order, sale>>
    BY <1>1 DEF StartPurge
  <2> HIDE DEF local
  <2> QED  BY <2>1, <2>2, QuietStep
<1>2. CASE PurgeList(r)
  <2> DEFINE todo == {<<i, ledger[q.w][i].amount>> : i \in SessionDeductions(q.w, q.s)}
             local == [q EXCEPT !.pc = "purgeRead", !.todo = todo]
  <2>1. Goto(r, local) /\ q.pc = "purge" /\ UNCHANGED <<wallet, ledger, order, sale>>
    BY <1>2 DEF PurgeList, At
  <2>2. q.w \in Wallets /\ q.rows = <<>>
    BY <1>q, <2>1 DEF Sane
  <2>3. \A t \in todo : DeductedOnce(q.w, q.s, t[2])
    <3> SUFFICES ASSUME NEW i \in SessionDeductions(q.w, q.s)
                 PROVE  DeductedOnce(q.w, q.s, ledger[q.w][i].amount)
      OBVIOUS
    <3>1. ledger[q.w][i] \in Row
      BY <2>2, LenProperties, ElementOfSeq DEF SessionDeductions, MInv, IInv, TypeOK
    <3>2. ledger[q.w][i].order \in Orders \cup {NoOrder}
      BY <3>1 DEF Row
    <3> QED  BY <3>2 DEF SessionDeductions, DeductedOnce, Deducted
  <2> HIDE DEF todo
  <2>4. /\ local.pc = "purgeRead" /\ local.todo = todo /\ local.rows = <<>>
        /\ local.w = q.w /\ local.s = q.s
    BY <1>q, <2>2 DEF Request
  <2>5. local.w = WalletOf[local.s]
    BY <1>q, <2>1, <2>4 DEF Knows, AboutSession
  <2>6. Knows(local) /\ ~Charging(local)
    BY <2>3, <2>4, <2>5 DEF Knows, AboutOrder, AboutSession, Charging
  <2> HIDE DEF local
  <2> QED  BY <2>1, <2>6, QuietStep
<1>3. CASE PurgeRead(r)
  <2> DEFINE todo == IF wallet[q.w] = "live" THEN q.todo ELSE {}
             local == [q EXCEPT !.pc = "purgeApply", !.seen = balance[q.w], !.todo = todo]
  <2>1. Goto(r, local) /\ q.pc = "purgeRead" /\ UNCHANGED <<wallet, ledger, order, sale>>
    BY <1>3, <1>q DEF PurgeRead, At, Request
  <2>2. q.rows = <<>>
    BY <1>q, <2>1 DEF Sane
  <2>3. Kept(q.w) => \A t \in todo : DeductedOnce(q.w, q.s, t[2])
    BY <1>q, <2>1 DEF Knows, AboutSession
  <2> HIDE DEF todo
  <2>4. /\ local.pc = "purgeApply" /\ local.todo = todo /\ local.rows = <<>>
        /\ local.w = q.w /\ local.s = q.s
    BY <1>q, <2>2 DEF Request
  <2>5. local.w = WalletOf[local.s]
    BY <1>q, <2>1, <2>4 DEF Knows, AboutSession
  <2>6. Knows(local) /\ ~Charging(local)
    BY <2>3, <2>4, <2>5 DEF Knows, AboutOrder, AboutSession, Charging
  <2> HIDE DEF local
  <2> QED  BY <2>1, <2>6, QuietStep
<1>4. CASE PurgeApply(r)
  <2>1. PICK t \in q.todo :
          Goto(r, [q EXCEPT !.todo = @ \ {t}, !.seen = q.seen + t[2],
                            !.rows = Append(@, TopupRow(t[2], q.seen, q.seen + t[2], q.s, NoOrder))])
    BY <1>4 DEF PurgeApply
  <2>2. q.pc = "purgeApply" /\ wallet[q.w] = "live" /\ UNCHANGED <<wallet, ledger, order, sale>>
    BY <1>4 DEF PurgeApply, At, Writable
  <2> DEFINE seen == q.seen + t[2]
             row == TopupRow(t[2], q.seen, seen, q.s, NoOrder)
             local == [q EXCEPT !.todo = @ \ {t}, !.seen = seen, !.rows = Append(@, row)]
  <2>3. row.type = "topup" /\ row.session = q.s /\ row.order = NoOrder /\ row.amount = t[2]
    BY DEF TopupRow
  <2>4. Goto(r, local)
    BY <2>1
  <2>0. row \in Row
    <3>1. t[2] \in Nat /\ q.seen \in Int /\ q.s \in Sessions \cup {NoSession}
      BY <1>q DEF Request
    <3>2. seen \in Int
      BY <3>1
    <3> HIDE DEF seen
    <3> QED  BY <3>1, <3>2, RowType
  <2> HIDE DEF row, seen
  <2>5. /\ local.pc = q.pc /\ local.todo = q.todo \ {t} /\ local.rows = Append(q.rows, row)
        /\ local.w = q.w /\ local.s = q.s
    BY <1>q DEF Request
  <2>6. /\ \A u \in q.todo : DeductedOnce(q.w, q.s, u[2])
        /\ \A k \in DOMAIN q.rows :
             /\ q.rows[k].type = "topup" /\ q.rows[k].session = q.s /\ q.rows[k].order = NoOrder
             /\ DeductedOnce(q.w, q.s, q.rows[k].amount)
    BY <1>q, <2>2 DEF Knows, AboutSession, Kept
  <2>7. q.rows \in Seq(Row)
    BY <1>q DEF Request
  <2>8. \A k \in DOMAIN Append(q.rows, row) :
          \/ Append(q.rows, row)[k] = row
          \/ k \in DOMAIN q.rows /\ Append(q.rows, row)[k] = q.rows[k]
    <3>1. PICK l \in Seq(Row) : l = q.rows
      BY <2>7
    <3>2. /\ Append(l, row) \in Seq(Row) /\ Len(Append(l, row)) = Len(l) + 1
          /\ Append(l, row)[Len(l) + 1] = row
          /\ \A k \in 1..Len(l) : Append(l, row)[k] = l[k]
      BY <2>0, AppendProperties
    <3>3. /\ DOMAIN l = 1..Len(l) /\ Len(l) \in Nat
          /\ DOMAIN Append(l, row) = 1..(Len(l) + 1)
      BY <3>2, LenProperties
    <3>4. \A k \in DOMAIN Append(l, row) :
            \/ Append(l, row)[k] = row
            \/ k \in DOMAIN l /\ Append(l, row)[k] = l[k]
      <4> SUFFICES ASSUME NEW k \in 1..(Len(l) + 1)
                   PROVE  \/ Append(l, row)[k] = row
                          \/ k \in 1..Len(l) /\ Append(l, row)[k] = l[k]
        BY <3>3
      <4>1. k = Len(l) + 1 \/ k \in 1..Len(l)
        BY <3>3
      <4> QED  BY <3>2, <4>1
    <3> HIDE DEF q
    <3> QED  BY <3>1, <3>4
  <2>9. \A k \in DOMAIN Append(q.rows, row) :
             /\ Append(q.rows, row)[k].type = "topup" /\ Append(q.rows, row)[k].session = q.s
             /\ Append(q.rows, row)[k].order = NoOrder
             /\ DeductedOnce(q.w, q.s, Append(q.rows, row)[k].amount)
    BY <2>3, <2>6, <2>8
  <2>10. local.w = WalletOf[local.s]
    BY <1>q, <2>2, <2>5 DEF Knows, AboutSession
  <2>11. Knows(local) /\ ~Charging(local)
    BY <2>2, <2>5, <2>6, <2>9, <2>10 DEF Knows, AboutOrder, AboutSession, Charging
  <2> HIDE DEF local
  <2> QED  BY <2>2, <2>4, <2>11, QuietStep
<1> QED  BY <1>1, <1>2, <1>3, <1>4

\* The commit of a deletion writes the refunds it has collected.
LEMMA PurgeCommitMatch ==
  ASSUME MInv, IInv', NEW r \in Reqs, PurgeCommit(r)
  PROVE  MInv'
<1> DEFINE q == req[r]
<1>q. q \in Request /\ Sane(q) /\ Knows(q) /\ q.pc = "purgeApply" /\ q.w \in Wallets
  BY DEF MInv, IInv, TypeOK, PurgeCommit, At, Sane
<1>1. OrdersKept
  <2>1. \A o \in Orders : order'[o] = IF order[o].st = "live" /\ order[o].s = q.s
                                     THEN [order[o] EXCEPT !.st = "gone"] ELSE order[o]
    BY DEF PurgeCommit
  <2>2. ASSUME NEW o \in Orders, order[o].st = "live"
        PROVE  [order[o] EXCEPT !.st = "gone"].st = "gone" /\ [order[o] EXCEPT !.st = "gone"].s = order[o].s
    <3>1. order[o] \in [st: {"live", "gone"}, s: Sessions, total: Nat]
      BY <2>2 DEF MInv, IInv, TypeOK, OrderRow, Unplaced
    <3> QED  BY <3>1
  <2>3. ASSUME NEW o \in Orders, order[o].st # "none"
        PROVE  order'[o].st # "none" /\ order'[o].s = order[o].s
    <3>1. CASE order'[o] = order[o]
      BY <2>3, <3>1
    <3>2. CASE order'[o] = [order[o] EXCEPT !.st = "gone"] /\ order[o].st = "live"
      BY <2>2, <3>2
    <3> QED  BY <2>1, <3>1, <3>2
  <2> QED  BY <2>3 DEF OrdersKept
<1>2. UNCHANGED <<wallet, sale>>
  BY DEF PurgeCommit
<1>3. CASE Goto(r, Idle) /\ ledger' = ledger
  <2>1. Older
    BY <1>2, <1>3 DEF Older
  <2> QED  BY <1>1, <1>2, <1>3, <2>1, SalesOn, EndStep
<1>4. CASE q.rows # <<>> /\ ledger' = [ledger EXCEPT ![q.w] = @ \o q.rows] /\ Commit(r, q.w, Idle)
  <2>1. wallet[q.w] = "live" /\ q.rows \in Seq(Row)
    BY <1>4, <1>q DEF MInv, IInv, LockHeld, Request
  <2>2. \A k \in DOMAIN q.rows :
             /\ q.rows[k].type = "topup" /\ q.rows[k].session = q.s /\ q.rows[k].order = NoOrder
             /\ DeductedOnce(q.w, q.s, q.rows[k].amount)
    BY <1>q, <2>1 DEF Knows, AboutSession, Kept
  <2>3. ASSUME NEW k \in DOMAIN q.rows
        PROVE  InOrder(q.w, q.rows[k])
    BY <2>2, NullAssumption DEF InOrder, DeductedOnce, Deducted, Backs
  <2>4. OnceCharged(ledger[q.w] \o q.rows)
    <3>1. ledger[q.w] \in Seq(Row) /\ OnceCharged(ledger[q.w])
      BY <1>q, OnceOf DEF MInv, IInv, TypeOK
    <3> QED  BY <2>1, <2>2, <3>1, OnceUnnamed
  <2>5. \A p \in Reqs : Charging(req[p]) =>
           \A k \in DOMAIN q.rows : q.rows[k].type = "deduction" => q.rows[k].order # req[p].o
    BY <2>2
  <2>6. PICK new \in Seq(Row) : new = q.rows
    BY <2>1
  <2>7. /\ ledger' = [ledger EXCEPT ![q.w] = @ \o new]
        /\ \A k \in DOMAIN new : InOrder(q.w, new[k])
        /\ OnceCharged(ledger[q.w] \o new)
        /\ \A p \in Reqs : Charging(req[p]) =>
             \A k \in DOMAIN new : new[k].type = "deduction" => new[k].order # req[p].o
    BY <1>4, <2>3, <2>4, <2>5, <2>6
  <2>8. Commit(r, q.w, Idle) /\ q.w \in Wallets
    BY <1>4, <1>q
  <2> HIDE DEF q
  <2> QED  BY <1>1, <1>2, <2>1, <2>7, <2>8, RowsStep
<1> QED  BY <1>3, <1>4 DEF PurgeCommit

\* Every step.
LEMMA NextMatch == MInv /\ [Next]_vars => MInv'
<1> SUFFICES ASSUME MInv, [Next]_vars PROVE MInv'
  OBVIOUS
<1>0. IInv'
  BY NextInv DEF MInv
<1>1. CASE Administer
  BY <1>0, <1>1, AdministerMatch
<1>2. ASSUME NEW r \in Reqs, TopUp(r) PROVE MInv'
  BY <1>0, <1>2, TopUpMatch
<1>3. ASSUME NEW r \in Reqs, Charge(r) PROVE MInv'
  BY <1>0, <1>3, ChargeMatch
<1>4. ASSUME NEW r \in Reqs, EditOrder(r) PROVE MInv'
  BY <1>0, <1>4, OrderQuiet, OrderEnds, EditCommitMatch DEF EditOrder
<1>5. ASSUME NEW r \in Reqs, RemoveOrder(r) PROVE MInv'
  BY <1>0, <1>5, OrderQuiet, OrderEnds, RemoveCommitMatch DEF RemoveOrder
<1>6. ASSUME NEW r \in Reqs, DeleteSession(r) PROVE MInv'
  BY <1>0, <1>6, PurgeQuiet, PurgeCommitMatch DEF DeleteSession
<1>7. ASSUME NEW r \in Reqs, Abort(r) PROVE MInv'
  <2>1. Goto(r, Idle) /\ UNCHANGED <<wallet, ledger, order, sale>>
    BY <1>7 DEF Abort
  <2> QED  BY <1>0, <2>1, IdleKnows, QuietStep
<1>8. CASE UNCHANGED vars
  <2>1. wallet' = wallet /\ ledger' = ledger /\ order' = order /\ sale' = sale /\ req' = req
    BY <1>8 DEF vars
  <2>2. RowsNameOrders'
    BY <2>1 DEF MInv, RowsNameOrders
  <2>3. RefundBacked' /\ Settled'
    BY <2>1 DEF MInv, RefundBacked, Settled, ChargedAtMostOnce, FirstRefundExact, Kept, SessionDeductions, DeductionsOf, RefundsOf
  <2>4. SalesAreCharged'
    BY <2>1 DEF MInv, SalesAreCharged, Kept, SessionDeductions
  <2>5. \A r \in Reqs : Knows(req[r])'
    <3>1. ASSUME NEW r \in Reqs PROVE AboutOrder(req[r])'
      <4>1. AboutOrder(req[r])
        BY DEF MInv, Knows
      <4> QED  BY <2>1, <4>1 DEF AboutOrder, Kept, Deducted
    <3>2. ASSUME NEW r \in Reqs PROVE AboutSession(req[r])'
      <4>1. AboutSession(req[r])
        BY DEF MInv, Knows
      <4> QED  BY SMTT(30), <2>1, <4>1 DEF AboutSession, Kept, DeductedOnce, Deducted
    <3> QED  BY <3>1, <3>2 DEF Knows
  <2>6. FirstCharge'
    BY <2>1 DEF MInv, FirstCharge, Charging, DeductionsOf
  <2> QED  BY <1>0, <2>2, <2>3, <2>4, <2>5, <2>6 DEF MInv
<1> QED  BY <1>1, <1>2, <1>3, <1>4, <1>5, <1>6, <1>7, <1>8 DEF Next

\* The ledger and the orders tell the same story: every refund of a session and every Sale
\* paid from a wallet has a deduction behind it, every further charge of an order a refund,
\* and the first refund of an order is what it was charged, for any number of requests that
\* charge, edit, remove and delete at the same time, and die.
THEOREM LedgerMatchesOrders == Spec => []ChargesMatchOrders
<1>1. MInv => ChargesMatchOrders
  <2> SUFFICES ASSUME MInv PROVE WalletSaleIsCharged
    BY DEF MInv, Settled, ChargesMatchOrders
  <2> QED  BY DEF MInv, SalesAreCharged, WalletSaleIsCharged, Kept
<1> QED  BY <1>1, InitMatch, NextMatch, PTL DEF Spec
=============================================================================
