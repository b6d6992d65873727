--------------------------- MODULE BillingProofs ---------------------------
(***************************************************************************)
(* Proofs, for every set of sessions, subscriptions, debts and requests    *)
(* and every price, that undisturbed sessions are billed and owed once,    *)
(* and that an undisturbed subscription is paid or owed in full.           *)
(***************************************************************************)
EXTENDS Billing, TLAPS, FiniteSetTheorems

-----------------------------------------------------------------------------
(* The inductive invariant.                                                *)

\* A debt that is there is somebody's.
DebtsHaveOwners ==
    \A d \in Debts : IF debt[d].st = "none" THEN debt[d].of = NoOwner ELSE debt[d].of \in Owners

\* What a request that nobody overlapped knows of its session or debt is still so.
Knows(q) ==
    /\ q.pc \in {"order", "drop", "pay", "owe"} => session[q.on].st = "open"
    /\ q.pc \in {"pay", "owe", "edit"} => session[q.on].orders = q.orders
    /\ q.pc \in {"edit", "delete", "debt"} => session[q.on].st # "deleted"
    /\ q.pc = "edit" => session[q.on].pay = q.pay
    /\ q.pc = "delete" => Unpaid(q.on) = {}
    /\ q.pc = "debt" => /\ session[q.on].amount = q.amount
                        /\ session[q.on].st = "closed" /\ session[q.on].pay = "full_debt"
                        /\ q.on \notin disturbed => Unpaid(q.on) = {}
    /\ q.pc \in {"collect", "sync"} => debt[q.d].st = "unpaid" /\ debt[q.d].amount = q.amount
    /\ q.pc = "sync" => sub[q.on].paid = q.paid

\* A request is about a session, or about a debt and its owner.
About(q) ==
    /\ q.pc \in {"order", "drop", "pay", "owe", "debt", "edit", "delete"} => q.on \in Sessions
    /\ q.pc \in {"collect", "sync"} => /\ q.d \in Debts /\ q.on \in Owners
                                      /\ debt[q.d].of = q.on /\ debt[q.d].st # "none"
    /\ q.pc = "sync" => q.on \in Subs

RequestsKnow == \A r \in Reqs : About(req[r]) /\ (~req[r].overlapped => Knows(req[r]))

\* The debt d is all that is not paid of session s, whatever of it was collected.
Covers(d, s) ==
    /\ debt[d].of = s
    /\ \/ debt[d].st = "deleted"
       \/ session[s].amount = debt[d].taken + (IF debt[d].st = "unpaid" THEN debt[d].amount ELSE 0)

Awaited(s) == \E r \in Reqs : At(r, "debt") /\ req[r].on = s

Billed(s) == session[s].st = "closed" => session[s].amount - session[s].orders \in Hours

OwedOnce(s) == \A d, e \in Unpaid(s) : d = e

OwedInFull(s) ==
    session[s].st = "closed" /\ session[s].pay = "full_debt" /\ session[s].amount > 0 =>
        (\E d \in Debts : Covers(d, s)) \/ Awaited(s)

OwesNothing(s) ==
    \/ session[s].st \in {"open", "deleted"}
    \/ session[s].st = "closed" /\ session[s].pay = "paid"
    => Unpaid(s) = {}

SessionInv(s) ==
    s \notin disturbed => Billed(s) /\ OwedOnce(s) /\ OwedInFull(s) /\ OwesNothing(s)

\* Nobody owes a subscription that is not there; one debt has what is left to pay.
SubInv(b) ==
    /\ sub[b].st = "none" => \A d \in Debts : debt[d].of # b
    /\ b \notin disturbed /\ sub[b].st = "live" =>
          \/ Unpaid(b) = {} /\ sub[b].paid = Fee
          \/ \E d \in Debts : Unpaid(b) = {d} /\ sub[b].paid + debt[d].amount = Fee

IInv ==
    /\ TypeOK /\ DebtsHaveOwners /\ RequestsKnow
    /\ \A s \in Sessions : SessionInv(s)
    /\ \A b \in Subs : SubInv(b)

-----------------------------------------------------------------------------
(* Types.                                                                  *)

LEMMA IdleType == Idle \in Request /\ About(Idle) /\ Idle.pc = "idle"
BY PricesAssumption DEF Idle, Request, Pays, About

LEMMA RequestType ==
  ASSUME IInv, NEW r \in Reqs
  PROVE  /\ req[r] \in Request /\ About(req[r])
         /\ ~req[r].overlapped => Knows(req[r])
BY DEF IInv, TypeOK, RequestsKnow

LEMMA SessionOrSub ==
  /\ \A s \in Sessions : s \in Owners /\ s \notin Subs /\ s # NoOwner
  /\ \A b \in Subs : b \in Owners /\ b \notin Sessions /\ b # NoOwner
BY NamesAssumption DEF Owners

\* What a request is when another one, or it itself, has gone on.
Same(y) == /\ req'[y].pc = req[y].pc /\ req'[y].on = req[y].on /\ req'[y].d = req[y].d
           /\ req'[y].orders = req[y].orders /\ req'[y].pay = req[y].pay
           /\ req'[y].amount = req[y].amount /\ req'[y].paid = req[y].paid

LEMMA GotoFacts ==
  ASSUME TypeOK, NEW r \in Reqs, NEW local \in Request, Goto(r, local)
  PROVE  /\ req' \in [Reqs -> Request] /\ req'[r] = local
         /\ \A y \in Reqs \ {r} : req'[y] = req[y]
BY DEF TypeOK, Goto

LEMMA OverlapType ==
  ASSUME NEW q \in Request, NEW b \in BOOLEAN
  PROVE  /\ [q EXCEPT !.overlapped = b] \in Request
         /\ LET n == [q EXCEPT !.overlapped = b]
            IN  /\ n.pc = q.pc /\ n.on = q.on /\ n.d = q.d /\ n.orders = q.orders
                /\ n.pay = q.pay /\ n.amount = q.amount /\ n.paid = q.paid /\ n.overlapped = b
BY DEF Request

\* The requests that are marked by a write of r to x.
Marked(r, x, y) == req[y].on = x /\ ~({req[r].pc, req[y].pc} \subseteq Ordered)

LEMMA WroteFacts ==
  ASSUME TypeOK, NEW r \in Reqs, NEW x, NEW local \in Request, Wrote(r, x, local)
  PROVE  /\ req' \in [Reqs -> Request] /\ req'[r] = local
         /\ \A y \in Reqs \ {r} : /\ Same(y)
                                  /\ req'[y].overlapped = (req[y].overlapped \/ Marked(r, x, y))
<1>1. req' = [y \in Reqs |-> IF y = r THEN local
                ELSE [req[y] EXCEPT !.overlapped = req[y].overlapped \/ Marked(r, x, y)]]
  BY DEF Wrote, Marked, TypeOK, Request
<1>2. \A y \in Reqs : req[y] \in Request /\ (req[y].overlapped \/ Marked(r, x, y)) \in BOOLEAN
  BY DEF TypeOK, Request, Marked
<1>3. ASSUME NEW y \in Reqs \ {r}
      PROVE  /\ req'[y] \in Request /\ Same(y)
             /\ req'[y].overlapped = (req[y].overlapped \/ Marked(r, x, y))
  <2> DEFINE b == req[y].overlapped \/ Marked(r, x, y)
  <2>1. req'[y] = [req[y] EXCEPT !.overlapped = b] /\ b \in BOOLEAN /\ req[y] \in Request
    BY <1>1, <1>2
  <2> HIDE DEF b
  <2>2. req'[y] \in Request /\ Same(y) /\ req'[y].overlapped = b
    BY <2>1, OverlapType DEF Same
  <2> QED  BY <2>2 DEF b
<1> QED  BY <1>1, <1>3

LEMMA MarkFacts ==
  ASSUME TypeOK, NEW x, WroteByHand(x)
  PROVE  /\ req' \in [Reqs -> Request]
         /\ \A y \in Reqs : /\ Same(y)
                            /\ req'[y].overlapped = (req[y].overlapped \/ req[y].on = x)
<1>1. req' = [y \in Reqs |-> [req[y] EXCEPT !.overlapped = req[y].overlapped \/ req[y].on = x]]
  BY DEF WroteByHand, TypeOK, Request
<1>2. \A y \in Reqs : req[y] \in Request /\ (req[y].overlapped \/ req[y].on = x) \in BOOLEAN
  BY DEF TypeOK, Request
<1>3. ASSUME NEW y \in Reqs
      PROVE  /\ req'[y] \in Request /\ Same(y)
             /\ req'[y].overlapped = (req[y].overlapped \/ req[y].on = x)
  <2> DEFINE b == req[y].overlapped \/ req[y].on = x
  <2>1. req'[y] = [req[y] EXCEPT !.overlapped = b] /\ b \in BOOLEAN /\ req[y] \in Request
    BY <1>1, <1>2
  <2> HIDE DEF b
  <2>2. req'[y] \in Request /\ Same(y) /\ req'[y].overlapped = b
    BY <2>1, OverlapType DEF Same
  <2> QED  BY <2>2 DEF b
<1> QED  BY <1>1, <1>3

-----------------------------------------------------------------------------
(* A step about one owner.                                                 *)

\* Nothing changes but what is x's, and x may come to be disturbed.
Only(x) ==
    /\ session' \in [Sessions -> SessionRow] /\ sub' \in [Subs -> SubRow]
    /\ debt' \in [Debts -> DebtRow]
    /\ \A s \in Sessions \ {x} : session'[s] = session[s]
    /\ \A b \in Subs \ {x} : sub'[b] = sub[b]
    /\ \A d \in Debts : \/ debt'[d] = debt[d]
                        \/ /\ debt'[d].of = x /\ debt'[d].st # "none"
                           /\ IF debt[d].st = "none" THEN debt[d].of = NoOwner ELSE debt[d].of = x
    /\ disturbed \subseteq disturbed' /\ disturbed' \subseteq disturbed \cup {x}

\* The requests of R go on, the others are told of the change; if the step is quiet,
\* those that order are not.
Told(R, x, quiet) ==
    /\ req' \in [Reqs -> Request]
    /\ \A y \in Reqs \ R :
         /\ Same(y)
         /\ req'[y].overlapped =
              (req[y].overlapped \/ (req[y].on = x /\ ~(quiet /\ req[y].pc \in Ordered)))
    /\ quiet => x \in Sessions /\ session'[x].st = session[x].st

LEMMA OthersUnpaid ==
  ASSUME NEW x \in Owners, Only(x), NEW t \in Owners, t # x
  PROVE  /\ Unpaid(t)' = Unpaid(t)
         /\ \A d \in Debts : debt'[d].of = t \/ debt[d].of = t => debt'[d] = debt[d]
<1>1. \A d \in Debts : debt'[d].of = t \/ debt[d].of = t => debt'[d] = debt[d]
  BY NamesAssumption DEF Only
<1> QED  BY <1>1 DEF Unpaid

LEMMA RequestsStay ==
  ASSUME IInv, NEW x \in Owners, Only(x), NEW R \in SUBSET Reqs, NEW quiet \in BOOLEAN,
         Told(R, x, quiet), NEW y \in Reqs \ R
  PROVE  About(req[y])' /\ (~req'[y].overlapped => Knows(req[y])')
<1>1. About(req[y]) /\ (~req[y].overlapped => Knows(req[y]))
  BY RequestType
<1>2. Same(y) /\ req'[y].overlapped =
        (req[y].overlapped \/ (req[y].on = x /\ ~(quiet /\ req[y].pc \in Ordered)))
  BY DEF Told
<1>3. About(req[y])'
  BY <1>1, <1>2 DEF About, Same, Only
<1>4. ASSUME ~req'[y].overlapped, req[y].on # x
      PROVE  Knows(req[y])'
  <2>1. Knows(req[y]) /\ ~req[y].overlapped
    BY <1>1, <1>2, <1>4
  <2>2. CASE req[y].pc \in {"order", "drop", "pay", "owe", "debt", "edit", "delete"}
    <3>1. req[y].on \in Sessions /\ session'[req[y].on] = session[req[y].on]
      BY <1>1, <1>4, <2>2 DEF About, Only
    <3>2. Unpaid(req[y].on)' = Unpaid(req[y].on) /\ req'[y].on = req[y].on
      BY <1>2, <1>4, <3>1, OthersUnpaid, SessionOrSub DEF Same, Unpaid
    <3>3. req[y].on \notin disturbed' => req[y].on \notin disturbed
      BY DEF Only
    <3> QED  BY <1>2, <2>1, <2>2, <3>1, <3>2, <3>3 DEF Knows, Same
  <2>3. CASE req[y].pc \in {"collect", "sync"}
    <3>1. debt'[req[y].d] = debt[req[y].d]
      BY <1>1, <1>4, <2>3, OthersUnpaid DEF About
    <3>2. req[y].pc = "sync" => sub'[req[y].on] = sub[req[y].on]
      BY <1>1, <1>4 DEF About, Only
    <3> QED  BY <1>2, <2>1, <2>3, <3>1, <3>2 DEF Knows, Same
  <2> QED  BY <1>2, <2>2, <2>3 DEF Knows, Same
<1>5. ASSUME ~req'[y].overlapped, req[y].on = x
      PROVE  Knows(req[y])'
  <2>1. quiet /\ req[y].pc \in {"order", "drop"} /\ Knows(req[y])
    BY <1>1, <1>2, <1>5 DEF Ordered
  <2>2. session'[req[y].on].st = session[req[y].on].st
    BY <1>5, <2>1 DEF Told
  <2> QED  BY <1>2, <2>1, <2>2 DEF Knows, Same
<1> QED  BY <1>3, <1>4, <1>5

LEMMA OtherSessions ==
  ASSUME IInv, NEW x \in Owners, Only(x), NEW s \in Sessions, s # x, Awaited(s) => Awaited(s)'
  PROVE  SessionInv(s)'
<1>1. SessionInv(s) /\ session'[s] = session[s]
  BY DEF IInv, Only
<1>2. /\ Unpaid(s)' = Unpaid(s)
      /\ \A d \in Debts : debt'[d].of = s \/ debt[d].of = s => debt'[d] = debt[d]
  BY OthersUnpaid, SessionOrSub
<1>3. s \notin disturbed' => s \notin disturbed
  BY DEF Only
<1>4. \A d \in Debts : Covers(d, s) => Covers(d, s)'
  BY <1>1, <1>2 DEF Covers
<1>5. OwedInFull(s) => OwedInFull(s)'
  BY <1>1, <1>4 DEF OwedInFull
<1> QED  BY <1>1, <1>2, <1>3, <1>5 DEF SessionInv, Billed, OwedOnce, OwesNothing

LEMMA OtherSubs ==
  ASSUME IInv, NEW x \in Owners, Only(x), NEW b \in Subs, b # x
  PROVE  SubInv(b)'
<1>1. SubInv(b) /\ sub'[b] = sub[b]
  BY DEF IInv, Only
<1>2. /\ Unpaid(b)' = Unpaid(b)
      /\ \A d \in Debts : debt'[d].of = b \/ debt[d].of = b => debt'[d] = debt[d]
  BY OthersUnpaid, SessionOrSub
<1>3. b \notin disturbed' => b \notin disturbed
  BY DEF Only
<1>4. \A d \in Debts : Unpaid(b) = {d} => debt'[d] = debt[d]
  BY <1>2 DEF Unpaid
<1> QED  BY <1>1, <1>2, <1>3, <1>4 DEF SubInv

\* A step about x keeps the invariant if it keeps what is claimed of x, and of the
\* requests that take it.
LEMMA StepOn ==
  ASSUME IInv, NEW x \in Owners, Only(x), NEW R \in SUBSET Reqs, NEW quiet \in BOOLEAN,
         Told(R, x, quiet), \A y \in R : req[y].pc = "debt" => req[y].on = x,
         \A y \in R : About(req[y])' /\ (~req'[y].overlapped => Knows(req[y])'),
         x \in Sessions => SessionInv(x)', x \in Subs => SubInv(x)'
  PROVE  IInv'
<1>1. TypeOK'
  BY DEF IInv, TypeOK, Only, Told
<1>2. DebtsHaveOwners'
  BY DEF IInv, DebtsHaveOwners, Only
<1>3. RequestsKnow'
  BY RequestsStay DEF RequestsKnow
<1>4. \A s \in Sessions : SessionInv(s)'
  <2>1. \A s \in Sessions \ {x} : Awaited(s) => Awaited(s)'
    BY DEF Awaited, At, Told, Same
  <2> QED  BY <2>1, OtherSessions
<1>5. \A b \in Subs : SubInv(b)'
  BY OtherSubs
<1> QED  BY <1>1, <1>2, <1>3, <1>4, <1>5 DEF IInv

-----------------------------------------------------------------------------
(* Requests that begin, or end without a write.                            *)

LEMMA LocalStep ==
  ASSUME IInv, NEW r \in Reqs, NEW local \in Request, Goto(r, local),
         UNCHANGED <<session, sub, debt>>, disturbed \subseteq disturbed', disturbed' \subseteq Owners,
         About(local), ~local.overlapped => Knows(local),
         At(r, "debt") => req[r].on \in disturbed'
  PROVE  IInv'
<1>1. /\ req' \in [Reqs -> Request] /\ req'[r] = local
      /\ \A y \in Reqs \ {r} : req'[y] = req[y]
  BY GotoFacts DEF IInv
<1>2. TypeOK' /\ DebtsHaveOwners'
  BY <1>1 DEF IInv, TypeOK, DebtsHaveOwners
<1>3. \A t : Unpaid(t)' = Unpaid(t)
  BY DEF Unpaid
<1>4. ASSUME NEW y \in Reqs
      PROVE  About(req[y])' /\ (~req'[y].overlapped => Knows(req[y])')
  <2>1. About(req'[y]) /\ (~req'[y].overlapped => Knows(req'[y]))
    BY <1>1, RequestType
  <2> QED  BY <1>3, <2>1 DEF About, Knows
<1>5. ASSUME NEW s \in Sessions
      PROVE  SessionInv(s)'
  <2>1. SessionInv(s)
    BY DEF IInv
  <2>2. s \notin disturbed' /\ Awaited(s) => Awaited(s)'
    BY <1>1 DEF Awaited, At
  <2>3. \A d \in Debts : Covers(d, s)' = Covers(d, s)
    BY DEF Covers
  <2>4. s \notin disturbed' /\ OwedInFull(s) => OwedInFull(s)'
    BY <2>2, <2>3 DEF OwedInFull
  <2> QED  BY <1>3, <2>1, <2>4 DEF SessionInv, Billed, OwedOnce, OwesNothing
<1>6. ASSUME NEW b \in Subs
      PROVE  SubInv(b)'
  BY <1>3 DEF IInv, SubInv
<1> QED  BY <1>2, <1>4, <1>5, <1>6 DEF IInv, RequestsKnow

LEMMA AbortStep ==
  ASSUME IInv, NEW r \in Reqs, Abort(r)
  PROVE  IInv'
<1>1. disturbed \subseteq disturbed' /\ disturbed' \subseteq Owners
  BY RequestType, SessionOrSub DEF Abort, At, About, IInv, TypeOK
<1>2. Idle \in Request /\ About(Idle) /\ Knows(Idle)
  BY IdleType DEF Idle, Knows
<1>3. Goto(r, Idle) /\ UNCHANGED <<session, sub, debt>> /\ (At(r, "debt") => req[r].on \in disturbed')
  BY DEF Abort
<1> QED  BY <1>1, <1>2, <1>3, LocalStep

\* The looks: a request begins with what it reads.
LEMMA LookStep ==
  ASSUME IInv, NEW r \in Reqs, At(r, "idle"), NEW local \in Request, Goto(r, local),
         UNCHANGED <<session, sub, debt, disturbed>>, About(local), Knows(local)
  PROVE  IInv'
BY LocalStep DEF At, IInv, TypeOK

LEMMA SessionType ==
  ASSUME IInv, NEW s \in Sessions
  PROVE  session[s] \in SessionRow /\ SessionInv(s)
BY DEF IInv, TypeOK

LEMMA LookOpenStep ==
  ASSUME IInv, NEW r \in Reqs, NEW s \in Sessions, NEW pc \in {"order", "drop", "pay", "owe"},
         LookOpen(r, s, pc)
  PROVE  IInv'
<1> DEFINE local == [Idle EXCEPT !.pc = pc, !.on = s, !.orders = session[s].orders]
<1>1. local \in Request
  BY IdleType, SessionType, SessionOrSub DEF Request, SessionRow, Idle
<1>2. About(local) /\ Knows(local)
  BY DEF About, Knows, Idle, LookOpen
<1> QED  BY <1>1, <1>2, LookStep DEF LookOpen

LEMMA EditLookStep ==
  ASSUME IInv, NEW r \in Reqs, NEW s \in Sessions, EditLook(r, s)
  PROVE  IInv'
<1> DEFINE local == [Idle EXCEPT !.pc = "edit", !.on = s, !.orders = session[s].orders,
                                 !.pay = session[s].pay]
<1>1. local \in Request
  BY IdleType, SessionType, SessionOrSub DEF Request, SessionRow, Idle
<1>2. About(local) /\ Knows(local)
  BY DEF About, Knows, Idle, EditLook
<1> QED  BY <1>1, <1>2, LookStep DEF EditLook

LEMMA DeleteLookStep ==
  ASSUME IInv, NEW r \in Reqs, NEW s \in Sessions, DeleteLook(r, s)
  PROVE  IInv'
<1> DEFINE local == [Idle EXCEPT !.pc = "delete", !.on = s]
<1>1. local \in Request
  BY IdleType, SessionOrSub DEF Request, Idle
<1>2. About(local) /\ Knows(local)
  BY DEF About, Knows, Idle, DeleteLook
<1> QED  BY <1>1, <1>2, LookStep DEF DeleteLook

LEMMA DebtType ==
  ASSUME IInv, NEW d \in Debts
  PROVE  /\ debt[d] \in DebtRow
         /\ IF debt[d].st = "none" THEN debt[d].of = NoOwner ELSE debt[d].of \in Owners
BY DEF IInv, TypeOK, DebtsHaveOwners

LEMMA CollectLookStep ==
  ASSUME IInv, NEW r \in Reqs, NEW d \in Debts, CollectLook(r, d)
  PROVE  IInv'
<1> DEFINE local == [Idle EXCEPT !.pc = "collect", !.on = debt[d].of, !.d = d,
                                 !.amount = debt[d].amount, !.orders = 0]
<1>1. debt[d].of \in Owners /\ debt[d].amount \in Nat
  BY DebtType DEF CollectLook, DebtRow
<1>2. local \in Request
  BY <1>1, IdleType, PricesAssumption DEF Request, Idle
<1>3. About(local) /\ Knows(local)
  BY <1>1 DEF About, Knows, Idle, CollectLook
<1> QED  BY <1>2, <1>3, LookStep DEF CollectLook

LEMMA SyncStep ==
  ASSUME IInv, NEW r \in Reqs, Sync(r)
  PROVE  IInv'
<1> DEFINE local == [req[r] EXCEPT !.pc = "sync", !.paid = sub[req[r].on].paid]
<1>1. /\ req[r] \in Request /\ req[r].pc = "collect" /\ req[r].on \in Subs /\ About(req[r])
      /\ ~req[r].overlapped => Knows(req[r])
  BY RequestType DEF Sync, At
<1>2. sub[req[r].on].paid \in Nat
  BY <1>1 DEF IInv, TypeOK, SubRow
<1>3. /\ local \in Request /\ local.pc = "sync" /\ local.on = req[r].on /\ local.d = req[r].d
      /\ local.amount = req[r].amount /\ local.paid = sub[req[r].on].paid
      /\ local.overlapped = req[r].overlapped
  BY <1>1, <1>2 DEF Request
<1>4. Goto(r, local) /\ UNCHANGED <<session, sub, debt, disturbed>> /\ ~At(r, "debt")
  BY DEF Sync, At
<1> HIDE DEF local
<1>5. About(local) /\ (~local.overlapped => Knows(local))
  BY <1>1, <1>3 DEF About, Knows
<1> QED  BY <1>3, <1>4, <1>5, LocalStep DEF IInv, TypeOK

-----------------------------------------------------------------------------
(* Requests that write to a session, and the debts they leave.             *)

LEMMA WroteTold ==
  ASSUME IInv, NEW r \in Reqs, NEW x \in Owners, NEW local \in Request, Wrote(r, x, local),
         req[r].pc \in Ordered => x \in Sessions /\ session'[x].st = session[x].st
  PROVE  Told({r}, x, req[r].pc \in Ordered) /\ req'[r] = local
<1>1. /\ req' \in [Reqs -> Request] /\ req'[r] = local
      /\ \A y \in Reqs \ {r} : /\ Same(y)
                               /\ req'[y].overlapped = (req[y].overlapped \/ Marked(r, x, y))
  BY WroteFacts DEF IInv
<1>2. \A y : {req[r].pc, req[y].pc} \subseteq Ordered <=> req[r].pc \in Ordered /\ req[y].pc \in Ordered
  OBVIOUS
<1> QED  BY <1>1, <1>2 DEF Told, Marked

LEMMA WroteLoud ==
  ASSUME IInv, NEW r \in Reqs, NEW x \in Owners, NEW local \in Request, Wrote(r, x, local),
         req[r].pc \notin Ordered
  PROVE  Told({r}, x, FALSE) /\ req'[r] = local
<1>1. /\ req' \in [Reqs -> Request] /\ req'[r] = local
      /\ \A y \in Reqs \ {r} : /\ Same(y)
                               /\ req'[y].overlapped = (req[y].overlapped \/ Marked(r, x, y))
  BY WroteFacts DEF IInv
<1>2. \A y : ~({req[r].pc, req[y].pc} \subseteq Ordered)
  OBVIOUS
<1> QED  BY <1>1, <1>2 DEF Told, Marked

\* r writes to its session or to the debts of x, and is done.
LEMMA DoneStep ==
  ASSUME IInv, NEW r \in Reqs, NEW x \in Owners, Wrote(r, x, Idle), Only(x), req[r].on = x,
         req[r].pc \in Ordered => x \in Sessions /\ session'[x].st = session[x].st,
         x \in Sessions => SessionInv(x)', x \in Subs => SubInv(x)'
  PROVE  IInv'
<1>1. Told({r}, x, req[r].pc \in Ordered) /\ req'[r] = Idle
  BY WroteTold, IdleType
<1>2. About(req[r])' /\ Knows(req[r])'
  BY <1>1 DEF Idle, About, Knows
<1> DEFINE quiet == req[r].pc \in Ordered
<1>3. quiet \in BOOLEAN
  OBVIOUS
<1> HIDE DEF quiet
<1>4. Told({r}, x, quiet)
  BY <1>1 DEF quiet
<1> QED  BY <1>2, <1>3, <1>4, StepOn

\* Of session s, only its row changes.
LEMMA OnlySession ==
  ASSUME IInv, NEW s \in Sessions, NEW row \in SessionRow, session' = [session EXCEPT ![s] = row],
         UNCHANGED <<sub, debt>>, disturbed \subseteq disturbed', disturbed' \subseteq disturbed \cup {s}
  PROVE  Only(s) /\ session'[s] = row /\ Unpaid(s)' = Unpaid(s)
BY DEF IInv, TypeOK, Only, Unpaid

\* A new debt of x.
LEMMA NewDebtFacts ==
  ASSUME IInv, NEW x \in Owners, NEW d \in Debts, NEW amount \in Nat, debt[d].st = "none",
         debt' = [debt EXCEPT ![d] = NewDebt(x, amount)]
  PROVE  /\ debt' \in [Debts -> DebtRow] /\ debt'[d] = NewDebt(x, amount)
         /\ \A e \in Debts \ {d} : debt'[e] = debt[e]
         /\ debt[d].of = NoOwner
         /\ Unpaid(x)' = Unpaid(x) \cup {d}
<1>1. /\ debt' \in [Debts -> DebtRow] /\ debt'[d] = NewDebt(x, amount)
      /\ \A e \in Debts \ {d} : debt'[e] = debt[e]
  BY DEF IInv, TypeOK, NewDebt, DebtRow
<1> QED  BY <1>1, DebtType DEF Unpaid, NewDebt

LEMMA DebtRowFacts ==
  ASSUME NEW q \in DebtRow, NEW taken \in Nat
  PROVE  LET row == [q EXCEPT !.st = "collected", !.taken = taken]
         IN  /\ row \in DebtRow /\ row.st = "collected" /\ row.of = q.of
             /\ row.amount = q.amount /\ row.taken = taken
BY DEF DebtRow

\* An unpaid debt of x is paid.
LEMMA PaidDebtFacts ==
  ASSUME IInv, NEW x \in Owners, NEW d \in Unpaid(x),
         debt' = [debt EXCEPT ![d].st = "collected", ![d].taken = @ + debt[d].amount]
  PROVE  /\ debt' \in [Debts -> DebtRow]
         /\ \A e \in Debts \ {d} : debt'[e] = debt[e]
         /\ debt[d].of = x /\ debt'[d].of = x /\ debt'[d].st = "collected"
         /\ debt'[d].taken = debt[d].taken + debt[d].amount
         /\ Unpaid(x)' = Unpaid(x) \ {d}
<1>1. d \in Debts /\ debt[d].of = x /\ debt[d].st = "unpaid" /\ debt[d] \in DebtRow
  BY DebtType DEF Unpaid
<1>2. debt[d].taken + debt[d].amount \in Nat /\ debt[d].amount \in Nat
  BY <1>1 DEF DebtRow
<1> DEFINE row == [debt[d] EXCEPT !.st = "collected", !.taken = debt[d].taken + debt[d].amount]
<1>3. debt'[d] = row /\ \A e \in Debts \ {d} : debt'[e] = debt[e]
  BY <1>1 DEF IInv, TypeOK
<1>4. /\ row \in DebtRow /\ row.of = debt[d].of /\ row.st = "collected"
      /\ row.taken = debt[d].taken + debt[d].amount
  BY <1>1, <1>2, DebtRowFacts
<1> HIDE DEF row
<1>5. debt' \in [Debts -> DebtRow]
  BY <1>1, <1>3, <1>4 DEF IInv, TypeOK
<1> QED  BY <1>1, <1>3, <1>4, <1>5 DEF Unpaid

LEMMA AddOrderStep ==
  ASSUME IInv, NEW r \in Reqs, AddOrder(r)
  PROVE  IInv'
<1>1. PICK s \in Sessions : s = req[r].on
  BY RequestType DEF AddOrder, At, About
<1> DEFINE row == [session[s] EXCEPT !.orders = @ + 1]
<1>0. /\ req[r].pc \in Ordered
      /\ ~req[r].overlapped => session[s].st = "open"
  BY <1>1, RequestType DEF AddOrder, At, Knows, Ordered
<1>2. row \in SessionRow /\ session' = [session EXCEPT ![s] = row]
  BY <1>1, SessionType, PricesAssumption DEF AddOrder, SessionRow, IInv, TypeOK
<1>3. /\ disturbed \subseteq disturbed' /\ disturbed' \subseteq disturbed \cup {s}
      /\ s \notin disturbed' => s \notin disturbed /\ ~req[r].overlapped
  BY <1>1, SessionOrSub DEF AddOrder, Disturb
<1>4. Only(s) /\ session'[s] = row /\ Unpaid(s)' = Unpaid(s)
  BY <1>1, <1>2, <1>3, OnlySession DEF AddOrder
<1>5. session'[s].st = session[s].st
  BY <1>1, <1>4, SessionType DEF SessionRow
<1>6. SessionInv(s)'
  BY <1>0, <1>3, <1>4, <1>5, SessionType DEF SessionInv, Billed, OwedOnce, OwedInFull, OwesNothing
<1> QED  BY <1>0, <1>1, <1>4, <1>5, <1>6, DoneStep, SessionOrSub DEF AddOrder

LEMMA DropOrderStep ==
  ASSUME IInv, NEW r \in Reqs, DropOrder(r)
  PROVE  IInv'
<1>1. PICK s \in Sessions : s = req[r].on
  BY RequestType DEF DropOrder, At, About
<1> DEFINE row == [session[s] EXCEPT !.orders = @ - 1]
<1>0. /\ req[r].pc \in Ordered
      /\ ~req[r].overlapped => session[s].st = "open"
  BY <1>1, RequestType DEF DropOrder, At, Knows, Ordered
<1>2. row \in SessionRow /\ session' = [session EXCEPT ![s] = row]
  BY <1>1, SessionType, PricesAssumption DEF DropOrder, SessionRow, IInv, TypeOK
<1>3. /\ disturbed \subseteq disturbed' /\ disturbed' \subseteq disturbed \cup {s}
      /\ s \notin disturbed' => s \notin disturbed /\ ~req[r].overlapped
  BY <1>1, SessionOrSub DEF DropOrder, Disturb
<1>4. Only(s) /\ session'[s] = row /\ Unpaid(s)' = Unpaid(s)
  BY <1>1, <1>2, <1>3, OnlySession DEF DropOrder
<1>5. session'[s].st = session[s].st
  BY <1>1, <1>4, SessionType DEF SessionRow
<1>6. SessionInv(s)'
  BY <1>0, <1>3, <1>4, <1>5, SessionType DEF SessionInv, Billed, OwedOnce, OwedInFull, OwesNothing
<1> QED  BY <1>0, <1>1, <1>4, <1>5, <1>6, DoneStep, SessionOrSub DEF DropOrder

\* A session that is closed at the price of h for its time.
LEMMA CloseFacts ==
  ASSUME IInv, NEW s \in Sessions, NEW pay \in Pays, NEW amount \in Nat, Close(s, pay, amount),
         UNCHANGED <<sub, debt>>, disturbed \subseteq disturbed', disturbed' \subseteq disturbed \cup {s}
  PROVE  /\ Only(s) /\ Unpaid(s)' = Unpaid(s)
         /\ session'[s].st = "closed" /\ session'[s].pay = pay /\ session'[s].amount = amount
         /\ session'[s].orders = session[s].orders
<1> DEFINE row == [session[s] EXCEPT !.st = "closed", !.pay = pay, !.amount = amount]
<1>1. row \in SessionRow /\ session' = [session EXCEPT ![s] = row]
  BY SessionType DEF Close, SessionRow, IInv, TypeOK
<1>2. Only(s) /\ session'[s] = row /\ Unpaid(s)' = Unpaid(s)
  BY <1>1, OnlySession
<1> QED  BY <1>2, SessionType DEF SessionRow

LEMMA CheckoutStep ==
  ASSUME IInv, NEW r \in Reqs, Checkout(r)
  PROVE  IInv'
<1>0. PICK s \in Sessions : s = req[r].on
  BY RequestType DEF Checkout, At, About
<1>1. /\ req[r].orders \in Nat /\ req[r].pc = "pay"
      /\ ~req[r].overlapped => session[s].st = "open" /\ session[s].orders = req[r].orders
  BY <1>0, RequestType, PricesAssumption DEF Checkout, At, Knows, Request
<1>2. PICK h \in Hours : Close(s, "paid", h + req[r].orders)
  BY <1>0 DEF Checkout
<1>3. /\ disturbed \subseteq disturbed' /\ disturbed' \subseteq disturbed \cup {s}
      /\ s \notin disturbed' => s \notin disturbed /\ ~req[r].overlapped
  BY <1>0, <1>1, SessionOrSub DEF Checkout, Disturb
<1>4. h + req[r].orders \in Nat /\ h \in Nat /\ "paid" \in Pays
  BY <1>1, PricesAssumption DEF Pays
<1>5. /\ Only(s) /\ Unpaid(s)' = Unpaid(s)
      /\ session'[s].st = "closed" /\ session'[s].pay = "paid"
      /\ session'[s].amount = h + req[r].orders /\ session'[s].orders = session[s].orders
  BY <1>1, <1>2, <1>3, <1>4, CloseFacts DEF Checkout
<1>6. SessionInv(s)'
  BY <1>1, <1>3, <1>4, <1>5, SessionType DEF SessionInv, Billed, OwedOnce, OwedInFull, OwesNothing
<1> QED  BY <1>0, <1>1, <1>5, <1>6, DoneStep, SessionOrSub DEF Checkout, Ordered

LEMMA CloseUnpaidStep ==
  ASSUME IInv, NEW r \in Reqs, CloseUnpaid(r)
  PROVE  IInv'
<1>0. PICK s \in Sessions : s = req[r].on
  BY RequestType DEF CloseUnpaid, At, About
<1>1. /\ req[r] \in Request /\ req[r].orders \in Nat /\ req[r].pc = "owe" /\ s \in Owners
      /\ ~req[r].overlapped => session[s].st = "open" /\ session[s].orders = req[r].orders
  BY <1>0, RequestType, SessionOrSub, PricesAssumption DEF CloseUnpaid, At, Knows, Request
<1> DEFINE owing(a) == [req[r] EXCEPT !.pc = "debt", !.amount = a]
<1>2. PICK h \in Hours : Close(s, "full_debt", h + req[r].orders) /\ Wrote(r, s, owing(h + req[r].orders))
  BY <1>0 DEF CloseUnpaid
<1>3. /\ disturbed \subseteq disturbed' /\ disturbed' \subseteq disturbed \cup {s}
      /\ s \notin disturbed' => s \notin disturbed /\ ~req[r].overlapped
  BY <1>0, <1>1 DEF CloseUnpaid, Disturb
<1>4. PICK amount \in Nat : amount = h + req[r].orders /\ h \in Nat /\ "full_debt" \in Pays
  BY <1>1, PricesAssumption DEF Pays
<1>5. /\ Only(s) /\ Unpaid(s)' = Unpaid(s)
      /\ session'[s].st = "closed" /\ session'[s].pay = "full_debt"
      /\ session'[s].amount = amount /\ session'[s].orders = session[s].orders
  BY <1>2, <1>3, <1>4, CloseFacts DEF CloseUnpaid
<1>6. /\ owing(amount) \in Request /\ owing(amount).pc = "debt" /\ owing(amount).on = s
      /\ owing(amount).amount = amount /\ owing(amount).overlapped = req[r].overlapped
  BY <1>0, <1>1 DEF Request
<1> HIDE DEF owing
<1>7. Told({r}, s, FALSE) /\ req'[r] = owing(amount)
  <2>1. Wrote(r, s, owing(amount)) /\ req[r].pc \notin Ordered
    BY <1>1, <1>2, <1>4 DEF Ordered
  <2> QED  BY <1>1, <1>6, <2>1, WroteLoud
<1>8. s \notin disturbed /\ ~req[r].overlapped => Unpaid(s) = {}
  BY <1>1, SessionType DEF SessionInv, OwesNothing
<1>9. About(req[r])' /\ (~req'[r].overlapped => Knows(req[r])')
  BY <1>3, <1>5, <1>6, <1>7, <1>8 DEF About, Knows
<1>10. SessionInv(s)'
  <2>1. Awaited(s)'
    BY <1>6, <1>7 DEF Awaited, At
  <2> QED  BY <1>1, <1>3, <1>4, <1>5, <1>8, <2>1
           DEF SessionInv, Billed, OwedOnce, OwedInFull, OwesNothing
<1> DEFINE R == {r}
<1>11. /\ R \in SUBSET Reqs /\ Told(R, s, FALSE) /\ \A y \in R : req[y].pc = "debt" => req[y].on = s
       /\ \A y \in R : About(req[y])' /\ (~req'[y].overlapped => Knows(req[y])')
  BY <1>0, <1>7, <1>9
<1> HIDE DEF R
<1> QED  BY <1>1, <1>5, <1>10, <1>11, StepOn, SessionOrSub

LEMMA CreateDebtStep ==
  ASSUME IInv, NEW r \in Reqs, CreateDebt(r)
  PROVE  IInv'
<1>0. PICK s \in Sessions : s = req[r].on
  BY RequestType DEF CreateDebt, At, About
<1>1. /\ req[r].amount \in Nat /\ req[r].pc = "debt" /\ s \in Owners
      /\ ~req[r].overlapped => Knows(req[r])
  BY <1>0, RequestType, SessionOrSub DEF CreateDebt, At, Request
<1>2. PICK d \in Debts : /\ debt[d].st = "none"
                         /\ debt' = [debt EXCEPT ![d] = NewDebt(s, req[r].amount)]
  BY <1>0 DEF CreateDebt
<1>3. /\ disturbed \subseteq disturbed' /\ disturbed' \subseteq disturbed \cup {s}
      /\ s \notin disturbed' => s \notin disturbed /\ ~req[r].overlapped
  BY <1>0, <1>1 DEF CreateDebt, Disturb
<1>4. /\ debt' \in [Debts -> DebtRow] /\ debt'[d] = NewDebt(s, req[r].amount)
      /\ \A e \in Debts \ {d} : debt'[e] = debt[e]
      /\ debt[d].of = NoOwner
      /\ Unpaid(s)' = Unpaid(s) \cup {d}
  BY <1>1, <1>2, NewDebtFacts
<1>5. session' = session /\ sub' = sub /\ Wrote(r, s, Idle)
  BY <1>0 DEF CreateDebt
<1>6. Only(s)
  BY <1>2, <1>3, <1>4, <1>5 DEF Only, IInv, TypeOK, NewDebt
<1>7. SessionInv(s)'
  <2> SUFFICES ASSUME s \notin disturbed'
               PROVE  (Billed(s) /\ OwedOnce(s) /\ OwedInFull(s) /\ OwesNothing(s))'
    BY DEF SessionInv
  <2>1. /\ session[s].amount = req[r].amount /\ Unpaid(s) = {}
        /\ session[s].st = "closed" /\ session[s].pay = "full_debt" /\ Billed(s)
    BY <1>0, <1>1, <1>3, SessionType DEF Knows, SessionInv
  <2>2. Covers(d, s)'
    BY <1>1, <1>4, <1>5, <2>1 DEF Covers, NewDebt
  <2> QED  BY <1>4, <1>5, <2>1, <2>2 DEF Billed, OwedOnce, OwedInFull, OwesNothing
<1> QED  BY <1>0, <1>1, <1>5, <1>6, <1>7, DoneStep, SessionOrSub DEF Ordered

LEMMA DeleteStep ==
  ASSUME IInv, NEW r \in Reqs, Delete(r)
  PROVE  IInv'
<1>0. PICK s \in Sessions : s = req[r].on
  BY RequestType DEF Delete, At, About
<1>1. /\ req[r].pc = "delete" /\ s \in Owners
      /\ ~req[r].overlapped => Unpaid(s) = {}
  BY <1>0, RequestType, SessionOrSub DEF Delete, At, Knows
<1> DEFINE row == [session[s] EXCEPT !.st = "deleted", !.orders = 0]
<1>2. row \in SessionRow /\ row.st = "deleted" /\ session' = [session EXCEPT ![s] = row]
  <2>1. session[s] \in SessionRow /\ 0 \in 0 .. MaxOrders
    BY SessionType, PricesAssumption
  <2>2. row \in SessionRow /\ row.st = "deleted"
    BY <2>1 DEF SessionRow
  <2>3. session' = [session EXCEPT ![s] = row]
    BY <1>0 DEF Delete, IInv, TypeOK
  <2> QED  BY <2>2, <2>3
<1>3. /\ disturbed \subseteq disturbed' /\ disturbed' \subseteq disturbed \cup {s}
      /\ s \notin disturbed' => s \notin disturbed /\ ~req[r].overlapped
  BY <1>0, <1>1 DEF Delete, Disturb
<1>4. Only(s) /\ session'[s] = row /\ Unpaid(s)' = Unpaid(s)
  BY <1>2, <1>3, OnlySession DEF Delete
<1>5. SessionInv(s)'
  BY <1>1, <1>2, <1>3, <1>4 DEF SessionInv, Billed, OwedOnce, OwedInFull, OwesNothing
<1> QED  BY <1>0, <1>1, <1>4, <1>5, DoneStep, SessionOrSub DEF Delete, Ordered

-----------------------------------------------------------------------------
(* Debts by hand, and their collection.                                    *)

LEMMA SubscribeStep ==
  ASSUME IInv, NEW b \in Subs, NEW paid \in Amounts, Subscribe(b, paid)
  PROVE  IInv'
<1>1. /\ session' = session /\ req' = req /\ disturbed' = disturbed /\ b \in Owners
      /\ paid \in Nat /\ Fee - paid \in Nat /\ sub[b].st = "none"
  BY SessionOrSub, PricesAssumption DEF Subscribe, Amounts
<1>2. /\ sub' \in [Subs -> SubRow] /\ sub'[b] = [st |-> "live", paid |-> paid]
      /\ \A c \in Subs \ {b} : sub'[c] = sub[c]
  BY <1>1 DEF Subscribe, IInv, TypeOK, SubRow
<1>3. Unpaid(b) = {}
  BY <1>1 DEF IInv, SubInv, Unpaid
<1>4. /\ debt' \in [Debts -> DebtRow]
      /\ \A d \in Debts : debt'[d] = debt[d] \/ (debt[d].of = NoOwner /\ debt'[d] = NewDebt(b, Fee - paid))
      /\ IF paid = Fee THEN Unpaid(b)' = {}
         ELSE \E d \in Debts : Unpaid(b)' = {d} /\ debt'[d] = NewDebt(b, Fee - paid)
  <2>1. CASE paid = Fee
    BY <1>3, <2>1 DEF Subscribe, IInv, TypeOK, Unpaid
  <2>2. CASE paid # Fee
    <3>1. PICK d \in Debts : debt[d].st = "none" /\ debt' = [debt EXCEPT ![d] = NewDebt(b, Fee - paid)]
      BY <2>2 DEF Subscribe
    <3>2. /\ debt' \in [Debts -> DebtRow] /\ debt'[d] = NewDebt(b, Fee - paid)
          /\ \A e \in Debts \ {d} : debt'[e] = debt[e]
          /\ debt[d].of = NoOwner
          /\ Unpaid(b)' = Unpaid(b) \cup {d}
      BY <1>1, <3>1, NewDebtFacts
    <3> QED  BY <1>3, <2>2, <3>2
  <2> QED  BY <2>1, <2>2
<1>5. Only(b)
  BY <1>1, <1>2, <1>4, NamesAssumption, DebtType DEF Only, IInv, TypeOK, NewDebt
<1>6. TypeOK' /\ DebtsHaveOwners'
  BY <1>1, <1>2, <1>4, <1>5 DEF IInv, TypeOK, DebtsHaveOwners, Only
<1>7. \A t \in Sessions : Unpaid(t)' = Unpaid(t)
  BY <1>1, <1>5, OthersUnpaid, SessionOrSub
<1>8. RequestsKnow'
  <2> SUFFICES ASSUME NEW y \in Reqs
               PROVE  About(req[y])' /\ (~req'[y].overlapped => Knows(req[y])')
    BY DEF RequestsKnow
  <2>1. About(req[y]) /\ (~req[y].overlapped => Knows(req[y]))
    BY RequestType
  <2>2. req[y].pc \in {"collect", "sync"} => debt'[req[y].d] = debt[req[y].d]
    BY <1>4, <2>1, NamesAssumption DEF About
  <2>3. req[y].pc = "sync" => sub'[req[y].on] = sub[req[y].on]
    BY <1>1, <1>2, <2>1 DEF About, IInv, SubInv
  <2> QED  BY <1>1, <1>7, <2>1, <2>2, <2>3 DEF About, Knows
<1>9. \A s \in Sessions : SessionInv(s)'
  BY <1>1, <1>5, OtherSessions, SessionOrSub DEF Awaited, At
<1>10. SubInv(b)'
  <2>1. sub'[b].st = "live" /\ sub'[b].paid = paid
    BY <1>2
  <2>2. \/ Unpaid(b)' = {} /\ paid = Fee
        \/ \E d \in Debts : Unpaid(b)' = {d} /\ paid + debt'[d].amount = Fee
    BY <1>1, <1>4, PricesAssumption DEF NewDebt, Amounts
  <2> QED  BY <2>1, <2>2 DEF SubInv
<1>11. \A c \in Subs : SubInv(c)'
  BY <1>1, <1>5, <1>10, OtherSubs
<1> QED  BY <1>6, <1>8, <1>9, <1>11 DEF IInv

\* A change by hand to a debt of x.
LEMMA ByHandStep ==
  ASSUME IInv, NEW d \in Debts, NEW row \in DebtRow, debt[d].st # "none",
         row.of = debt[d].of, row.st # "none", debt'[d] = row, \A e \in Debts \ {d} : debt'[e] = debt[e],
         debt' = [e \in Debts |-> debt'[e]], WroteByHand(debt[d].of), UNCHANGED <<session, sub>>,
         disturbed \subseteq disturbed', disturbed' \subseteq disturbed \cup {debt[d].of},
         debt[d].of \in disturbed' \/ (row.st = "deleted" /\ debt[d].of \in Sessions)
  PROVE  IInv'
<1>1. PICK x \in Owners : x = debt[d].of
  BY DebtType
<1>2. /\ debt' \in [Debts -> DebtRow] /\ debt'[d] = row
      /\ \A e \in Debts \ {d} : debt'[e] = debt[e]
  BY DEF IInv, TypeOK
<1>3. Only(x)
  BY <1>1, <1>2 DEF Only, IInv, TypeOK
<1>4. Told({}, x, FALSE)
  BY <1>1, MarkFacts DEF IInv, Told
<1>5. ASSUME x \in Sessions
      PROVE  SessionInv(x)'
  <2> SUFFICES ASSUME x \notin disturbed'
               PROVE  (Billed(x) /\ OwedOnce(x) /\ OwedInFull(x) /\ OwesNothing(x))'
    BY DEF SessionInv
  <2>1. row.st = "deleted" /\ x \notin disturbed /\ SessionInv(x)
    BY <1>1, <1>5, SessionType
  <2>2. Unpaid(x)' = Unpaid(x) \ {d}
    BY <1>2, <2>1 DEF Unpaid
  <2>3. \A e \in Debts : Covers(e, x) => Covers(e, x)'
    BY <1>1, <1>2, <2>1 DEF Covers
  <2>4. Awaited(x) => Awaited(x)'
    BY <1>4 DEF Awaited, At, Told, Same
  <2> QED  BY <2>1, <2>2, <2>3, <2>4 DEF SessionInv, Billed, OwedOnce, OwedInFull, OwesNothing
<1>6. ASSUME x \in Subs
      PROVE  SubInv(x)'
  <2>1. x \in disturbed'
    BY <1>1, <1>6, SessionOrSub
  <2>2. \A e \in Debts : debt'[e].of = debt[e].of
    BY <1>2
  <2> QED  BY <1>6, <2>1, <2>2 DEF SubInv, IInv
<1> DEFINE R == {}
<1>7. /\ R \in SUBSET Reqs /\ Told(R, x, FALSE) /\ \A y \in R : req[y].pc = "debt" => req[y].on = x
      /\ \A y \in R : About(req[y])' /\ (~req'[y].overlapped => Knows(req[y])')
  BY <1>4
<1> HIDE DEF R
<1> QED  BY <1>3, <1>5, <1>6, <1>7, StepOn

LEMMA EditDebtStep ==
  ASSUME IInv, NEW d \in Debts, NEW st \in {"unpaid", "collected"}, NEW amount \in Amounts,
         EditDebt(d, st, amount)
  PROVE  IInv'
<1> DEFINE row == [debt[d] EXCEPT !.st = st, !.amount = amount]
<1>1. row \in DebtRow /\ row.of = debt[d].of /\ row.st = st
  <2>1. debt[d] \in DebtRow /\ amount \in Nat
    BY DebtType, PricesAssumption DEF Amounts
  <2> QED  BY <2>1 DEF DebtRow
<1>2. /\ debt'[d] = row /\ \A e \in Debts \ {d} : debt'[e] = debt[e]
      /\ debt' = [e \in Debts |-> debt'[e]]
  BY DEF EditDebt, IInv, TypeOK
<1> HIDE DEF row
<1>3. debt[d].st # "none" /\ WroteByHand(debt[d].of)
  BY DEF EditDebt, WroteByHand
<1>4. disturbed' = disturbed \cup {debt[d].of} /\ UNCHANGED <<session, sub>>
  BY DEF EditDebt
<1> QED  BY <1>1, <1>2, <1>3, <1>4, ByHandStep

LEMMA DeleteDebtStep ==
  ASSUME IInv, NEW d \in Debts, DeleteDebt(d)
  PROVE  IInv'
<1> DEFINE row == [debt[d] EXCEPT !.st = "deleted"]
<1>1. row \in DebtRow /\ row.of = debt[d].of /\ row.st = "deleted"
  BY DebtType DEF DebtRow
<1>2. /\ debt'[d] = row /\ \A e \in Debts \ {d} : debt'[e] = debt[e]
      /\ debt' = [e \in Debts |-> debt'[e]]
  BY DEF DeleteDebt, IInv, TypeOK
<1> HIDE DEF row
<1>3. debt[d].st # "none" /\ WroteByHand(debt[d].of)
  BY DEF DeleteDebt, WroteByHand
<1>4. /\ disturbed \subseteq disturbed' /\ disturbed' \subseteq disturbed \cup {debt[d].of}
      /\ debt[d].of \in Subs => debt[d].of \in disturbed'
      /\ UNCHANGED <<session, sub>>
  BY DEF DeleteDebt
<1>5. debt[d].of \in Sessions \cup Subs
  BY <1>3, DebtType DEF Owners
<1> QED  BY <1>1, <1>2, <1>3, <1>4, <1>5, ByHandStep

\* A new debt of a subscription, or another amount for it, by hand.
LEMMA FeeByHandStep ==
  ASSUME IInv, NEW b \in Subs, NEW amount \in Amounts, DebtByHand(b, amount) \/ EditFee(b, amount)
  PROVE  IInv'
<1>1. /\ amount \in Nat /\ b \in Owners /\ sub[b].st = "live" /\ WroteByHand(b)
      /\ session' = session /\ disturbed' = disturbed \cup {b}
  BY PricesAssumption, SessionOrSub DEF Amounts, DebtByHand, EditFee
<1>2. /\ sub' \in [Subs -> SubRow] /\ sub'[b].st = "live"
      /\ \A c \in Subs \ {b} : sub'[c] = sub[c]
  BY <1>1 DEF DebtByHand, EditFee, IInv, TypeOK, SubRow
<1>3. /\ debt' \in [Debts -> DebtRow]
      /\ \A d \in Debts : debt'[d] = debt[d] \/ (debt[d].st = "none" /\ debt'[d] = NewDebt(b, amount))
  <2>1. CASE EditFee(b, amount)
    BY <2>1 DEF EditFee, IInv, TypeOK
  <2>2. CASE DebtByHand(b, amount)
    <3>1. PICK d \in Debts : debt[d].st = "none" /\ debt' = [debt EXCEPT ![d] = NewDebt(b, amount)]
      BY <2>2 DEF DebtByHand
    <3> QED  BY <1>1, <3>1, NewDebtFacts
  <2> QED  BY <2>1, <2>2
<1>4. Only(b)
  BY <1>1, <1>2, <1>3, DebtType DEF Only, IInv, TypeOK, NewDebt
<1>5. Told({}, b, FALSE)
  BY <1>1, MarkFacts DEF IInv, Told
<1>6. SubInv(b)'
  BY <1>1, <1>2 DEF SubInv
<1> DEFINE R == {}
<1>7. /\ R \in SUBSET Reqs /\ Told(R, b, FALSE) /\ \A y \in R : req[y].pc = "debt" => req[y].on = b
      /\ \A y \in R : About(req[y])' /\ (~req'[y].overlapped => Knows(req[y])')
  BY <1>5
<1> HIDE DEF R
<1> QED  BY <1>1, <1>4, <1>6, <1>7, StepOn, SessionOrSub

\* r takes money for the debt d: what is left of it is less by the money, and the
\* subscription hears of it.
LEMMA CollectedStep ==
  ASSUME IInv, NEW r \in Reqs, Ready(req[r]), NEW row \in DebtRow, NEW money \in Nat,
         debt' = [debt EXCEPT ![req[r].d] = row],
         row.of = debt[req[r].d].of, row.st \in {"unpaid", "collected"},
         row.taken = debt[req[r].d].taken + money,
         ~req[r].overlapped =>
            req[r].amount = money + (IF row.st = "unpaid" THEN row.amount ELSE 0),
         Synced(req[r], money), Wrote(r, req[r].on, Idle), Disturb(r, req[r].on, FALSE),
         session' = session
  PROVE  IInv'
<1>1. PICK x \in Owners, d \in Debts : x = req[r].on /\ d = req[r].d
  BY RequestType DEF Ready, About
<1>2. /\ req[r].pc \in {"collect", "sync"} /\ debt[d].of = x /\ debt[d].st # "none" /\ row.of = x
      /\ ~req[r].overlapped => debt[d].st = "unpaid" /\ debt[d].amount = req[r].amount
      /\ x \in Subs /\ ~req[r].overlapped => req[r].paid = sub[x].paid
      /\ req[r].paid \in Nat
  BY <1>1, RequestType, SessionOrSub DEF Ready, About, Knows, Request
<1>3. /\ debt' \in [Debts -> DebtRow] /\ debt'[d] = row
      /\ \A e \in Debts \ {d} : debt'[e] = debt[e]
  BY <1>1 DEF IInv, TypeOK
<1>4. /\ disturbed \subseteq disturbed' /\ disturbed' \subseteq disturbed \cup {x}
      /\ x \notin disturbed' => x \notin disturbed /\ ~req[r].overlapped
  BY <1>1 DEF Disturb
<1>5. /\ sub' \in [Subs -> SubRow] /\ \A c \in Subs \ {x} : sub'[c] = sub[c]
      /\ x \in Subs => sub'[x].st = sub[x].st /\ sub'[x].paid = req[r].paid + money
  <2>1. CASE x \in Subs
    <3>1. sub' = [sub EXCEPT ![x].paid = req[r].paid + money]
      BY <1>1, <2>1 DEF Synced
    <3>2. sub[x] \in SubRow /\ sub \in [Subs -> SubRow]
      BY <2>1 DEF IInv, TypeOK
    <3>3. req[r].paid + money \in Nat
      BY <1>2
    <3> QED  BY <2>1, <3>1, <3>2, <3>3 DEF SubRow
  <2>2. CASE x \notin Subs
    BY <1>1, <2>2 DEF Synced, IInv, TypeOK
  <2> QED  BY <2>1, <2>2
<1>6. Only(x)
  BY <1>2, <1>3, <1>4, <1>5 DEF Only, IInv, TypeOK
<1>7. x \notin disturbed' =>
         Unpaid(x)' = IF row.st = "unpaid" THEN Unpaid(x) ELSE Unpaid(x) \ {d}
  BY <1>2, <1>3, <1>4 DEF Unpaid
<1>8. debt[d].taken \in Nat /\ row.amount \in Nat
  BY DebtType DEF DebtRow
<1>9. ASSUME x \in Sessions
      PROVE  SessionInv(x)'
  <2> SUFFICES ASSUME x \notin disturbed'
               PROVE  (Billed(x) /\ OwedOnce(x) /\ OwedInFull(x) /\ OwesNothing(x))'
    BY DEF SessionInv
  <2>1. Billed(x) /\ OwedOnce(x) /\ OwedInFull(x) /\ OwesNothing(x)
    BY <1>4, <1>9, SessionType DEF SessionInv
  <2>2. \A e \in Debts : Covers(e, x) => Covers(e, x)'
    <3>1. Covers(d, x) => Covers(d, x)'
      BY <1>2, <1>3, <1>4, <1>8 DEF Covers
    <3> QED  BY <1>3, <3>1 DEF Covers
  <2>3. Awaited(x) => Awaited(x)'
    <3>1. Told({r}, x, FALSE)
      BY <1>1, <1>2, IdleType, WroteLoud DEF Ordered
    <3> QED  BY <1>2, <3>1 DEF Awaited, At, Told, Same
  <2> QED  BY <1>7, <2>1, <2>2, <2>3 DEF Billed, OwedOnce, OwedInFull, OwesNothing
<1>10. ASSUME x \in Subs
       PROVE  SubInv(x)'
  <2>1. SubInv(x) /\ debt'[d].of = debt[d].of /\ sub[x].st # "none"
    BY <1>2, <1>3, <1>10 DEF IInv, SubInv
  <2>2. ASSUME x \notin disturbed', sub[x].st = "live"
        PROVE  \/ Unpaid(x)' = {} /\ sub'[x].paid = Fee
               \/ \E e \in Debts : Unpaid(x)' = {e} /\ sub'[x].paid + debt'[e].amount = Fee
    <3>1. d \in Unpaid(x)
      BY <1>2, <1>4, <2>2 DEF Unpaid
    <3>2. Unpaid(x) = {d} /\ sub[x].paid + debt[d].amount = Fee
      BY <1>4, <2>1, <2>2, <3>1 DEF SubInv
    <3>3. sub[x].paid \in Nat /\ money \in Nat
      BY <1>10 DEF IInv, TypeOK, SubRow
    <3> QED  BY <1>2, <1>3, <1>4, <1>5, <1>7, <1>8, <1>10, <2>2, <3>2, <3>3
  <2>3. sub'[x].st = sub[x].st
    BY <1>5, <1>10
  <2> QED  BY <2>1, <2>2, <2>3 DEF SubInv
<1> QED  BY <1>1, <1>2, <1>6, <1>9, <1>10, DoneStep, SessionOrSub DEF Ordered

LEMMA CollectStep ==
  ASSUME IInv, NEW r \in Reqs, Collect(r)
  PROVE  IInv'
<1>1. PICK d \in Debts : d = req[r].d /\ debt[d] \in DebtRow /\ req[r].amount \in Nat
  BY RequestType, DebtType DEF Collect, Ready, About, Request
<1> DEFINE row == [debt[d] EXCEPT !.st = "collected", !.taken = debt[d].taken + req[r].amount]
<1>2. debt[d].taken + req[r].amount \in Nat
  BY <1>1 DEF DebtRow
<1>3. /\ row \in DebtRow /\ row.st = "collected" /\ row.of = debt[d].of
      /\ row.taken = debt[d].taken + req[r].amount
  BY <1>1, <1>2, DebtRowFacts
<1>4. debt' = [debt EXCEPT ![d] = row]
  BY <1>1 DEF Collect, IInv, TypeOK
<1> HIDE DEF row
<1>5. /\ Ready(req[r]) /\ Synced(req[r], req[r].amount) /\ Wrote(r, req[r].on, Idle)
      /\ Disturb(r, req[r].on, FALSE) /\ session' = session
  BY DEF Collect
<1>6. req[r].amount = req[r].amount + (IF row.st = "unpaid" THEN row.amount ELSE 0)
  BY <1>1, <1>3
<1> QED  BY <1>1, <1>3, <1>4, <1>5, <1>6, CollectedStep

LEMMA CollectPartStep ==
  ASSUME IInv, NEW r \in Reqs, CollectPart(r)
  PROVE  IInv'
<1>1. PICK d \in Debts : d = req[r].d /\ debt[d] \in DebtRow /\ req[r].amount \in Nat
  BY RequestType, DebtType DEF CollectPart, Ready, About, Request
<1>2. PICK part \in 1 .. req[r].amount :
        /\ debt' = [debt EXCEPT ![d].taken = @ + part,
                                ![d].st = IF part = req[r].amount THEN "collected" ELSE @,
                                ![d].amount = IF part = req[r].amount THEN @
                                              ELSE req[r].amount - part]
        /\ Synced(req[r], part)
  BY <1>1 DEF CollectPart
<1>3. part \in Nat /\ debt[d].taken + part \in Nat /\ req[r].amount - part \in Nat
  BY <1>1 DEF DebtRow
<1> DEFINE row == [debt[d] EXCEPT !.taken = debt[d].taken + part,
                                  !.st = IF part = req[r].amount THEN "collected" ELSE debt[d].st,
                                  !.amount = IF part = req[r].amount THEN debt[d].amount
                                             ELSE req[r].amount - part]
<1>4. debt[d].st \in {"unpaid", "collected"}
  BY <1>1 DEF CollectPart, Ready
<1>5. /\ row \in DebtRow /\ row.of = debt[d].of /\ row.taken = debt[d].taken + part
      /\ row.st = IF part = req[r].amount THEN "collected" ELSE debt[d].st
      /\ row.amount = IF part = req[r].amount THEN debt[d].amount ELSE req[r].amount - part
  BY <1>1, <1>3, <1>4 DEF DebtRow
<1>6. debt' = [debt EXCEPT ![d] = row]
  BY <1>1, <1>2 DEF IInv, TypeOK
<1> HIDE DEF row
<1>7. /\ Ready(req[r]) /\ Wrote(r, req[r].on, Idle)
      /\ Disturb(r, req[r].on, FALSE) /\ session' = session
  BY DEF CollectPart
<1>8. ~req[r].overlapped => debt[d].st = "unpaid"
  BY <1>1, <1>7, RequestType DEF Ready, Knows
<1>9. /\ row.st \in {"unpaid", "collected"}
      /\ ~req[r].overlapped => req[r].amount = part + (IF row.st = "unpaid" THEN row.amount ELSE 0)
  BY <1>1, <1>3, <1>4, <1>5, <1>8
<1> QED  BY <1>1, <1>2, <1>3, <1>5, <1>6, <1>7, <1>9, CollectedStep

-----------------------------------------------------------------------------
(* An edit, whatever it asks for.                                          *)

EditTo(r, s, st, pay, moved, repriced, repaid, amount) ==
    /\ repaid \/ pay = session[s].pay
    /\ session' = [session EXCEPT ![s].st = st, ![s].pay = pay, ![s].amount = amount]
    /\ IF repaid /\ ~moved THEN Owed(r, s, pay, amount) ELSE UNCHANGED debt
    /\ Disturb(r, s, \/ st # session[s].st
                     \/ repaid /\ (moved \/ st = "open")
                     \/ repriced /\ session[s].pay = "full_debt")

EditedTo(r, s) ==
    \E st \in {"open", "closed"}, pay \in Pays, moved, repriced, repaid \in BOOLEAN :
      \E h \in IF repriced THEN Hours ELSE {0} :
        EditTo(r, s, st, pay, moved, repriced, repaid,
               IF repriced THEN h + req[r].orders ELSE session[s].amount)

LEMMA Edits ==
  ASSUME NEW r \in Reqs, Edit(r)
  PROVE  EditedTo(r, req[r].on)
BY Zenon DEF Edit, EditTo, EditedTo

LEMMA EditStep ==
  ASSUME IInv, NEW r \in Reqs, Edit(r)
  PROVE  IInv'
<1>0. PICK s \in Sessions : s = req[r].on
  BY RequestType DEF Edit, At, About
<1>1. /\ req[r].pc = "edit" /\ req[r].orders \in Nat /\ s \in Owners
      /\ session[s] \in SessionRow /\ session[s].st # "deleted"
      /\ ~req[r].overlapped => session[s].orders = req[r].orders /\ session[s].pay = req[r].pay
  <2>1. req[r] \in Request /\ (~req[r].overlapped => Knows(req[r]))
    BY RequestType
  <2>2. req[r].orders \in Nat
    BY <2>1 DEF Request
  <2>3. req[r].pc = "edit" /\ session[s].st # "deleted"
    BY <1>0 DEF Edit, At
  <2>4. ~req[r].overlapped => session[s].orders = req[r].orders /\ session[s].pay = req[r].pay
    BY <1>0, <2>1, <2>3 DEF Knows
  <2>5. s \in Owners /\ session[s] \in SessionRow
    BY SessionType, SessionOrSub
  <2> QED  BY <2>2, <2>3, <2>4, <2>5
<1>2. PICK st \in {"open", "closed"}, pay \in Pays, moved \in BOOLEAN, repriced \in BOOLEAN,
           repaid \in BOOLEAN :
         \E h \in IF repriced THEN Hours ELSE {0} :
           EditTo(r, s, st, pay, moved, repriced, repaid,
                  IF repriced THEN h + req[r].orders ELSE session[s].amount)
  <2>1. EditedTo(r, s)
    BY <1>0, Edits
  <2> QED  BY <2>1 DEF EditedTo
<1>3. PICK h \in Nat, amount \in Nat :
           /\ repriced => h \in Hours
           /\ amount = (IF repriced THEN h + req[r].orders ELSE session[s].amount)
           /\ EditTo(r, s, st, pay, moved, repriced, repaid, amount)
  <2>1. PICK h \in IF repriced THEN Hours ELSE {0} :
           EditTo(r, s, st, pay, moved, repriced, repaid,
                  IF repriced THEN h + req[r].orders ELSE session[s].amount)
    BY <1>2
  <2>2. h \in Nat /\ session[s].amount \in Nat
    BY <1>1, <2>1, PricesAssumption DEF SessionRow
  <2>3. (IF repriced THEN h + req[r].orders ELSE session[s].amount) \in Nat
    BY <1>1, <2>2
  <2> QED  BY <2>1, <2>2, <2>3
<1>4. /\ disturbed \subseteq disturbed' /\ disturbed' \subseteq disturbed \cup {s}
      /\ s \notin disturbed' =>
           /\ s \notin disturbed /\ ~req[r].overlapped /\ st = session[s].st
           /\ repaid => ~moved /\ st = "closed"
           /\ repriced => session[s].pay # "full_debt"
  BY <1>0, <1>3 DEF EditTo, Disturb
<1>5. /\ session' \in [Sessions -> SessionRow]
      /\ \A t \in Sessions \ {s} : session'[t] = session[t]
      /\ session'[s].st = st /\ session'[s].pay = pay /\ session'[s].amount = amount
      /\ session'[s].orders = session[s].orders
  <2> DEFINE row == [session[s] EXCEPT !.st = st, !.pay = pay, !.amount = amount]
  <2>1. row \in SessionRow /\ row.st = st /\ row.pay = pay /\ row.amount = amount
        /\ row.orders = session[s].orders
    BY <1>1 DEF SessionRow
  <2>2. session' = [session EXCEPT ![s] = row]
    BY <1>3 DEF EditTo, IInv, TypeOK
  <2> HIDE DEF row
  <2> QED  BY <2>1, <2>2 DEF IInv, TypeOK
<1>6. sub' = sub /\ Wrote(r, s, Idle)
  BY <1>0 DEF Edit
<1>7. Awaited(s) => Awaited(s)'
  <2>1. Told({r}, s, FALSE)
    BY <1>1, <1>6, IdleType, WroteLoud DEF Ordered
  <2> QED  BY <1>1, <2>1 DEF Awaited, At, Told, Same
<1>8. s \notin disturbed' =>
         /\ Billed(s)' /\ OwedOnce(s) /\ OwesNothing(s)
         /\ ~repaid => OwedInFull(s) /\ pay = session[s].pay
         /\ repaid => session[s].st = "closed" /\ OwedInFull(s)
         /\ pay = "full_debt" /\ session[s].pay = "full_debt" => amount = session[s].amount
         /\ req[r].pay = session[s].pay /\ st = session[s].st
  <2> SUFFICES ASSUME s \notin disturbed'
               PROVE  /\ Billed(s)' /\ OwedOnce(s) /\ OwesNothing(s)
                      /\ ~repaid => OwedInFull(s) /\ pay = session[s].pay
                      /\ repaid => session[s].st = "closed" /\ OwedInFull(s)
                      /\ pay = "full_debt" /\ session[s].pay = "full_debt" => amount = session[s].amount
                      /\ req[r].pay = session[s].pay /\ st = session[s].st
    OBVIOUS
  <2>1. Billed(s) /\ OwedOnce(s) /\ OwedInFull(s) /\ OwesNothing(s)
    BY <1>4, SessionType DEF SessionInv
  <2>2. Billed(s)'
    <3>1. CASE repriced
      <4>1. amount - session[s].orders = h /\ h \in Hours
        BY <1>1, <1>3, <1>4, <3>1
      <4> QED  BY <1>5, <4>1 DEF Billed
    <3>2. CASE ~repriced
      BY <1>3, <1>4, <1>5, <2>1, <3>2 DEF Billed
    <3> QED  BY <3>1, <3>2
  <2> QED  BY <1>1, <1>3, <1>4, <2>1, <2>2 DEF EditTo
<1>9. CASE UNCHANGED debt
  <2>1. Only(s) /\ Unpaid(s)' = Unpaid(s)
    BY <1>4, <1>5, <1>6, <1>9 DEF Only, Unpaid, IInv, TypeOK
  <2>2. SessionInv(s)'
    <3> SUFFICES ASSUME s \notin disturbed'
                 PROVE  (Billed(s) /\ OwedOnce(s) /\ OwedInFull(s) /\ OwesNothing(s))'
      BY DEF SessionInv
    <3>1. \A d \in Debts : amount = session[s].amount /\ Covers(d, s) => Covers(d, s)'
      BY <1>5, <1>9 DEF Covers
    <3>2. CASE ~repaid
      BY <1>5, <1>7, <1>8, <2>1, <3>1, <3>2 DEF OwedOnce, OwedInFull, OwesNothing
    <3>3. CASE repaid /\ session[s].pay = "full_debt" /\ pay = "full_debt"
      BY <1>5, <1>7, <1>8, <2>1, <3>1, <3>3 DEF OwedOnce, OwedInFull, OwesNothing
    <3>4. CASE repaid /\ ~(session[s].pay = "full_debt" /\ pay = "full_debt")
      <4>1. Owed(r, s, pay, amount) /\ session[s].pay \in Pays
        BY <1>1, <1>3, <1>4, <3>4 DEF EditTo, SessionRow
      <4>2. CASE pay = "full_debt"
        <5>1. session[s].pay = "paid" /\ Unpaid(s) = {}
          BY <1>8, <3>4, <4>1, <4>2 DEF Pays, OwesNothing
        <5>2. amount = 0
          BY <1>9, <4>1, <4>2, <5>1 DEF Owed, NewDebt, IInv, TypeOK
        <5> QED  BY <1>5, <1>8, <2>1, <4>2, <5>1, <5>2 DEF OwedOnce, OwedInFull, OwesNothing
      <4>3. CASE pay = "paid"
        <5>1. Unpaid(s) = {}
          <6>1. CASE req[r].pay = "paid"
            BY <1>8, <3>4, <6>1 DEF OwesNothing
          <6>2. CASE req[r].pay # "paid" /\ Unpaid(s) # {}
            <7>1. PICK d \in Unpaid(s) : debt' = [debt EXCEPT ![d].st = "collected",
                                                             ![d].taken = @ + debt[d].amount]
              BY <4>1, <4>3, <6>2 DEF Owed
            <7>2. debt'[d].st = "collected"
              BY <1>1, <7>1, PaidDebtFacts
            <7> QED  BY <1>9, <7>2 DEF Unpaid
          <6> QED  BY <6>1, <6>2
        <5> QED  BY <1>5, <1>8, <2>1, <4>3, <5>1 DEF OwedOnce, OwedInFull, OwesNothing
      <4> QED  BY <4>2, <4>3 DEF Pays
    <3> QED  BY <1>8, <3>2, <3>3, <3>4
  <2> QED  BY <1>0, <1>1, <1>6, <2>1, <2>2, DoneStep, SessionOrSub DEF Ordered
<1>10. ASSUME NEW d \in Debts, debt[d].st = "none", debt' = [debt EXCEPT ![d] = NewDebt(s, amount)],
              repaid, pay = "full_debt", Unpaid(s) = {}
       PROVE  IInv'
  <2>1. /\ debt' \in [Debts -> DebtRow] /\ debt'[d] = NewDebt(s, amount)
        /\ \A e \in Debts \ {d} : debt'[e] = debt[e]
        /\ debt[d].of = NoOwner
        /\ Unpaid(s)' = Unpaid(s) \cup {d}
    BY <1>1, <1>10, NewDebtFacts
  <2>2. Only(s)
    BY <1>4, <1>5, <1>6, <1>10, <2>1 DEF Only, IInv, TypeOK, NewDebt
  <2>3. Covers(d, s)'
    BY <1>5, <2>1 DEF Covers, NewDebt
  <2>4. SessionInv(s)'
    BY <1>4, <1>5, <1>8, <1>10, <2>1, <2>3 DEF SessionInv, OwedOnce, OwedInFull, OwesNothing
  <2> QED  BY <1>0, <1>1, <1>6, <2>2, <2>4, DoneStep, SessionOrSub DEF Ordered
<1>11. ASSUME NEW d \in Unpaid(s), pay = "paid",
              debt' = [debt EXCEPT ![d].st = "collected", ![d].taken = @ + debt[d].amount]
       PROVE  IInv'
  <2>1. /\ debt' \in [Debts -> DebtRow]
        /\ \A e \in Debts \ {d} : debt'[e] = debt[e]
        /\ debt[d].of = s /\ debt'[d].of = s /\ debt'[d].st = "collected"
        /\ Unpaid(s)' = Unpaid(s) \ {d}
    BY <1>1, <1>11, PaidDebtFacts
  <2>2. debt[d].st = "unpaid"
    BY DEF Unpaid
  <2>3. Only(s)
    BY <1>4, <1>5, <1>6, <2>1, <2>2 DEF Only, IInv, TypeOK
  <2>4. SessionInv(s)'
    <3>1. s \notin disturbed' => Unpaid(s)' = {}
      BY <1>8, <2>1 DEF OwedOnce
    <3> QED  BY <1>5, <1>8, <1>11, <3>1 DEF SessionInv, OwedOnce, OwedInFull, OwesNothing
  <2> QED  BY <1>0, <1>1, <1>6, <2>3, <2>4, DoneStep, SessionOrSub DEF Ordered
<1>12. \/ UNCHANGED debt
       \/ \E d \in Debts : /\ debt[d].st = "none" /\ debt' = [debt EXCEPT ![d] = NewDebt(s, amount)]
                           /\ repaid /\ pay = "full_debt" /\ Unpaid(s) = {}
       \/ \E d \in Unpaid(s) :
             /\ debt' = [debt EXCEPT ![d].st = "collected", ![d].taken = @ + debt[d].amount]
             /\ pay = "paid"
  BY <1>3 DEF EditTo, Owed, Pays
<1> QED  BY <1>9, <1>10, <1>11, <1>12

-----------------------------------------------------------------------------
(* The theorems.                                                           *)

LEMMA Start == Init => IInv
<1> SUFFICES ASSUME Init
             PROVE  IInv
  OBVIOUS
<1>1. TypeOK
  BY IdleType, PricesAssumption DEF Init, TypeOK, SessionRow, SubRow, DebtRow, Pays
<1>2. DebtsHaveOwners /\ \A t : Unpaid(t) = {}
  BY DEF Init, DebtsHaveOwners, Unpaid
<1>3. RequestsKnow
  BY IdleType DEF Init, RequestsKnow, Knows, Idle
<1>4. \A s \in Sessions : SessionInv(s)
  BY <1>2 DEF Init, SessionInv, Billed, OwedOnce, OwedInFull, OwesNothing
<1>5. \A b \in Subs : SubInv(b)
  BY SessionOrSub DEF Init, SubInv
<1> QED  BY <1>1, <1>2, <1>3, <1>4, <1>5 DEF IInv

LEMMA Stutter ==
  ASSUME IInv, UNCHANGED vars
  PROVE  IInv'
<1>1. /\ TypeOK' /\ DebtsHaveOwners' /\ \A t : Unpaid(t)' = Unpaid(t)
      /\ session' = session /\ debt' = debt /\ req' = req /\ sub' = sub /\ disturbed' = disturbed
  BY DEF IInv, vars, TypeOK, DebtsHaveOwners, Unpaid
<1>2. RequestsKnow'
  BY <1>1 DEF IInv, RequestsKnow, About, Knows
<1>3. \A s \in Sessions : SessionInv(s)'
  BY <1>1 DEF IInv, SessionInv, Billed, OwedOnce, OwedInFull, OwesNothing, Covers, Awaited, At
<1>4. \A b \in Subs : SubInv(b)'
  BY <1>1 DEF IInv, SubInv
<1> QED  BY <1>1, <1>2, <1>3, <1>4 DEF IInv

LEMMA Step ==
  ASSUME IInv, [Next]_vars
  PROVE  IInv'
<1>1. ASSUME NEW r \in Reqs, Ordering(r)
      PROVE  IInv'
  BY <1>1, LookOpenStep, AddOrderStep, DropOrderStep DEF Ordering, OrderLook, DropLook
<1>2. ASSUME NEW r \in Reqs, CheckingOut(r)
      PROVE  IInv'
  BY <1>2, LookOpenStep, CheckoutStep, CloseUnpaidStep, CreateDebtStep
  DEF CheckingOut, CheckoutLook, UnpaidLook
<1>3. ASSUME NEW r \in Reqs, Amending(r)
      PROVE  IInv'
  BY <1>3, EditLookStep, DeleteLookStep, EditStep, DeleteStep DEF Amending
<1>4. ASSUME NEW r \in Reqs, Collecting(r)
      PROVE  IInv'
  BY <1>4, CollectLookStep, SyncStep, CollectStep, CollectPartStep DEF Collecting
<1>5. ASSUME NEW b \in Subs, NEW paid \in Amounts, Subscribe(b, paid)
      PROVE  IInv'
  BY <1>5, SubscribeStep
<1>6. CASE ByHand
  BY <1>6, EditDebtStep, DeleteDebtStep, FeeByHandStep DEF ByHand
<1> QED  BY <1>1, <1>2, <1>3, <1>4, <1>5, <1>6, AbortStep, Stutter DEF Next

LEMMA Invariance == Spec => []IInv
BY Start, Step, PTL DEF Spec

\* Sessions, debts, subscriptions and the requests on them keep their types: no amount
\* goes below zero, however the requests of the two desks interleave.
THEOREM TypeCorrect == Spec => []TypeOK
<1>1. IInv => TypeOK
  BY DEF IInv
<1> QED  BY <1>1, Invariance, PTL

\* A session whose requests did not overlap is billed for its time and its orders, and
\* what is not paid of it is in the debts once and in full, through every checkout, edit,
\* collection and deletion.
THEOREM SessionsOwedOnce == Spec => []SessionsAreOwedOnce
<1>1. ASSUME IInv
      PROVE  SessionsAreOwedOnce
  <2>1. \A s \in Sessions \ disturbed : Billed(s) /\ OwedOnce(s) /\ OwedInFull(s) /\ OwesNothing(s)
    BY <1>1 DEF IInv, SessionInv
  <2>2. BillMatchesOrders
    BY <2>1 DEF BillMatchesOrders, Billed
  <2>3. OneUnpaidDebt
    <3> SUFFICES ASSUME NEW s \in Sessions \ disturbed
                 PROVE  Cardinality(Unpaid(s)) =< 1
      BY DEF OneUnpaidDebt
    <3>1. Unpaid(s) = {} \/ \E d \in Debts : Unpaid(s) = {d}
      BY <2>1 DEF OwedOnce, Unpaid
    <3> QED  BY <3>1, FS_EmptySet, FS_Singleton
  <2>4. OwedIsADebt
    BY <2>1 DEF OwedIsADebt, OwedInFull, Covers, Awaited
  <2>5. PaidOwesNothing
    BY <2>1 DEF PaidOwesNothing, OwesNothing
  <2> QED  BY <2>2, <2>3, <2>4, <2>5 DEF SessionsAreOwedOnce
<1> QED  BY <1>1, Invariance, PTL

-----------------------------------------------------------------------------
(* What is owed of a subscription is the sum over no debt or over one.      *)

\* A sum is the recursive function that the fold chooses.
LEMMA SumUnfolded ==
  ASSUME NEW S
  PROVE  LET owed(d) == debt[d].amount
             f == CHOOSE f : f = [s \in SUBSET S |->
                                    IF s = {} THEN 0
                                    ELSE LET x == CHOOSE x \in s : TRUE
                                         IN  debt[x].amount + f[s \ {x}]]
         IN  MapThenSumSet(owed, S) = f[S]
BY DEF MapThenSumSet, MapThenFoldSet

LEMMA SumOfNone ==
  LET owed(e) == debt[e].amount IN MapThenSumSet(owed, {}) = 0
<1> DEFINE F(f) == [s \in SUBSET {} |-> IF s = {} THEN 0
                                        ELSE LET x == CHOOSE x \in s : TRUE
                                             IN  debt[x].amount + f[s \ {x}]]
           sum == CHOOSE f : f = F(f)
<1>1. [s \in SUBSET {} |-> 0] = F([s \in SUBSET {} |-> 0])
  OBVIOUS
<1>2. sum = F(sum)
  <2> DEFINE none == [s \in SUBSET {} |-> 0]
  <2> HIDE DEF F, none
  <2>1. none = F(none)
    BY <1>1 DEF none, F
  <2> QED  BY <2>1
<1>3. sum[{}] = 0
  <2> HIDE DEF sum
  <2> QED  BY <1>2
<1> QED  BY <1>3, SumUnfolded

LEMMA SumOfOne ==
  ASSUME NEW d, debt[d].amount \in Nat
  PROVE  LET owed(e) == debt[e].amount IN MapThenSumSet(owed, {d}) = debt[d].amount
<1> DEFINE F(f) == [s \in SUBSET {d} |-> IF s = {} THEN 0
                                         ELSE LET x == CHOOSE x \in s : TRUE
                                              IN  debt[x].amount + f[s \ {x}]]
           one == [s \in SUBSET {d} |-> IF s = {} THEN 0 ELSE debt[d].amount]
           sum == CHOOSE f : f = F(f)
<1>1. one = F(one)
  <2> SUFFICES ASSUME NEW s \in SUBSET {d}, s # {}
               PROVE  one[s] = debt[CHOOSE x \in s : TRUE].amount + one[s \ {CHOOSE x \in s : TRUE}]
    OBVIOUS
  <2>1. s = {d}
    OBVIOUS
  <2> QED  BY <2>1
<1>2. sum = F(sum)
  <2> HIDE DEF F, one
  <2> QED  BY <1>1
<1>3. sum[{d}] = debt[d].amount
  <2> HIDE DEF sum
  <2>1. sum[{}] = 0
    BY <1>2
  <2>2. sum[{d}] = debt[d].amount + sum[{d} \ {d}]
    BY <1>2
  <2> QED  BY <2>1, <2>2
<1> QED  BY <1>3, SumUnfolded

\* However a subscription is paid in parts, what is paid of it and what its debt has left
\* are its price to the last coin, unless two collections overlapped or somebody edited or
\* deleted the debt by hand.
THEOREM FeePaidOrOwed == Spec => []FeeIsPaidOrOwed
<1>1. ASSUME IInv
      PROVE  FeeIsPaidOrOwed
  <2> DEFINE owed(d) == debt[d].amount
  <2> SUFFICES ASSUME NEW b \in Subs \ disturbed, sub[b].st = "live"
               PROVE  sub[b].paid + MapThenSumSet(owed, Unpaid(b)) = Fee
    BY DEF FeeIsPaidOrOwed
  <2>1. sub[b].paid \in Nat /\ SubInv(b)
    BY <1>1 DEF IInv, TypeOK, SubRow
  <2>2. CASE Unpaid(b) = {} /\ sub[b].paid = Fee
    <3>1. MapThenSumSet(owed, Unpaid(b)) = 0
      BY <2>2, SumOfNone
    <3> HIDE DEF owed
    <3> QED  BY <2>1, <2>2, <3>1
  <2>3. ASSUME NEW d \in Debts, Unpaid(b) = {d}, sub[b].paid + debt[d].amount = Fee
        PROVE  sub[b].paid + MapThenSumSet(owed, Unpaid(b)) = Fee
    <3>1. debt[d].amount \in Nat
      BY <1>1, DebtType DEF DebtRow
    <3>2. MapThenSumSet(owed, Unpaid(b)) = debt[d].amount
      BY <2>3, <3>1, SumOfOne
    <3> HIDE DEF owed
    <3> QED  BY <2>3, <3>2
  <2> QED  BY <2>1, <2>2, <2>3 DEF SubInv
<1> QED  BY <1>1, Invariance, PTL
=============================================================================
