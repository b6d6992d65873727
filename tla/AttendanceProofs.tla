-------------------------- MODULE AttendanceProofs --------------------------
(***************************************************************************)
(* Proofs, for every set of visitors, sessions, subscriptions and requests *)
(* and every length of the calendar, that days are counted once, and that  *)
(* a second open session of a visitor and a lost day need an overtaken     *)
(* request.                                                                *)
(***************************************************************************)
EXTENDS Attendance, TLAPS, FiniteSetTheorems

-----------------------------------------------------------------------------
(* The inductive invariant.                                                *)

\* What a row of the database is.
RowsOK ==
    /\ \A s \in Sessions : session[s].st = "none" \/ (session[s].v \in Visitors /\ session[s].day \in Days)
    /\ \A b \in Subs : IF sub[b].st = "none" THEN sub[b].used = 0 /\ counted[b] = {}
                       ELSE sub[b].v \in Visitors

\* Whom and what a request is about.
Shape(q) ==
    /\ q.pc = "idle" \/ q.v \in Visitors
    /\ q.pc \in {"qr", "look", "begin"} => q.op = "checkin"
    /\ q.pc \in {"edit", "out", "delete"} => q.op = "none"
    /\ q.pc \in InTx => q.op # "none"
    /\ q.pc = "edit" => q.old \in Days
    /\ q.op = "checkin" => q.s = NoSession
    /\ q.pc \in {"begin"} \cup InTx /\ q.op \in {"checkin", "move"} => q.new \in Days
    /\ q.pc \in {"edit", "out", "delete"} \/ (q.pc \in InTx /\ q.op # "checkin") =>
          q.s \in Sessions /\ session[q.s].v = q.v /\ session[q.s].st # "none"
    /\ q.pc \in InTx /\ q.op # "checkin" => Live(q.s)
    /\ q.pc \notin {"readDays", "close"} => q.b = NoSub
    /\ q.pc = "readDays" => q.b \in Subs
    /\ q.b # NoSub => sub[q.b].v = q.v /\ sub[q.b].st # "none"

Attended(v, d) == \E t \in Sessions : Live(t) /\ session[t].v = v /\ session[t].day = d

\* What a request has read, and whether it is still so.
Knows(q) ==
    /\ q.b = NoSub => ~q.stale
    /\ q.b # NoSub /\ ~q.stale => sub[q.b].used = q.seen
    /\ q.b # NoSub /\ q.op = "checkin" /\ q.v \notin tampered => ~q.stale
    /\ q.pc = "close" /\ q.b # NoSub =>
         /\ q.used \in {q.seen - 1, q.seen, q.seen + 1}
         /\ q.op = "checkin" => /\ q.used # q.seen - 1
                                /\ q.used # q.seen /\ q.v \notin tampered => ~Attended(q.v, q.new)
    /\ q.pc \in {"begin"} \cup InTx /\ q.op = "checkin" /\ ~q.raced => OpenOf(q.v) = {}

\* One check-in of a visitor at a time, and one change of a session.
Apart(q, p) ==
    q.pc \in InTx /\ p.pc \in InTx =>
        /\ q.op = "checkin" /\ p.op = "checkin" => q.v # p.v
        /\ q.s # NoSession => q.s # p.s

\* Every day that was counted is one on which the visitor came.
SubInv(b) ==
    sub[b].v \notin tampered =>
        /\ sub[b].used = Cardinality(counted[b])
        /\ \A d \in counted[b] : Attended(sub[b].v, d)

IInv ==
    /\ TypeOK /\ RowsOK
    /\ \A r \in Reqs : Shape(req[r]) /\ Knows(req[r])
    /\ \A r, y \in Reqs : r # y => Apart(req[r], req[y])
    /\ \A b \in Subs : SubInv(b)

-----------------------------------------------------------------------------
(* Types, and the requests that only look.                                 *)

LEMMA RequestFacts ==
  ASSUME IInv, NEW r \in Reqs
  PROVE  req[r] \in Request /\ Shape(req[r]) /\ Knows(req[r])
BY DEF IInv, TypeOK

LEMMA RowFacts ==
  ASSUME IInv
  PROVE  /\ session \in [Sessions -> SessionRow] /\ sub \in [Subs -> SubRow]
         /\ counted \in [Subs -> SUBSET Days] /\ tampered \subseteq Visitors
         /\ \A s \in Sessions : session[s].st # "none" => session[s].v \in Visitors /\ session[s].day \in Days
         /\ \A b \in Subs : IF sub[b].st = "none" THEN sub[b].used = 0 /\ counted[b] = {}
                            ELSE sub[b].v \in Visitors
BY DEF IInv, TypeOK, RowsOK

LEMMA IdleFacts == Idle \in Request /\ Shape(Idle) /\ Knows(Idle)
BY NullAssumption DEF Idle, Request, Shape, Knows, InTx

LEMMA ApartFromIdle == \A p : Apart(Idle, p) /\ Apart(p, Idle)
BY DEF Apart, InTx, Idle

LEMMA LocalStep ==
  ASSUME IInv, NEW r \in Reqs, NEW local \in Request, Goto(r, local),
         UNCHANGED <<session, sub, counted, tampered>>, today' \in Days,
         Shape(local), Knows(local),
         \A y \in Reqs \ {r} : Apart(local, req[y]) /\ Apart(req[y], local)
  PROVE  IInv'
<1>1. req' \in [Reqs -> Request] /\ req'[r] = local /\ \A y \in Reqs \ {r} : req'[y] = req[y]
  BY DEF IInv, TypeOK, Goto
<1>2. TypeOK' /\ RowsOK'
  BY <1>1 DEF IInv, TypeOK, RowsOK
<1>3. ASSUME NEW y \in Reqs
      PROVE  Shape(req[y])' /\ Knows(req[y])'
  <2>1. Shape(req'[y]) /\ Knows(req'[y])
    BY <1>1, RequestFacts
  <2> QED  BY <2>1 DEF Shape, Knows, Live, OpenOf, Attended
<1>4. ASSUME NEW y \in Reqs, NEW z \in Reqs, y # z
      PROVE  Apart(req[y], req[z])'
  <2>1. Apart(req'[y], req'[z])
    BY <1>1, <1>4 DEF IInv
  <2> QED  BY <2>1 DEF Apart
<1>5. ASSUME NEW b \in Subs
      PROVE  SubInv(b)'
  BY DEF IInv, SubInv, Attended, Live
<1> QED  BY <1>2, <1>3, <1>4, <1>5 DEF IInv

\* A request that takes no lock is apart from every other one.
LEMMA Outside ==
  ASSUME NEW q, q.pc \notin InTx
  PROVE  \A p : Apart(q, p) /\ Apart(p, q)
BY DEF Apart

LEMMA AbortStep ==
  ASSUME IInv, NEW r \in Reqs, Abort(r)
  PROVE  IInv'
BY IdleFacts, ApartFromIdle, LocalStep DEF Abort, IInv, TypeOK

LEMMA StartCheckInStep ==
  ASSUME IInv, NEW r \in Reqs, NEW v \in Visitors, NEW pc \in {"qr", "look"}, StartCheckIn(r, v, pc)
  PROVE  IInv'
<1> DEFINE local == [Idle EXCEPT !.pc = pc, !.op = "checkin", !.v = v]
<1>1. local \in Request /\ Shape(local) /\ Knows(local) /\ local.pc \notin InTx
  BY IdleFacts, NullAssumption DEF Idle, Request, Shape, Knows, InTx
<1>2. Goto(r, local) /\ UNCHANGED <<session, sub, counted, tampered>> /\ today' \in Days
  BY DEF StartCheckIn, IInv, TypeOK
<1> HIDE DEF local
<1> QED  BY <1>1, <1>2, Outside, LocalStep

LEMMA QrLookStep ==
  ASSUME IInv, NEW r \in Reqs, QrLook(r)
  PROVE  IInv'
<1> DEFINE local == [req[r] EXCEPT !.pc = "look"]
<1>1. local \in Request /\ Shape(local) /\ Knows(local) /\ local.pc \notin InTx
  BY RequestFacts DEF Request, Shape, Knows, InTx, QrLook, At
<1>2. Goto(r, Idle) \/ Goto(r, local)
  BY DEF QrLook
<1>3. UNCHANGED <<session, sub, counted, tampered>> /\ today' \in Days
  BY DEF QrLook, IInv, TypeOK
<1> HIDE DEF local
<1> QED  BY <1>1, <1>2, <1>3, IdleFacts, ApartFromIdle, Outside, LocalStep

LEMMA CheckInLookStep ==
  ASSUME IInv, NEW r \in Reqs, CheckInLook(r)
  PROVE  IInv'
<1> DEFINE local == [req[r] EXCEPT !.pc = "begin", !.new = today]
<1>1. local \in Request /\ Shape(local) /\ local.pc \notin InTx
  <2>1. req[r] \in Request /\ Shape(req[r]) /\ req[r].pc = "look" /\ today \in Days
    BY RequestFacts DEF CheckInLook, At, IInv, TypeOK
  <2>2. local \in Request
    BY <2>1 DEF Request
  <2> QED  BY <2>1, <2>2 DEF Request, Shape, InTx
<1>2. Goto(r, Idle) \/ (Goto(r, local) /\ OpenOf(req[r].v) = {})
  BY DEF CheckInLook
<1>3. OpenOf(req[r].v) = {} => Knows(local)
  BY RequestFacts DEF Request, Shape, Knows, InTx, CheckInLook, At
<1>4. UNCHANGED <<session, sub, counted, tampered>> /\ today' \in Days
  BY DEF CheckInLook, IInv, TypeOK
<1> HIDE DEF local
<1> QED  BY <1>1, <1>2, <1>3, <1>4, IdleFacts, ApartFromIdle, Outside, LocalStep

LEMMA CheckInBeginStep ==
  ASSUME IInv, NEW r \in Reqs, CheckInBegin(r)
  PROVE  IInv'
<1> DEFINE local == [req[r] EXCEPT !.pc = "readSub"]
<1>1. local \in Request /\ Shape(local) /\ Knows(local)
  BY RequestFacts DEF Request, Shape, Knows, InTx, CheckInBegin, At
<1>2. /\ Goto(r, local) /\ UNCHANGED <<session, sub, counted, tampered>> /\ today' \in Days
      /\ VisitorFree(req[r].v, r)
  BY DEF CheckInBegin, IInv, TypeOK
<1>3. local.v = req[r].v /\ local.op = "checkin" /\ local.s = NoSession
  BY RequestFacts DEF Request, Shape, CheckInBegin, At
<1>4. \A y \in Reqs \ {r} : Apart(local, req[y]) /\ Apart(req[y], local)
  BY <1>2, <1>3 DEF VisitorFree, Apart
<1> HIDE DEF local
<1> QED  BY <1>1, <1>2, <1>4, LocalStep

\* An edit, a deletion or a checkout begins with a session that is there.
LEMMA StartOnSession ==
  ASSUME IInv, NEW r \in Reqs, NEW s \in Sessions, session[s].st # "none", NEW local \in Request,
         Goto(r, local), UNCHANGED <<today, session, sub, counted, tampered>>,
         local.pc \in {"edit", "out", "delete"}, local.op = "none", local.s = s,
         local.v = session[s].v, local.b = NoSub, ~local.stale,
         local.pc = "edit" => local.old = session[s].day
  PROVE  IInv'
<1>1. Shape(local) /\ Knows(local) /\ local.pc \notin InTx
  BY RowFacts DEF Shape, Knows, InTx
<1> QED  BY <1>1, Outside, LocalStep DEF IInv, TypeOK

LEMMA StartEditStep ==
  ASSUME IInv, NEW r \in Reqs, NEW s \in Sessions, StartEdit(r, s)
  PROVE  IInv'
<1> DEFINE local == [Idle EXCEPT !.pc = "edit", !.s = s, !.v = session[s].v, !.old = session[s].day]
<1>1. /\ local \in Request /\ local.pc = "edit" /\ local.op = "none" /\ local.s = s
      /\ local.v = session[s].v /\ local.b = NoSub /\ ~local.stale /\ local.old = session[s].day
  BY IdleFacts, RowFacts DEF Idle, Request, SessionRow, StartEdit, Live
<1>2. /\ Goto(r, local) /\ UNCHANGED <<today, session, sub, counted, tampered>>
      /\ session[s].st # "none"
  BY DEF StartEdit, Live
<1> HIDE DEF local
<1> QED  BY <1>1, <1>2, StartOnSession

LEMMA StartDeleteStep ==
  ASSUME IInv, NEW r \in Reqs, NEW s \in Sessions, StartDelete(r, s)
  PROVE  IInv'
<1> DEFINE local == [Idle EXCEPT !.pc = "delete", !.s = s, !.v = session[s].v, !.old = session[s].day]
<1>1. /\ local \in Request /\ local.pc = "delete" /\ local.op = "none" /\ local.s = s
      /\ local.v = session[s].v /\ local.b = NoSub /\ ~local.stale
  BY IdleFacts, RowFacts DEF Idle, Request, SessionRow, StartDelete, Live
<1>2. /\ Goto(r, local) /\ UNCHANGED <<today, session, sub, counted, tampered>>
      /\ session[s].st # "none"
  BY DEF StartDelete, Live
<1> HIDE DEF local
<1> QED  BY <1>1, <1>2, StartOnSession

LEMMA StartCheckoutStep ==
  ASSUME IInv, NEW r \in Reqs, NEW s \in Sessions, StartCheckout(r, s)
  PROVE  IInv'
<1> DEFINE local == [Idle EXCEPT !.pc = "out", !.s = s, !.v = session[s].v]
<1>1. /\ local \in Request /\ local.pc = "out" /\ local.op = "none" /\ local.s = s
      /\ local.v = session[s].v /\ local.b = NoSub /\ ~local.stale
  BY IdleFacts, RowFacts DEF Idle, Request, SessionRow, StartCheckout
<1>2. /\ Goto(r, local) /\ UNCHANGED <<today, session, sub, counted, tampered>>
      /\ session[s].st # "none"
  BY DEF StartCheckout
<1> HIDE DEF local
<1> QED  BY <1>1, <1>2, StartOnSession

\* A move or a deletion takes the lock of its session.
LEMMA LockSession ==
  ASSUME IInv, NEW r \in Reqs, req[r].pc \in {"edit", "delete"}, Live(req[r].s), RowFree(req[r].s, r),
         NEW local \in Request, Goto(r, local), UNCHANGED <<today, session, sub, counted, tampered>>,
         local.pc = "readSub", local.op \in {"move", "delete"}, local.s = req[r].s, local.v = req[r].v,
         local.b = req[r].b, local.stale = req[r].stale, local.op = "move" => local.new \in Days
  PROVE  IInv'
<1>1. Shape(local) /\ Knows(local)
  BY RequestFacts DEF Shape, Knows, InTx
<1>2. \A y \in Reqs \ {r} : Apart(local, req[y]) /\ Apart(req[y], local)
  BY DEF RowFree, Apart
<1> QED  BY <1>1, <1>2, LocalStep DEF IInv, TypeOK

LEMMA MoveBeginStep ==
  ASSUME IInv, NEW r \in Reqs, NEW d \in Days, NEW state \in {"open", "closed"}, MoveBegin(r, d, state)
  PROVE  IInv'
<1> DEFINE local == [req[r] EXCEPT !.pc = "readSub", !.op = "move", !.new = d, !.state = state]
<1>1. /\ local \in Request /\ local.pc = "readSub" /\ local.op = "move" /\ local.s = req[r].s
      /\ local.v = req[r].v /\ local.b = req[r].b /\ local.stale = req[r].stale /\ local.new = d
  BY RequestFacts DEF Request
<1>2. /\ Goto(r, local) /\ UNCHANGED <<today, session, sub, counted, tampered>>
      /\ Live(req[r].s) /\ RowFree(req[r].s, r) /\ req[r].pc = "edit"
  BY DEF MoveBegin, At
<1> HIDE DEF local
<1> QED  BY <1>1, <1>2, LockSession

LEMMA DeleteBeginStep ==
  ASSUME IInv, NEW r \in Reqs, DeleteBegin(r)
  PROVE  IInv'
<1> DEFINE local == [req[r] EXCEPT !.pc = "readSub", !.op = "delete"]
<1>1. /\ local \in Request /\ local.pc = "readSub" /\ local.op = "delete" /\ local.s = req[r].s
      /\ local.v = req[r].v /\ local.b = req[r].b /\ local.stale = req[r].stale
  BY RequestFacts DEF Request
<1>2. /\ Goto(r, local) /\ UNCHANGED <<today, session, sub, counted, tampered>>
      /\ Live(req[r].s) /\ RowFree(req[r].s, r) /\ req[r].pc = "delete"
  BY DEF DeleteBegin, At
<1> HIDE DEF local
<1> QED  BY <1>1, <1>2, LockSession

-----------------------------------------------------------------------------
(* Reading the subscription, and the days.                                 *)

\* A transaction that goes on keeps its locks.
LEMMA GoOn ==
  ASSUME IInv, NEW r \in Reqs, req[r].pc \in InTx, NEW local \in Request, Goto(r, local),
         UNCHANGED <<today, session, sub, counted, tampered>>,
         local.pc \in {"readDays", "close"}, local.op = req[r].op, local.s = req[r].s, local.v = req[r].v,
         local.new = req[r].new, local.raced = req[r].raced,
         local.b = NoSub => ~local.stale,
         IF local.pc = "readDays" THEN local.b \in Subs ELSE TRUE,
         local.b # NoSub => /\ sub[local.b].v = local.v /\ sub[local.b].st # "none"
                            /\ local.stale \/ sub[local.b].used = local.seen
                            /\ local.op = "checkin" /\ local.v \notin tampered => ~local.stale,
         local.pc = "close" /\ local.b # NoSub =>
           /\ local.used \in {local.seen - 1, local.seen, local.seen + 1}
           /\ local.op = "checkin" =>
                /\ local.used # local.seen - 1
                /\ local.used # local.seen => ~Attended(local.v, local.new)
  PROVE  IInv'
<1>1. Shape(local)
  BY RequestFacts DEF Shape, InTx
<1>2. Knows(local)
  BY RequestFacts DEF Knows, InTx
<1>3. \A y \in Reqs \ {r} : Apart(local, req[y]) /\ Apart(req[y], local)
  <2> SUFFICES ASSUME NEW y \in Reqs \ {r}
               PROVE  Apart(local, req[y]) /\ Apart(req[y], local)
    OBVIOUS
  <2>1. Apart(req[r], req[y]) /\ Apart(req[y], req[r])
    BY DEF IInv
  <2> QED  BY <2>1 DEF Apart, InTx
<1> QED  BY <1>1, <1>2, <1>3, LocalStep DEF IInv, TypeOK

LEMMA ReadSubStep ==
  ASSUME IInv, NEW r \in Reqs, ReadSub(r)
  PROVE  IInv'
<1>0. /\ req[r] \in Request /\ req[r].pc = "readSub" /\ req[r].b = NoSub
      /\ UNCHANGED <<today, session, sub, counted, tampered>>
      /\ ~req[r].stale
  BY RequestFacts DEF ReadSub, At, Shape, Knows
<1>1. CASE Goto(r, [req[r] EXCEPT !.pc = "close"])
  <2> DEFINE local == [req[r] EXCEPT !.pc = "close"]
  <2>1. /\ local \in Request /\ local.pc = "close" /\ local.op = req[r].op /\ local.s = req[r].s
        /\ local.v = req[r].v /\ local.new = req[r].new /\ local.raced = req[r].raced /\ local.b = NoSub
        /\ local.stale = req[r].stale
    BY <1>0 DEF Request
  <2>2. Goto(r, local)
    BY <1>1
  <2> HIDE DEF local
  <2> QED  BY <1>0, <2>1, <2>2, GoOn DEF InTx
<1>2. ASSUME NEW b \in ActiveSubs(req[r].v),
             Goto(r, [req[r] EXCEPT !.pc = "readDays", !.b = b, !.seen = sub[b].used])
      PROVE  IInv'
  <2>1. b \in Subs /\ sub[b].v = req[r].v /\ sub[b].st # "none" /\ sub[b].used \in Nat
    BY RowFacts DEF ActiveSubs, SubRow
  <2> DEFINE local == [req[r] EXCEPT !.pc = "readDays", !.b = b, !.seen = sub[b].used]
  <2>2. /\ local \in Request /\ local.pc = "readDays" /\ local.op = req[r].op /\ local.s = req[r].s
        /\ local.v = req[r].v /\ local.new = req[r].new /\ local.raced = req[r].raced /\ local.b = b
        /\ local.seen = sub[b].used /\ local.stale = req[r].stale
    BY <1>0, <2>1 DEF Request
  <2>3. Goto(r, local)
    BY <1>2
  <2> HIDE DEF local
  <2> QED  BY <1>0, <2>1, <2>2, <2>3, GoOn DEF InTx
<1> QED  BY <1>1, <1>2 DEF ReadSub

LEMMA RecountFacts ==
  ASSUME NEW q \in Request, q.op \in {"checkin", "move", "delete"}, q.op = "checkin" => q.s = NoSession
  PROVE  /\ Recount(q) \in Nat /\ Recount(q) \in {q.seen - 1, q.seen, q.seen + 1}
         /\ q.op = "checkin" => /\ Recount(q) # q.seen - 1
                                /\ Recount(q) # q.seen => ~Attended(q.v, q.new)
<1>0. q.seen \in Nat
  BY DEF Request
<1> DEFINE less(n) == IF n > 0 THEN n - 1 ELSE n
           gone == IF AttendedBesides(q.s, q.v, q.old) THEN q.seen ELSE less(q.seen)
           plus(n) == IF AttendedBesides(q.s, q.v, q.new) THEN n ELSE n + 1
<1>1. gone \in Nat /\ gone \in {q.seen - 1, q.seen} /\ plus(gone) \in {gone, gone + 1}
  BY <1>0
<1>2. CASE q.op = "checkin"
  <2>1. Recount(q) = plus(q.seen)
    BY <1>2 DEF Recount
  <2>2. AttendedBesides(q.s, q.v, q.new) = Attended(q.v, q.new)
    BY <1>2, NullAssumption DEF AttendedBesides, Attended
  <2> QED  BY <1>0, <2>1, <2>2
<1>3. CASE q.op = "move"
  <2>1. Recount(q) = plus(gone)
    BY <1>3 DEF Recount
  <2> HIDE DEF gone, plus
  <2> QED  BY <1>0, <1>1, <1>3, <2>1
<1>4. CASE q.op = "delete"
  <2>1. Recount(q) = gone
    BY <1>4 DEF Recount
  <2> HIDE DEF gone
  <2> QED  BY <1>0, <1>1, <1>4, <2>1
<1> QED  BY <1>2, <1>3, <1>4

LEMMA ReadDaysStep ==
  ASSUME IInv, NEW r \in Reqs, ReadDays(r)
  PROVE  IInv'
<1>0. /\ req[r] \in Request /\ req[r].pc = "readDays" /\ req[r].b \in Subs /\ req[r].b # NoSub
      /\ UNCHANGED <<today, session, sub, counted, tampered>>
      /\ Shape(req[r]) /\ Knows(req[r])
  BY RequestFacts, NullAssumption DEF ReadDays, At, Shape
<1> DEFINE local == [req[r] EXCEPT !.pc = "close", !.used = Recount(req[r])]
<1>1. /\ Recount(req[r]) \in Nat /\ Recount(req[r]) \in {req[r].seen - 1, req[r].seen, req[r].seen + 1}
      /\ req[r].op = "checkin" => /\ Recount(req[r]) # req[r].seen - 1
                                  /\ Recount(req[r]) # req[r].seen => ~Attended(req[r].v, req[r].new)
  <2>1. req[r].op \in {"checkin", "move", "delete"} /\ (req[r].op = "checkin" => req[r].s = NoSession)
    BY <1>0 DEF Shape, InTx, Request
  <2> QED  BY <1>0, <2>1, RecountFacts
<1>2. /\ local \in Request /\ local.pc = "close" /\ local.op = req[r].op /\ local.s = req[r].s
      /\ local.v = req[r].v /\ local.new = req[r].new /\ local.raced = req[r].raced /\ local.b = req[r].b
      /\ local.stale = req[r].stale /\ local.seen = req[r].seen /\ local.used = Recount(req[r])
  BY <1>0, <1>1 DEF Request
<1>3. Goto(r, local)
  BY DEF ReadDays
<1> HIDE DEF local
<1>4. /\ sub[local.b].v = local.v /\ sub[local.b].st # "none"
      /\ local.stale \/ sub[local.b].used = local.seen
      /\ local.op = "checkin" /\ local.v \notin tampered => ~local.stale
  BY <1>0, <1>2 DEF Shape, Knows
<1>5. /\ local.used \in {local.seen - 1, local.seen, local.seen + 1}
      /\ local.op = "checkin" => /\ local.used # local.seen - 1
                                 /\ local.used # local.seen => ~Attended(local.v, local.new)
  BY <1>1, <1>2
<1> QED  BY <1>0, <1>2, <1>3, <1>4, <1>5, GoOn DEF InTx

-----------------------------------------------------------------------------
(* Requests that write.                                                    *)

\* What Settle does to the other requests.
Settled(r, written, opened) ==
    /\ req' \in [Reqs -> Request] /\ req'[r] = Idle
    /\ \A y \in Reqs \ {r} :
         /\ req'[y].pc = req[y].pc /\ req'[y].op = req[y].op /\ req'[y].v = req[y].v
         /\ req'[y].s = req[y].s /\ req'[y].b = req[y].b /\ req'[y].new = req[y].new
         /\ req'[y].seen = req[y].seen /\ req'[y].used = req[y].used /\ req'[y].old = req[y].old
         /\ req'[y].stale = (req[y].stale \/ req[y].b \in written)
         /\ req'[y].raced = (req[y].raced \/ (/\ req[y].pc \in InTx \cup {"begin"}
                                              /\ req[y].op = "checkin" /\ req[y].v \in opened))

LEMMA SettleFacts ==
  ASSUME IInv, NEW r \in Reqs, NEW written, NEW opened, Settle(r, Idle, written, opened)
  PROVE  Settled(r, written, opened)
<1> DEFINE stale(y) == req[y].stale \/ req[y].b \in written
           raced(y) == req[y].raced \/ (/\ req[y].pc \in InTx \cup {"begin"}
                                        /\ req[y].op = "checkin" /\ req[y].v \in opened)
<1>1. \A y \in Reqs : req[y] \in Request /\ stale(y) \in BOOLEAN /\ raced(y) \in BOOLEAN
  BY DEF IInv, TypeOK, Request
<1>2. req' = [y \in Reqs |-> IF y = r THEN Idle
                             ELSE [req[y] EXCEPT !.stale = stale(y), !.raced = raced(y)]]
  BY <1>1 DEF Settle
<1>3. ASSUME NEW y \in Reqs \ {r}
      PROVE  /\ req'[y] \in Request
             /\ req'[y].pc = req[y].pc /\ req'[y].op = req[y].op /\ req'[y].v = req[y].v
             /\ req'[y].s = req[y].s /\ req'[y].b = req[y].b /\ req'[y].new = req[y].new
             /\ req'[y].seen = req[y].seen /\ req'[y].used = req[y].used /\ req'[y].old = req[y].old
             /\ req'[y].stale = stale(y) /\ req'[y].raced = raced(y)
  <2> DEFINE a == stale(y)
             b == raced(y)
  <2>1. req'[y] = [req[y] EXCEPT !.stale = a, !.raced = b] /\ req[y] \in Request
    BY <1>1, <1>2
  <2>2. a \in BOOLEAN /\ b \in BOOLEAN
    BY <1>1
  <2> HIDE DEF a, b
  <2>3. /\ req'[y] \in Request
        /\ req'[y].pc = req[y].pc /\ req'[y].op = req[y].op /\ req'[y].v = req[y].v
        /\ req'[y].s = req[y].s /\ req'[y].b = req[y].b /\ req'[y].new = req[y].new
        /\ req'[y].seen = req[y].seen /\ req'[y].used = req[y].used /\ req'[y].old = req[y].old
    BY <2>1, <2>2 DEF Request
  <2>4. req'[y].stale = a /\ req'[y].raced = b
    BY <2>1, <2>2 DEF Request
  <2> QED  BY <2>3, <2>4 DEF a, b
<1>4. req' \in [Reqs -> Request] /\ req'[r] = Idle
  <2> HIDE DEF stale, raced
  <2>1. req' = [y \in Reqs |-> req'[y]] /\ req'[r] = Idle
    BY <1>2
  <2> QED  BY <1>3, <2>1, IdleFacts
<1> QED  BY <1>3, <1>4 DEF Settled

\* What a write leaves as it was, of the rows that others hold.
Kept(written, opened) ==
    /\ session' \in [Sessions -> SessionRow] /\ sub' \in [Subs -> SubRow]
    /\ tampered \subseteq tampered'
    /\ \A s \in Sessions : session[s].st # "none" => session'[s].v = session[s].v /\ session'[s].st # "none"
    /\ \A b \in Subs : sub[b].st # "none" => /\ sub'[b].v = sub[b].v /\ sub'[b].st # "none"
                                             /\ b \notin written => sub'[b].used = sub[b].used
    /\ \A v \in Visitors \ opened : OpenOf(v)' \subseteq OpenOf(v)

LEMMA OthersStay ==
  ASSUME IInv, NEW r \in Reqs, NEW y \in Reqs \ {r}, NEW written \in SUBSET Subs, NEW opened,
         Settled(r, written, opened), Kept(written, opened),
         req[y].pc \in InTx /\ req[y].op # "checkin" => \E s \in Sessions : s = req[y].s /\ Live(s)',
         req[y].b \in written /\ req[y].op = "checkin" => req[y].v \in tampered',
         \A v \in Visitors, d \in Days :
           req[y].pc = "close" /\ req[y].op = "checkin" /\ req[y].v = v /\ v \notin tampered' =>
              (Attended(v, d)' => Attended(v, d))
  PROVE  Shape(req[y])' /\ Knows(req[y])'
<1>1. req[y] \in Request /\ Shape(req[y]) /\ Knows(req[y])
  BY RequestFacts
<1>2. /\ req'[y].pc = req[y].pc /\ req'[y].op = req[y].op /\ req'[y].v = req[y].v
      /\ req'[y].s = req[y].s /\ req'[y].b = req[y].b /\ req'[y].new = req[y].new
      /\ req'[y].seen = req[y].seen /\ req'[y].used = req[y].used /\ req'[y].old = req[y].old
      /\ req'[y].stale = (req[y].stale \/ req[y].b \in written)
      /\ req'[y].raced = (req[y].raced \/ (/\ req[y].pc \in InTx \cup {"begin"}
                                           /\ req[y].op = "checkin" /\ req[y].v \in opened))
  BY DEF Settled
<1>3. Shape(req[y])'
  <2>1. \/ req[y].pc \in {"edit", "out", "delete"}
        \/ req[y].pc \in InTx /\ req[y].op # "checkin"
        => session'[req[y].s].v = req[y].v /\ session'[req[y].s].st # "none"
    BY <1>1 DEF Kept, Shape
  <2>2. req[y].b # NoSub => sub'[req[y].b].v = req[y].v /\ sub'[req[y].b].st # "none"
    BY <1>1 DEF Kept, Shape, Request
  <2>3. req[y].pc \in InTx /\ req[y].op # "checkin" => session'[req[y].s].st \in {"open", "closed"}
    BY DEF Live
  <2> QED  BY <1>1, <1>2, <2>1, <2>2, <2>3 DEF Shape, Live
<1>4. Knows(req[y])'
  <2>1. req'[y].b = NoSub => ~req'[y].stale
    BY <1>1, <1>2, NullAssumption DEF Knows
  <2>2. req'[y].b # NoSub /\ ~req'[y].stale => sub'[req'[y].b].used = req'[y].seen
    <3> SUFFICES ASSUME req[y].b # NoSub, ~req'[y].stale
                 PROVE  sub'[req[y].b].used = req[y].seen
      BY <1>2
    <3>1. ~req[y].stale /\ req[y].b \notin written
      BY <1>2
    <3>2. req[y].b \in Subs /\ sub[req[y].b].st # "none" /\ sub[req[y].b].used = req[y].seen
      BY <1>1, <3>1 DEF Knows, Shape, Request
    <3> QED  BY <3>1, <3>2 DEF Kept
  <2>3. req'[y].b # NoSub /\ req'[y].op = "checkin" /\ req'[y].v \notin tampered' => ~req'[y].stale
    BY <1>1, <1>2 DEF Knows, Kept
  <2>4. req'[y].pc = "close" /\ req'[y].b # NoSub =>
         /\ req'[y].used \in {req'[y].seen - 1, req'[y].seen, req'[y].seen + 1}
         /\ req'[y].op = "checkin" => req'[y].used # req'[y].seen - 1
    BY <1>1, <1>2 DEF Knows
  <2>5. ASSUME req'[y].pc = "close", req'[y].b # NoSub, req'[y].op = "checkin",
               req'[y].used # req'[y].seen, req'[y].v \notin tampered'
        PROVE  ~Attended(req[y].v, req[y].new)'
    <3>1. ~Attended(req[y].v, req[y].new) /\ req[y].v \in Visitors /\ req[y].new \in Days
      BY <1>1, <1>2, <2>5 DEF Knows, Shape, Kept, InTx
    <3>2. PICK v \in Visitors, d \in Days : v = req[y].v /\ d = req[y].new
      BY <3>1
    <3>3. ~Attended(v, d)'
      BY <1>2, <2>5, <3>1, <3>2
    <3>4. v = req'[y].v /\ d = req'[y].new
      BY <1>2, <3>2
    <3> QED  BY <3>3, <3>4 DEF Attended
  <2>6. ASSUME req'[y].pc \in {"begin"} \cup InTx, req'[y].op = "checkin", ~req'[y].raced
        PROVE  OpenOf(req[y].v)' = {}
    <3>1. OpenOf(req[y].v) = {} /\ req[y].v \in Visitors \ opened
      BY <1>1, <1>2, <2>6 DEF Knows, Shape, InTx
    <3>2. PICK v \in Visitors \ opened : v = req[y].v
      BY <3>1
    <3>3. OpenOf(v)' = {}
      BY <3>1, <3>2 DEF Kept
    <3>4. v = req'[y].v
      BY <1>2, <3>2
    <3> QED  BY <3>3, <3>4 DEF OpenOf
  <2> QED  BY <2>1, <2>2, <2>3, <2>4, <2>5, <2>6 DEF Knows
<1> QED  BY <1>3, <1>4

\* A write keeps the invariant if it spares the other requests and the days counted.
LEMMA WriteStep ==
  ASSUME IInv, NEW r \in Reqs, NEW written \in SUBSET Subs, NEW opened,
         Settled(r, written, opened), Kept(written, opened), today' = today,
         counted' \in [Subs -> SUBSET Days], tampered' \subseteq Visitors, RowsOK',
         \A y \in Reqs \ {r} :
           /\ req[y].pc \in InTx /\ req[y].op # "checkin" => \E s \in Sessions : s = req[y].s /\ Live(s)'
           /\ req[y].b \in written /\ req[y].op = "checkin" => req[y].v \in tampered'
           /\ \A v \in Visitors, d \in Days :
                req[y].pc = "close" /\ req[y].op = "checkin" /\ req[y].v = v /\ v \notin tampered' =>
                  (Attended(v, d)' => Attended(v, d)),
         \A b \in Subs : SubInv(b)'
  PROVE  IInv'
<1>1. TypeOK'
  BY DEF IInv, TypeOK, Settled, Kept
<1>2. ASSUME NEW y \in Reqs
      PROVE  Shape(req[y])' /\ Knows(req[y])'
  <2>1. CASE y = r
    BY <2>1, NullAssumption DEF Settled, Idle, Shape, Knows, InTx
  <2>2. CASE y # r
    BY <2>2, OthersStay
  <2> QED  BY <2>1, <2>2
<1>3. ASSUME NEW y \in Reqs, NEW z \in Reqs, y # z
      PROVE  Apart(req[y], req[z])'
  <2>1. Apart(req[y], req[z])
    BY <1>3 DEF IInv
  <2>2. CASE y # r /\ z # r
    BY <2>1, <2>2 DEF Apart, Settled
  <2>3. CASE y = r \/ z = r
    BY <2>3 DEF Apart, Settled, Idle, InTx
  <2> QED  BY <2>2, <2>3
<1> QED  BY <1>1, <1>2, <1>3 DEF IInv

\* A session that only opens or closes.
LEMMA OpenClose ==
  ASSUME IInv, NEW r \in Reqs, NEW s \in Sessions, NEW state \in {"open", "closed"}, Live(s),
         session' = [session EXCEPT ![s].st = state], UNCHANGED <<today, sub, counted, tampered>>,
         NEW opened, Settled(r, {}, opened),
         state = "open" /\ session[s].st = "closed" => session[s].v \in opened
  PROVE  IInv'
<1>1. /\ session' \in [Sessions -> SessionRow] /\ \A t \in Sessions \ {s} : session'[t] = session[t]
      /\ session'[s].st = state /\ session'[s].v = session[s].v /\ session'[s].day = session[s].day
  <2>1. session[s] \in SessionRow /\ session'[s] = [session[s] EXCEPT !.st = state]
    BY DEF IInv, TypeOK
  <2>2. session'[s] \in SessionRow /\ session'[s].st = state /\ session'[s].v = session[s].v
        /\ session'[s].day = session[s].day
    BY <2>1 DEF SessionRow
  <2> QED  BY <2>2 DEF IInv, TypeOK
<1>2. \A t \in Sessions : /\ Live(t)' = Live(t) /\ session'[t].v = session[t].v
                          /\ session'[t].day = session[t].day
  BY <1>1 DEF Live
<1>3. \A v, d : Attended(v, d)' = Attended(v, d)
  BY <1>2 DEF Attended
<1>4. RowsOK'
  BY <1>1 DEF RowsOK, IInv, Live
<1>5. Kept({}, opened)
  BY <1>1, RowFacts DEF Kept, OpenOf, Live
<1>6. \A b \in Subs : SubInv(b)'
  BY <1>3 DEF SubInv, IInv
<1>7. \A y \in Reqs \ {r} :
        req[y].pc \in InTx /\ req[y].op # "checkin" => \E t \in Sessions : t = req[y].s /\ Live(t)'
  BY <1>2, RequestFacts DEF Shape
<1> DEFINE written == {}
<1>8. written \in SUBSET Subs /\ Settled(r, written, opened) /\ Kept(written, opened)
      /\ \A y \in Reqs : req[y].b \notin written
  BY <1>5
<1> HIDE DEF written
<1>9. counted' \in [Subs -> SUBSET Days] /\ tampered' \subseteq Visitors
  BY RowFacts
<1> QED  BY <1>3, <1>4, <1>6, <1>7, <1>8, <1>9, WriteStep

LEMMA CheckoutStep ==
  ASSUME IInv, NEW r \in Reqs, Checkout(r)
  PROVE  IInv'
<1>1. PICK s \in Sessions : s = req[r].s
  BY RequestFacts DEF Checkout, At, Shape
<1>2. Settled(r, {}, {})
  <2>1. req' \in [Reqs -> Request] /\ req'[r] = Idle /\ \A y \in Reqs \ {r} : req'[y] = req[y]
    BY IdleFacts DEF Checkout, Goto, IInv, TypeOK
  <2>2. \A y \in Reqs : req[y].stale \in BOOLEAN /\ req[y].raced \in BOOLEAN
    BY DEF IInv, TypeOK, Request
  <2> QED  BY <2>1, <2>2 DEF Settled
<1> DEFINE none == {}
<1>3. Settled(r, {}, none)
  BY <1>2
<1> HIDE DEF none
<1> QED  BY <1>1, <1>3, OpenClose DEF Checkout

LEMMA RecordedFacts ==
  ASSUME IInv, NEW r \in Reqs, req[r].pc = "close", Recorded(req[r])
  PROVE  /\ Written(req[r]) \in SUBSET Subs
         /\ \A b \in Written(req[r]) : /\ b = req[r].b /\ sub[b].v = req[r].v /\ sub[b].st # "none"
                                       /\ req[r].used # req[r].seen /\ b # NoSub
         /\ sub' \in [Subs -> SubRow]
         /\ \A b \in Subs : /\ sub'[b].v = sub[b].v /\ sub'[b].st = sub[b].st
                            /\ sub'[b].used = IF b \in Written(req[r]) THEN req[r].used
                                              ELSE sub[b].used
<1>1. req[r] \in Request /\ Shape(req[r])
  BY RequestFacts
<1>2. /\ Written(req[r]) \in SUBSET Subs
      /\ \A b \in Written(req[r]) : /\ b = req[r].b /\ sub[b].v = req[r].v /\ sub[b].st # "none"
                                    /\ req[r].used # req[r].seen /\ b # NoSub
  BY <1>1 DEF Written, Shape, Request
<1>3. req[r].used \in Nat /\ \A b \in Subs : sub[b] \in SubRow
  BY <1>1 DEF IInv, TypeOK, Request
<1> DEFINE W == Written(req[r])
<1>4. sub' = [b \in Subs |-> IF b \in W THEN [sub[b] EXCEPT !.used = req[r].used] ELSE sub[b]]
  BY DEF Recorded
<1> HIDE DEF W
<1>5. \A b \in Subs : /\ sub'[b] \in SubRow /\ sub'[b].v = sub[b].v /\ sub'[b].st = sub[b].st
                      /\ sub'[b].used = IF b \in W THEN req[r].used ELSE sub[b].used
  BY <1>3, <1>4 DEF SubRow
<1>6. sub' \in [Subs -> SubRow]
  BY <1>4, <1>5
<1> QED  BY <1>2, <1>5, <1>6 DEF W

LEMMA CloseCheckInStep ==
  ASSUME IInv, NEW r \in Reqs, CloseCheckIn(r)
  PROVE  IInv'
<1>1. /\ req[r] \in Request /\ Shape(req[r]) /\ Knows(req[r]) /\ req[r].pc = "close"
      /\ req[r].op = "checkin" /\ req[r].v \in Visitors /\ req[r].new \in Days
  BY RequestFacts DEF CloseCheckIn, At, Shape, InTx
<1>2. PICK v \in Visitors, day \in Days : v = req[r].v /\ day = req[r].new
  BY <1>1
<1>3. PICK s \in Sessions : /\ session[s].st = "none"
                            /\ session' = [session EXCEPT ![s] = [st |-> "open", v |-> v, day |-> day]]
  BY <1>2 DEF CloseCheckIn
<1>4. /\ session' \in [Sessions -> SessionRow] /\ \A t \in Sessions \ {s} : session'[t] = session[t]
      /\ session'[s].st = "open" /\ session'[s].v = v /\ session'[s].day = day
  BY <1>3 DEF IInv, TypeOK, SessionRow
<1> DEFINE W == Written(req[r])
<1>5. /\ W \in SUBSET Subs /\ sub' \in [Subs -> SubRow]
      /\ \A b \in W : b = req[r].b /\ sub[b].v = v /\ sub[b].st # "none" /\ req[r].used # req[r].seen /\ b # NoSub
      /\ \A b \in Subs : /\ sub'[b].v = sub[b].v /\ sub'[b].st = sub[b].st
                         /\ sub'[b].used = IF b \in W THEN req[r].used ELSE sub[b].used
  BY <1>1, <1>2, RecordedFacts DEF CloseCheckIn
<1>6. /\ counted' = [b \in Subs |-> IF b \in W THEN counted[b] \cup {day} ELSE counted[b]]
      /\ today' = today /\ tampered' = tampered
  BY <1>2 DEF CloseCheckIn
<1>7. Settled(r, W, {v})
  BY <1>2, SettleFacts DEF CloseCheckIn
<1> HIDE DEF W
<1>8. Kept(W, {v})
  <2>1. \A w \in Visitors \ {v} : OpenOf(w)' \subseteq OpenOf(w)
    BY <1>4 DEF OpenOf
  <2> QED  BY <1>3, <1>4, <1>5, <1>6, <2>1 DEF Kept
<1>9. RowsOK'
  BY <1>2, <1>3, <1>4, <1>5, <1>6, RowFacts DEF RowsOK
<1>10. \A w, d : /\ Attended(w, d) => Attended(w, d)'
                 /\ w # v => (Attended(w, d)' => Attended(w, d))
  BY <1>3, <1>4 DEF Attended, Live
<1>11. Attended(v, day)'
  BY <1>4 DEF Attended, Live
<1>12. ASSUME NEW y \in Reqs \ {r}
       PROVE  /\ req[y].pc \in InTx /\ req[y].op # "checkin" => \E t \in Sessions : t = req[y].s /\ Live(t)'
              /\ req[y].b \in W /\ req[y].op = "checkin" => req[y].v \in tampered'
              /\ \A w \in Visitors, d \in Days :
                   req[y].pc = "close" /\ req[y].op = "checkin" /\ req[y].v = w /\ w \notin tampered' =>
                     (Attended(w, d)' => Attended(w, d))
  <2>1. Shape(req[y]) /\ Apart(req[r], req[y])
    BY RequestFacts DEF IInv
  <2>2. req[y].pc \in InTx /\ req[y].op # "checkin" => \E t \in Sessions : t = req[y].s /\ Live(t)'
    BY <1>3, <1>4, <2>1 DEF Shape, Live
  <2>3. req[y].pc \in InTx /\ req[y].op = "checkin" => req[y].v # v
    BY <1>1, <1>2, <2>1 DEF Apart, InTx
  <2>4. ~(req[y].b \in W /\ req[y].op = "checkin")
    BY <1>5, <2>1, <2>3 DEF Shape, InTx
  <2> QED  BY <1>10, <2>2, <2>3, <2>4 DEF InTx
<1>13. ASSUME NEW b \in Subs
       PROVE  SubInv(b)'
  <2> SUFFICES ASSUME sub[b].v \notin tampered
               PROVE  /\ sub'[b].used = Cardinality(counted'[b])
                      /\ \A d \in counted'[b] : Attended(sub[b].v, d)'
    BY <1>5, <1>6 DEF SubInv, Attended
  <2>1. sub[b].used = Cardinality(counted[b]) /\ \A d \in counted[b] : Attended(sub[b].v, d)
    BY DEF IInv, SubInv
  <2>2. PICK w : w = sub[b].v
    OBVIOUS
  <2>3. \A d \in counted[b] : Attended(w, d)'
    BY <1>10, <2>1, <2>2
  <2>4. CASE b \notin W
    <3>1. sub'[b].used = sub[b].used /\ sub'[b].v = w /\ counted'[b] = counted[b]
      BY <1>5, <1>6, <2>2, <2>4
    <3> QED  BY <2>1, <2>3, <3>1 DEF Attended
  <2>5. CASE b \in W
    <3>1. sub[b].used = req[r].seen /\ req[r].used = req[r].seen + 1 /\ ~Attended(v, day) /\ w = v
      BY <1>1, <1>2, <1>5, <2>2, <2>5 DEF Knows
    <3>2. day \notin counted[b]
      BY <2>1, <2>2, <3>1
    <3>3. IsFiniteSet(counted[b])
      BY RowFacts, LastDayAssumption, FS_Interval, FS_Subset DEF Days
    <3>4. Cardinality(counted[b] \cup {day}) = Cardinality(counted[b]) + 1
      BY <3>2, <3>3, FS_AddElement
    <3>5. sub'[b].used = req[r].used /\ sub'[b].v = w /\ counted'[b] = counted[b] \cup {day}
      BY <1>5, <1>6, <2>2, <2>5
    <3>6. \A d \in counted'[b] : Attended(w, d)'
      BY <1>11, <2>3, <3>1, <3>5
    <3> QED  BY <2>1, <3>1, <3>4, <3>5, <3>6 DEF Attended
  <2> QED  BY <2>4, <2>5
<1>14. counted' \in [Subs -> SUBSET Days] /\ tampered' \subseteq Visitors
  BY <1>2, <1>6, RowFacts
<1> QED  BY <1>5, <1>6, <1>7, <1>8, <1>9, <1>12, <1>13, <1>14, WriteStep

\* Session s of v goes to another day, or is deleted.
MovedTo(s, v, st, day) ==
    /\ session[s].v = v /\ Live(s) /\ st \in {"open", "closed", "deleted"}
    /\ session' = [session EXCEPT ![s].st = st, ![s].day = day]
    /\ tampered' = tampered \cup {v}

\* Of the subscriptions only daysUsed is written, of those in W, which are v's.
Rewritten(v, W) ==
    /\ sub' \in [Subs -> SubRow]
    /\ \A b \in W : sub[b].v = v /\ b # NoSub /\ sub[b].st # "none"
    /\ \A b \in Subs : /\ sub'[b].v = sub[b].v /\ sub'[b].st = sub[b].st
                       /\ b \notin W => sub'[b].used = sub[b].used

\* A session that moves, or goes: from then on nothing is claimed of the days of
\* its visitor.
LEMMA SessionMoved ==
  ASSUME IInv, NEW r \in Reqs, NEW s \in Sessions, NEW v \in Visitors, NEW st, NEW day \in Days,
         NEW W \in SUBSET Subs, NEW opened,
         MovedTo(s, v, st, day), Rewritten(v, W), Settled(r, W, opened), UNCHANGED <<today, counted>>,
         st = "open" /\ session[s].st = "closed" => v \in opened,
         \A y \in Reqs \ {r} : req[y].pc \in InTx => req[y].s # s
  PROVE  IInv'
<1>0. /\ session[s].v = v /\ Live(s) /\ st \in {"open", "closed", "deleted"}
      /\ session' = [session EXCEPT ![s].st = st, ![s].day = day] /\ tampered' = tampered \cup {v}
      /\ sub' \in [Subs -> SubRow]
      /\ \A b \in W : sub[b].v = v /\ b # NoSub /\ sub[b].st # "none"
      /\ \A b \in Subs : /\ sub'[b].v = sub[b].v /\ sub'[b].st = sub[b].st
                         /\ b \notin W => sub'[b].used = sub[b].used
  BY DEF MovedTo, Rewritten
<1>3. /\ session' \in [Sessions -> SessionRow] /\ \A t \in Sessions \ {s} : session'[t] = session[t]
      /\ session'[s].st = st /\ session'[s].v = v /\ session'[s].day = day
  <2>1. session[s] \in SessionRow /\ session'[s] = [session[s] EXCEPT !.st = st, !.day = day]
    BY <1>0 DEF IInv, TypeOK
  <2> DEFINE row == [session[s] EXCEPT !.st = st, !.day = day]
  <2>3. row \in SessionRow /\ row.st = st /\ row.v = session[s].v /\ row.day = day
    BY <1>0, <2>1 DEF SessionRow
  <2>2. session'[s] \in SessionRow /\ session'[s].st = st /\ session'[s].v = v /\ session'[s].day = day
    <3> HIDE DEF row
    <3>1. session'[s] = row
      BY <1>0, <2>1 DEF row
    <3> QED  BY <1>0, <2>3, <3>1
  <2> QED  BY <1>0, <2>2 DEF IInv, TypeOK
<1>7. Kept(W, opened)
  <2>1. \A w \in Visitors \ opened : OpenOf(w)' \subseteq OpenOf(w)
    BY <1>0, <1>3 DEF OpenOf, Live
  <2> QED  BY <1>0, <1>3, <2>1 DEF Kept, Live
<1>8. RowsOK'
  BY <1>0, <1>3, RowFacts DEF RowsOK
<1>9. \A w, d : w # v => Attended(w, d)' = Attended(w, d)
  BY <1>0, <1>3 DEF Attended, Live
<1>10. ASSUME NEW y \in Reqs \ {r}
       PROVE  /\ req[y].pc \in InTx /\ req[y].op # "checkin" => \E t \in Sessions : t = req[y].s /\ Live(t)'
              /\ req[y].b \in W /\ req[y].op = "checkin" => req[y].v \in tampered'
              /\ \A w \in Visitors, d \in Days :
                   req[y].pc = "close" /\ req[y].op = "checkin" /\ req[y].v = w /\ w \notin tampered' =>
                     (Attended(w, d)' => Attended(w, d))
  <2>1. Shape(req[y])
    BY <1>0, RequestFacts
  <2>2. req[y].pc \in InTx => req[y].s # s
    BY <1>0
  <2>3. req[y].pc \in InTx /\ req[y].op # "checkin" => \E t \in Sessions : t = req[y].s /\ Live(t)'
    BY <1>0, <1>3, <2>1, <2>2 DEF Shape, Live
  <2>4. req[y].b \in W => req[y].v = v
    BY <1>0, <2>1 DEF Shape
  <2> QED  BY <1>0, <1>9, <2>3, <2>4
<1>11. ASSUME NEW b \in Subs
       PROVE  SubInv(b)'
  <2> SUFFICES ASSUME sub[b].v \notin tampered'
               PROVE  /\ sub'[b].used = Cardinality(counted'[b])
                      /\ \A d \in counted'[b] : Attended(sub[b].v, d)'
    BY <1>0 DEF SubInv, Attended
  <2>1. sub[b].used = Cardinality(counted[b]) /\ \A d \in counted[b] : Attended(sub[b].v, d)
    BY <1>0 DEF IInv, SubInv
  <2>2. sub[b].v # v /\ b \notin W
    BY <1>0
  <2>3. PICK w : w = sub[b].v
    BY <1>0
  <2>4. \A d \in counted[b] : Attended(w, d)'
    BY <1>0, <1>9, <2>1, <2>2, <2>3
  <2>5. sub'[b].used = sub[b].used /\ sub'[b].v = w
    BY <1>0, <2>2, <2>3
  <2> QED  BY <1>0, <2>1, <2>4, <2>5 DEF Attended
<1>12. counted' \in [Subs -> SUBSET Days] /\ tampered' \subseteq Visitors
  BY <1>0, RowFacts
<1> QED  BY <1>0, <1>7, <1>8, <1>10, <1>11, <1>12, WriteStep

\* The same at the end of a transaction, which holds the lock of the session.
LEMMA CloseOnSession ==
  ASSUME IInv, NEW r \in Reqs, req[r].pc = "close", req[r].op \in {"move", "delete"},
         NEW st \in {"open", "closed", "deleted"}, NEW day \in Days,
         session' = [session EXCEPT ![req[r].s].st = st, ![req[r].s].day = day],
         Recorded(req[r]), tampered' = tampered \cup {req[r].v}, UNCHANGED <<today, counted>>,
         NEW opened, Settle(r, Idle, Written(req[r]), opened),
         st = "open" /\ session[req[r].s].st = "closed" => req[r].v \in opened
  PROVE  IInv'
<1>1. /\ Shape(req[r]) /\ req[r].v \in Visitors /\ req[r].s \in Sessions
      /\ session[req[r].s].v = req[r].v /\ Live(req[r].s) /\ req[r].s # NoSession
  BY RequestFacts, NullAssumption DEF Shape, InTx
<1>2. PICK v \in Visitors, s \in Sessions : v = req[r].v /\ s = req[r].s
  BY <1>1
<1> DEFINE W == Written(req[r])
<1>4. W \in SUBSET Subs /\ Rewritten(v, W)
  BY <1>2, RecordedFacts DEF Rewritten
<1>5. Settled(r, W, opened)
  BY SettleFacts
<1>6. ASSUME NEW y \in Reqs \ {r}
      PROVE  req[y].pc \in InTx => req[y].s # s
  <2>1. Apart(req[r], req[y])
    BY DEF IInv
  <2> QED  BY <1>1, <1>2, <2>1 DEF Apart, InTx
<1>7. MovedTo(s, v, st, day)
  BY <1>1, <1>2 DEF MovedTo
<1>8. st = "open" /\ session[s].st = "closed" => v \in opened
  BY <1>2
<1> HIDE DEF W
<1> QED  BY <1>4, <1>5, <1>6, <1>7, <1>8, SessionMoved

LEMMA AmendStep ==
  ASSUME IInv, NEW r \in Reqs, NEW state \in {"open", "closed"}, Amend(r, state)
  PROVE  IInv'
<1>1. PICK s \in Sessions, v \in Visitors : s = req[r].s /\ v = req[r].v /\ session[s].v = v
  BY RequestFacts DEF Amend, At, Shape
<1>2. req[r].old \in Days /\ session[s].day \in Days /\ Live(s) /\ session[s] \in SessionRow
  BY <1>1, RequestFacts, RowFacts DEF Amend, At, Shape, Live
<1>3. PICK day \in Days :
        /\ session' = [session EXCEPT ![s].st = state, ![s].day = day]
        /\ tampered' = IF day = session[s].day THEN tampered ELSE tampered \cup {v}
  BY <1>1, <1>2 DEF Amend
<1> DEFINE opened == Reopens(req[r], state)
           none == {}
<1>4. /\ Settled(r, none, opened) /\ UNCHANGED <<today, sub, counted>>
      /\ \A y \in Reqs \ {r} : req[y].pc \in InTx => req[y].s # s
  BY <1>1, SettleFacts DEF Amend, RowFree
<1>5. state = "open" /\ session[s].st = "closed" => v \in opened
  BY <1>1 DEF Reopens
<1>6. CASE day = session[s].day
  <2>1. [session[s] EXCEPT !.st = state, !.day = day] = [session[s] EXCEPT !.st = state]
    BY <1>2, <1>6 DEF SessionRow
  <2>2. session' = [session EXCEPT ![s].st = state]
    BY <1>3, <2>1
  <2> HIDE DEF opened
  <2> QED  BY <1>1, <1>2, <1>3, <1>4, <1>5, <1>6, <2>2, OpenClose
<1>7. CASE day # session[s].day
  <2>1. none \in SUBSET Subs /\ Rewritten(v, none)
    BY <1>4, RowFacts DEF Rewritten
  <2>2. MovedTo(s, v, state, day)
    BY <1>1, <1>2, <1>3, <1>7 DEF MovedTo
  <2> HIDE DEF opened, none
  <2> QED  BY <1>4, <1>5, <2>1, <2>2, SessionMoved
<1> QED  BY <1>6, <1>7

LEMMA CloseMoveStep ==
  ASSUME IInv, NEW r \in Reqs, CloseMove(r)
  PROVE  IInv'
<1>1. /\ req[r].pc = "close" /\ req[r].op = "move" /\ req[r].new \in Days
      /\ req[r].state \in {"open", "closed"}
  BY RequestFacts DEF CloseMove, At, Shape, InTx, Request
<1> DEFINE opened == Reopens(req[r], req[r].state)
<1>2. req[r].state = "open" /\ session[req[r].s].st = "closed" => req[r].v \in opened
  BY DEF Reopens
<1>3. Settle(r, Idle, Written(req[r]), opened)
  BY DEF CloseMove
<1> HIDE DEF opened
<1> QED  BY <1>1, <1>2, <1>3, CloseOnSession DEF CloseMove

LEMMA CloseDeleteStep ==
  ASSUME IInv, NEW r \in Reqs, CloseDelete(r)
  PROVE  IInv'
<1>1. /\ req[r].pc = "close" /\ req[r].op = "delete" /\ req[r].s \in Sessions /\ Live(req[r].s)
  BY RequestFacts DEF CloseDelete, At, Shape, InTx
<1>2. PICK s \in Sessions : s = req[r].s
  BY <1>1
<1>3. session[s] \in SessionRow /\ session[s].day \in Days
  BY <1>1, <1>2, RowFacts DEF Live
<1> DEFINE row == [session[s] EXCEPT !.st = "deleted"]
<1>4. row = [session[s] EXCEPT !.st = "deleted", !.day = session[s].day]
  BY <1>3 DEF SessionRow
<1>5. session' = [session EXCEPT ![s].st = "deleted", ![s].day = session[s].day]
  BY <1>2, <1>3, <1>4 DEF CloseDelete, IInv, TypeOK
<1> DEFINE none == {}
<1>6. Settle(r, Idle, Written(req[r]), none)
  BY DEF CloseDelete
<1> HIDE DEF none, row
<1> QED  BY <1>1, <1>2, <1>3, <1>5, <1>6, CloseOnSession DEF CloseDelete

-----------------------------------------------------------------------------
(* Subscriptions that come, go and come back.                              *)

LEMMA SubStep ==
  ASSUME IInv, UNCHANGED <<today, session, req, counted, tampered>>, sub' \in [Subs -> SubRow],
         \A b \in Subs : IF sub[b].st = "none"
                         THEN sub'[b] = sub[b] \/ (sub'[b].st # "none" /\ sub'[b].v \in Visitors /\ sub'[b].used = 0)
                         ELSE /\ sub'[b].st # "none" /\ sub'[b].v = sub[b].v /\ sub'[b].used = sub[b].used
  PROVE  IInv'
<1>1. TypeOK' /\ RowsOK'
  BY RowFacts DEF IInv, TypeOK, RowsOK
<1>2. ASSUME NEW y \in Reqs
      PROVE  Shape(req[y])' /\ Knows(req[y])'
  <2>1. req[y] \in Request /\ Shape(req[y]) /\ Knows(req[y])
    BY RequestFacts
  <2>2. req[y].b # NoSub => /\ sub'[req[y].b].v = req[y].v /\ sub'[req[y].b].st # "none"
                            /\ sub'[req[y].b].used = sub[req[y].b].used
    BY <2>1 DEF Shape, Request
  <2> QED  BY <2>1, <2>2 DEF Shape, Knows, Live, OpenOf, Attended
<1>3. ASSUME NEW y \in Reqs, NEW z \in Reqs, y # z
      PROVE  Apart(req[y], req[z])'
  BY <1>3 DEF IInv, Apart
<1>4. ASSUME NEW b \in Subs
      PROVE  SubInv(b)'
  <2>1. SubInv(b)
    BY DEF IInv
  <2>2. CASE sub[b].st # "none"
    BY <2>1, <2>2 DEF SubInv, Attended, Live
  <2>3. CASE sub[b].st = "none"
    <3>1. sub'[b].used = 0 /\ counted'[b] = {}
      BY <2>3, RowFacts
    <3> QED  BY <3>1, FS_EmptySet DEF SubInv
  <2> QED  BY <2>2, <2>3
<1> QED  BY <1>1, <1>2, <1>3, <1>4 DEF IInv

LEMMA SubscribeStep ==
  ASSUME IInv, Subscribe
  PROVE  IInv'
<1>0. sub \in [Subs -> SubRow]
  BY RowFacts
<1>1. ASSUME NEW b \in Subs, Revive(b)
      PROVE  IInv'
  <2>1. sub'[b] = [sub[b] EXCEPT !.st = "active"] /\ \A c \in Subs \ {b} : sub'[c] = sub[c]
    BY <1>0, <1>1 DEF Revive
  <2>2. sub' = [c \in Subs |-> sub'[c]]
    BY <1>0, <1>1 DEF Revive
  <2>3. sub[b].st = "lapsed" /\ UNCHANGED <<today, session, req, counted, tampered>>
    BY <1>1 DEF Revive
  <2>4. sub'[b] \in SubRow /\ sub'[b].st = "active" /\ sub'[b].v = sub[b].v /\ sub'[b].used = sub[b].used
    BY <1>0, <2>1 DEF SubRow
  <2>5. sub' \in [Subs -> SubRow]
    BY <1>0, <2>1, <2>2, <2>4
  <2> QED  BY <2>1, <2>3, <2>4, <2>5, SubStep
<1>2. ASSUME NEW b \in Subs, NEW v \in Visitors, CreateSub(b, v)
      PROVE  IInv'
  <2>1. /\ sub'[b] = [st |-> "active", v |-> v, used |-> 0] /\ \A c \in Subs \ {b} : sub'[c] = sub[c]
        /\ sub' \in [Subs -> SubRow]
    BY <1>0, <1>2 DEF CreateSub, SubRow
  <2>2. sub[b].st = "none" /\ UNCHANGED <<today, session, req, counted, tampered>>
    BY <1>2 DEF CreateSub
  <2> QED  BY <2>1, <2>2, SubStep
<1>3. ASSUME NEW old \in SUBSET Subs, Lapse(old)
      PROVE  IInv'
  <2>1. sub' = [b \in Subs |-> IF b \in old THEN [sub[b] EXCEPT !.st = "lapsed"] ELSE sub[b]]
    BY <1>3 DEF Lapse
  <2>2. \A b \in Subs : /\ sub'[b] \in SubRow /\ sub'[b].v = sub[b].v /\ sub'[b].used = sub[b].used
                        /\ b \in old => sub'[b].st = "lapsed"
                        /\ b \notin old => sub'[b] = sub[b]
    BY <1>0, <2>1 DEF SubRow
  <2>3. sub' \in [Subs -> SubRow]
    BY <2>1, <2>2
  <2>4. \A b \in old : sub[b].st # "none"
    BY <1>3 DEF Lapse
  <2> QED  BY <1>3, <2>2, <2>3, <2>4, SubStep DEF Lapse
<1> QED  BY <1>1, <1>2, <1>3 DEF Subscribe

LEMMA NextDayStep ==
  ASSUME IInv, NextDay
  PROVE  IInv'
<1>1. TypeOK' /\ RowsOK'
  BY LastDayAssumption, RowFacts DEF NextDay, IInv, TypeOK, RowsOK, Days
<1>2. ASSUME NEW y \in Reqs
      PROVE  Shape(req[y])' /\ Knows(req[y])'
  BY RequestFacts DEF NextDay, Shape, Knows, Live, OpenOf, Attended
<1>3. ASSUME NEW y \in Reqs, NEW z \in Reqs, y # z
      PROVE  Apart(req[y], req[z])'
  BY <1>3 DEF NextDay, IInv, Apart
<1>4. ASSUME NEW b \in Subs
      PROVE  SubInv(b)'
  BY DEF NextDay, IInv, SubInv, Attended, Live
<1> QED  BY <1>1, <1>2, <1>3, <1>4 DEF IInv

-----------------------------------------------------------------------------
(* The invariant, and what follows from it.                                *)

LEMMA Start == Init => IInv
<1> SUFFICES ASSUME Init PROVE IInv
  OBVIOUS
<1>1. TypeOK /\ RowsOK
  BY LastDayAssumption, IdleFacts DEF Init, TypeOK, RowsOK, Days, SessionRow, SubRow
<1>2. \A r \in Reqs : req[r] = Idle
  BY DEF Init
<1>3. \A b \in Subs : SubInv(b)
  BY FS_EmptySet DEF Init, SubInv
<1> QED  BY <1>1, <1>2, <1>3, IdleFacts, ApartFromIdle DEF IInv

LEMMA Stutter ==
  ASSUME IInv, UNCHANGED vars
  PROVE  IInv'
<1>1. TypeOK' /\ RowsOK'
  BY DEF vars, IInv, TypeOK, RowsOK
<1>2. ASSUME NEW y \in Reqs
      PROVE  Shape(req[y])' /\ Knows(req[y])'
  BY RequestFacts DEF vars, Shape, Knows, Live, OpenOf, Attended
<1>3. ASSUME NEW y \in Reqs, NEW z \in Reqs, y # z
      PROVE  Apart(req[y], req[z])'
  BY <1>3 DEF vars, IInv, Apart
<1>4. ASSUME NEW b \in Subs
      PROVE  SubInv(b)'
  BY DEF vars, IInv, SubInv, Attended, Live
<1> QED  BY <1>1, <1>2, <1>3, <1>4 DEF IInv

LEMMA Step == IInv /\ [Next]_vars => IInv'
<1> SUFFICES ASSUME IInv, [Next]_vars PROVE IInv'
  OBVIOUS
<1>1. CASE UNCHANGED vars
  BY <1>1, Stutter
<1>2. CASE NextDay
  BY <1>2, NextDayStep
<1>3. CASE Subscribe
  BY <1>3, SubscribeStep
<1>4. ASSUME NEW r \in Reqs, CheckIn(r)
      PROVE  IInv'
  BY <1>4, StartCheckInStep, QrLookStep, CheckInLookStep, CheckInBeginStep, CloseCheckInStep DEF CheckIn
<1>5. ASSUME NEW r \in Reqs, EditSession(r)
      PROVE  IInv'
  BY <1>5, StartEditStep, AmendStep, MoveBeginStep, CloseMoveStep DEF EditSession
<1>6. ASSUME NEW r \in Reqs, DeleteSession(r)
      PROVE  IInv'
  BY <1>6, StartDeleteStep, DeleteBeginStep, CloseDeleteStep DEF DeleteSession
<1>7. ASSUME NEW r \in Reqs, CheckOut(r)
      PROVE  IInv'
  BY <1>7, StartCheckoutStep, CheckoutStep DEF CheckOut
<1>8. ASSUME NEW r \in Reqs, Count(r)
      PROVE  IInv'
  BY <1>8, ReadSubStep, ReadDaysStep DEF Count
<1>9. ASSUME NEW r \in Reqs, Abort(r)
      PROVE  IInv'
  BY <1>9, AbortStep
<1> QED  BY <1>1, <1>2, <1>3, <1>4, <1>5, <1>6, <1>7, <1>8, <1>9 DEF Next

LEMMA Invariance == Spec => []IInv
<1>1. Init => IInv
  BY Start
<1>2. IInv /\ [Next]_vars => IInv'
  BY Step
<1> QED  BY <1>1, <1>2, PTL DEF Spec

\* Every session, subscription and local variable of sessionsService stays in its
\* type: daysUsed is never negative, and a check-in is on a day of the calendar.
THEOREM TypeCorrect == Spec => []TypeOK
<1>1. IInv => TypeOK
  BY DEF IInv
<1> QED  BY <1>1, Invariance, PTL

\* As long as no session of a visitor is moved or deleted, daysUsed is the number of
\* days on which a check-in found the subscription active (incrementSubscriptionDays).
THEOREM DaysCountOnce == Spec => []QuotaCounted
<1>1. IInv => QuotaCounted
  BY DEF IInv, SubInv, QuotaCounted
<1> QED  BY <1>1, Invariance, PTL

LEMMA NotRaced ==
  ASSUME IInv, [Next]_vars, NEW v \in Visitors, NEW s \in Sessions,
         OpenOf(v) # {}, s \in OpenOf(v)' \ OpenOf(v)
  PROVE  \/ session[s].st = "closed"
         \/ \E r \in Reqs : /\ req[r].raced /\ req[r].v = v
                            /\ At(r, "close") /\ ~At(r, "close")'
<1>1. /\ session'[s].v = v /\ session'[s].st = "open"
      /\ ~(session[s].v = v /\ session[s].st = "open")
      /\ session \in [Sessions -> SessionRow]
  BY RowFacts DEF OpenOf
<1>2. session' # session
  BY <1>1
<1>3. ASSUME NEW r \in Reqs, CloseCheckIn(r)
      PROVE  req[r].raced /\ req[r].v = v /\ At(r, "close") /\ ~At(r, "close")'
  <2>1. PICK w \in Visitors : w = req[r].v
    BY <1>3, RequestFacts DEF CloseCheckIn, At, Shape
  <2>2. PICK t \in Sessions : session' = [session EXCEPT ![t] = [st |-> "open", v |-> w, day |-> req[r].new]]
    BY <1>3, <2>1 DEF CloseCheckIn
  <2>3. s = t /\ w = v
    BY <1>1, <2>2
  <2>4. req[r].pc = "close" /\ req[r].op = "checkin"
    BY <1>3 DEF CloseCheckIn, At
  <2>5. req[r].raced
    BY <2>1, <2>3, <2>4, RequestFacts DEF Knows, InTx
  <2>6. req'[r] = Idle
    BY <1>3 DEF CloseCheckIn, Settle
  <2> QED  BY <2>1, <2>3, <2>4, <2>5, <2>6 DEF At, Idle
<1>4. ASSUME NEW r \in Reqs, CloseMove(r) \/ CloseDelete(r) \/ Checkout(r) \/ \E state \in {"open", "closed"} : Amend(r, state)
      PROVE  session[s].st = "closed"
  <2>1. req[r].s \in Sessions /\ Live(req[r].s)
    BY <1>4, RequestFacts DEF CloseMove, CloseDelete, Checkout, Amend, At, Shape, InTx
  <2>2. PICK t \in Sessions : t = req[r].s
    BY <2>1
  <2>3. /\ \A u \in Sessions \ {t} : session'[u] = session[u]
        /\ session'[t].v = session[t].v
    <3>1. CASE CloseMove(r)
      <4>1. /\ \A u \in Sessions \ {t} : session'[u] = session[u]
            /\ session'[t] = [session[t] EXCEPT !.st = req[r].state, !.day = req[r].new]
        BY <1>1, <2>2, <3>1 DEF CloseMove
      <4> QED  BY <1>1, <4>1 DEF SessionRow
    <3>2. CASE CloseDelete(r)
      BY <1>1, <2>2, <3>2 DEF CloseDelete, SessionRow
    <3>3. CASE Checkout(r)
      BY <1>1, <2>2, <3>3 DEF Checkout, SessionRow
    <3>4. ASSUME NEW state \in {"open", "closed"}, Amend(r, state)
          PROVE  /\ \A u \in Sessions \ {t} : session'[u] = session[u]
                 /\ session'[t].v = session[t].v
      <4>1. PICK day : session' = [session EXCEPT ![t].st = state, ![t].day = day]
        BY <2>2, <3>4 DEF Amend
      <4>2. /\ \A u \in Sessions \ {t} : session'[u] = session[u]
            /\ session'[t] = [session[t] EXCEPT !.st = state, !.day = day]
        BY <1>1, <4>1
      <4> QED  BY <1>1, <4>2 DEF SessionRow
    <3> QED  BY <1>4, <3>1, <3>2, <3>3, <3>4
  <2>4. s = t
    BY <1>1, <2>3
  <2> QED  BY <1>1, <2>1, <2>2, <2>3, <2>4 DEF Live
<1>5. CASE UNCHANGED vars \/ NextDay \/ Subscribe
  BY <1>2, <1>5 DEF vars, NextDay, Subscribe, Revive, CreateSub, Lapse
<1>6. ASSUME NEW r \in Reqs,
             CheckIn(r) \/ EditSession(r) \/ DeleteSession(r) \/ CheckOut(r) \/ Count(r) \/ Abort(r)
      PROVE  \/ CloseCheckIn(r) \/ CloseMove(r) \/ CloseDelete(r) \/ Checkout(r)
             \/ \E state \in {"open", "closed"} : Amend(r, state)
  BY <1>2, <1>6 DEF CheckIn, EditSession, DeleteSession, CheckOut, Count, Abort, StartCheckIn, QrLook, CheckInLook,
       CheckInBegin, StartEdit, MoveBegin, StartDelete, DeleteBegin, StartCheckout, ReadSub, ReadDays
<1> QED  BY <1>3, <1>4, <1>5, <1>6 DEF Next

\* A visitor who is in gets a second open session only from a check-in whose look
\* (the findFirst of checkIn) was overtaken, or from staff reopening one.
THEOREM SecondSessionWasRaced == Spec => OneOpenUnlessRaced
<1> DEFINE A == \A v \in Visitors, s \in Sessions :
         OpenOf(v) # {} /\ s \in OpenOf(v)' \ OpenOf(v) =>
           \/ session[s].st = "closed"
           \/ \E r \in Reqs : /\ req[r].raced /\ req[r].v = v
                              /\ At(r, "close") /\ ~At(r, "close")'
<1>1. IInv /\ [Next]_vars => [A]_vars
  BY NotRaced
<1> QED  BY <1>1, Invariance, PTL DEF Spec, OneOpenUnlessRaced

LEMMA NotStale ==
  ASSUME IInv, [Next]_vars, NEW b \in Subs,
         sub'[b].used \notin {sub[b].used - 1, sub[b].used, sub[b].used + 1}
  PROVE  \E r \in Reqs : req[r].stale /\ req[r].b = b /\ At(r, "close")
<1>1. sub \in [Subs -> SubRow] /\ sub' # sub /\ sub'[b].used # sub[b].used
  BY RowFacts
<1>2. ASSUME NEW r \in Reqs, CloseCheckIn(r) \/ CloseMove(r) \/ CloseDelete(r)
      PROVE  req[r].stale /\ req[r].b = b /\ At(r, "close")
  <2>1. req[r].pc = "close" /\ Recorded(req[r])
    BY <1>2 DEF CloseCheckIn, CloseMove, CloseDelete, At
  <2>2. b \in Written(req[r]) /\ sub'[b].used = req[r].used
    BY <1>1, <2>1, RecordedFacts
  <2>3. req[r].b = b /\ b # NoSub
    BY <2>1, <2>2, RecordedFacts
  <2>4. req[r].stale
    BY <2>1, <2>2, <2>3, RequestFacts DEF Knows
  <2> QED  BY <2>1, <2>3, <2>4 DEF At
<1>3. ~Subscribe
  <2>1. ASSUME NEW c \in Subs, Revive(c) PROVE FALSE
    <3>1. sub'[b] = sub[b] \/ sub'[b] = [sub[b] EXCEPT !.st = "active"]
      BY <1>1, <2>1 DEF Revive
    <3> QED  BY <1>1, <3>1 DEF SubRow
  <2>2. ASSUME NEW c \in Subs, NEW v \in Visitors, CreateSub(c, v) PROVE FALSE
    BY <1>1, <2>2, RowFacts DEF CreateSub
  <2>3. ASSUME NEW old \in SUBSET Subs, Lapse(old) PROVE FALSE
    <3>1. sub'[b] = sub[b] \/ sub'[b] = [sub[b] EXCEPT !.st = "lapsed"]
      BY <2>3 DEF Lapse
    <3> QED  BY <1>1, <3>1 DEF SubRow
  <2> QED  BY <2>1, <2>2, <2>3 DEF Subscribe
<1>4. ~UNCHANGED vars /\ ~NextDay
  BY <1>1 DEF vars, NextDay
<1>5. ASSUME NEW r \in Reqs,
             CheckIn(r) \/ EditSession(r) \/ DeleteSession(r) \/ CheckOut(r) \/ Count(r) \/ Abort(r)
      PROVE  CloseCheckIn(r) \/ CloseMove(r) \/ CloseDelete(r)
  BY <1>1, <1>5 DEF CheckIn, EditSession, DeleteSession, CheckOut, Count, Abort, StartCheckIn, QrLook, CheckInLook,
       CheckInBegin, StartEdit, MoveBegin, StartDelete, DeleteBegin, StartCheckout, ReadSub, ReadDays, Amend, Checkout
<1> QED  BY <1>2, <1>3, <1>4, <1>5 DEF Next

\* daysUsed moves by more than one day in a step only when the transaction that
\* writes it read the row before another one changed it (READ COMMITTED).
THEOREM LostDayWasStale == Spec => NoLostDay
<1> DEFINE A == \A b \in Subs :
         sub'[b].used \notin {sub[b].used - 1, sub[b].used, sub[b].used + 1} =>
           \E r \in Reqs : req[r].stale /\ req[r].b = b /\ At(r, "close")
<1>1. IInv /\ [Next]_vars => [A]_vars
  BY NotStale
<1> QED  BY <1>1, Invariance, PTL DEF Spec, NoLostDay
=============================================================================
