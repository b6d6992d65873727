---------------------------- MODULE HotspotProofs ----------------------------
(***************************************************************************)
(* The theorems of Hotspot: the type invariant, and that visits are        *)
(* charged from their first connection, that a row is billed once, and     *)
(* that a phone has one open row, each but for the overlaps its property   *)
(* names.  HInv is what the rows, the sessions and the requests under way  *)
(* know of each other; one lemma for each kind of step keeps it.           *)
(***************************************************************************)
EXTENDS Hotspot, TLAPS, FiniteSetTheorems, Sums

All == Reqs \cup Crons

\* A row that counts is closed, a row of a session is one of its visitor and not older than
\* it, and one that was billed is not charged with its session.
RowKnows(n) ==
    /\ net[n].billed => net[n].st = "closed"
    /\ net[n].st # "none" => net[n].at \in Time
    /\ net[n].sid # NoSession =>
          LET s == net[n].sid
          IN  /\ net[n].st # "none" /\ session[s].st # "none"
              /\ net[n].p = session[s].p /\ net[n].at >= session[s].at
              /\ net[n].billed /\ session[s].st = "open" => s \in swept

SessionKnows(s) == session[s].st # "none" => session[s].p \in Phones /\ session[s].at =< now

\* The session that a request is about.
Of(q) == /\ q.s \in Sessions
         /\ session[q.s].st # "none" /\ session[q.s].p = q.p

\* What a request knows at each await.
Knows(q) ==
    /\ q.pc \in {"attend", "supersede", "create"} => q.p \in Phones
    /\ q.pc \in {"supersede", "create"} /\ q.s # NoSession => Of(q)
    /\ q.pc = "create" /\ ~q.raced => OpenNets(q.p) = {}
    /\ q.pc \in {"pending", "checkout"} => Of(q)
    /\ q.pc = "pending" => q.due = 0
    /\ q.pc = "checkout" /\ q.due # 0 /\ session[q.s].st = "open" => q.due >= session[q.s].at - Tolerance
    /\ q.pc \in {"stamp", "carry"} => q.carrier \in q.rows /\ \A n \in q.rows : net[n].st # "none"
    /\ q.pc = "stamp" /\ ~q.overtaken => \A n \in q.rows : ~net[n].billed
    /\ q.pc = "carry" /\ ~q.overtaken => ~net[q.carrier].billed

HInv ==
    /\ TypeOK
    /\ \A n \in Nets : RowKnows(n)
    /\ \A s \in Sessions : SessionKnows(s)
    /\ \A p \in Phones, s, t \in Sessions : s \in OpenSessions(p) /\ t \in OpenSessions(p) => s = t
    /\ \A r \in All : Knows(req[r])

-----------------------------------------------------------------------------
LEMMA Types ==
  ASSUME HInv
  PROVE  /\ now \in Int /\ 1 =< now /\ now =< LastTick /\ now \in Time /\ LastTick \in Int /\ Tolerance \in Int
         /\ session \in [Sessions -> SessionRow] /\ net \in [Nets -> NetRow]
         /\ online \in [Phones -> BOOLEAN] /\ req \in [All -> Request] /\ swept \subseteq Sessions
         /\ DOMAIN req = All
BY ClockAssumption DEF HInv, TypeOK, Time, All

LEMMA RowTypes ==
  ASSUME HInv, NEW n \in Nets
  PROVE  /\ net[n] \in NetRow
         /\ net[n].st \in {"none", "open", "closed"} /\ net[n].p \in Phones \cup {NoPhone}
         /\ net[n].kind \in Kinds \cup {"none"} /\ net[n].sid \in Sessions \cup {NoSession}
         /\ net[n].at \in Time \cup {0} /\ net[n].at \in Int /\ net[n].billed \in BOOLEAN
BY Types DEF NetRow, Time

LEMMA SessionTypes ==
  ASSUME HInv, NEW s \in Sessions
  PROVE  /\ session[s] \in SessionRow /\ session[s].st \in {"none", "open", "closed"}
         /\ session[s].p \in Phones \cup {NoPhone} /\ session[s].at \in Int
         /\ session[s].at \in Time \cup {0} /\ session[s].posted \in BOOLEAN
BY Types DEF SessionRow, Time

LEMMA RequestTypes ==
  ASSUME NEW q \in Request
  PROVE  /\ q.p \in Phones \cup {NoPhone} /\ q.s \in Sessions \cup {NoSession}
         /\ q.kind \in Kinds \cup {"none"} /\ q.bill \in BOOLEAN
         /\ q.due \in Time \cup {0} /\ q.from \in Time \cup {0} /\ q.due \in Int /\ q.from \in Int
         /\ q.rows \subseteq Nets /\ q.carrier \in Nets \cup {NoNet} /\ q.todo \subseteq Phones
         /\ q.blind \in BOOLEAN /\ q.overtaken \in BOOLEAN /\ q.raced \in BOOLEAN
BY DEF Request, Time

LEMMA IdleType == Idle \in Request /\ Idle.pc = "idle"
BY DEF Idle, Request

LEMMA IdleKnows == Knows(Idle)
BY DEF Idle, Knows

\* Whoever waits for the router, the list or the visit knows nothing yet.
LEMMA EarlyKnows ==
  ASSUME NEW q, q.pc \in {"idle", "actives", "cut", "visit", "open", "post"}
  PROVE  Knows(q)
BY DEF Knows

LEMMA AfterType ==
  ASSUME NEW q \in Request
  PROVE  After(q) \in Request /\ After(q).pc \in {"idle", "cut"}
<1>1. CASE q.todo = {}
  BY <1>1, IdleType DEF After
<1>2. CASE q.todo # {}
  <2>1. After(q) = [Idle EXCEPT !.pc = "cut", !.bill = q.bill, !.todo = q.todo]
    BY <1>2 DEF After
  <2>2. q.bill \in BOOLEAN /\ q.todo \subseteq Phones
    BY RequestTypes
  <2> QED  BY <2>1, <2>2, IdleType DEF Request
<1> QED  BY <1>1, <1>2

LEMMA AfterKnows ==
  ASSUME NEW q \in Request
  PROVE  Knows(After(q))
BY AfterType, EarlyKnows

-----------------------------------------------------------------------------
(* The kinds of steps.                                                     *)

\* Nothing but the request that moves, and the router.
LEMMA GotoStep ==
  ASSUME HInv, NEW r \in All, NEW local \in Request, Knows(local), Goto(r, local),
         UNCHANGED <<now, session, net, swept>>, online' \in [Phones -> BOOLEAN]
  PROVE  HInv'
<1>1. req' \in [All -> Request]
  BY Types DEF Goto
<1>2. TypeOK'
  BY <1>1, Types DEF TypeOK, All
<1>3. ASSUME NEW x \in All PROVE Knows(req[x])'
  <2>1. Knows(req'[x])
    BY Types DEF Goto, HInv
  <2> QED  BY <2>1 DEF Knows, Of, OpenNets
<1>4. (\A n \in Nets : RowKnows(n)') /\ \A s \in Sessions : SessionKnows(s)'
  BY DEF HInv, RowKnows, SessionKnows
<1>5. \A p \in Phones : OpenSessions(p)' = OpenSessions(p)
  BY DEF OpenSessions
<1> QED  BY <1>2, <1>3, <1>4, <1>5 DEF HInv

LEMMA AbortStep ==
  ASSUME HInv, NEW r \in All, Abort(r)
  PROVE  HInv'
<1>1. req[r] \in Request
  BY Types
<1>2. PICK local \in {Idle, After(req[r])} : Goto(r, local)
  BY DEF Abort
<1>3. local \in Request /\ Knows(local)
  BY <1>1, IdleType, IdleKnows, AfterType, AfterKnows
<1>4. UNCHANGED <<now, session, net, swept>> /\ online' \in [Phones -> BOOLEAN]
  BY Types DEF Abort
<1> QED  BY <1>2, <1>3, <1>4, GotoStep

LEMMA WorldStep ==
  ASSUME HInv, Tick \/ \E p \in Phones : Drop(p) \/ Authorize(p)
  PROVE  HInv'
<1>1. now' \in Time /\ now' >= now /\ UNCHANGED <<session, net, req, swept>> /\ online' \in [Phones -> BOOLEAN]
  <2>1. CASE Tick
    BY <2>1, Types DEF Tick, Time
  <2>2. ASSUME NEW p \in Phones, Drop(p) \/ Authorize(p)
        PROVE  UNCHANGED <<now, session, net, req, swept>> /\ online' \in [Phones -> BOOLEAN]
    BY <2>2, Types DEF Drop, Authorize
  <2> QED  BY <2>1, <2>2, Types
<1>2. TypeOK'
  BY <1>1, Types DEF TypeOK, All
<1>3. ASSUME NEW x \in All PROVE Knows(req[x])'
  BY <1>1 DEF HInv, Knows, Of, OpenNets
<1>4. \A n \in Nets : RowKnows(n)'
  BY <1>1 DEF HInv, RowKnows
<1>5. ASSUME NEW s \in Sessions PROVE SessionKnows(s)'
  <2>1. SessionKnows(s) /\ session[s].at \in Int /\ now \in Int /\ now' \in Int
    BY <1>1, Types, SessionTypes DEF HInv, Time
  <2> QED  BY <1>1, <2>1 DEF SessionKnows
<1>6. \A p \in Phones : OpenSessions(p)' = OpenSessions(p)
  BY <1>1 DEF OpenSessions
<1> QED  BY <1>2, <1>3, <1>4, <1>5, <1>6 DEF HInv

\* A check-in: nobody knows of the session before it is there.
LEMMA OpenStep ==
  ASSUME HInv, NEW s \in Sessions, NEW p \in Phones, NEW seat \in BOOLEAN,
         session[s].st = "none", OpenSessions(p) = {},
         session' = [session EXCEPT ![s] = [st |-> "open", p |-> p, at |-> now,
                                            seat |-> seat, from |-> 0, posted |-> FALSE]],
         UNCHANGED <<now, net, online, swept>>,
         NEW r, NEW local \in Request,
         Knows(local)', req' = req \/ Goto(r, local)
  PROVE  HInv'
<1>1. session' \in [Sessions -> SessionRow]
  BY Types DEF SessionRow
<1>2. req' \in [All -> Request]
  BY Types DEF Goto
<1>3. TypeOK'
  BY <1>1, <1>2, Types DEF TypeOK, All
<1>4. \A t \in Sessions : session[t].st # "none" => session'[t] = session[t]
  BY Types
<1>5. session'[s].at = now /\ session'[s].p = p /\ session'[s].st = "open"
  BY Types
<1>6. ASSUME NEW x \in All PROVE Knows(req[x])'
  <2>1. CASE req'[x] = local
    BY <2>1 DEF Knows, Of
  <2>2. CASE req'[x] = req[x]
    <3>1. Knows(req[x])
      BY DEF HInv
    <3>2. req[x].s \in Sessions => (session[req[x].s].st # "none" => session'[req[x].s] = session[req[x].s])
      BY <1>4
    <3>3. OpenNets(req[x].p)' = OpenNets(req[x].p)
      BY <2>2 DEF OpenNets
    <3> QED  BY <2>2, <3>1, <3>2, <3>3 DEF Knows, Of
  <2>3. req'[x] \in {local, req[x]}
    BY Types DEF Goto
  <2> QED  BY <2>1, <2>2, <2>3
<1>7. ASSUME NEW n \in Nets PROVE RowKnows(n)'
  <2>1. RowKnows(n) /\ net'[n] = net[n] /\ net[n].sid \in Sessions \cup {NoSession}
    BY RowTypes DEF HInv
  <2>2. net[n].sid # NoSession => session'[net[n].sid] = session[net[n].sid]
    BY <1>4, <2>1 DEF RowKnows
  <2> QED  BY <2>1, <2>2 DEF RowKnows
<1>8. ASSUME NEW t \in Sessions PROVE SessionKnows(t)'
  <2>1. SessionKnows(t)
    BY DEF HInv
  <2> QED  BY <1>4, <1>5, <2>1, Types DEF SessionKnows
<1>9. ASSUME NEW ph \in Phones, NEW a \in Sessions, NEW b \in Sessions,
             a \in OpenSessions(ph)', b \in OpenSessions(ph)'
      PROVE  a = b
  <2>1. \A t \in Sessions \ {s} : session'[t] = session[t]
    BY Types
  <2> QED  BY <1>5, <1>9, <2>1 DEF HInv, OpenSessions
<1> QED  BY <1>3, <1>6, <1>7, <1>8, <1>9 DEF HInv

LEMMA CheckInStep ==
  ASSUME HInv, NEW p \in Phones, NEW seat \in Seats, CheckIn(p, seat)
  PROVE  HInv'
<1>1. PICK s \in Sessions :
         /\ session[s].st = "none"
         /\ session' = [session EXCEPT ![s] = [st |-> "open", p |-> p, at |-> now,
                                               seat |-> seat, from |-> 0, posted |-> FALSE]]
  BY DEF CheckIn
<1>2. Knows(Idle)'
  BY DEF Idle, Knows
<1>3. seat \in BOOLEAN
  BY KindsAssumption
<1>4. OpenSessions(p) = {} /\ UNCHANGED <<now, net, online, req, swept>>
  BY DEF CheckIn
<1> QED  BY <1>1, <1>2, <1>3, <1>4, OpenStep, IdleType

-----------------------------------------------------------------------------
(* Logging in.                                                             *)

LEMMA LoginRouterStep ==
  ASSUME HInv, NEW r \in All, NEW p \in Phones, NEW kind \in Kinds, LoginRouter(r, p, kind)
  PROVE  HInv'
<1>1. PICK local : local = [Idle EXCEPT !.pc = "attend", !.p = p, !.kind = kind]
  OBVIOUS
<1>2. local \in Request
  BY <1>1, IdleType DEF Request
<1>3. Knows(local)
  BY <1>1 DEF Idle, Knows
<1>4. Goto(r, local) /\ UNCHANGED <<now, session, net, swept>> /\ online' \in [Phones -> BOOLEAN]
  BY <1>1, Types DEF LoginRouter
<1> QED  BY <1>2, <1>3, <1>4, GotoStep

LEMMA LoginAttendStep ==
  ASSUME HInv, NEW r \in All, LoginAttend(r)
  PROVE  HInv'
<1> DEFINE q == req[r]
           local(s) == [q EXCEPT !.pc = "supersede", !.s = s]
<1>1. q \in Request /\ q.pc = "attend" /\ q.p \in Phones /\ Knows(q)
  BY Types DEF HInv, LoginAttend, At, Knows
<1>2. ASSUME NEW s \in Sessions \cup {NoSession}
      PROVE  /\ local(s) \in Request /\ local(s).pc = "supersede" /\ local(s).s = s /\ local(s).p = q.p
  BY <1>1 DEF Request
<1>3. CASE Goto(r, local(NoSession)) /\ UNCHANGED session
  <2>1. Knows(local(NoSession))
    BY <1>1, <1>2 DEF Knows
  <2> QED  BY <1>2, <1>3, <2>1, GotoStep, Types DEF LoginAttend
<1>4. CASE UNCHANGED session /\ \E s \in OpenSessions(q.p) : Goto(r, local(s))
  <2>1. PICK s \in OpenSessions(q.p) : Goto(r, local(s))
    BY <1>4
  <2>2. s \in Sessions /\ session[s].p = q.p /\ session[s].st = "open"
    BY DEF OpenSessions
  <2>3. Knows(local(s))
    BY <1>1, <1>2, <2>2 DEF Knows, Of
  <2> QED  BY <1>2, <1>4, <2>1, <2>2, <2>3, GotoStep, Types DEF LoginAttend
<1>5. CASE /\ OpenSessions(q.p) = {}
           /\ \E s \in Sessions :
                /\ session[s].st = "none"
                /\ session' = [session EXCEPT ![s] = [st |-> "open", p |-> q.p, at |-> now,
                                                      seat |-> FALSE, from |-> 0, posted |-> FALSE]]
                /\ Goto(r, local(s))
  <2>1. PICK s \in Sessions :
                /\ session[s].st = "none"
                /\ session' = [session EXCEPT ![s] = [st |-> "open", p |-> q.p, at |-> now,
                                                      seat |-> FALSE, from |-> 0, posted |-> FALSE]]
                /\ Goto(r, local(s))
    BY <1>5
  <2>2. PICK l : l = local(s)
    OBVIOUS
  <2>3. l \in Request /\ l.pc = "supersede" /\ l.s = s /\ l.p = q.p
    BY <1>2, <2>2
  <2>4. session'[s].st = "open" /\ session'[s].p = l.p
    BY <2>1, <2>3, Types
  <2>5. Knows(l)'
    BY <1>1, <2>3, <2>4 DEF Knows, Of
  <2>6. UNCHANGED <<now, net, online, swept>> /\ Goto(r, l)
    BY <2>1, <2>2 DEF LoginAttend
  <2> HIDE DEF q, local
  <2> QED  BY <1>1, <1>5, <2>1, <2>3, <2>5, <2>6, OpenStep
<1> QED  BY <1>3, <1>4, <1>5 DEF LoginAttend

\* Rows are closed, and nothing else happens to them.
LEMMA CloseStep ==
  ASSUME HInv, NEW r \in All, NEW local \in Request, Goto(r, local),
         UNCHANGED <<now, session, online, swept>>,
         net' \in [Nets -> NetRow],
         \A n \in Nets : \/ net'[n] = net[n]
                         \/ net[n].st = "open" /\ net'[n] = [net[n] EXCEPT !.st = "closed"],
         Knows(local)'
  PROVE  HInv'
<1>1. req' \in [All -> Request]
  BY Types DEF Goto
<1>2. TypeOK'
  BY <1>1, Types DEF TypeOK, All
<1>3. ASSUME NEW n \in Nets
      PROVE  /\ net'[n].billed = net[n].billed /\ net'[n].at = net[n].at /\ net'[n].sid = net[n].sid
             /\ net'[n].p = net[n].p /\ net'[n].st \in {net[n].st, "closed"}
             /\ net'[n].st = "none" <=> net[n].st = "none"
  <2>1. net[n] \in NetRow
    BY RowTypes
  <2> QED  BY <2>1 DEF NetRow
<1>4. \A p : OpenNets(p)' \subseteq OpenNets(p)
  BY <1>3 DEF OpenNets
<1>5. ASSUME NEW x \in All PROVE Knows(req[x])'
  <2>1. CASE x = r
    <3>1. req'[x] = local
      BY <2>1, Types DEF Goto
    <3> QED  BY <3>1 DEF Knows, Of, OpenNets
  <2>2. CASE x # r
    <3>1. req'[x] = req[x] /\ Knows(req[x]) /\ req[x] \in Request
      BY <2>2, Types DEF Goto, HInv
    <3>2. OpenNets(req[x].p) = {} => OpenNets(req[x].p)' = {}
      BY <1>4, <3>1 DEF OpenNets
    <3>3. \A n \in req[x].rows : net'[n].billed = net[n].billed /\ (net[n].st # "none" => net'[n].st # "none")
      BY <1>3, <3>1, RequestTypes
    <3> QED  BY <3>1, <3>2, <3>3 DEF Knows, Of
  <2> QED  BY <2>1, <2>2
<1>6. ASSUME NEW n \in Nets PROVE RowKnows(n)'
  <2>1. RowKnows(n)
    BY DEF HInv
  <2> QED  BY <1>3, <2>1 DEF RowKnows
<1>7. (\A s \in Sessions : SessionKnows(s)') /\ \A p \in Phones : OpenSessions(p)' = OpenSessions(p)
  BY DEF HInv, SessionKnows, OpenSessions
<1> QED  BY <1>2, <1>5, <1>6, <1>7 DEF HInv

LEMMA SupersedeStep ==
  ASSUME HInv, NEW r \in All, Supersede(r)
  PROVE  HInv'
<1>1. PICK q : q = req[r]
  OBVIOUS
<1>2. q \in Request /\ q.pc = "supersede" /\ Knows(q)
  BY <1>1, Types DEF HInv, Supersede, At
<1>3. PICK local : local = [q EXCEPT !.pc = "create"]
  OBVIOUS
<1>4. /\ local \in Request /\ local.pc = "create" /\ local.p = q.p /\ local.s = q.s /\ local.raced = q.raced
      /\ Goto(r, local)
  BY <1>1, <1>2, <1>3 DEF Request, Supersede
<1>5. net' = [n \in Nets |-> IF n \in OpenNets(q.p) THEN [net[n] EXCEPT !.st = "closed"] ELSE net[n]]
  BY <1>1 DEF Supersede
<1>6. ASSUME NEW n \in Nets
      PROVE  /\ net'[n] \in NetRow
             /\ \/ net'[n] = net[n]
                \/ net[n].st = "open" /\ net'[n] = [net[n] EXCEPT !.st = "closed"]
             /\ n \notin OpenNets(q.p)'
  <2>1. net[n] \in NetRow
    BY RowTypes
  <2> QED  BY <1>5, <2>1 DEF NetRow, OpenNets
<1>7. net' \in [Nets -> NetRow]
  BY <1>5, <1>6
<1>8. {n \in Nets : net'[n].p = q.p /\ net'[n].st = "open"} = {}
  BY <1>6 DEF OpenNets
<1>9. UNCHANGED <<now, session, online, swept>>
  BY DEF Supersede
<1>10. OpenNets(local.p)' = {}
  BY <1>4, <1>8 DEF OpenNets
<1>11. Knows(local)'
  BY <1>2, <1>4, <1>9, <1>10 DEF Knows, Of
<1> QED  BY <1>4, <1>6, <1>7, <1>9, <1>11, CloseStep

LEMMA CreateStep ==
  ASSUME HInv, NEW r \in All, CreateNet(r)
  PROVE  HInv'
<1>1. PICK q : q = req[r]
  OBVIOUS
<1>2. q \in Request /\ q.pc = "create" /\ Knows(q) /\ q.p \in Phones
  BY <1>1, Types DEF HInv, CreateNet, At, Knows
<1>3. PICK m \in Nets : /\ net[m].st = "none"
                        /\ net' = [net EXCEPT ![m] = [st |-> "open", p |-> q.p, kind |-> q.kind, sid |-> q.s,
                                                      at |-> now, billed |-> FALSE, from |-> 0]]
  BY <1>1 DEF CreateNet
<1>4. /\ net[m].st = "none" /\ net' \in [Nets -> NetRow] /\ \A n \in Nets \ {m} : net'[n] = net[n]
      /\ net'[m].p = q.p /\ net'[m].sid = q.s /\ net'[m].at = now /\ ~net'[m].billed /\ net'[m].st = "open"
  <2>1. [st |-> "open", p |-> q.p, kind |-> q.kind, sid |-> q.s, at |-> now, billed |-> FALSE, from |-> 0] \in NetRow
    BY <1>2, RequestTypes, Types DEF NetRow
  <2> QED  BY <1>3, <2>1, Types
<1>5. req' = [x \in All |-> IF x = r THEN Idle
                            ELSE [req[x] EXCEPT !.raced = @ \/ (req[x].pc = "create" /\ req[x].p = q.p)]]
  BY <1>1, Types DEF CreateNet
<1>6. UNCHANGED <<now, session, online, swept>>
  BY DEF CreateNet
<1>7. ASSUME NEW x \in All
      PROVE  req'[x] \in Request /\ Knows(req[x])'
  <2>1. CASE x = r
    <3>1. req'[x] = Idle
      BY <1>5, <2>1
    <3>2. req'[x].pc = "idle"
      BY <3>1, IdleType
    <3> QED  BY <3>1, <3>2, IdleType DEF Knows
  <2>2. CASE x # r
    <3>1. req[x] \in Request /\ Knows(req[x])
      BY Types DEF HInv
    <3> DEFINE raced == req[x].raced \/ (req[x].pc = "create" /\ req[x].p = q.p)
    <3>2. raced \in BOOLEAN
      BY <3>1, RequestTypes
    <3>3. req'[x] = [req[x] EXCEPT !.raced = raced]
      BY <1>5, <2>2
    <3>4. ~raced => ~req[x].raced /\ (req[x].pc = "create" => req[x].p # q.p)
      BY <3>1, RequestTypes
    <3> HIDE DEF raced
    <3>5. req'[x] \in Request
      BY <3>1, <3>2, <3>3 DEF Request
    <3>6. /\ req'[x].pc = req[x].pc /\ req'[x].p = req[x].p /\ req'[x].s = req[x].s /\ req'[x].due = req[x].due
          /\ req'[x].rows = req[x].rows /\ req'[x].carrier = req[x].carrier
          /\ req'[x].overtaken = req[x].overtaken /\ req'[x].raced = raced
      BY <3>1, <3>3 DEF Request
    <3>7. PICK p : p = req[x].p
      OBVIOUS
    <3>8. req[x].pc = "create" /\ ~raced => OpenNets(p)' = OpenNets(p)
      <4>1. ASSUME req[x].pc = "create" /\ ~raced, NEW n \in Nets
            PROVE  net'[n].p = p /\ net'[n].st = "open" <=> net[n].p = p /\ net[n].st = "open"
        <5>1. CASE n = m
          BY <1>4, <3>4, <3>7, <4>1, <5>1
        <5>2. CASE n # m
          BY <1>4, <5>2
        <5> QED  BY <5>1, <5>2
      <4> QED  BY <4>1 DEF OpenNets
    <3>9. OpenNets(req[x].p)' = OpenNets(p)' /\ OpenNets(req[x].p) = OpenNets(p)
      BY <3>6, <3>7 DEF OpenNets
    <3>10. \A n \in req[x].rows : (net'[n].billed => net[n].billed) /\ (net[n].st # "none" => net'[n].st # "none")
      BY <1>4, <3>1, RequestTypes
    <3> QED  BY <1>6, <3>1, <3>4, <3>5, <3>6, <3>8, <3>9, <3>10 DEF Knows, Of
  <2> QED  BY <2>1, <2>2
<1>8. req' \in [All -> Request]
  BY <1>5, <1>7
<1>9. TypeOK'
  BY <1>4, <1>6, <1>8, Types DEF TypeOK, All
<1>10. ASSUME NEW n \in Nets PROVE RowKnows(n)'
  <2>1. CASE n # m
    <3>1. RowKnows(n) /\ net'[n] = net[n]
      BY <1>4, <2>1 DEF HInv
    <3> QED  BY <1>6, <3>1 DEF RowKnows
  <2>2. CASE n = m
    <3>1. q.s # NoSession => session[q.s].st # "none" /\ session[q.s].p = q.p /\ session[q.s].at =< now
      <4>1. ASSUME q.s # NoSession PROVE q.s \in Sessions /\ session[q.s].st # "none" /\ session[q.s].p = q.p
        BY <1>2, <4>1 DEF Knows, Of
      <4> QED  BY <4>1 DEF HInv, SessionKnows
    <3>2. q.s # NoSession => q.s \in Sessions
      BY <1>2, RequestTypes
    <3> QED  BY <1>4, <1>6, <2>2, <3>1, <3>2, Types, SessionTypes DEF RowKnows
  <2> QED  BY <2>1, <2>2
<1>11. (\A s \in Sessions : SessionKnows(s)') /\ \A p \in Phones : OpenSessions(p)' = OpenSessions(p)
  BY <1>6 DEF HInv, SessionKnows, OpenSessions
<1> QED  BY <1>7, <1>9, <1>10, <1>11 DEF HInv

-----------------------------------------------------------------------------
(* The charge of a visit.                                                  *)

LEMMA Starts ==
  ASSUME HInv, NEW rows \in SUBSET Nets, rows # {}, \A n \in rows : net[n].at \in Time
  PROVE  /\ VisitStart(rows) \in {net[n].at : n \in rows}
         /\ \A n \in rows : VisitStart(rows) =< net[n].at
<1> DEFINE T == {net[n].at : n \in rows}
<1>1. T \subseteq Time /\ T # {}
  OBVIOUS
<1>2. IsFiniteSet(Time) /\ Time \subseteq Int
  <2>1. IsFiniteSet(1 .. LastTick)
    BY Types, FS_Interval
  <2> QED  BY <2>1 DEF Time
<1>3. IsFiniteSet(T)
  <2> HIDE DEF T
  <2> QED  BY <1>1, <1>2, FS_Subset
<1>4. \E t \in T : \A y \in T : t =< y
  <2> HIDE DEF T
  <2> QED  BY <1>1, <1>2, <1>3, SmallestNumber
<1>5. \E t \in {net[n].at : n \in rows} : \A n \in rows : t =< net[n].at
  BY <1>4
<1> QED  BY <1>5 DEF VisitStart

\* The rows of a visit are on record and not billed.
LEMMA VisitRows ==
  ASSUME HInv, NEW p, NEW rows \in Visits(p)
  PROVE  /\ rows \in SUBSET Nets
         /\ \A n \in rows : net[n].st # "none" /\ net[n].at \in Time /\ ~net[n].billed
<1>1. /\ rows \in SUBSET Nets
      /\ \A n \in rows : net[n].st # "none" /\ ~net[n].billed
  <2>1. CASE OpenSessions(p) # {}
    <3>1. PICK s \in OpenSessions(p) : rows = LinkedRows(p, s)
      BY <2>1 DEF Visits
    <3> QED  BY <3>1 DEF LinkedRows
  <2>2. CASE OpenSessions(p) = {}
    <3> DEFINE free == {n \in OpenNets(p) : ~net[n].billed}
    <3>1. rows = {} \/ \E n \in free : rows = {n}
      BY <2>2 DEF Visits
    <3> QED  BY <3>1 DEF OpenNets
  <2> QED  BY <2>1, <2>2
<1>2. \A n \in rows : RowKnows(n)
  BY <1>1 DEF HInv
<1> QED  BY <1>1, <1>2 DEF RowKnows

\* A visitor has one session open, and it is the one that is charged.
LEMMA VisitOf ==
  ASSUME HInv, NEW s \in Sessions, session[s].st = "open", NEW rows \in Visits(session[s].p)
  PROVE  rows = LinkedRows(session[s].p, s)
<1>1. PICK p : p = session[s].p
  OBVIOUS
<1>2. p \in Phones
  BY <1>1 DEF HInv, SessionKnows
<1>3. s \in OpenSessions(p)
  BY <1>1 DEF OpenSessions
<1>4. \A t \in OpenSessions(p) : t = s
  <2>1. OpenSessions(p) \subseteq Sessions
    BY DEF OpenSessions
  <2> QED  BY <1>2, <1>3, <2>1 DEF HInv
<1>5. \E t \in OpenSessions(p) : rows = LinkedRows(p, t)
  BY <1>1, <1>3 DEF Visits
<1> QED  BY <1>1, <1>4, <1>5

\* A charge counts from a row of the visit.
LEMMA DueFacts ==
  ASSUME HInv, NEW p, NEW rows \in Visits(p)
  PROVE  /\ Due(rows) \in Time \cup {0}
         /\ Due(rows) # 0 => \E n \in rows : Due(rows) = net[n].at
         /\ Billable(rows) => \A n \in rows : Due(rows) \in 1 .. net[n].at
<1>1. CASE ~Billable(rows)
  BY <1>1 DEF Due
<1>2. CASE Billable(rows)
  <2>1. /\ rows \in SUBSET Nets /\ rows # {}
        /\ \A n \in rows : net[n].at \in Time
    BY <1>2, VisitRows DEF Billable
  <2>2. PICK t : t = VisitStart(rows)
    OBVIOUS
  <2>3. t \in {net[n].at : n \in rows} /\ \A n \in rows : t =< net[n].at
    BY <2>1, <2>2, Starts
  <2>4. Due(rows) = t
    BY <1>2, <2>2 DEF Due
  <2>5. t \in Time
    BY <2>1, <2>3
  <2>6. \A n \in rows : net[n].at \in Int /\ t \in 1 .. net[n].at
    BY <2>1, <2>3, <2>5, Types DEF Time
  <2> QED  BY <2>3, <2>4, <2>5, <2>6
<1> QED  BY <1>1, <1>2

LEMMA DueOfSession ==
  ASSUME HInv, NEW s \in Sessions, session[s].st = "open", NEW rows \in Visits(session[s].p)
  PROVE  /\ Due(rows) # 0 => Due(rows) >= session[s].at - Tolerance
         /\ s \notin swept => \A n \in PaidRows(s) : Due(rows) \in 1 .. net[n].at
<1>1. rows = LinkedRows(session[s].p, s)
  BY VisitOf
<1>2. ASSUME Due(rows) # 0
      PROVE  Due(rows) >= session[s].at - Tolerance
  <2>1. PICK n \in rows : Due(rows) = net[n].at
    BY <1>2, DueFacts
  <2>2. n \in Nets /\ RowKnows(n) /\ (net[n].sid = s \/ net[n].at >= session[s].at - Tolerance)
    BY <1>1, <2>1 DEF LinkedRows, HInv
  <2>3. net[n].sid = s => net[n].at >= session[s].at
    BY <2>2, NamesAssumption DEF RowKnows
  <2>4. net[n].at \in Int /\ session[s].at \in Int /\ Tolerance \in Nat
    BY <2>2, RowTypes, SessionTypes, ClockAssumption
  <2> QED  BY <2>1, <2>2, <2>3, <2>4
<1>3. ASSUME s \notin swept, NEW n \in PaidRows(s)
      PROVE  Due(rows) \in 1 .. net[n].at
  <2>1. n \in Nets /\ net[n].sid = s /\ net[n].kind = "visitor" /\ RowKnows(n)
    BY <1>3 DEF PaidRows, HInv
  <2>2. net[n].st # "none" /\ net[n].p = session[s].p /\ ~net[n].billed
    BY <1>3, <2>1, NamesAssumption DEF RowKnows
  <2>3. n \in rows
    BY <1>1, <2>1, <2>2 DEF LinkedRows
  <2>4. Billable(rows)
    BY <2>1, <2>3 DEF Billable
  <2> QED  BY <2>3, <2>4, DueFacts
<1> QED  BY <1>2, <1>3

\* What the checkout read: the whole of Pending, but for the session.
LEMMA PendingStep ==
  ASSUME HInv, NEW r \in All, Pending(r)
  PROVE  HInv'
<1>1. PICK q : q = req[r]
  OBVIOUS
<1>2. q \in Request /\ q.pc = "pending" /\ Of(q)
  BY <1>1, Types DEF HInv, Pending, At, Knows
<1>3. PICK rows \in Visits(q.p), sameTier \in BOOLEAN :
         LET due == Due(rows)
             inSeat == session[q.s].seat /\ sameTier /\ due # 0
         IN  \/ Goto(r, [q EXCEPT !.pc = "checkout", !.bill = ~inSeat, !.due = IF inSeat THEN 0 ELSE due])
             \/ Goto(r, [q EXCEPT !.pc = "checkout", !.blind = TRUE])
  BY <1>1 DEF Pending
<1>4. Due(rows) \in Time \cup {0}
  BY <1>3, DueFacts
<1>5. session[q.s].st = "open" /\ Due(rows) # 0 => Due(rows) >= session[q.s].at - Tolerance
  BY <1>2, <1>3, DueOfSession DEF Of
<1>6. UNCHANGED <<now, session, net, swept>> /\ online' \in [Phones -> BOOLEAN]
  BY Types DEF Pending
<1>7. CASE Goto(r, [q EXCEPT !.pc = "checkout", !.blind = TRUE])
  <2>1. PICK local : local = [q EXCEPT !.pc = "checkout", !.blind = TRUE]
    OBVIOUS
  <2>2. local \in Request /\ local.pc = "checkout" /\ local.s = q.s /\ local.p = q.p /\ local.due = q.due
    BY <1>2, <2>1 DEF Request
  <2>3. q.due = 0
    BY <1>1, <1>2 DEF HInv, Knows
  <2>4. Knows(local)
    BY <1>2, <2>2, <2>3 DEF Knows, Of
  <2> QED  BY <1>6, <1>7, <2>1, <2>2, <2>4, GotoStep
<1>8. ASSUME NEW bill \in BOOLEAN, NEW due \in {0, Due(rows)},
             Goto(r, [q EXCEPT !.pc = "checkout", !.bill = bill, !.due = due])
      PROVE  HInv'
  <2>1. PICK local : local = [q EXCEPT !.pc = "checkout", !.bill = bill, !.due = due]
    OBVIOUS
  <2>2. local \in Request /\ local.pc = "checkout" /\ local.s = q.s /\ local.p = q.p /\ local.due = due
    BY <1>2, <1>4, <2>1 DEF Request
  <2>3. Knows(local)
    BY <1>2, <1>5, <1>8, <2>2 DEF Knows, Of
  <2> QED  BY <1>6, <1>8, <2>1, <2>2, <2>3, GotoStep
<1> DEFINE inSeat == session[q.s].seat /\ sameTier /\ Due(rows) # 0
<1>9. CASE Goto(r, [q EXCEPT !.pc = "checkout", !.bill = ~inSeat, !.due = IF inSeat THEN 0 ELSE Due(rows)])
  <2>1. PICK seated \in BOOLEAN : seated <=> inSeat
    OBVIOUS
  <2>2. Goto(r, [q EXCEPT !.pc = "checkout", !.bill = ~seated, !.due = IF seated THEN 0 ELSE Due(rows)])
    <3>1. CASE inSeat
      BY <1>9, <2>1, <3>1
    <3>2. CASE ~inSeat
      BY <1>9, <2>1, <3>2
    <3> QED  BY <3>1, <3>2
  <2>3. CASE seated
    BY <1>8, <2>2, <2>3
  <2>4. CASE ~seated
    BY <1>8, <2>2, <2>4
  <2> QED  BY <2>3, <2>4
<1> QED  BY <1>3, <1>7, <1>9

\* A session is closed, or has its charge noted.
LEMMA SessionStep ==
  ASSUME HInv, NEW r \in All, NEW local \in Request, Goto(r, local), Knows(local),
         UNCHANGED <<now, net, online, swept>>,
         session' \in [Sessions -> SessionRow],
         \A s \in Sessions : /\ session'[s].p = session[s].p /\ session'[s].at = session[s].at
                             /\ \/ session'[s].st = session[s].st
                                \/ session[s].st # "none" /\ session'[s].st = "closed"
  PROVE  HInv'
<1>1. req' \in [All -> Request]
  BY Types DEF Goto
<1>2. TypeOK'
  BY <1>1, Types DEF TypeOK, All
<1>3. ASSUME NEW x \in All PROVE Knows(req[x])'
  <2>1. Knows(req'[x])
    BY Types DEF Goto, HInv
  <2>2. UNCHANGED <<net>>
    OBVIOUS
  <2> QED  BY <2>1, <2>2 DEF Knows, Of, OpenNets
<1>4. ASSUME NEW n \in Nets PROVE RowKnows(n)'
  <2>1. RowKnows(n) /\ net[n].sid \in Sessions \cup {NoSession}
    BY RowTypes DEF HInv
  <2> QED  BY <2>1 DEF RowKnows
<1>5. \A s \in Sessions : SessionKnows(s)'
  BY DEF HInv, SessionKnows
<1>6. \A p \in Phones : OpenSessions(p)' \subseteq OpenSessions(p)
  BY DEF OpenSessions
<1> QED  BY <1>2, <1>3, <1>4, <1>5, <1>6 DEF HInv

LEMMA CheckoutStep ==
  ASSUME HInv, NEW r \in All, Checkout(r)
  PROVE  HInv'
<1>1. PICK q : q = req[r]
  OBVIOUS
<1>2. q \in Request /\ q.pc = "checkout" /\ Of(q)
  BY <1>1, Types DEF HInv, Checkout, At, Knows
<1>3. PICK posted \in BOOLEAN :
         session' = [session EXCEPT ![q.s].st = "closed", ![q.s].from = q.due, ![q.s].posted = posted]
  BY <1>1, <1>2, SessionTypes DEF Checkout, Of
<1>4. PICK local : local = [q EXCEPT !.pc = "cut", !.s = NoSession, !.todo = {q.p}, !.blind = FALSE]
  OBVIOUS
<1>5. q.p \in Phones
  BY <1>2 DEF HInv, Of, SessionKnows
<1>6. local \in Request /\ local.pc = "cut"
  BY <1>2, <1>4, <1>5 DEF Request
<1>7. /\ session' \in [Sessions -> SessionRow]
      /\ \A s \in Sessions : /\ session'[s].p = session[s].p /\ session'[s].at = session[s].at
                             /\ \/ session'[s].st = session[s].st
                                \/ session[s].st # "none" /\ session'[s].st = "closed"
  <2>1. session[q.s] \in SessionRow /\ q.s \in Sessions /\ session[q.s].st # "none"
    BY <1>2, SessionTypes DEF Of
  <2>2. PICK row : row = [session[q.s] EXCEPT !.st = "closed", !.from = q.due, !.posted = posted]
    OBVIOUS
  <2>3. /\ row \in SessionRow /\ row.st = "closed"
        /\ row.p = session[q.s].p /\ row.at = session[q.s].at
    BY <1>2, <1>3, <2>1, <2>2, RequestTypes DEF SessionRow
  <2>4. session' = [session EXCEPT ![q.s] = row]
    BY <1>3, <2>2
  <2> QED  BY <2>1, <2>3, <2>4, Types
<1>8. Goto(r, local) /\ UNCHANGED <<now, net, online, swept>>
  BY <1>1, <1>4 DEF Checkout
<1> QED  BY <1>6, <1>7, <1>8, EarlyKnows, SessionStep

LEMMA PostStep ==
  ASSUME HInv, NEW r \in All, Post(r)
  PROVE  HInv'
<1>1. PICK q : q = req[r]
  OBVIOUS
<1>2. q \in Request
  BY <1>1, Types
<1>3. session' = [session EXCEPT ![q.s].posted = TRUE]
  BY <1>1 DEF Post
<1>4. ASSUME NEW s \in Sessions
      PROVE  /\ session'[s] \in SessionRow
             /\ session'[s].p = session[s].p /\ session'[s].at = session[s].at /\ session'[s].st = session[s].st
  <2>1. session'[s] \in {session[s], [session[s] EXCEPT !.posted = TRUE]} /\ session[s] \in SessionRow
    BY <1>3, Types
  <2>2. [session[s] EXCEPT !.posted = TRUE] \in SessionRow
    BY <2>1 DEF SessionRow
  <2> QED  BY <2>1, <2>2 DEF SessionRow
<1>5. session' \in [Sessions -> SessionRow]
  BY <1>3, <1>4, Types
<1>6. Goto(r, After(q)) /\ UNCHANGED <<now, net, online, swept>>
  BY <1>1 DEF Post
<1> QED  BY <1>2, <1>4, <1>5, <1>6, AfterType, AfterKnows, SessionStep

-----------------------------------------------------------------------------
(* The jobs, up to the visit that they close.                              *)

LEMMA StartStep ==
  ASSUME HInv, NEW r \in All,
         \/ \E s \in Sessions : StartCheckout(r, s)
         \/ \E p \in Phones : StartEnd(r, p) \/ StartDisconnect(r, p)
         \/ StartSweep(r) \/ StartReconcile(r) \/ ReconcileActives(r)
  PROVE  HInv'
<1>1. UNCHANGED <<now, session, net, swept>> /\ online' \in [Phones -> BOOLEAN]
  BY Types DEF StartCheckout, StartEnd, StartDisconnect, StartSweep, StartReconcile, ReconcileActives
<1>2. ASSUME NEW local, Goto(r, local), local \in Request, Knows(local)
      PROVE  HInv'
  BY <1>1, <1>2, GotoStep
<1>3. ASSUME NEW s \in Sessions, StartCheckout(r, s)
      PROVE  HInv'
  <2>1. PICK local : local = [Idle EXCEPT !.pc = "pending", !.p = session[s].p, !.s = s]
    OBVIOUS
  <2>2. /\ local \in Request /\ local.pc = "pending" /\ local.p = session[s].p /\ local.s = s /\ local.due = 0
    BY <2>1, SessionTypes, IdleType DEF Request, Idle
  <2>3. Knows(local)
    BY <1>3, <2>2 DEF StartCheckout, Knows, Of
  <2>4. Goto(r, local)
    BY <1>3, <2>1 DEF StartCheckout
  <2> QED  BY <1>2, <2>2, <2>3, <2>4
<1>4. ASSUME NEW local \in Request, local.pc \in {"cut", "actives"}, Goto(r, local)
      PROVE  HInv'
  <2>1. Knows(local)
    BY <1>4, EarlyKnows
  <2> QED  BY <1>2, <1>4, <2>1
<1>5. ASSUME NEW bill \in BOOLEAN, NEW pc \in {"cut", "actives"}, NEW todo \in SUBSET Phones,
             Goto(r, [Idle EXCEPT !.pc = pc, !.bill = bill, !.todo = todo])
      PROVE  HInv'
  <2>1. PICK local : local = [Idle EXCEPT !.pc = pc, !.bill = bill, !.todo = todo]
    OBVIOUS
  <2>2. local \in Request /\ local.pc \in {"cut", "actives"}
    BY <2>1, IdleType DEF Request
  <2> QED  BY <1>4, <1>5, <2>1, <2>2
<1>6. ASSUME NEW todo \in SUBSET Phones, Goto(r, [Idle EXCEPT !.pc = "cut", !.todo = todo])
      PROVE  HInv'
  <2>1. PICK local : local = [Idle EXCEPT !.pc = "cut", !.todo = todo]
    OBVIOUS
  <2>2. local \in Request /\ local.pc \in {"cut", "actives"}
    BY <2>1, IdleType DEF Request
  <2> QED  BY <1>4, <1>6, <2>1, <2>2
<1>7. ASSUME NEW p \in Phones, StartEnd(r, p) \/ StartDisconnect(r, p)
      PROVE  HInv'
  <2>1. {p} \in SUBSET Phones
    OBVIOUS
  <2> QED  BY <1>5, <1>6, <1>7, <2>1 DEF StartEnd, StartDisconnect
<1>8. CASE StartSweep(r)
  <2> DEFINE due == {p \in Phones : \E n \in OpenNets(p) : net[n].kind = "visitor"}
  <2>1. due \in SUBSET Phones /\ Goto(r, [Idle EXCEPT !.pc = "cut", !.todo = due])
    BY <1>8 DEF StartSweep
  <2> HIDE DEF due
  <2> QED  BY <1>6, <2>1
<1>9. CASE StartReconcile(r)
  <2> DEFINE open == {p \in Phones : OpenNets(p) # {}}
  <2>1. open \in SUBSET Phones /\ Goto(r, [Idle EXCEPT !.pc = "actives", !.bill = FALSE, !.todo = open])
    BY <1>9 DEF StartReconcile
  <2> HIDE DEF open
  <2> QED  BY <1>5, <2>1
<1>10. CASE ReconcileActives(r)
  <2>1. PICK q : q = [req[r] EXCEPT !.todo = {p \in @ : ~online[p]}]
    OBVIOUS
  <2>2. q \in Request
    <3>1. req[r] \in Request /\ {p \in req[r].todo : ~online[p]} \subseteq Phones
      BY Types, RequestTypes
    <3> QED  BY <2>1, <3>1 DEF Request
  <2>3. Goto(r, After(q))
    BY <1>10, <2>1 DEF ReconcileActives
  <2> QED  BY <1>2, <2>2, <2>3, AfterType, AfterKnows
<1> QED  BY <1>3, <1>7, <1>8, <1>9, <1>10

LEMMA CutStep ==
  ASSUME HInv, NEW r \in All, Cut(r)
  PROVE  HInv'
<1>1. PICK q : q = req[r]
  OBVIOUS
<1>2. PICK p \in q.todo : Goto(r, [q EXCEPT !.pc = "visit", !.p = p, !.todo = @ \ {p}])
  BY <1>1 DEF Cut
<1>3. q \in Request /\ q.todo \subseteq Phones /\ p \in Phones
  BY <1>1, Types, RequestTypes
<1>4. PICK local : local = [q EXCEPT !.pc = "visit", !.p = p, !.todo = @ \ {p}]
  OBVIOUS
<1>5. local \in Request /\ local.pc = "visit"
  BY <1>3, <1>4 DEF Request
<1>6. UNCHANGED <<now, session, net, swept>> /\ online' \in [Phones -> BOOLEAN]
  BY Types DEF Cut
<1>7. Knows(local)
  BY <1>5, EarlyKnows
<1> QED  BY <1>2, <1>4, <1>5, <1>6, <1>7, GotoStep

LEMMA ReadVisitStep ==
  ASSUME HInv, NEW r \in All, ReadVisit(r)
  PROVE  HInv'
<1>1. PICK q : q = req[r]
  OBVIOUS
<1>2. q \in Request
  BY <1>1, Types
<1>3. UNCHANGED <<now, session, net, swept>> /\ online' \in [Phones -> BOOLEAN]
  BY Types DEF ReadVisit
<1>4. CASE Goto(r, After(q))
  BY <1>2, <1>3, <1>4, AfterType, AfterKnows, GotoStep
<1>5. CASE Goto(r, [q EXCEPT !.pc = "open"])
  <2>1. PICK local : local = [q EXCEPT !.pc = "open"]
    OBVIOUS
  <2>2. local \in Request /\ local.pc = "open"
    BY <1>2, <2>1 DEF Request
  <2>3. Knows(local)
    BY <2>2, EarlyKnows
  <2> QED  BY <1>3, <1>5, <2>1, <2>2, <2>3, GotoStep
<1>6. ASSUME NEW rows \in Visits(q.p), NEW n \in Carriers(rows),
             Goto(r, [q EXCEPT !.pc = "stamp", !.rows = rows, !.carrier = n,
                               !.from = IF Billable(rows) /\ q.due # 0 THEN q.due ELSE Due(rows)])
      PROVE  HInv'
  <2>1. PICK from : from = IF Billable(rows) /\ q.due # 0 THEN q.due ELSE Due(rows)
    OBVIOUS
  <2>2. from \in Time \cup {0}
    BY <1>2, <2>1, DueFacts, RequestTypes
  <2>3. PICK local : local = [q EXCEPT !.pc = "stamp", !.rows = rows, !.carrier = n, !.from = from]
    OBVIOUS
  <2>4. rows \in SUBSET Nets /\ n \in rows
    BY VisitRows DEF Carriers
  <2>5. /\ local \in Request /\ local.pc = "stamp" /\ local.rows = rows /\ local.carrier = n
    BY <1>2, <2>2, <2>3, <2>4 DEF Request
  <2>6. Knows(local)
    BY <2>4, <2>5, VisitRows DEF Knows
  <2> QED  BY <1>3, <1>6, <2>1, <2>3, <2>5, <2>6, GotoStep
<1> QED  BY <1>1, <1>4, <1>5, <1>6 DEF ReadVisit

LEMMA CloseOpenStep ==
  ASSUME HInv, NEW r \in All, CloseOpen(r)
  PROVE  HInv'
<1>1. PICK q : q = req[r]
  OBVIOUS
<1>2. q \in Request
  BY <1>1, Types
<1>3. Goto(r, After(q)) /\ UNCHANGED <<now, session, online, swept>>
  BY <1>1 DEF CloseOpen
<1>4. After(q) \in Request /\ After(q).pc \in {"idle", "cut"}
  BY <1>2, AfterType
<1>5. PICK local : local = After(q)
  OBVIOUS
<1>6. local \in Request /\ Goto(r, local) /\ Knows(local)'
  BY <1>3, <1>4, <1>5 DEF Knows
<1>7. CASE UNCHANGED net
  BY <1>3, <1>6, <1>7, Types, CloseStep
<1>8. ASSUME NEW m \in OpenNets(q.p), net' = [net EXCEPT ![m].st = "closed"]
      PROVE  HInv'
  <2>1. m \in Nets /\ net[m].st = "open" /\ net[m] \in NetRow
    BY RowTypes DEF OpenNets
  <2>2. PICK row : row = [net[m] EXCEPT !.st = "closed"]
    OBVIOUS
  <2>3. row \in NetRow
    BY <2>1, <2>2 DEF NetRow
  <2>4. net' = [net EXCEPT ![m] = row]
    BY <1>8, <2>2
  <2>5. net' \in [Nets -> NetRow]
    BY <2>3, <2>4, Types
  <2>6. \A n \in Nets : \/ net'[n] = net[n]
                        \/ net[n].st = "open" /\ net'[n] = [net[n] EXCEPT !.st = "closed"]
    BY <2>1, <2>2, <2>4, Types
  <2> QED  BY <1>3, <1>6, <2>5, <2>6, CloseStep
<1> QED  BY <1>1, <1>7, <1>8 DEF CloseOpen

-----------------------------------------------------------------------------
(* Stamping.                                                               *)

\* Rows of a visit are stamped: whoever read them too is overtaken, and the sessions they
\* belong to are swept.
LEMMA StampedStep ==
  ASSUME HInv, NEW r \in All, NEW rows \in SUBSET Nets, NEW local \in Request, Stamped(r, rows, local),
         UNCHANGED <<now, session, online>>, net' \in [Nets -> NetRow],
         \A n \in Nets \ rows : net'[n] = net[n],
         \A n \in rows : /\ net[n].st # "none" /\ net'[n].st = "closed"
                         /\ net'[n].p = net[n].p /\ net'[n].at = net[n].at /\ net'[n].sid = net[n].sid,
         Knows(local)'
  PROVE  HInv'
<1>1. req' = [x \in All |-> IF x = r THEN local
                            ELSE [req[x] EXCEPT !.overtaken = @ \/ (req[x].rows \cap rows # {})]]
  BY Types DEF Stamped
<1>2. /\ swept' \subseteq Sessions /\ swept \subseteq swept'
      /\ \A s \in Sessions, n \in rows : session[s].st = "open" /\ net[n].sid = s => s \in swept'
  BY Types DEF Stamped
<1>3. ASSUME NEW n \in Nets
      PROVE  /\ net'[n].p = net[n].p /\ net'[n].at = net[n].at /\ net'[n].sid = net[n].sid
             /\ net'[n].st = "none" <=> net[n].st = "none"
             /\ net'[n].st = "open" => net[n].st = "open"
  <2>1. CASE n \in rows
    BY <2>1
  <2>2. CASE n \notin rows
    BY <2>2
  <2> QED  BY <2>1, <2>2
<1>4. ASSUME NEW x \in All
      PROVE  req'[x] \in Request /\ Knows(req[x])'
  <2>1. CASE x = r
    <3>1. req'[x] = local
      BY <1>1, <2>1
    <3> QED  BY <3>1 DEF Knows, Of, OpenNets
  <2>2. CASE x # r
    <3>1. req[x] \in Request /\ Knows(req[x])
      BY Types DEF HInv
    <3> DEFINE overtaken == req[x].overtaken \/ (req[x].rows \cap rows # {})
    <3>2. overtaken \in BOOLEAN
      BY <3>1, RequestTypes
    <3>3. req'[x] = [req[x] EXCEPT !.overtaken = overtaken]
      BY <1>1, <2>2
    <3>4. ~overtaken => ~req[x].overtaken /\ \A n \in req[x].rows : n \notin rows
      BY <3>1, RequestTypes
    <3> HIDE DEF overtaken
    <3>5. req'[x] \in Request
      BY <3>1, <3>2, <3>3 DEF Request
    <3>6. /\ req'[x].pc = req[x].pc /\ req'[x].p = req[x].p /\ req'[x].s = req[x].s /\ req'[x].due = req[x].due
          /\ req'[x].rows = req[x].rows /\ req'[x].carrier = req[x].carrier
          /\ req'[x].overtaken = overtaken /\ req'[x].raced = req[x].raced
      BY <3>1, <3>3 DEF Request
    <3>7. OpenNets(req[x].p) = {} => OpenNets(req[x].p)' = {}
      BY <1>3, <3>6 DEF OpenNets
    <3>8. req[x].rows \subseteq Nets
      BY <3>1, RequestTypes
    <3>9. \A n \in req[x].rows : net[n].st # "none" => net'[n].st # "none"
      BY <1>3, <3>8
    <3>10. ~overtaken => \A n \in req[x].rows : net'[n] = net[n]
      BY <3>4, <3>8
    <3> QED  BY <3>1, <3>4, <3>5, <3>6, <3>7, <3>9, <3>10 DEF Knows, Of
  <2> QED  BY <2>1, <2>2
<1>5. req' \in [All -> Request]
  BY <1>1, <1>4
<1>6. TypeOK'
  BY <1>2, <1>5, Types DEF TypeOK, All
<1>7. ASSUME NEW n \in Nets PROVE RowKnows(n)'
  <2>1. RowKnows(n) /\ net[n].sid \in Sessions \cup {NoSession}
    BY RowTypes DEF HInv
  <2>2. CASE n \in rows
    <3>1. net'[n].st = "closed"
      BY <2>2
    <3> QED  BY <1>2, <1>3, <2>1, <2>2, <3>1 DEF RowKnows
  <2>3. CASE n \notin rows
    <3>1. net'[n] = net[n]
      BY <2>3
    <3> QED  BY <1>2, <2>1, <3>1 DEF RowKnows
  <2> QED  BY <2>2, <2>3
<1>8. (\A s \in Sessions : SessionKnows(s)') /\ \A p \in Phones : OpenSessions(p)' = OpenSessions(p)
  BY DEF HInv, SessionKnows, OpenSessions
<1> QED  BY <1>4, <1>6, <1>7, <1>8 DEF HInv

LEMMA StampStep ==
  ASSUME HInv, NEW r \in All, Stamp(r)
  PROVE  HInv'
<1>1. PICK q : q = req[r]
  OBVIOUS
<1>2. q \in Request /\ q.pc = "stamp" /\ Knows(q)
  BY <1>1, Types DEF HInv, Stamp, At
<1>3. PICK rest : rest = q.rows \ {q.carrier}
  OBVIOUS
<1>4. /\ rest \in SUBSET Nets /\ q.carrier \notin rest /\ q.carrier \in Nets /\ q.carrier \in q.rows
      /\ \A n \in q.rows : n \in Nets /\ net[n].st # "none"
      /\ ~q.overtaken => ~net[q.carrier].billed
  BY <1>2, <1>3, RequestTypes DEF Knows
<1>5. net' = [n \in Nets |-> IF n \in rest THEN [net[n] EXCEPT !.st = "closed", !.billed = TRUE, !.from = 0]
                             ELSE net[n]]
  BY <1>1, <1>3 DEF Stamp
<1>6. PICK local : local = [q EXCEPT !.pc = "carry"]
  OBVIOUS
<1>7. /\ local \in Request /\ local.pc = "carry" /\ local.carrier = q.carrier /\ local.rows = q.rows
      /\ local.overtaken = q.overtaken
  BY <1>2, <1>6 DEF Request
<1>8. Stamped(r, rest, local) /\ UNCHANGED <<now, session, online>>
  BY <1>1, <1>3, <1>6 DEF Stamp
<1>9. ASSUME NEW n \in Nets
      PROVE  /\ net'[n] \in NetRow
             /\ n \notin rest => net'[n] = net[n]
             /\ n \in rest => /\ net'[n].st = "closed" /\ net'[n].p = net[n].p
                              /\ net'[n].at = net[n].at /\ net'[n].sid = net[n].sid
  <2>1. net[n] \in NetRow
    BY RowTypes
  <2>2. CASE n \in rest
    BY <1>5, <2>1, <2>2 DEF NetRow
  <2>3. CASE n \notin rest
    BY <1>5, <2>1, <2>3
  <2> QED  BY <2>2, <2>3
<1>10. net' \in [Nets -> NetRow]
  BY <1>5, <1>9
<1>11. Knows(local)'
  <2>1. net'[q.carrier] = net[q.carrier]
    BY <1>4, <1>9
  <2>2. \A n \in q.rows : net'[n].st # "none"
    BY <1>4, <1>9
  <2> QED  BY <1>4, <1>7, <2>1, <2>2 DEF Knows
<1>12. \A n \in rest : net[n].st # "none"
  BY <1>3, <1>4
<1> QED  BY <1>4, <1>7, <1>8, <1>9, <1>10, <1>11, <1>12, StampedStep

LEMMA CarryStep ==
  ASSUME HInv, NEW r \in All, Carry(r)
  PROVE  HInv'
<1>1. PICK q : q = req[r]
  OBVIOUS
<1>2. q \in Request /\ q.pc = "carry" /\ Knows(q)
  BY <1>1, Types DEF HInv, Carry, Carried, At
<1>3. PICK m : m = q.carrier
  OBVIOUS
<1>4. m \in Nets /\ net[m].st # "none" /\ net[m] \in NetRow
  BY <1>2, <1>3, RequestTypes, RowTypes DEF Knows
<1>5. net' = [net EXCEPT ![m].st = "closed", ![m].from = q.from, ![m].billed = q.from # 0]
  BY <1>1, <1>3 DEF Carry, Carried
<1>6. /\ net' \in [Nets -> NetRow] /\ \A n \in Nets \ {m} : net'[n] = net[n]
      /\ net'[m].st = "closed" /\ net'[m].p = net[m].p /\ net'[m].at = net[m].at /\ net'[m].sid = net[m].sid
  <2>1. PICK billed \in BOOLEAN : billed <=> q.from # 0
    OBVIOUS
  <2>2. PICK row : row = [net[m] EXCEPT !.st = "closed", !.from = q.from, !.billed = q.from # 0]
    OBVIOUS
  <2>3. row = [net[m] EXCEPT !.st = "closed", !.from = q.from, !.billed = billed]
    BY <2>1, <2>2
  <2>4. /\ row \in NetRow /\ row.st = "closed" /\ row.p = net[m].p /\ row.at = net[m].at /\ row.sid = net[m].sid
    BY <1>2, <1>4, <2>3, RequestTypes DEF NetRow
  <2>5. net' = [net EXCEPT ![m] = row]
    BY <1>5, <2>2
  <2> QED  BY <1>4, <2>4, <2>5, Types
<1>7. PICK local : local = IF q.from # 0 /\ net[m].sid # NoSession
                           THEN [q EXCEPT !.pc = "post", !.s = net[m].sid]
                           ELSE After(q)
  OBVIOUS
<1>8. local \in Request /\ local.pc \in {"idle", "cut", "post"}
  <2>1. CASE q.from # 0 /\ net[m].sid # NoSession
    <3>1. local = [q EXCEPT !.pc = "post", !.s = net[m].sid]
      BY <1>7, <2>1
    <3>2. net[m].sid \in Sessions \cup {NoSession}
      BY <1>4, RowTypes
    <3> QED  BY <1>2, <3>1, <3>2 DEF Request
  <2>2. CASE ~(q.from # 0 /\ net[m].sid # NoSession)
    <3>1. local = After(q)
      BY <1>7, <2>2
    <3> QED  BY <1>2, <3>1, AfterType
  <2> QED  BY <2>1, <2>2
<1>9. Knows(local)'
  BY <1>8 DEF Knows
<1>10. Stamped(r, {m}, local) /\ UNCHANGED <<now, session, online>>
  BY <1>1, <1>3, <1>7 DEF Carry, Carried
<1> QED  BY <1>4, <1>6, <1>8, <1>9, <1>10, StampedStep

-----------------------------------------------------------------------------
(* The invariant.                                                          *)

LEMMA HotspotInit ==
  ASSUME Init
  PROVE  HInv
<1>1. TypeOK
  BY IdleType, ClockAssumption DEF Init, TypeOK, Time, SessionRow, NetRow
<1>2. \A r \in All : Knows(req[r])
  BY IdleKnows DEF Init, All
<1>3. (\A n \in Nets : RowKnows(n)) /\ \A s \in Sessions : SessionKnows(s)
  BY DEF Init, RowKnows, SessionKnows
<1>4. \A p \in Phones : OpenSessions(p) = {}
  BY DEF Init, OpenSessions
<1> QED  BY <1>1, <1>2, <1>3, <1>4 DEF HInv

LEMMA EndStep ==
  ASSUME HInv, NEW r \in All, EndByPhone(r) \/ Abort(r)
  PROVE  HInv'
<1>1. CASE Cut(r)
  BY <1>1, CutStep
<1>2. CASE ReadVisit(r)
  BY <1>2, ReadVisitStep
<1>3. CASE CloseOpen(r)
  BY <1>3, CloseOpenStep
<1>4. CASE Stamp(r)
  BY <1>4, StampStep
<1>5. CASE Carry(r)
  BY <1>5, CarryStep
<1>6. CASE Post(r)
  BY <1>6, PostStep
<1>7. CASE Abort(r)
  BY <1>7, AbortStep
<1> QED  BY <1>1, <1>2, <1>3, <1>4, <1>5, <1>6, <1>7 DEF EndByPhone

LEMMA HotspotNext ==
  ASSUME HInv, Next
  PROVE  HInv'
<1>1. CASE Tick \/ \E p \in Phones : Drop(p) \/ Authorize(p)
  BY <1>1, WorldStep
<1>2. ASSUME NEW p \in Phones, NEW seat \in Seats, CheckIn(p, seat)
      PROVE  HInv'
  <2>1. UNCHANGED req
    BY <1>2 DEF CheckIn
  <2> QED  BY <1>2, CheckInStep
<1>3. ASSUME NEW r \in Reqs, Login(r) \/ CheckOut(r) \/ Job(r) \/ EndByPhone(r) \/ Abort(r)
      PROVE  HInv'
  <2>1. r \in All
    BY DEF All
  <2>2. CASE Login(r)
    BY <2>1, <2>2, LoginRouterStep, LoginAttendStep, SupersedeStep, CreateStep DEF Login
  <2>3. CASE CheckOut(r)
    BY <2>1, <2>3, StartStep, PendingStep, CheckoutStep DEF CheckOut
  <2>4. CASE Job(r)
    BY <2>1, <2>4, StartStep DEF Job
  <2> QED  BY <1>3, <2>1, <2>2, <2>3, <2>4, EndStep
<1>4. ASSUME NEW c \in Crons, Reconcile(c) \/ Abort(c)
      PROVE  HInv'
  <2>1. c \in All
    BY DEF All
  <2> QED  BY <1>4, <2>1, StartStep, EndStep DEF Reconcile
<1> QED  BY <1>1, <1>2, <1>3, <1>4 DEF Next

LEMMA HotspotStill ==
  ASSUME HInv, UNCHANGED vars
  PROVE  HInv'
<1>1. UNCHANGED <<now, session, net, online, req, swept>>
  BY DEF vars
<1>2. TypeOK'
  BY <1>1, Types DEF TypeOK, All
<1>3. \A r \in All : Knows(req[r])'
  BY <1>1 DEF HInv, Knows, Of, OpenNets
<1>4. (\A n \in Nets : RowKnows(n)') /\ \A s \in Sessions : SessionKnows(s)'
  BY <1>1 DEF HInv, RowKnows, SessionKnows
<1>5. \A p \in Phones : OpenSessions(p)' = OpenSessions(p)
  BY <1>1 DEF OpenSessions
<1> QED  BY <1>2, <1>3, <1>4, <1>5 DEF HInv

LEMMA HotspotInvariant == Spec => []HInv
<1>1. Init => HInv
  BY HotspotInit
<1>2. HInv /\ [Next]_vars => HInv'
  BY HotspotNext, HotspotStill
<1> QED  BY <1>1, <1>2, PTL DEF Spec

-----------------------------------------------------------------------------
(* Theorems.                                                               *)

\* The state of the hotspot is what the type invariant says it is.
THEOREM TypeCorrect == Spec => []TypeOK
BY HotspotInvariant, PTL DEF HInv

LEMMA RequestKnows ==
  ASSUME HInv, NEW r \in All
  PROVE  Knows(req[r])
BY DEF HInv

\* Which steps open a row, and which close them.
LEMMA OpensStep ==
  ASSUME HInv, [Next]_vars, NEW p, NEW n \in OpenNets(p)' \ OpenNets(p)
  PROVE  \E r \in Reqs : At(r, "create") /\ req[r].p = p
<1>1. n \in Nets /\ net'[n].p = p /\ net'[n].st = "open" /\ net'[n] # net[n]
      /\ ~(net[n].p = p /\ net[n].st = "open")
  BY DEF OpenNets
<1>2. net[n] \in NetRow
  BY <1>1, RowTypes
<1>3. net[n].st # "open" \/ net[n].p # p
  BY <1>1
<1>4. ASSUME NEW r \in Reqs, CreateNet(r)
      PROVE  At(r, "create") /\ req[r].p = p
  <2>1. PICK m \in Nets :
           net' = [net EXCEPT ![m] = [st |-> "open", p |-> req[r].p, kind |-> req[r].kind, sid |-> req[r].s,
                                      at |-> now, billed |-> FALSE, from |-> 0]]
    BY <1>4 DEF CreateNet
  <2>2. m = n
    BY <1>1, <2>1, Types
  <2> QED  BY <1>1, <1>4, <2>1, <2>2, Types DEF CreateNet
<1>5. ASSUME NEW r \in All, Supersede(r) \/ CloseOpen(r) \/ Stamp(r) \/ Carry(r)
      PROVE  FALSE
  <2>1. CASE Supersede(r)
    <3>1. net'[n] = net[n] \/ net'[n] = [net[n] EXCEPT !.st = "closed"]
      BY <1>1, <2>1 DEF Supersede
    <3> QED  BY <1>1, <1>2, <3>1 DEF NetRow
  <2>2. CASE CloseOpen(r)
    <3>1. net'[n] = net[n] \/ net'[n] = [net[n] EXCEPT !.st = "closed"]
      BY <1>1, <2>2, Types DEF CloseOpen
    <3> QED  BY <1>1, <1>2, <3>1 DEF NetRow
  <2>3. CASE Stamp(r)
    <3>1. net'[n] = net[n] \/ net'[n] = [net[n] EXCEPT !.st = "closed", !.billed = TRUE, !.from = 0]
      BY <1>1, <2>3 DEF Stamp
    <3> QED  BY <1>1, <1>2, <3>1 DEF NetRow
  <2>4. CASE Carry(r)
    <3>1. \/ net'[n] = net[n]
          \/ net'[n] = [net[n] EXCEPT !.st = "closed", !.from = req[r].from, !.billed = req[r].from # 0]
      BY <1>1, <2>4, Types DEF Carry, Carried
    <3> QED  BY <1>1, <1>2, <3>1 DEF NetRow
  <2> QED  BY <1>5, <2>1, <2>2, <2>3, <2>4
<1>6. (\E r \in Reqs : CreateNet(r)) \/ \E r \in All : Supersede(r) \/ CloseOpen(r) \/ Stamp(r) \/ Carry(r)
  <2>1. net' # net
    BY <1>1
  <2> QED  BY <2>1 DEF All, Next, vars, Tick, Drop, Authorize, CheckIn, Login, LoginRouter, LoginAttend, CheckOut,
               StartCheckout, Pending, Checkout, Job, StartEnd, StartDisconnect, StartSweep, Reconcile,
               StartReconcile, ReconcileActives, EndByPhone, Cut, ReadVisit, Post, Abort
<1> QED  BY <1>4, <1>5, <1>6

\* A phone has a second open row only if two logins of it overlapped (portalLogin supersedes
\* the rows it finds, and then creates its own).
THEOREM SecondRowWasRaced == Spec => OneOpenRowUnlessRaced
<1>1. ASSUME HInv, [Next]_vars, NEW p \in Phones, OpenNets(p) # {}, OpenNets(p)' \ OpenNets(p) # {}
      PROVE  \E r \in Reqs : At(r, "create") /\ req[r].p = p /\ req[r].raced
  <2>1. PICK r \in Reqs : At(r, "create") /\ req[r].p = p
    BY <1>1, OpensStep
  <2>2. Knows(req[r])
    BY <1>1, RequestKnows DEF All
  <2> QED  BY <1>1, <2>1, <2>2 DEF Knows, At
<1>2. HInv /\ [Next]_vars =>
        [\A p \in Phones :
           OpenNets(p) # {} /\ OpenNets(p)' \ OpenNets(p) # {} =>
             \E r \in Reqs : At(r, "create") /\ req[r].p = p /\ req[r].raced]_vars
  BY <1>1
<1> QED  BY <1>2, HotspotInvariant, PTL DEF Spec, OneOpenRowUnlessRaced

\* A row that was charged stays as it is, unless the visit it is in was read before it was
\* charged (endByPhone of two callers at once).
THEOREM RowsBilledOnce == Spec => BilledOnce
<1>1. ASSUME HInv, Next, NEW n \in Nets, net[n].billed, net'[n] # net[n]
      PROVE  \E r \in DOMAIN req : n \in req[r].rows /\ req[r].overtaken
  <2>1. net[n].st = "closed"
    BY <1>1 DEF HInv, RowKnows
  <2>2. ASSUME NEW r \in All, CreateNet(r) \/ Supersede(r) \/ CloseOpen(r)
        PROVE  FALSE
    <3>1. CASE CreateNet(r)
      BY <1>1, <2>1, <3>1, Types DEF CreateNet
    <3>2. CASE Supersede(r)
      BY <1>1, <2>1, <3>2 DEF Supersede, OpenNets
    <3>3. CASE CloseOpen(r)
      BY <1>1, <2>1, <3>3, Types DEF CloseOpen, OpenNets
    <3> QED  BY <2>2, <3>1, <3>2, <3>3
  <2>3. ASSUME NEW r \in All, Stamp(r)
        PROVE  n \in req[r].rows /\ req[r].overtaken
    <3>1. n \in req[r].rows
      BY <1>1, <2>3 DEF Stamp
    <3>2. Knows(req[r]) /\ req[r].pc = "stamp"
      BY <1>1, <2>3, RequestKnows DEF Stamp, At
    <3> QED  BY <1>1, <3>1, <3>2 DEF Knows
  <2>4. ASSUME NEW r \in All, Carry(r)
        PROVE  n \in req[r].rows /\ req[r].overtaken
    <3>1. n = req[r].carrier
      BY <1>1, <2>4, Types DEF Carry, Carried
    <3>2. Knows(req[r]) /\ req[r].pc = "carry"
      BY <1>1, <2>4, RequestKnows DEF Carry, Carried, At
    <3> QED  BY <1>1, <3>1, <3>2 DEF Knows
  <2>5. \E r \in All : CreateNet(r) \/ Supersede(r) \/ CloseOpen(r) \/ Stamp(r) \/ Carry(r)
    <3>1. net' # net
      BY <1>1
    <3> QED  BY <1>1, <3>1 DEF All, Next, Tick, Drop, Authorize, CheckIn, Login, LoginRouter, LoginAttend, CheckOut,
                 StartCheckout, Pending, Checkout, Job, StartEnd, StartDisconnect, StartSweep, Reconcile,
                 StartReconcile, ReconcileActives, EndByPhone, Cut, ReadVisit, Post, Abort
  <2>6. DOMAIN req = All
    BY <1>1, Types
  <2> QED  BY <2>2, <2>3, <2>4, <2>5, <2>6
<1>2. HInv /\ [Next]_vars =>
        [\A n \in Nets :
           net[n].billed /\ net'[n] # net[n] =>
             \E r \in DOMAIN req : n \in req[r].rows /\ req[r].overtaken]_vars
  BY <1>1
<1> QED  BY <1>2, HotspotInvariant, PTL DEF Spec, BilledOnce


\* Only the reading of the charge leads from "pending" to "checkout".
LEMMA PendingMoves ==
  ASSUME HInv, Next, NEW r \in Reqs, At(r, "pending"), At(r, "checkout")'
  PROVE  Pending(r)
<1>1. /\ r \in All /\ req[r] \in Request /\ req[r].pc = "pending" /\ req'[r].pc = "checkout" /\ DOMAIN req = All
      /\ req \in [All -> Request]
  BY Types DEF At, All
<1>2. ASSUME NEW x, NEW local, Goto(x, local), req[x].pc # "pending"
      PROVE  FALSE
  BY <1>1, <1>2 DEF Goto
<1>3. ASSUME NEW x \in All, CreateNet(x) \/ Stamp(x) \/ Carry(x)
      PROVE  FALSE
  <2>1. x # r
    BY <1>1, <1>3 DEF CreateNet, Stamp, Carry, Carried, At
  <2>2. \E b : req'[r] = [req[r] EXCEPT !.raced = b] \/ req'[r] = [req[r] EXCEPT !.overtaken = b]
    <3>1. CASE CreateNet(x)
      BY <1>1, <2>1, <3>1 DEF CreateNet
    <3>2. ASSUME NEW rows, NEW local, Stamped(x, rows, local)
          PROVE  req'[r] = [req[r] EXCEPT !.overtaken = req[r].overtaken \/ (req[r].rows \cap rows # {})]
      BY <1>1, <2>1, <3>2 DEF Stamped
    <3>3. \/ CreateNet(x)
          \/ \E rows, local : Stamped(x, rows, local)
      BY <1>3 DEF Stamp, Carry, Carried
    <3> QED  BY <3>1, <3>2, <3>3
  <2>3. PICK b : req'[r] = [req[r] EXCEPT !.raced = b] \/ req'[r] = [req[r] EXCEPT !.overtaken = b]
    BY <2>2
  <2>4. req'[r].pc = req[r].pc
    BY <1>1, <2>3 DEF Request
  <2> QED  BY <1>1, <2>4
<1>4. ASSUME NEW x, Login(x), ~CreateNet(x)
      PROVE  FALSE
  <2>1. ASSUME NEW p, NEW kind, LoginRouter(x, p, kind)
        PROVE  FALSE
    BY <1>2, <2>1 DEF LoginRouter, At
  <2>2. CASE LoginAttend(x)
    <3>1. \E local : Goto(x, local)
      BY <2>2 DEF LoginAttend
    <3> QED  BY <1>2, <2>2, <3>1 DEF LoginAttend, At
  <2>3. CASE Supersede(x)
    BY <1>2, <2>3 DEF Supersede, At
  <2> QED  BY <1>4, <2>1, <2>2, <2>3 DEF Login
<1>5. ASSUME NEW x, CheckOut(x), ~Pending(x)
      PROVE  FALSE
  BY <1>2, <1>5 DEF CheckOut, StartCheckout, Checkout, At
<1>6. ASSUME NEW x, Job(x)
      PROVE  FALSE
  BY <1>2, <1>6 DEF Job, StartEnd, StartDisconnect, StartSweep, At
<1>7. ASSUME NEW x, StartReconcile(x) \/ ReconcileActives(x)
      PROVE  FALSE
  BY <1>2, <1>7 DEF StartReconcile, ReconcileActives, At
<1>8. ASSUME NEW x \in All, EndByPhone(x)
      PROVE  FALSE
  <2>1. ~(Stamp(x) \/ Carry(x))
    BY <1>3, <1>8
  <2>2. CASE Cut(x)
    BY <1>2, <2>2 DEF Cut, At
  <2>3. CASE ReadVisit(x)
    <3>1. \E local : Goto(x, local)
      BY <2>3 DEF ReadVisit
    <3> QED  BY <1>2, <2>3, <3>1 DEF ReadVisit, At
  <2>4. CASE CloseOpen(x) \/ Post(x)
    BY <1>2, <2>4 DEF CloseOpen, Post, At
  <2> QED  BY <1>8, <2>1, <2>2, <2>3, <2>4 DEF EndByPhone
<1>9. ASSUME NEW x \in All, Abort(x)
      PROVE  FALSE
  <2>1. PICK local \in {Idle, After(req[x])} : Goto(x, local)
    BY <1>9 DEF Abort
  <2>2. local.pc \in {"idle", "cut"}
    BY <1>1, <1>9, IdleType, AfterType
  <2> QED  BY <1>1, <2>1, <2>2 DEF Goto
<1>10. ASSUME NEW x, Pending(x)
       PROVE  x = r
  <2>1. \E local : Goto(x, local)
    BY <1>10 DEF Pending
  <2> QED  BY <1>1, <2>1 DEF Goto
<1>11. req' # req
  BY <1>1
<1> QED  BY <1>3, <1>4, <1>5, <1>6, <1>7, <1>8, <1>9, <1>10, <1>11 DEF Next, All, Reconcile, Tick, Drop, Authorize, CheckIn

\* Only a checkout closes a session.
LEMMA CheckoutCloses ==
  ASSUME HInv, Next, NEW s \in Sessions, session[s].st = "open", session'[s].st = "closed"
  PROVE  \E r \in Reqs : Checkout(r) /\ req[r].s = s /\ session'[s].from = req[r].due
<1>1. session[s] \in SessionRow /\ session \in [Sessions -> SessionRow]
  BY Types
<1>2. ASSUME NEW t \in Sessions, NEW row, session[t].st = "none", session' = [session EXCEPT ![t] = row]
      PROVE  FALSE
  BY <1>1, <1>2
<1>3. ASSUME NEW p, NEW seat, CheckIn(p, seat)
      PROVE  FALSE
  BY <1>2, <1>3 DEF CheckIn
<1>4. ASSUME NEW x, LoginAttend(x)
      PROVE  FALSE
  <2>1. \/ UNCHANGED session
        \/ \E t \in Sessions : session[t].st = "none" /\ \E row : session' = [session EXCEPT ![t] = row]
    BY <1>4 DEF LoginAttend
  <2> QED  BY <1>2, <2>1
<1>5. ASSUME NEW x, Post(x)
      PROVE  FALSE
  <2>1. session'[s] = session[s] \/ session'[s] = [session[s] EXCEPT !.posted = TRUE]
    BY <1>1, <1>5 DEF Post
  <2> QED  BY <1>1, <2>1 DEF SessionRow
<1>6. ASSUME NEW x \in Reqs, Checkout(x)
      PROVE  req[x].s = s /\ session'[s].from = req[x].due
  <2>1. PICK posted : session' = [session EXCEPT ![req[x].s].st = "closed", ![req[x].s].from = req[x].due,
                                                 ![req[x].s].posted = posted]
    BY <1>6 DEF Checkout
  <2>2. req[x].s = s
    BY <1>1, <2>1
  <2>3. session'[s] = [session[s] EXCEPT !.st = "closed", !.from = req[x].due, !.posted = posted]
    BY <1>1, <2>1, <2>2
  <2> QED  BY <1>1, <2>2, <2>3 DEF SessionRow
<1>7. session' # session
  OBVIOUS
<1>8. \/ \E p \in Phones, seat \in Seats : CheckIn(p, seat)
      \/ \E x \in All : LoginAttend(x) \/ Post(x)
      \/ \E x \in Reqs : Checkout(x)
  BY <1>7 DEF All, Next, Tick, Drop, Authorize, Login, LoginRouter, Supersede, CreateNet, CheckOut,
              StartCheckout, Pending, Job, StartEnd, StartDisconnect, StartSweep, Reconcile,
              StartReconcile, ReconcileActives, EndByPhone, Cut, ReadVisit, CloseOpen, Stamp, Carry, Carried, Abort
<1> QED  BY <1>3, <1>4, <1>5, <1>6, <1>8

\* A checkout charges from the first connection of the session on (computeVisitCharge takes the
\* rows that were closed as idle too), and from no row of an earlier visit.
THEOREM ChargedFromFirst == Spec => ChargedFromFirstConnection
<1>1. ASSUME HInv, Next, NEW r \in Reqs, At(r, "pending"), At(r, "checkout")'
      PROVE  LET s == req[r].s
             IN  session[s].st = "open" /\ ~session[s].seat /\ s \notin swept /\ ~req'[r].blind =>
                   \A n \in PaidRows(s) : req'[r].due \in 1 .. net[n].at
  <2>1. PICK q : q = req[r]
    OBVIOUS
  <2> SUFFICES ASSUME session[q.s].st = "open", ~session[q.s].seat, q.s \notin swept, ~req'[r].blind,
                      NEW n \in PaidRows(q.s)
               PROVE  req'[r].due \in 1 .. net[n].at
    BY <2>1
  <2>2. Pending(r)
    BY <1>1, PendingMoves
  <2>3. r \in All /\ q \in Request /\ q.pc = "pending" /\ Of(q) /\ DOMAIN req = All
    BY <1>1, <2>1, RequestKnows, Types DEF At, Knows, All
  <2>4. PICK rows \in Visits(q.p), sameTier \in BOOLEAN :
           LET due == Due(rows)
               inSeat == session[q.s].seat /\ sameTier /\ due # 0
           IN  \/ Goto(r, [q EXCEPT !.pc = "checkout", !.bill = ~inSeat, !.due = IF inSeat THEN 0 ELSE due])
               \/ Goto(r, [q EXCEPT !.pc = "checkout", !.blind = TRUE])
    BY <2>1, <2>2 DEF Pending
  <2>5. ~Goto(r, [q EXCEPT !.pc = "checkout", !.blind = TRUE])
    <3>1. [q EXCEPT !.pc = "checkout", !.blind = TRUE].blind
      BY <2>3 DEF Request
    <3> QED  BY <2>3, <3>1 DEF Goto
  <2>6. \E b : Goto(r, [q EXCEPT !.pc = "checkout", !.bill = b, !.due = Due(rows)])
    BY <2>4, <2>5
  <2>7. req'[r].due = Due(rows)
    <3>1. PICK b : Goto(r, [q EXCEPT !.pc = "checkout", !.bill = b, !.due = Due(rows)])
      BY <2>6
    <3>2. req'[r] = [q EXCEPT !.pc = "checkout", !.bill = b, !.due = Due(rows)]
      BY <2>3, <3>1 DEF Goto
    <3> QED  BY <2>3, <3>2 DEF Request
  <2>8. q.s \in Sessions /\ session[q.s].p = q.p
    BY <2>3 DEF Of
  <2> QED  BY <1>1, <2>4, <2>7, <2>8, DueOfSession
<1>2. ASSUME HInv, Next, NEW s \in Sessions, session[s].st = "open", session'[s].st = "closed", session'[s].from # 0
      PROVE  session'[s].from >= session[s].at - Tolerance
  <2>1. PICK r \in Reqs : Checkout(r) /\ req[r].s = s /\ session'[s].from = req[r].due
    BY <1>2, CheckoutCloses
  <2>2. Knows(req[r]) /\ req[r].pc = "checkout"
    BY <1>2, <2>1, RequestKnows DEF All, Checkout, At
  <2> QED  BY <1>2, <2>1, <2>2 DEF Knows
<1>3. HInv /\ [Next]_vars =>
        [\A r \in Reqs :
           At(r, "pending") /\ At(r, "checkout")' =>
             LET s == req[r].s
             IN  session[s].st = "open" /\ ~session[s].seat /\ s \notin swept /\ ~req'[r].blind =>
                   \A n \in PaidRows(s) : req'[r].due \in 1 .. net[n].at]_vars
  BY <1>1
<1>4. HInv /\ [Next]_vars =>
        [\A s \in Sessions :
           session[s].st = "open" /\ session'[s].st = "closed" /\ session'[s].from # 0 =>
             session'[s].from >= session[s].at - Tolerance]_vars
  BY <1>2
<1> QED  BY <1>3, <1>4, HotspotInvariant, PTL
         DEF Spec, ChargedFromFirstConnection, ReconnectsKeepTheClock, NoStaleAnchor
=============================================================================
