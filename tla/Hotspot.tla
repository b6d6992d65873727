------------------------------ MODULE Hotspot ------------------------------
(***************************************************************************)
(* The WiFi hotspot: NetSession rows, the router, and the charge of a      *)
(* visit, from the login at the portal to the checkout, the end-of-day     *)
(* sweep and the idle reconciliation (modules/hotspot, and the internet    *)
(* half of modules/sessions checkout).                                     *)
(*                                                                         *)
(* Logging in and ending are chains of router calls and single statements, *)
(* none of them in a transaction: every await is a step, and the process   *)
(* may die or a query throw between any two.  A charge is known here by    *)
(* the time it counts from; 0 is no charge.  Check-in is one step (its own *)
(* race is Attendance's subject).                                          *)
(***************************************************************************)
EXTENDS Integers, FiniteSets

CONSTANTS
    Phones,
    Sessions,       \* attendance sessions
    Nets,           \* NetSession ids
    Reqs,           \* requests in flight at the same time
    Crons,          \* the idle-reconciliation job, if it is scheduled; it never overlaps itself
    Kinds,          \* kinds of users that log in: "visitor" pays, the others do not
    Seats,          \* whether the seat rate of a check-in is that of an internet tier
    Tolerance,      \* ANCHOR_TOLERANCE_MIN, in clock ticks
    LastTick,       \* bound on the clock
    NoPhone, NoSession, NoNet

ASSUME KindsAssumption == Kinds \subseteq {"visitor", "subscriber", "employee"} /\ Seats \subseteq BOOLEAN
ASSUME ClockAssumption == Tolerance \in Nat /\ LastTick \in Nat \ {0}
ASSUME NamesAssumption ==
    /\ Crons \cap Reqs = {}
    /\ NoPhone \notin Phones /\ NoSession \notin Sessions /\ NoNet \notin Nets

VARIABLES
    now,
    session,    \* attendance sessions, as far as billing reads them
    net,        \* NetSession rows
    online,     \* online[p]: the router has an active device of p
    req,        \* the local variables of each request
    swept       \* history: sessions with a row billed before their own checkout

vars == <<now, session, net, online, req, swept>>

Time == 1 .. LastTick

\* seat: the hourly rate already is that of an internet tier (QR check-in).
\* from: the start of the internet charge in amount; posted: adjustmentNote has a label.
SessionRow == [st: {"none", "open", "closed"}, p: Phones \cup {NoPhone}, at: Time \cup {0},
               seat: BOOLEAN, from: Time \cup {0}, posted: BOOLEAN]

NetRow == [st: {"none", "open", "closed"}, p: Phones \cup {NoPhone},
           kind: Kinds \cup {"none"}, sid: Sessions \cup {NoSession}, at: Time \cup {0},
           billed: BOOLEAN, from: Time \cup {0}]

Request ==
    [pc: {"idle", "attend", "supersede", "create",
          "pending", "checkout", "actives", "cut", "visit", "open",
          "stamp", "carry", "post"},
     p: Phones \cup {NoPhone},
     s: Sessions \cup {NoSession},
     kind: Kinds \cup {"none"},
     bill: BOOLEAN,
     due: Time \cup {0},          \* the charge that checkout passes on
     from: Time \cup {0},         \* visitStart of the charge to be stamped
     rows: SUBSET Nets,           \* allNetSessionIds
     carrier: Nets \cup {NoNet},
     todo: SUBSET Phones,         \* phones a job has still to end
     blind: BOOLEAN,              \* the pending charge could not be read
     overtaken: BOOLEAN,          \* history: one of rows was stamped since it was read
     raced: BOOLEAN]              \* history: a row of p was created since it superseded

Idle == [pc |-> "idle", p |-> NoPhone, s |-> NoSession, kind |-> "none",
         bill |-> TRUE, due |-> 0, from |-> 0, rows |-> {}, carrier |-> NoNet,
         todo |-> {}, blind |-> FALSE, overtaken |-> FALSE, raced |-> FALSE]

TypeOK ==
    /\ now \in Time
    /\ session \in [Sessions -> SessionRow]
    /\ net \in [Nets -> NetRow]
    /\ online \in [Phones -> BOOLEAN]
    /\ req \in [Reqs \cup Crons -> Request]
    /\ swept \subseteq Sessions

Init ==
    /\ now = 1
    /\ session = [s \in Sessions |-> [st |-> "none", p |-> NoPhone, at |-> 0, seat |-> FALSE,
                                      from |-> 0, posted |-> FALSE]]
    /\ net = [n \in Nets |-> [st |-> "none", p |-> NoPhone, kind |-> "none",
                              sid |-> NoSession, at |-> 0, billed |-> FALSE, from |-> 0]]
    /\ online = [p \in Phones |-> FALSE]
    /\ req = [r \in Reqs \cup Crons |-> Idle]
    /\ swept = {}

-----------------------------------------------------------------------------
At(r, pc) == req[r].pc = pc

Goto(r, local) == req' = [req EXCEPT ![r] = local]

OpenSessions(p) == {s \in Sessions : session[s].p = p /\ session[s].st = "open"}

OpenNets(p) == {n \in Nets : net[n].p = p /\ net[n].st = "open"}

\* The next phone of a job, or the end of the request.
After(q) == IF q.todo = {} THEN Idle
            ELSE [Idle EXCEPT !.pc = "cut", !.bill = q.bill, !.todo = q.todo]

\* The process dies, or a query or a router call throws: the end of the request, or,
\* in the loop of a job, of its turn for one phone.
Abort(r) ==
    /\ ~At(r, "idle")
    /\ \E local \in {Idle} \cup (IF At(r, "actives") THEN {} ELSE {After(req[r])}) :
         Goto(r, local)
    /\ UNCHANGED <<now, session, net, online, swept>>

Tick ==
    /\ now < LastTick
    /\ now' = now + 1
    /\ UNCHANGED <<session, net, online, req, swept>>

\* Idle timeout, reboot or a device that left.
Drop(p) ==
    /\ online[p]
    /\ online' = [online EXCEPT ![p] = FALSE]
    /\ UNCHANGED <<now, session, net, req, swept>>

\* The front desk, or the QR page, which also authorizes the device but writes
\* no NetSession.
CheckIn(p, seat) ==
    /\ OpenSessions(p) = {}
    /\ \E s \in Sessions :
         /\ session[s].st = "none"
         /\ session' = [session EXCEPT ![s] = [st |-> "open", p |-> p, at |-> now,
                                               seat |-> seat, from |-> 0, posted |-> FALSE]]
    /\ UNCHANGED <<now, net, online, req, swept>>

Authorize(p) ==
    /\ OpenSessions(p) # {}
    /\ ~online[p]
    /\ online' = [online EXCEPT ![p] = TRUE]
    /\ UNCHANGED <<now, session, net, req, swept>>

-----------------------------------------------------------------------------
(* portalLogin.                                                            *)

\* ensureUser and activeLogin; nothing is read or written before them, and if the
\* router refuses, nothing is after them.
LoginRouter(r, p, kind) ==
    /\ At(r, "idle")
    /\ online' = [online EXCEPT ![p] = TRUE]
    /\ Goto(r, [Idle EXCEPT !.pc = "attend", !.p = p, !.kind = kind])
    /\ UNCHANGED <<now, session, net, swept>>

\* Checked in, linked to the session that is open already, or neither (staff, or
\* a failed check-in: "failed attendance must NOT block internet").
LoginAttend(r) ==
    LET q == req[r]
        Linked(s) == Goto(r, [q EXCEPT !.pc = "supersede", !.s = s])
    IN  /\ At(r, "attend")
        /\ \/ Linked(NoSession) /\ UNCHANGED session
           \/ /\ q.kind # "employee"
              /\ \E s \in OpenSessions(q.p) : Linked(s)
              /\ UNCHANGED session
           \/ /\ q.kind # "employee"
              /\ OpenSessions(q.p) = {}
              /\ \E s \in Sessions :
                   /\ session[s].st = "none"
                   /\ session' = [session EXCEPT ![s] =
                                    [st |-> "open", p |-> q.p, at |-> now,
                                     seat |-> FALSE, from |-> 0, posted |-> FALSE]]
                   /\ Linked(s)
        /\ UNCHANGED <<now, net, online, swept>>

\* Nothing is superseded.
SupersedeNone(r) ==
    /\ At(r, "supersede")
    /\ Goto(r, [req[r] EXCEPT !.pc = "create"])
    /\ UNCHANGED <<now, session, net, online, swept>>

Supersede(r) ==
    LET q == req[r]
    IN  /\ At(r, "supersede")
        /\ net' = [n \in Nets |-> IF n \in OpenNets(q.p) THEN [net[n] EXCEPT !.st = "closed"]
                                  ELSE net[n]]
        /\ Goto(r, [q EXCEPT !.pc = "create"])
        /\ UNCHANGED <<now, session, online, swept>>

CreateNet(r) ==
    LET q == req[r]
    IN  /\ At(r, "create")
        /\ \E n \in Nets :
             /\ net[n].st = "none"
             /\ net' = [net EXCEPT ![n] = [st |-> "open", p |-> q.p, kind |-> q.kind,
                                           sid |-> q.s, at |-> now, billed |-> FALSE,
                                           from |-> 0]]
        /\ req' = [x \in DOMAIN req |->
                     IF x = r THEN Idle
                     ELSE [req[x] EXCEPT !.raced = @ \/ (req[x].pc = "create"
                                                         /\ req[x].p = q.p)]]
        /\ UNCHANGED <<now, session, online, swept>>

-----------------------------------------------------------------------------
(* computeVisitCharge.                                                     *)

\* Rows that were charged before count again.
LinkedRowsBilled(p, s) ==
    {n \in Nets : /\ net[n].p = p /\ net[n].st # "none"
                  /\ \/ net[n].sid = s
                     \/ /\ net[n].sid = NoSession
                        /\ net[n].at >= session[s].at - Tolerance}

\* A row that was superseded is forgotten: the clock starts again.
LinkedRowsOpen(p, s) ==
    {n \in OpenNets(p) : /\ ~net[n].billed
                         /\ \/ net[n].sid = s
                            \/ /\ net[n].sid = NoSession
                               /\ net[n].at >= session[s].at - Tolerance}

\* The unbilled rows of the visit of s: linked to it, or linked to nothing and
\* not older than the tolerance.
LinkedRows(p, s) ==
    {n \in Nets : /\ net[n].p = p /\ net[n].st # "none" /\ ~net[n].billed
                  /\ \/ net[n].sid = s
                     \/ /\ net[n].sid = NoSession
                        /\ net[n].at >= session[s].at - Tolerance}

\* The sets of rows that may make up the visit of p: with someone checked in, those
\* of the latest open session; otherwise the oldest open row.
Visits(p) ==
    IF OpenSessions(p) # {}
    THEN {LinkedRows(p, s) : s \in {s \in OpenSessions(p) :
                                      \A t \in OpenSessions(p) : session[s].at >= session[t].at}}
    ELSE LET open == {n \in OpenNets(p) : ~net[n].billed}
         IN  IF open = {} THEN {{}}
             ELSE {{n} : n \in {n \in open : \A m \in open : net[n].at =< net[m].at}}

\* A visit is paid for if one of its rows has a rate.
Billable(rows) == \E n \in rows : net[n].kind = "visitor"

VisitStart(rows) == CHOOSE t \in {net[n].at : n \in rows} : \A n \in rows : t =< net[n].at

Carriers(rows) == {n \in rows : \A m \in rows : net[n].at >= net[m].at}

Due(rows) == IF Billable(rows) THEN VisitStart(rows) ELSE 0

-----------------------------------------------------------------------------
(* checkout and checkoutUnpaid.                                            *)

StartCheckout(r, s) ==
    /\ At(r, "idle")
    /\ session[s].st = "open"
    /\ Goto(r, [Idle EXCEPT !.pc = "pending", !.p = session[s].p, !.s = s])
    /\ UNCHANGED <<now, session, net, online, swept>>

\* computePendingInternetCharge; the seat rate of a QR visitor already covers it if
\* it is that of the tier of the visit.  A failure is swallowed: no charge.
Pending(r) ==
    LET q == req[r]
    IN  /\ At(r, "pending")
        /\ \E rows \in Visits(q.p), sameTier \in BOOLEAN :
             LET due == Due(rows)
                 inSeat == session[q.s].seat /\ sameTier /\ due # 0
             IN  \/ Goto(r, [q EXCEPT !.pc = "checkout", !.bill = ~inSeat,
                                      !.due = IF inSeat THEN 0 ELSE due])
                 \/ Goto(r, [q EXCEPT !.pc = "checkout", !.blind = TRUE])
        /\ UNCHANGED <<now, session, net, online, swept>>

\* The unconditional update of the session, in which checkout, not checkoutUnpaid,
\* overwrites the note; then endByPhone.
Checkout(r) ==
    LET q == req[r]
    IN  /\ At(r, "checkout")
        /\ \E posted \in {FALSE, session[q.s].posted} :
             session' = [session EXCEPT ![q.s].st = "closed", ![q.s].from = q.due,
                                        ![q.s].posted = posted]
        /\ Goto(r, [q EXCEPT !.pc = "cut", !.s = NoSession, !.todo = {q.p}, !.blind = FALSE])
        /\ UNCHANGED <<now, net, online, swept>>

-----------------------------------------------------------------------------
(* The jobs and routes that end internet.                                  *)

\* POST /hotspot/end, for any phone, and the end-of-day sweep over the phones of
\* visitors with an open row.
StartEnd(r, p) ==
    /\ At(r, "idle")
    /\ Goto(r, [Idle EXCEPT !.pc = "cut", !.todo = {p}])
    /\ UNCHANGED <<now, session, net, online, swept>>

StartSweep(r) ==
    LET due == {p \in Phones : \E n \in OpenNets(p) : net[n].kind = "visitor"}
    IN  /\ At(r, "idle")
        /\ due # {}
        /\ Goto(r, [Idle EXCEPT !.pc = "cut", !.todo = due])
        /\ UNCHANGED <<now, session, net, online, swept>>

\* POST /hotspot/disconnect: only while the open row is that of an employee.
StartDisconnect(r, p) ==
    /\ At(r, "idle")
    /\ \E n \in OpenNets(p) : net[n].kind = "employee"
    /\ Goto(r, [Idle EXCEPT !.pc = "cut", !.bill = FALSE, !.todo = {p}])
    /\ UNCHANGED <<now, session, net, online, swept>>

\* Every 10 minutes, unless the previous run goes on: the open rows, ...
StartReconcile(c) ==
    LET open == {p \in Phones : OpenNets(p) # {}}
    IN  /\ At(c, "idle")
        /\ open # {}
        /\ Goto(c, [Idle EXCEPT !.pc = "actives", !.bill = FALSE, !.todo = open])
        /\ UNCHANGED <<now, session, net, online, swept>>

\* The phones that are active are taken for those that are not.
ReconcileActivesOnline(c) ==
    LET q == req[c]
    IN  /\ At(c, "actives")
        /\ Goto(c, After([q EXCEPT !.todo = {p \in @ : online[p]}]))
        /\ UNCHANGED <<now, session, net, online, swept>>

\* ... then one list of the active devices, compared locally.
ReconcileActives(c) ==
    LET q == req[c]
    IN  /\ At(c, "actives")
        /\ Goto(c, After([q EXCEPT !.todo = {p \in @ : ~online[p]}]))
        /\ UNCHANGED <<now, session, net, online, swept>>

-----------------------------------------------------------------------------
(* endByPhone.                                                             *)

\* The next phone.  The router first; its failure is swallowed.
Cut(r) ==
    LET q == req[r]
    IN  /\ At(r, "cut")
        /\ \E p \in q.todo :
             /\ \/ online' = [online EXCEPT ![p] = FALSE]
                \/ UNCHANGED online
             /\ Goto(r, [q EXCEPT !.pc = "visit", !.p = p, !.todo = @ \ {p}])
        /\ UNCHANGED <<now, session, net, swept>>

\* The visit as it is now; without one, nothing is closed.
ReadVisit(r) ==
    LET q == req[r]
    IN  /\ At(r, "visit")
        /\ \E rows \in Visits(q.p) :
             \/ rows = {} /\ Goto(r, After(q))
             \/ rows # {} /\ ~q.bill /\ Goto(r, [q EXCEPT !.pc = "open"])
             \/ /\ rows # {} /\ q.bill
                /\ \E n \in Carriers(rows) :
                     Goto(r, [q EXCEPT
                                !.pc = "stamp", !.rows = rows, !.carrier = n,
                                !.from = IF Billable(rows) /\ q.due # 0 THEN q.due
                                         ELSE Due(rows)])
        /\ UNCHANGED <<now, session, net, online, swept>>

\* bill = false: close one open row and charge nothing.
CloseOpen(r) ==
    LET q == req[r]
    IN  /\ At(r, "open")
        /\ \/ OpenNets(q.p) = {} /\ UNCHANGED net
           \/ \E n \in OpenNets(q.p) : net' = [net EXCEPT ![n].st = "closed"]
        /\ Goto(r, After(q))
        /\ UNCHANGED <<now, session, online, swept>>

\* What stamping rows does to the others: their visit is no longer what they read,
\* and an open session whose row it is will not be charged for it.
Stamped(r, rows, local) ==
    /\ req' = [x \in DOMAIN req |->
                 IF x = r THEN local
                 ELSE [req[x] EXCEPT !.overtaken = @ \/ (req[x].rows \cap rows # {})]]
    /\ swept' = swept \cup {s \in Sessions : /\ session[s].st = "open"
                                             /\ \E n \in rows : net[n].sid = s}

Stamp(r) ==
    LET q == req[r]
        rest == q.rows \ {q.carrier}
    IN  /\ At(r, "stamp")
        /\ net' = [n \in Nets |-> IF n \in rest
                                  THEN [net[n] EXCEPT !.st = "closed", !.billed = TRUE,
                                                      !.from = 0]
                                  ELSE net[n]]
        /\ Stamped(r, rest, [q EXCEPT !.pc = "carry"])
        /\ UNCHANGED <<now, session, online>>

Carried(r, from) ==
    LET q == req[r]
    IN  /\ At(r, "carry")
        /\ net' = [net EXCEPT ![q.carrier].st = "closed", ![q.carrier].from = from,
                              ![q.carrier].billed = q.from # 0]
        /\ Stamped(r, {q.carrier},
                   IF q.from # 0 /\ net[q.carrier].sid # NoSession
                   THEN [q EXCEPT !.pc = "post", !.s = net[q.carrier].sid]
                   ELSE After(q))
        /\ UNCHANGED <<now, session, online>>

\* The carrier gets the time that is left instead of that which passed.
CarryLeft(r) == Carried(r, req[r].from - now)

\* The carrier is only marked as billed if there is something to pay.
Carry(r) == Carried(r, req[r].from)

\* postCharge: the label only, never the amount.
Post(r) ==
    LET q == req[r]
    IN  /\ At(r, "post")
        /\ session' = [session EXCEPT ![q.s].posted = TRUE]
        /\ Goto(r, After(q))
        /\ UNCHANGED <<now, net, online, swept>>

-----------------------------------------------------------------------------
Login(r) ==
    \/ \E p \in Phones, kind \in Kinds : LoginRouter(r, p, kind)
    \/ LoginAttend(r) \/ Supersede(r) \/ CreateNet(r)

CheckOut(r) == (\E s \in Sessions : StartCheckout(r, s)) \/ Pending(r) \/ Checkout(r)

Job(r) ==
    \/ \E p \in Phones : StartEnd(r, p) \/ StartDisconnect(r, p)
    \/ StartSweep(r)

EndByPhone(r) ==
    \/ Cut(r) \/ ReadVisit(r) \/ CloseOpen(r) \/ Stamp(r) \/ Carry(r)
    \/ Post(r)

Reconcile(c) == StartReconcile(c) \/ ReconcileActives(c) \/ EndByPhone(c)

Next ==
    \/ Tick
    \/ \E p \in Phones : Drop(p) \/ Authorize(p) \/ \E seat \in Seats : CheckIn(p, seat)
    \/ \E r \in Reqs : Login(r) \/ CheckOut(r) \/ Job(r) \/ EndByPhone(r) \/ Abort(r)
    \/ \E c \in Crons : Reconcile(c) \/ Abort(c)

Spec == Init /\ [][Next]_vars

\* The reconciliation is scheduled for ever, and no call of it fails every time.
FairSpec ==
    /\ Spec
    /\ \A c \in Crons :
         /\ WF_vars(StartReconcile(c))
         /\ SF_vars(ReconcileActives(c))
         /\ SF_vars(Cut(c))
         /\ SF_vars(ReadVisit(c))
         /\ SF_vars(CloseOpen(c))

-----------------------------------------------------------------------------
(* Properties.                                                             *)

\* The rows of a visit that pays, as far as they exist.
PaidRows(s) == {n \in Nets : net[n].sid = s /\ net[n].kind = "visitor"}

\* However often a device reconnects or is closed as idle, a checkout charges from
\* the first connection of the session on, unless an end of internet that bills
\* came before it.
ReconnectsKeepTheClock ==
    [][\A r \in Reqs :
         At(r, "pending") /\ At(r, "checkout")' =>
           LET s == req[r].s
           IN  session[s].st = "open" /\ ~session[s].seat /\ s \notin swept /\ ~req'[r].blind =>
                 \A n \in PaidRows(s) : req'[r].due \in 1 .. net[n].at]_vars

\* A row nobody charged for in an earlier visit does not reach back into this one:
\* the checkout that closes a session charges from at most the tolerance before it.
NoStaleAnchor ==
    [][\A s \in Sessions :
         session[s].st = "open" /\ session'[s].st = "closed" /\ session'[s].from # 0 =>
           session'[s].from >= session[s].at - Tolerance]_vars

\* The clock of a visit starts with its first connection: reconnecting does not start it
\* anew, and what earlier visits left behind does not turn it back.
ChargedFromFirstConnection == ReconnectsKeepTheClock /\ NoStaleAnchor

\* A row that was charged is not charged, nor written, again, unless the visit it
\* was found in was read before that.
BilledOnce ==
    [][\A n \in Nets :
         net[n].billed /\ net'[n] # net[n] =>
           \E r \in DOMAIN req : n \in req[r].rows /\ req[r].overtaken]_vars

\* A second open row of a phone comes only from two logins that overlapped.
OneOpenRowUnlessRaced ==
    [][\A p \in Phones :
         OpenNets(p) # {} /\ OpenNets(p)' \ OpenNets(p) # {} =>
           \E r \in Reqs : At(r, "create") /\ req[r].p = p /\ req[r].raced]_vars

\* A row whose device is gone does not stay open for ever, as long as the visit its
\* phone is in has a row to close.
IdleRowsClose ==
    \A p \in Phones : ~<>[](OpenNets(p) # {} /\ ~online[p] /\ {} \notin Visits(p))
=============================================================================
