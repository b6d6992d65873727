----------------------------- MODULE Attendance -----------------------------
(***************************************************************************)
(* Who is in the building, and how many days of a subscription that used   *)
(* up: the Session rows of modules/sessions and Subscription.daysUsed.     *)
(*                                                                         *)
(* Nothing in the schema forbids two open sessions of one visitor, so the  *)
(* check "already checked in" is a read before a later insert.  daysUsed   *)
(* is read and written back inside a transaction (READ COMMITTED): a       *)
(* transaction is the steps Begin, ReadSub, ReadDays and Close, holds its  *)
(* first row lock throughout and shows nothing before Close.  Check-ins    *)
(* lock the visitor, edits and deletes only the session.  Money is left to *)
(* Billing; a visitor id stands for the person.                            *)
(***************************************************************************)
EXTENDS Integers, FiniteSets

CONSTANTS
    Visitors,
    Sessions,       \* attendance session ids
    Subs,           \* subscription ids
    Reqs,           \* requests in flight at the same time
    LastDay,        \* bound on the calendar: Palestine days 1 .. LastDay
    MaxUsed,        \* bound on daysUsed, which moves can drive up without end
    NoVisitor, NoSession, NoSub

ASSUME LastDayAssumption == LastDay \in Nat \ {0}
ASSUME MaxUsedAssumption == MaxUsed \in Nat
ASSUME NullAssumption ==
    /\ NoVisitor \notin Visitors
    /\ NoSession \notin Sessions
    /\ NoSub \notin Subs

VARIABLES
    today,
    session,    \* Session rows
    sub,        \* Subscription rows
    req,        \* the local variables of each request
    counted,    \* history: the days for which a check-in has used up a subscription
    tampered    \* history: visitors of whom a session was moved or deleted

vars == <<today, session, sub, req, counted, tampered>>

Days == 1 .. LastDay

\* day is the Palestine day of checkIn; open means checkOut is null.
SessionRow == [st: {"none", "open", "closed", "deleted"}, v: Visitors \cup {NoVisitor},
               day: Days \cup {0}]

\* "lapsed" is any status but active, and an active one whose endDate has passed.
SubRow == [st: {"none", "active", "lapsed"}, v: Visitors \cup {NoVisitor}, used: Nat]

Request ==
    [pc: {"idle", "qr", "look", "begin", "edit", "out", "delete",
          "readSub", "readDays", "close"},
     op: {"none", "checkin", "move", "delete"},
     v: Visitors \cup {NoVisitor}, s: Sessions \cup {NoSession}, b: Subs \cup {NoSub},
     old: Days \cup {0},          \* checkIn of the session as first read
     new: Days \cup {0},          \* the day of the check-in, or the one moved to
     state: {"open", "closed"},   \* what an edit makes of checkOut
     seen: Nat,                   \* daysUsed as read
     used: Nat,                   \* daysUsed to be written
     raced: BOOLEAN,              \* history: a session of v opened since the look
     stale: BOOLEAN]              \* history: b was written since it was read

Idle == [pc |-> "idle", op |-> "none", v |-> NoVisitor, s |-> NoSession, b |-> NoSub,
         old |-> 0, new |-> 0, state |-> "open", seen |-> 0, used |-> 0,
         raced |-> FALSE, stale |-> FALSE]

TypeOK ==
    /\ today \in Days
    /\ session \in [Sessions -> SessionRow]
    /\ sub \in [Subs -> SubRow]
    /\ req \in [Reqs -> Request]
    /\ counted \in [Subs -> SUBSET Days]
    /\ tampered \subseteq Visitors

Init ==
    /\ today = 1
    /\ session = [s \in Sessions |-> [st |-> "none", v |-> NoVisitor, day |-> 0]]
    /\ sub = [b \in Subs |-> [st |-> "none", v |-> NoVisitor, used |-> 0]]
    /\ req = [r \in Reqs |-> Idle]
    /\ counted = [b \in Subs |-> {}]
    /\ tampered = {}

-----------------------------------------------------------------------------
At(r, pc) == req[r].pc = pc

Live(s) == session[s].st \in {"open", "closed"}

OpenOf(v) == {s \in Sessions : session[s].v = v /\ session[s].st = "open"}

ActiveSubs(v) == {b \in Subs : sub[b].v = v /\ sub[b].st = "active"}

\* Another session of v on day d, besides s.
AttendedBesides(s, v, d) ==
    \E t \in Sessions \ {s} : Live(t) /\ session[t].v = v /\ session[t].day = d

InTx == {"readSub", "readDays", "close"}

\* visitor.update is the first row a check-in shares with other requests.
VisitorFree(v, r) ==
    \A q \in Reqs \ {r} : ~(req[q].pc \in InTx /\ req[q].op = "checkin" /\ req[q].v = v)

RowFree(s, r) == \A q \in Reqs \ {r} : ~(req[q].pc \in InTx /\ req[q].s = s)

Goto(r, local) == req' = [req EXCEPT ![r] = local]

\* r goes on with local; it wrote daysUsed of the subscriptions in written and
\* opened a session of the visitors in opened: what others have read is stale.
Settle(r, local, written, opened) ==
    req' = [q \in Reqs |->
              IF q = r THEN local
              ELSE [req[q] EXCEPT
                      !.stale = @ \/ (req[q].b \in written),
                      !.raced = @ \/ (req[q].pc \in InTx \cup {"begin"}
                                      /\ req[q].op = "checkin" /\ req[q].v \in opened)]]

\* The process dies, or a query throws: an open transaction rolls back.
Abort(r) ==
    /\ ~At(r, "idle")
    /\ Goto(r, Idle)
    /\ UNCHANGED <<today, session, sub, counted, tampered>>

NextDay ==
    /\ today < LastDay
    /\ today' = today + 1
    /\ UNCHANGED <<session, sub, req, counted, tampered>>

-----------------------------------------------------------------------------
(* Check-in.                                                               *)

\* From the front desk (sessionsService.checkIn), or from the QR page
\* (anoonCheckIn), which looks for an open session to reuse first.
StartCheckIn(r, v, pc) ==
    /\ At(r, "idle")
    /\ Goto(r, [Idle EXCEPT !.pc = pc, !.op = "checkin", !.v = v])
    /\ UNCHANGED <<today, session, sub, counted, tampered>>

\* An open session is reused; otherwise checkIn looks again.
QrLook(r) ==
    /\ At(r, "qr")
    /\ Goto(r, IF OpenOf(req[r].v) # {} THEN Idle ELSE [req[r] EXCEPT !.pc = "look"])
    /\ UNCHANGED <<today, session, sub, counted, tampered>>

\* The check-in page no longer looks for an open session.
CheckInLookNowhere(r) ==
    /\ At(r, "look")
    /\ Goto(r, [req[r] EXCEPT !.pc = "begin", !.new = today])
    /\ UNCHANGED <<today, session, sub, counted, tampered>>

\* 400 "already checked in" (the QR page then reuses that session), or on to
\* the insert with the time of now.
CheckInLook(r) ==
    /\ At(r, "look")
    /\ Goto(r, IF OpenOf(req[r].v) # {} THEN Idle
               ELSE [req[r] EXCEPT !.pc = "begin", !.new = today])
    /\ UNCHANGED <<today, session, sub, counted, tampered>>

\* visitor.update waits for no one.
CheckInBeginUnlocked(r) ==
    /\ At(r, "begin")
    /\ Goto(r, [req[r] EXCEPT !.pc = "readSub"])
    /\ UNCHANGED <<today, session, sub, counted, tampered>>

\* session.create and visitor.update, uncommitted.
CheckInBegin(r) ==
    /\ At(r, "begin")
    /\ VisitorFree(req[r].v, r)
    /\ Goto(r, [req[r] EXCEPT !.pc = "readSub"])
    /\ UNCHANGED <<today, session, sub, counted, tampered>>

-----------------------------------------------------------------------------
(* Editing and deleting a session.                                         *)

StartEdit(r, s) ==
    /\ At(r, "idle")
    /\ Live(s)
    /\ Goto(r, [Idle EXCEPT !.pc = "edit", !.s = s, !.v = session[s].v,
                            !.old = session[s].day])
    /\ UNCHANGED <<today, session, sub, counted, tampered>>

\* The visitor of whom an edit reopens a session.
Reopens(q, state) ==
    IF state = "open" /\ session[q.s].st = "closed" THEN {q.v} ELSE {}

\* checkIn stays on the day it was read on: one update, which may also close or
\* reopen the session.  If the edit gives a checkIn, it is written back, whatever
\* day another edit has moved the session to meanwhile.
Amend(r, state) ==
    LET q == req[r]
    IN  /\ At(r, "edit")
        /\ Live(q.s)
        /\ RowFree(q.s, r)
        /\ \E day \in {session[q.s].day, q.old} :
             /\ session' = [session EXCEPT ![q.s].st = state, ![q.s].day = day]
             /\ tampered' = IF day = session[q.s].day THEN tampered ELSE tampered \cup {q.v}
        /\ Settle(r, Idle, {}, Reopens(q, state))
        /\ UNCHANGED <<today, sub, counted>>

\* checkIn moves to another day than the one first read.
MoveBegin(r, d, state) ==
    LET q == req[r]
    IN  /\ At(r, "edit")
        /\ d # q.old
        /\ Live(q.s)
        /\ RowFree(q.s, r)
        /\ Goto(r, [q EXCEPT !.pc = "readSub", !.op = "move", !.new = d, !.state = state])
        /\ UNCHANGED <<today, session, sub, counted, tampered>>

\* Whether a debt blocks the delete is Billing's subject.
StartDelete(r, s) ==
    /\ At(r, "idle")
    /\ Live(s)
    /\ Goto(r, [Idle EXCEPT !.pc = "delete", !.s = s, !.v = session[s].v,
                            !.old = session[s].day])
    /\ UNCHANGED <<today, session, sub, counted, tampered>>

DeleteBegin(r) ==
    LET q == req[r]
    IN  /\ At(r, "delete")
        /\ Live(q.s)
        /\ RowFree(q.s, r)
        /\ Goto(r, [q EXCEPT !.pc = "readSub", !.op = "delete"])
        /\ UNCHANGED <<today, session, sub, counted, tampered>>

\* checkout and checkoutUnpaid, between which and the write lies the pricing.
StartCheckout(r, s) ==
    /\ At(r, "idle")
    /\ session[s].st = "open"
    /\ Goto(r, [Idle EXCEPT !.pc = "out", !.s = s, !.v = session[s].v])
    /\ UNCHANGED <<today, session, sub, counted, tampered>>

Checkout(r) ==
    LET q == req[r]
    IN  /\ At(r, "out")
        /\ Live(q.s)
        /\ RowFree(q.s, r)
        /\ session' = [session EXCEPT ![q.s].st = "closed"]
        /\ Goto(r, Idle)
        /\ UNCHANGED <<today, sub, counted, tampered>>

-----------------------------------------------------------------------------
(* What check-in, move and delete do to the subscription.                  *)

\* Without an active subscription there is nothing to count.
ReadSub(r) ==
    LET q == req[r]
    IN  /\ At(r, "readSub")
        /\ \/ /\ ActiveSubs(q.v) = {}
              /\ Goto(r, [q EXCEPT !.pc = "close"])
           \/ \E b \in ActiveSubs(q.v) :
                Goto(r, [q EXCEPT !.pc = "readDays", !.b = b, !.seen = sub[b].used])
        /\ UNCHANGED <<today, session, sub, counted, tampered>>

\* Days are taken off without a look at what is left.
RecountBelow(q) ==
    LET gone == IF AttendedBesides(q.s, q.v, q.old) THEN q.seen ELSE q.seen - 1
        plus(n) == IF AttendedBesides(q.s, q.v, q.new) THEN n ELSE n + 1
    IN  CASE q.op = "checkin" -> plus(q.seen)
          [] q.op = "move"    -> plus(gone)
          [] q.op = "delete"  -> gone

\* A move gives back the old day and takes the new one twice.
RecountTwice(q) ==
    LET less(n) == IF n > 0 THEN n - 1 ELSE n
        gone == IF AttendedBesides(q.s, q.v, q.old) THEN q.seen ELSE less(q.seen)
        plus(n) == IF AttendedBesides(q.s, q.v, q.new) THEN n ELSE n + 1
    IN  CASE q.op = "checkin" -> plus(q.seen)
          [] q.op = "move"    -> plus(plus(q.seen))
          [] q.op = "delete"  -> gone

\* daysUsed after the change of q, counting a day once however often the visitor
\* came in on it.
Recount(q) ==
    LET less(n) == IF n > 0 THEN n - 1 ELSE n
        gone == IF AttendedBesides(q.s, q.v, q.old) THEN q.seen ELSE less(q.seen)
        plus(n) == IF AttendedBesides(q.s, q.v, q.new) THEN n ELSE n + 1
    IN  CASE q.op = "checkin" -> plus(q.seen)
          [] q.op = "move"    -> plus(gone)
          [] q.op = "delete"  -> gone

ReadDays(r) ==
    LET q == req[r]
    IN  /\ At(r, "readDays")
        /\ Recount(q) =< MaxUsed
        /\ Goto(r, [q EXCEPT !.pc = "close", !.used = Recount(q)])
        /\ UNCHANGED <<today, session, sub, counted, tampered>>

\* The subscription rows a transaction writes: none if daysUsed does not change.
Written(q) == IF q.b # NoSub /\ q.used # q.seen THEN {q.b} ELSE {}

Recorded(q) ==
    sub' = [b \in Subs |-> IF b \in Written(q) THEN [sub[b] EXCEPT !.used = q.used]
                           ELSE sub[b]]

CloseCheckIn(r) ==
    LET q == req[r]
    IN  /\ At(r, "close")
        /\ q.op = "checkin"
        /\ \E s \in Sessions :
             /\ session[s].st = "none"
             /\ session' = [session EXCEPT
                              ![s] = [st |-> "open", v |-> q.v, day |-> q.new]]
        /\ Recorded(q)
        /\ counted' = [b \in Subs |-> IF b \in Written(q) THEN counted[b] \cup {q.new}
                                      ELSE counted[b]]
        /\ Settle(r, Idle, Written(q), {q.v})
        /\ UNCHANGED <<today, tampered>>

CloseMove(r) ==
    LET q == req[r]
    IN  /\ At(r, "close")
        /\ q.op = "move"
        /\ session' = [session EXCEPT ![q.s].st = q.state, ![q.s].day = q.new]
        /\ Recorded(q)
        /\ tampered' = tampered \cup {q.v}
        /\ Settle(r, Idle, Written(q), Reopens(q, q.state))
        /\ UNCHANGED <<today, counted>>

CloseDelete(r) ==
    LET q == req[r]
    IN  /\ At(r, "close")
        /\ q.op = "delete"
        /\ session' = [session EXCEPT ![q.s].st = "deleted"]
        /\ Recorded(q)
        /\ tampered' = tampered \cup {q.v}
        /\ Settle(r, Idle, Written(q), {})
        /\ UNCHANGED <<today, counted>>

-----------------------------------------------------------------------------
(* The statements of the subscribers service, as attendance sees them.     *)

\* createSubscriber, renewSubscription, convertType.
CreateSub(b, v) ==
    /\ sub[b].st = "none"
    /\ sub' = [sub EXCEPT ![b] = [st |-> "active", v |-> v, used |-> 0]]
    /\ UNCHANGED <<today, session, req, counted, tampered>>

\* The updateMany of renewSubscription, which ends all of them, pauseSubscription,
\* updateSubscriber, expireStaleSubscriptions, or the passing of endDate.
Lapse(old) ==
    /\ \A b \in old : sub[b].st = "active"
    /\ sub' = [b \in Subs |-> IF b \in old THEN [sub[b] EXCEPT !.st = "lapsed"] ELSE sub[b]]
    /\ UNCHANGED <<today, session, req, counted, tampered>>

\* updateSubscriber: a status of "active", or a later endDate.
Revive(b) ==
    /\ sub[b].st = "lapsed"
    /\ sub' = [sub EXCEPT ![b].st = "active"]
    /\ UNCHANGED <<today, session, req, counted, tampered>>

-----------------------------------------------------------------------------
CheckIn(r) ==
    \/ \E v \in Visitors, pc \in {"qr", "look"} : StartCheckIn(r, v, pc)
    \/ QrLook(r) \/ CheckInLook(r) \/ CheckInBegin(r) \/ CloseCheckIn(r)

EditSession(r) ==
    \/ \E s \in Sessions : StartEdit(r, s)
    \/ \E state \in {"open", "closed"} : Amend(r, state)
    \/ \E d \in Days, state \in {"open", "closed"} : MoveBegin(r, d, state)
    \/ CloseMove(r)

DeleteSession(r) ==
    (\E s \in Sessions : StartDelete(r, s)) \/ DeleteBegin(r) \/ CloseDelete(r)

CheckOut(r) == (\E s \in Sessions : StartCheckout(r, s)) \/ Checkout(r)

Count(r) == ReadSub(r) \/ ReadDays(r)

Subscribe ==
    \/ \E b \in Subs : Revive(b) \/ \E v \in Visitors : CreateSub(b, v)
    \/ \E old \in SUBSET Subs \ {{}} : Lapse(old)

Next ==
    \/ NextDay
    \/ Subscribe
    \/ \E r \in Reqs : \/ CheckIn(r) \/ EditSession(r) \/ DeleteSession(r) \/ CheckOut(r)
                       \/ Count(r) \/ Abort(r)

Spec == Init /\ [][Next]_vars

-----------------------------------------------------------------------------
(* Properties.                                                             *)

\* A visitor who is in gets a second open session only from a check-in whose look
\* was overtaken by another one, or from staff reopening a closed session.
OneOpenUnlessRaced ==
    [][\A v \in Visitors, s \in Sessions :
         OpenOf(v) # {} /\ s \in OpenOf(v)' \ OpenOf(v) =>
           \/ session[s].st = "closed"
           \/ \E r \in Reqs : /\ req[r].raced /\ req[r].v = v
                              /\ At(r, "close") /\ ~At(r, "close")']_vars

\* As long as no session of a visitor was moved or deleted, daysUsed is the number
\* of days whose first check-in found the subscription active: no day counts
\* twice, and two check-ins at once lose none.
QuotaCounted ==
    \A b \in Subs : sub[b].v \notin tampered => sub[b].used = Cardinality(counted[b])

\* daysUsed only moves by one day at a time, unless the transaction that writes it
\* was overtaken by another write of the subscription after it had read it.
NoLostDay ==
    [][\A b \in Subs :
         sub'[b].used \notin {sub[b].used - 1, sub[b].used, sub[b].used + 1} =>
           \E r \in Reqs : req[r].stale /\ req[r].b = b /\ At(r, "close")]_vars
=============================================================================
