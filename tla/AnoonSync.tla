----------------------------- MODULE AnoonSync ------------------------------
(***************************************************************************)
(* The notices to the QR site (lib/anoon-sync).  The site keeps a copy of  *)
(* the members; every operation on a person tells it after its commit,     *)
(* without waiting, with a timeout, and forgets: a notice may be lost, or  *)
(* overtaken by the next one.  The module follows one phone.               *)
(***************************************************************************)
EXTENDS Naturals

CONSTANT MaxOps     \* bound on the operations on the person

VARIABLES
    person,     \* the Visitor row of the phone
    pending,    \* committed operations that have not sent their notice yet
    wire,       \* notices under way
    copy,       \* the copy at the site
    ops,        \* operations so far; a notice carries the number of its own
    sent,       \* history: the last operation that had a notice to send
    applied,    \* history: the last notice the site applied
    lost,       \* history: that last notice is lost
    crossed,    \* history: the site applied an older notice after a newer one
    told        \* history: the last operation told the site what it changed

vars == <<person, pending, wire, copy, ops, sent, applied, lost, crossed, told>>

Types == {"visitor", "subscriber", "trainee", "tamkeen", "employee"}
\* What the site knows: a Tamkeen student is never sent.
Members == {"subscriber", "trainee", "employee"}

Notice == [id: 1 .. MaxOps, tells: {"sync", "deactivate"}]

TypeOK ==
    /\ person \in [state: {"none", "active", "archived"}, type: Types]
    /\ pending \subseteq Notice /\ wire \subseteq Notice
    /\ copy \in {"absent", "active", "inactive"}
    /\ ops \in 0 .. MaxOps /\ sent \in 0 .. ops /\ applied \in 0 .. sent
    /\ {lost, crossed, told} \subseteq BOOLEAN

Init ==
    /\ person = [state |-> "none", type |-> "visitor"]
    /\ pending = {} /\ wire = {}
    /\ copy = "absent"
    /\ ops = 0 /\ sent = 0 /\ applied = 0
    /\ lost = FALSE /\ crossed = FALSE /\ told = TRUE

-----------------------------------------------------------------------------
(* The operations.  Each ends in one of three ways.                        *)

Count == ops < MaxOps /\ ops' = ops + 1

\* The notice goes out with the commit, or after another query.
Sends(tells, atOnce) ==
    LET notice == [id |-> ops + 1, tells |-> tells]
    IN  /\ Count
        /\ wire' = IF atOnce THEN wire \cup {notice} ELSE wire
        /\ pending' = IF atOnce THEN pending ELSE pending \cup {notice}
        /\ sent' = ops + 1 /\ lost' = FALSE
        /\ UNCHANGED <<copy, applied, crossed>>

SendsNothing ==
    /\ Count
    /\ UNCHANGED <<pending, wire, copy, sent, applied, lost, crossed>>

Create(type) ==
    /\ person.state = "none" /\ type \in {"subscriber", "trainee", "tamkeen"}
    /\ person' = [state |-> "active", type |-> type]
    /\ IF type \in Members THEN Sends("sync", TRUE) ELSE SendsNothing
    /\ told' = TRUE

\* A check-in registers a walk-in with the type asked for and nobody is told.
Register(type) ==
    /\ person.state = "none"
    /\ person' = [state |-> "active", type |-> type]
    /\ SendsNothing
    /\ told' = (type \notin Members)

\* Neither the type of the person nor the archive is asked for.
Renew ==
    /\ person.state # "none"
    /\ Sends("sync", TRUE)
    /\ told' = (person.state = "active" /\ person.type \in Members)
    /\ UNCHANGED person

\* Mutant: an archived person is not taken off the site.
ArchiveQuietly ==
    /\ person.state = "active"
    /\ person' = [person EXCEPT !.state = "archived"]
    /\ SendsNothing
    /\ told' = TRUE

Archive ==
    /\ person.state = "active"
    /\ person' = [person EXCEPT !.state = "archived"]
    /\ Sends("deactivate", TRUE)
    /\ told' = TRUE

\* A subscriber's package is looked up between the commit and the notice.
Restore ==
    /\ person.state = "archived"
    /\ person' = [person EXCEPT !.state = "active"]
    /\ IF person.type \in Members THEN Sends("sync", person.type # "subscriber")
       ELSE SendsNothing
    /\ told' = (told \/ person.type \in Members)

\* Whoever becomes a subscriber is synced, who was one is deactivated, whatever they are
\* now; another member who becomes a visitor or a Tamkeen student is not mentioned.
Convert(type) ==
    /\ person.state = "active" /\ type # person.type
    /\ person' = [person EXCEPT !.type = type]
    /\ \/ /\ type = "subscriber"
          /\ \E paid \in BOOLEAN : Sends("sync", paid)
          /\ told' = TRUE
       \/ /\ type # "subscriber" /\ person.type = "subscriber"
          /\ Sends("deactivate", TRUE)
          /\ told' = (type \notin Members)
       \/ /\ type # "subscriber" /\ person.type # "subscriber"
          /\ IF type \in Members THEN Sends("sync", TRUE) ELSE SendsNothing
          /\ told' = (type \in Members \/ (told /\ person.type \notin Members))

\* The person is merged away, or gets another phone: the copy of this one is forgotten.
LeavePhone ==
    /\ person.state = "active"
    /\ person' = [person EXCEPT !.state = "archived"]
    /\ SendsNothing
    /\ told' = FALSE

-----------------------------------------------------------------------------
(* The way of a notice.                                                    *)

Send(n) ==
    /\ n \in pending
    /\ pending' = pending \ {n}
    /\ wire' = wire \cup {n}
    /\ UNCHANGED <<person, copy, ops, sent, applied, lost, crossed, told>>

\* The site makes or wakes its copy, or puts it to sleep.
Deliver(n) ==
    /\ n \in wire
    /\ wire' = wire \ {n}
    /\ copy' = IF n.tells = "sync" THEN "active" ELSE IF copy = "absent" THEN copy ELSE "inactive"
    /\ crossed' = (n.id < applied)
    /\ applied' = IF n.id > applied THEN n.id ELSE applied
    /\ UNCHANGED <<person, pending, ops, sent, lost, told>>

\* Refused, unreachable, timed out before it was read, or the process died: it is logged.
Lose(n) ==
    /\ n \in wire \cup pending
    /\ wire' = wire \ {n} /\ pending' = pending \ {n}
    /\ lost' = (lost \/ n.id = sent)
    /\ UNCHANGED <<person, copy, ops, sent, applied, crossed, told>>

Next ==
    \/ Renew \/ Archive \/ Restore \/ LeavePhone
    \/ \E type \in Types : Create(type) \/ Register(type) \/ Convert(type)
    \/ \E n \in pending \cup wire : Send(n) \/ Deliver(n) \/ Lose(n)

Spec == Init /\ [][Next]_vars

-----------------------------------------------------------------------------
Quiet == wire = {} /\ pending = {}

\* When nothing is under way, the site lists the person exactly if they are an active
\* member, unless the last notice was lost, applied before an older one, or the last
\* operation is one that tells the site nothing, or the wrong thing.
CopyIsCurrent ==
    Quiet /\ ~lost /\ ~crossed /\ told =>
       (copy = "active" <=> person.state = "active" /\ person.type \in Members)
=============================================================================
