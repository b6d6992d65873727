----------------------------- MODULE Entrances ------------------------------
(***************************************************************************)
(* The doors of the space, for one phone: reception, the QR page and the   *)
(* portal of the hotspot.  Each finds out by queries of its own who the    *)
(* phone belongs to - the staff, the roster, a course, the Visitor rows    *)
(* that carry it - and what the internet costs (hotspot/identity.service,  *)
(* hotspot.config, hotspot.service, integrations/service, checkIn of       *)
(* sessions/service).                                                      *)
(*                                                                         *)
(* A request is one step here: requests that overlap are the subject of    *)
(* Attendance and Persons, devices at the router that of Devices.  The     *)
(* rows are numbered as they are created, so that orderBy createdAt is <.  *)
(***************************************************************************)
EXTENDS Naturals, FiniteSets, FiniteSetsExt

CONSTANTS
    MaxRows,    \* bound on the Visitor rows with the phone
    Kind,       \* types of new rows
    Tier,       \* plans of a visitor, all of them with a price
    MaxCalls    \* bound on the requests

Row == 1 .. MaxRows
NoRow == 0
Types == {"visitor", "subscriber", "trainee", "tamkeen", "employee"}

VARIABLES
    rows,       \* the Visitor rows with the phone
    staff, roster, enrolled,    \* the phone is in Staff; EmployeeRoster; a running course
    seat, past, \* the sessions of a row: open ones, and closed ones
    net,        \* the last network session
    calls,
    shared,     \* history: two active rows had the phone
    reopened    \* history: a session was opened again beside another, or of an archived row

vars == <<rows, staff, roster, enrolled, seat, past, net, calls, shared, reopened>>

RowType == [st: {"none", "active", "archived"}, type: Types, subs: {"none", "past", "live"}]
NoNet == [kind |-> "none", paid |-> FALSE, owner |-> NoRow, session |-> NoRow, member |-> FALSE,
          clear |-> FALSE, lost |-> FALSE]

TypeOK ==
    /\ rows \in [Row -> RowType]
    /\ staff \in BOOLEAN /\ roster \in BOOLEAN /\ enrolled \in BOOLEAN
    /\ seat \in [Row -> Nat] /\ past \in [Row -> Nat]
    /\ net \in [kind: Types \cup {"none"}, paid: BOOLEAN,
                owner: Row \cup {NoRow},        \* visitorId
                session: Row \cup {NoRow},      \* the row that sessionId belongs to
                member: BOOLEAN,                \* history: an active subscriber had the phone,
                clear: BOOLEAN,                 \* history: one row was active, or there was none,
                lost: BOOLEAN]                  \* history: its check-in broke down, and the
                                                \* visitorId had no open session
    /\ calls \in 0 .. MaxCalls /\ shared \in BOOLEAN /\ reopened \in BOOLEAN

Init ==
    /\ rows = [r \in Row |-> [st |-> "none", type |-> "visitor", subs |-> "none"]]
    /\ staff = FALSE /\ roster = FALSE /\ enrolled = FALSE
    /\ seat = [r \in Row |-> 0] /\ past = [r \in Row |-> 0]
    /\ net = NoNet /\ calls = 0 /\ shared = FALSE /\ reopened = FALSE

-----------------------------------------------------------------------------
(* The questions.                                                          *)

In(table, st) == {r \in Row : table[r].st = st}
Active == In(rows, "active")
Eldest(S) == IF S = {} THEN NoRow ELSE Min(S)
OfType(type) == {r \in Active : rows[r].type = type}
Subscribers == {r \in OfType("subscriber") : rows[r].subs # "none"}
Open == {r \in Row : seat[r] > 0}

\* Mutant: the oldest row says who it is.
ResolveByRow ==
    IF staff THEN [kind |-> "employee", row |-> NoRow]
    ELSE IF Eldest(Active) \in Subscribers THEN [kind |-> "subscriber", row |-> Eldest(Active)]
    ELSE IF enrolled THEN [kind |-> "trainee", row |-> NoRow]
    ELSE [kind |-> "visitor", row |-> Eldest(Active)]

\* A subscription that has run out still makes a subscriber, asked to renew.
ResolveIdentity ==
    IF staff THEN [kind |-> "employee", row |-> NoRow]
    ELSE IF Subscribers # {} THEN [kind |-> "subscriber", row |-> Eldest(Subscribers)]
    ELSE IF enrolled THEN [kind |-> "trainee", row |-> NoRow]
    ELSE [kind |-> "visitor", row |-> Eldest(Active)]

IsPaid(kind) == kind = "visitor"
\* getPortalContext: what a device of the phone is offered.
Offered(kind) == IF IsPaid(kind) THEN Tier ELSE {"member"}

\* The member of the QR page: 404 when there is no kind.
ResolveMember ==
    IF roster THEN [kind |-> "employee", row |-> NoRow]
    ELSE IF OfType("trainee") # {} THEN [kind |-> "trainee", row |-> Eldest(OfType("trainee"))]
    ELSE IF Subscribers # {} THEN [kind |-> "subscriber", row |-> Eldest(Subscribers)]
    ELSE [kind |-> "none", row |-> NoRow]

\* A row created now: the next one.
Fresh == {r \in In(rows, "none") : \A s \in In(rows, "none") : r <= s}
With(r, type) == [rows EXCEPT ![r].st = "active", ![r].type = type]

-----------------------------------------------------------------------------
Call == calls < MaxCalls /\ calls' = calls + 1
Now(table) == shared' = (shared \/ Cardinality(In(table, "active")) > 1)
SameTables == UNCHANGED <<staff, roster, enrolled, past, reopened>>

\* checkIn with a visitorId.
CheckInRow(r) == r \notin Open /\ seat' = [seat EXCEPT ![r] = 1]

\* checkIn with a phone: any active row, or a new one, unless one is archived; refused
\* when the row that was found has an open session.
CheckInPhone(type, table) ==
    IF In(table, "active") # {}
    THEN {[row |-> r, rows |-> table, ok |-> r \notin Open] : r \in In(table, "active")}
    ELSE IF In(table, "archived") # {} THEN {[row |-> NoRow, rows |-> table, ok |-> FALSE]}
    ELSE {[row |-> r, rows |-> With(r, type), ok |-> TRUE] : r \in Fresh}

Reception(type) ==
    /\ Call
    /\ \E found \in CheckInPhone(type, rows) :
          /\ found.ok
          /\ seat' = [seat EXCEPT ![found.row] = 1]
          /\ rows' = found.rows
    /\ Now(rows') /\ SameTables /\ UNCHANGED net

ReceptionById(r) ==
    /\ Call
    /\ r \in Active /\ CheckInRow(r)
    /\ SameTables /\ UNCHANGED <<rows, net, shared>>

-----------------------------------------------------------------------------
(* The QR page.  An open session is answered with itself.                  *)

\* findOrCreateVisitor, and then the check-in.
Anchor(type) ==
    /\ \/ /\ Active # {}
          /\ CheckInRow(Eldest(Active))
          /\ UNCHANGED rows
       \/ /\ Active = {} /\ In(rows, "archived") = {}
          /\ \E r \in Fresh : rows' = With(r, type) /\ CheckInRow(r)
    /\ Now(rows') /\ SameTables /\ UNCHANGED net

QrMember ==
    /\ Call
    /\ \/ /\ ResolveMember.kind = "employee"
          /\ Anchor("employee")
       \/ /\ ResolveMember.kind \in {"trainee", "subscriber"}
          /\ CheckInRow(ResolveMember.row)
          /\ SameTables /\ UNCHANGED <<rows, net, shared>>

QrVisitor ==
    /\ Call
    /\ Anchor("visitor")

-----------------------------------------------------------------------------
(* The portal.                                                             *)

\* ensureVisitor is asked only when no row is active: an archived one, or a new one.
EnsureVisitor(id) ==
    IF id.kind # "visitor" \/ id.row # NoRow THEN {[row |-> id.row, rows |-> rows]}
    ELSE IF In(rows, "archived") # {} THEN {[row |-> r, rows |-> rows] : r \in In(rows, "archived")}
    ELSE {[row |-> r, rows |-> With(r, "visitor")] : r \in Fresh}

\* The login may fail after the row was written, at the router, or after a check-in that was
\* carried out, or broke down: then there is no network session.
PortalRefused ==
    /\ Call
    /\ LET id == ResolveIdentity
       IN  \E person \in EnsureVisitor(id) :
              \/ rows' = person.rows /\ UNCHANGED seat
              \/ /\ id.kind # "employee"
                 /\ \E found \in CheckInPhone(id.kind, person.rows) :
                       /\ rows' = found.rows
                       /\ \/ UNCHANGED seat
                          \/ found.ok /\ seat' = [seat EXCEPT ![found.row] = 1]
    /\ Now(rows') /\ SameTables /\ UNCHANGED net

Login(id, owner, session, lost) ==
    [kind |-> id.kind, paid |-> IsPaid(id.kind), owner |-> owner, session |-> session,
     member |-> Subscribers # {},
     clear |-> Cardinality(Active) = 1 \/ (Active = {} /\ In(rows, "archived") = {}),
     lost |-> lost]

\* After a check-in that failed: an open session of the visitorId, if there is one.
Linked(owner) == IF owner \in Open THEN owner ELSE NoRow

\* The staff have no session.  A check-in that is refused, or breaks down at one of its
\* queries, before or after it made a row, does not keep anybody offline.
Portal(plan) ==
    LET id == ResolveIdentity
    IN  /\ Call
        /\ plan \in Offered(id.kind)
        /\ \E person \in EnsureVisitor(id) :
              IF id.kind = "employee"
              THEN net' = Login(id, NoRow, NoRow, FALSE) /\ UNCHANGED <<rows, seat>>
              ELSE \E found \in CheckInPhone(id.kind, person.rows), breaks \in BOOLEAN :
                      LET sits == found.ok /\ ~breaks
                      IN  /\ rows' = found.rows \/ (breaks /\ rows' = person.rows)
                          /\ seat' = IF sits THEN [seat EXCEPT ![found.row] = 1] ELSE seat
                          /\ net' = Login(id, person.row,
                                          IF sits THEN found.row ELSE Linked(person.row),
                                          breaks /\ person.row \notin Open)
        /\ Now(rows') /\ SameTables

-----------------------------------------------------------------------------
(* What the rest of the program does with the rows meanwhile.              *)

\* A checkout, or the deletion of an open session.
Leave(r) ==
    /\ r \in Open
    /\ seat' = [seat EXCEPT ![r] = @ - 1]
    /\ past' = [past EXCEPT ![r] = @ + 1]
    /\ UNCHANGED <<rows, staff, roster, enrolled, net, calls, shared, reopened>>

\* editSession with checkOut: null looks neither at the other sessions nor at the row.
Reopen(r) ==
    /\ Call
    /\ past[r] > 0
    /\ seat' = [seat EXCEPT ![r] = @ + 1]
    /\ past' = [past EXCEPT ![r] = @ - 1]
    /\ reopened' = (reopened \/ Open # {} \/ r \notin Active)
    /\ UNCHANGED <<rows, staff, roster, enrolled, net, shared>>

Change(table) ==
    /\ Call
    /\ rows' = table
    /\ Now(table)
    /\ SameTables /\ UNCHANGED <<seat, net>>

\* A new row beside others comes through a door without a guard (Persons).
Register == \E r \in Fresh, type \in Kind, subs \in {"none", "live"} :
    Change([rows EXCEPT ![r] = [st |-> "active", type |-> type, subs |-> subs]])
Convert(r) == r \in Active \ Open /\ \E type \in Kind : Change([rows EXCEPT ![r].type = type])
Archive(r) == r \in Active \ Open /\ Change([rows EXCEPT ![r].st = "archived"])
Restore(r) == rows[r].st = "archived" /\ Active = {} /\ Change([rows EXCEPT ![r].st = "active"])
Subscribe(r) == r \in Active /\ Change([rows EXCEPT ![r].subs = "live"])
Lapse(r) == rows[r].subs = "live" /\ Change([rows EXCEPT ![r].subs = "past"])

Employ ==
    /\ Call
    /\ staff' \in BOOLEAN /\ roster' \in BOOLEAN /\ enrolled' \in BOOLEAN
    /\ UNCHANGED <<rows, seat, past, net, shared, reopened>>

Next ==
    \/ \E type \in Kind : Reception(type)
    \/ \E r \in Row : ReceptionById(r) \/ Leave(r) \/ Reopen(r)
    \/ QrMember \/ QrVisitor
    \/ \E plan \in Tier \cup {"member"} : Portal(plan)
    \/ PortalRefused
    \/ Register \/ Employ
    \/ \E r \in Row : Convert(r) \/ Archive(r) \/ Restore(r) \/ Subscribe(r) \/ Lapse(r)

Spec == Init /\ [][Next]_vars

-----------------------------------------------------------------------------
\* Whichever doors somebody comes through, and whatever becomes of the rows in between: one
\* phone has one open session, as long as one active row at a time has it and no session is
\* opened again beside another; who pays for the internet is on no subscription, and unless
\* the phone is shared or archived, the network session names a visitor, and carries the
\* charge to an open session of that visitor - to none only when the check-in broke down.
OneInvoice ==
    /\ ~shared /\ ~reopened => Cardinality(Open) <= 1 /\ \A r \in Row : seat[r] <= 1
    /\ net.paid =>
          /\ ~net.member
          /\ net.clear => /\ net.owner # NoRow
                          /\ net.session = net.owner \/ (net.lost /\ net.session = NoRow)
=============================================================================
