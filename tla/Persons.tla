------------------------------- MODULE Persons ------------------------------
(***************************************************************************)
(* The people of the space: Visitor rows of five types, the employee       *)
(* roster, and what hangs on a person's phone or id - the snack wallet,    *)
(* the open session, whether there ever was a subscription                 *)
(* (modules/visitors, trainees, tamkeen-students, employees, the identity  *)
(* half of modules/subscribers and sessions, lib/person,                   *)
(* lib/personUniqueness, lib/mergePerson).                                 *)
(*                                                                         *)
(* The schema makes the phone of the roster and of a wallet unique, never  *)
(* the phone of a Visitor: that only one active person holds a phone is    *)
(* kept by looking before writing.  A desk therefore works in two steps:   *)
(* it looks (the checks of the operation, all passed, at one moment) and   *)
(* later writes one statement or one transaction.                          *)
(***************************************************************************)
EXTENDS FiniteSets, Naturals

CONSTANTS
    Person,         \* Visitor rows, each created once
    Phone, Desk,
    Kind,           \* the types given as input in an instance
    MaxOps,         \* bound on the requests of a behaviour
    Nobody, NoPhone

Types == {"visitor", "subscriber", "trainee", "tamkeen", "employee"}

VARIABLES
    person,     \* the Visitor rows
    roster,     \* phones of EmployeeRoster
    wallet,     \* SnackWallet: whose name the wallet of a phone carries
    present,    \* who has an open session
    desk,       \* the local variables of each request
    unguarded,  \* history: phones that got a holder by a door without a guard, or late
    loose,      \* history: people whose wallet or session was left behind that way
    ops

vars == <<person, roster, wallet, present, desk, unguarded, loose, ops>>

Row == [state: {"none", "active", "archived"}, type: Types, phone: Phone \cup {NoPhone},
        subscribed: BOOLEAN]    \* subscriptions: { some: {} }

Request ==
    [op: {"idle", "create", "reactivate", "walkin", "checkin", "rename", "convert",
          "archive", "restore", "merge", "import", "hire"},
     p: Person \cup {Nobody}, q: Person \cup {Nobody},
     type: Types, phone: Phone \cup {NoPhone},
     old: Phone \cup {NoPhone},     \* the phone of p, or of the wallet to merge, as read
     late: BOOLEAN]                 \* history: another request wrote since

Idle == [op |-> "idle", p |-> Nobody, q |-> Nobody, type |-> "visitor", phone |-> NoPhone,
         old |-> NoPhone, late |-> FALSE]

TypeOK ==
    /\ person \in [Person -> Row]
    /\ \A p \in Person : person[p].state = "none" <=> person[p].phone = NoPhone
    /\ roster \subseteq Phone
    /\ wallet \in [Phone -> Person \cup {Nobody}]
    /\ present \subseteq Person
    /\ desk \in [Desk -> Request]
    /\ unguarded \subseteq Phone /\ loose \subseteq Person
    /\ ops \in 0 .. MaxOps

Init ==
    /\ person = [p \in Person |-> [state |-> "none", type |-> "visitor", phone |-> NoPhone,
                                   subscribed |-> FALSE]]
    /\ roster = {}
    /\ wallet = [ph \in Phone |-> Nobody]
    /\ present = {}
    /\ desk = [d \in Desk |-> Idle]
    /\ unguarded = {} /\ loose = {}
    /\ ops = 0

-----------------------------------------------------------------------------
(* The questions the code asks of the database.                            *)

InState(ph, st) == {p \in Person : person[p].state = st /\ person[p].phone = ph}
On(ph) == InState(ph, "active")
Archived(ph) == InState(ph, "archived") # {}

\* A subscriber by type, or by any subscription row, past or present.
Subscriber(p) == person[p].type = "subscriber" \/ person[p].subscribed

\* Mutant: who holds a subscription holds no phone.
PhoneTakenNow(ph, excluding) ==
    ph \in roster \/ \E p \in On(ph) : person[p].type \in {"trainee", "tamkeen"}

\* assertPhoneNotTaken throws; excluding is the table it leaves out.
PhoneTaken(ph, excluding) ==
    \/ ph \in roster
    \/ \E p \in On(ph) :
         \/ person[p].type \in {"trainee", "tamkeen"}
         \/ excluding # "visitor" /\ Subscriber(p)

\* findActivePhoneConflict: a managed holder other than self.
ActivePhoneConflict(ph, self, includeRoster) ==
    \/ includeRoster /\ ph \in roster
    \/ \E p \in On(ph) \ {self} : person[p].type # "visitor" \/ person[p].subscribed

\* What an import rejects; unlike the guards above it reads archived rows too, and the
\* trainee import does not look at the Tamkeen students.
ImportRejects(ph, type) ==
    \/ ph \in roster
    \/ \E p \in On(ph) \cup InState(ph, "archived") :
         Subscriber(p) \/ (type = "tamkeen" /\ person[p].type = "trainee")
ImportUpdates(ph, type) ==
    \E p \in On(ph) \cup InState(ph, "archived") : person[p].type = type

\* syncWalletPhone: refused when both phones have a wallet, otherwise it moves.
WalletClash(old, new) == old # new /\ wallet[old] # Nobody /\ wallet[new] # Nobody
\* Mutant: the wallet stays behind.
MoveNoWallet(old, new) == wallet
MoveWallet(old, new) ==
    IF old = new \/ wallet[old] = Nobody THEN wallet
    ELSE [wallet EXCEPT ![new] = wallet[old], ![old] = Nobody]

-----------------------------------------------------------------------------
(* Requests.                                                               *)

Free(d) == desk[d] = Idle /\ ops < MaxOps

Look(d, request) ==
    /\ Free(d)
    /\ ops' = ops + 1
    /\ desk' = [desk EXCEPT ![d] = request]
    /\ UNCHANGED <<person, roster, wallet, present, unguarded, loose>>

At(d, op) == desk[d].op = op

\* A merge holds the id of the wallet it found: where that is when d has written.
Whereabouts(e, d) ==
    IF /\ At(e, "merge") /\ (At(d, "rename") \/ At(d, "merge"))
       /\ desk[e].old \notin {NoPhone, desk[e].phone}
       /\ desk[d].old = desk[e].old /\ wallet[desk[e].old] # Nobody
    THEN desk[d].phone
    ELSE desk[e].old

\* d ends its write and goes on to next; the others looked before it.
Written(d, next) ==
    /\ desk' = [e \in Desk |-> IF e = d THEN next
                               ELSE IF desk[e] = Idle THEN Idle
                               ELSE [desk[e] EXCEPT !.late = TRUE, !.old = Whereabouts(e, d)]]
    /\ UNCHANGED ops

Flag(ph, odd) == unguarded' = IF odd THEN unguarded \cup {ph} ELSE unguarded
Lose(p, odd) == loose' = IF odd THEN loose \cup {p} ELSE loose

\* The process dies or the database refuses: nothing of the transaction is written.
Abort(d) ==
    /\ desk[d] # Idle
    /\ desk' = [desk EXCEPT ![d] = Idle]
    /\ UNCHANGED <<person, roster, wallet, present, unguarded, loose, ops>>

-----------------------------------------------------------------------------
(* New people.                                                             *)

\* A trainee, a Tamkeen student or a brand-new subscriber at the desk.
CreateLook(d, ph, type) ==
    /\ type \in {"subscriber", "trainee", "tamkeen"}
    /\ type = "subscriber" => On(ph) = {}
    /\ ~PhoneTaken(ph, "none")
    /\ ~Archived(ph)
    /\ Look(d, [Idle EXCEPT !.op = "create", !.type = type, !.phone = ph])

NewRow(p, ph, type, sub) ==
    /\ person[p].state = "none"
    /\ person' = [person EXCEPT ![p] = [state |-> "active", type |-> type, phone |-> ph,
                                        subscribed |-> sub]]

\* assertPhoneNotTaken does not know Visitor rows of type employee.  The subscription of a
\* new subscriber is a transaction of its own: it may come at once, later or never.
Create(d) ==
    LET r == desk[d]
    IN  /\ At(d, "create")
        /\ \E p \in Person, sub \in {FALSE, r.type = "subscriber"} :
             NewRow(p, r.phone, r.type, sub)
        /\ Flag(r.phone, r.late /\ PhoneTaken(r.phone, "none"))
        /\ Written(d, Idle)
        /\ UNCHANGED <<roster, wallet, present, loose>>

\* createSubscriber for a phone that an active row holds: any of them may be found.
ReactivateLook(d, p) ==
    LET ph == person[p].phone
    IN  /\ person[p].state = "active"
        /\ ~PhoneTaken(ph, "visitor")
        /\ Look(d, [Idle EXCEPT !.op = "reactivate", !.p = p, !.phone = ph, !.old = ph])

\* The phone is written again as it was read; its wallet is not asked.
Reactivate(d) ==
    LET r == desk[d]
    IN  /\ At(d, "reactivate")
        /\ \E sub \in {person[r.p].subscribed, TRUE} :
             person' = [person EXCEPT ![r.p].type = "subscriber", ![r.p].phone = r.phone,
                                      ![r.p].subscribed = sub]
        /\ Flag(r.phone, \/ On(r.phone) \ {r.p} # {}
                         \/ r.late /\ PhoneTaken(r.phone, "visitor"))
        /\ Lose(r.p, r.late /\ person[r.p].phone # r.phone)
        /\ Written(d, Idle)
        /\ UNCHANGED <<roster, wallet, present>>

\* A subscription for a row that was no subscriber: nobody looks at the phone.
Renew(p) ==
    /\ person[p].state # "none" /\ ~person[p].subscribed
    /\ person' = [person EXCEPT ![p].subscribed = TRUE]
    /\ Flag(person[p].phone, person[p].type # "subscriber")
    /\ ops < MaxOps /\ ops' = ops + 1
    /\ UNCHANGED <<roster, wallet, present, desk, loose>>

\* A whole file is one transaction; a phone of it is one row here.
ImportLook(d, ph, type) ==
    /\ type \in {"trainee", "tamkeen"}
    /\ ~ImportUpdates(ph, type) /\ ~ImportRejects(ph, type)
    /\ Look(d, [Idle EXCEPT !.op = "import", !.type = type, !.phone = ph])

Import(d) ==
    LET r == desk[d]
    IN  /\ At(d, "import")
        /\ \E p \in Person : NewRow(p, r.phone, r.type, FALSE)
        /\ Flag(r.phone, \/ r.type = "trainee" /\ \E p \in On(r.phone) :
                                                    person[p].type = "tamkeen"
                         \/ r.late /\ (\/ ImportUpdates(r.phone, r.type)
                                       \/ ImportRejects(r.phone, r.type)))
        /\ Written(d, Idle)
        /\ UNCHANGED <<roster, wallet, present, loose>>

HireLook(d, ph) ==
    /\ ~PhoneTaken(ph, "none")
    /\ Look(d, [Idle EXCEPT !.op = "hire", !.phone = ph])

\* The phone of the roster is unique: a second row throws (Abort).
Hire(d) ==
    LET r == desk[d]
    IN  /\ At(d, "hire")
        /\ r.phone \notin roster
        /\ roster' = roster \cup {r.phone}
        /\ Flag(r.phone, r.late /\ PhoneTaken(r.phone, "none"))
        /\ Written(d, Idle)
        /\ UNCHANGED <<person, wallet, present, loose>>

Dismiss(ph) ==
    /\ ph \in roster
    /\ roster' = roster \ {ph}
    /\ ops < MaxOps /\ ops' = ops + 1
    /\ UNCHANGED <<person, wallet, present, desk, unguarded, loose>>

-----------------------------------------------------------------------------
(* Attendance, as far as it makes people.                                  *)

\* A phone nobody holds, active or archived, is registered with the type asked for; the
\* roster is not consulted.
WalkInLook(d, ph, type) ==
    /\ On(ph) = {} /\ ~Archived(ph)
    /\ Look(d, [Idle EXCEPT !.op = "walkin", !.type = type, !.phone = ph])

\* The QR page anchors an employee of the roster on a row of type employee.
AnchorLook(d, ph) ==
    /\ ph \in roster
    /\ WalkInLook(d, ph, "employee")

WalkIn(d) ==
    LET r == desk[d]
    IN  /\ At(d, "walkin")
        /\ \E p \in Person :
             /\ NewRow(p, r.phone, r.type, FALSE)
             /\ Written(d, [Idle EXCEPT !.op = "checkin", !.p = p])
        /\ Flag(r.phone, \/ r.phone \in roster /\ r.type \notin {"visitor", "employee"}
                         \/ r.late /\ On(r.phone) # {})
        /\ UNCHANGED <<roster, wallet, present, loose>>

CheckInLook(d, p) ==
    /\ person[p].state = "active" /\ p \notin present
    /\ Look(d, [Idle EXCEPT !.op = "checkin", !.p = p])

\* The session is inserted whoever was archived meanwhile.
CheckIn(d) ==
    LET p == desk[d].p
    IN  /\ At(d, "checkin")
        /\ present' = present \cup {p}
        /\ Lose(p, desk[d].late /\ person[p].state = "archived")
        /\ Written(d, Idle)
        /\ UNCHANGED <<person, roster, wallet, unguarded>>

CheckOut(p) ==
    /\ p \in present
    /\ present' = present \ {p}
    /\ UNCHANGED <<person, roster, wallet, desk, unguarded, loose, ops>>

-----------------------------------------------------------------------------
(* Changes of a person.                                                    *)

\* A new phone from the page of a managed type is looked up first.
RenameLook(d, p, ph, page) ==
    /\ ph # person[p].phone /\ ~PhoneTaken(ph, "none")
    /\ Look(d, [Idle EXCEPT !.op = "rename", !.p = p, !.type = page, !.phone = ph,
                            !.old = person[p].phone])

\* Each page changes its own people, who are not archived; that of the subscribers asks
\* neither for the type nor for the archive.
Own(p, type) == person[p].state = "active" /\ person[p].type = type
UpdateTrainee(d, p, ph) == Own(p, "trainee") /\ RenameLook(d, p, ph, "trainee")
UpdateTamkeenStudent(d, p, ph) == Own(p, "tamkeen") /\ RenameLook(d, p, ph, "tamkeen")
UpdateSubscriber(d, p, ph) == person[p].state # "none" /\ RenameLook(d, p, ph, "subscriber")

\* On the person's page nobody looks.
EditLook(d, p, ph) ==
    /\ person[p].state = "active" /\ ph # person[p].phone
    /\ Look(d, [Idle EXCEPT !.op = "rename", !.p = p, !.phone = ph, !.old = person[p].phone])

\* One transaction moves the wallet of the phone that was read, whoever it belongs to.
Rename(d) ==
    LET r == desk[d]
        managed == person[r.p].type # "visitor" \/ person[r.p].subscribed
    IN  /\ At(d, "rename")
        /\ ~WalletClash(r.old, r.phone)
        /\ wallet' = MoveWallet(r.old, r.phone)
        /\ person' = [person EXCEPT ![r.p].phone = r.phone]
        /\ Flag(r.phone, managed /\ (r.type = "visitor" \/ (r.late /\ PhoneTaken(r.phone, "none"))))
        /\ loose' = loose \cup ({wallet[r.old]} \ {r.p, Nobody})     \* a shared number
                         \cup {p \in {r.p} : r.late /\ person[p].phone # r.old}
        /\ Written(d, Idle)
        /\ UNCHANGED <<roster, present>>

\* The session's edit form writes the phone of its visitor, and nothing else.
EditSessionPhone(p, ph) ==
    /\ person[p].state # "none" /\ ph # person[p].phone
    /\ person' = [person EXCEPT ![p].phone = ph]
    /\ Flag(ph, person[p].type # "visitor" \/ person[p].subscribed)
    /\ loose' = loose \cup {p}
    /\ desk' = [e \in Desk |-> IF desk[e] = Idle THEN Idle ELSE [desk[e] EXCEPT !.late = TRUE]]
    /\ ops < MaxOps /\ ops' = ops + 1
    /\ UNCHANGED <<roster, wallet, present>>

ConvertLook(d, p, type) ==
    /\ person[p].state = "active"
    /\ type # person[p].type
    /\ p \notin present
    /\ type # "visitor" =>
         ~ActivePhoneConflict(person[p].phone, p, person[p].type # "employee")
    /\ Look(d, [Idle EXCEPT !.op = "convert", !.p = p, !.type = type, !.old = person[p].phone])

\* A live subscription is there or is bought with the conversion.
Convert(d) ==
    LET r == desk[d]
        ph == person[r.p].phone
    IN  /\ At(d, "convert")
        /\ person' = [person EXCEPT ![r.p].type = r.type,
                                    ![r.p].subscribed = @ \/ r.type = "subscriber"]
        /\ Flag(ph, \/ person[r.p].type = "employee" /\ ph \in roster
                    \/ r.late /\ ActivePhoneConflict(ph, r.p, TRUE))
        /\ Written(d, Idle)
        /\ UNCHANGED <<roster, wallet, present, loose>>

\* Mutant: the open session is not asked for.
ArchiveLookAnyway(d, p) ==
    /\ person[p].state = "active"
    /\ Look(d, [Idle EXCEPT !.op = "archive", !.p = p])

ArchiveLook(d, p) ==
    /\ person[p].state = "active" /\ p \notin present
    /\ Look(d, [Idle EXCEPT !.op = "archive", !.p = p])

Archive(d) ==
    LET p == desk[d].p
    IN  /\ At(d, "archive")
        /\ person' = [person EXCEPT ![p].state = "archived"]
        /\ Lose(p, desk[d].late /\ p \in present)
        /\ Written(d, Idle)
        /\ UNCHANGED <<roster, wallet, present, unguarded>>

\* The phone must be free of active rows; the roster is not consulted.
RestoreLook(d, p) ==
    /\ person[p].state = "archived"
    /\ On(person[p].phone) = {}
    /\ Look(d, [Idle EXCEPT !.op = "restore", !.p = p])

\* The pages of the managed types archive and restore their own people in the same way.
DeleteTrainee(d, p) == person[p].type = "trainee" /\ ArchiveLook(d, p)
RestoreTrainee(d, p) == person[p].type = "trainee" /\ RestoreLook(d, p)
DeleteTamkeenStudent(d, p) == person[p].type = "tamkeen" /\ ArchiveLook(d, p)
RestoreTamkeenStudent(d, p) == person[p].type = "tamkeen" /\ RestoreLook(d, p)
DeleteSubscriber(d, p) == person[p].type = "subscriber" /\ ArchiveLook(d, p)
RestoreSubscriber(d, p) == person[p].type = "subscriber" /\ RestoreLook(d, p)

Restore(d) ==
    LET p == desk[d].p
        ph == person[p].phone
    IN  /\ At(d, "restore")
        /\ person' = [person EXCEPT ![p].state = "active"]
        /\ Flag(ph, ph \in roster \/ (desk[d].late /\ On(ph) # {}))
        /\ Written(d, Idle)
        /\ UNCHANGED <<roster, wallet, present, loose>>

\* Nobody who is checked in is merged; two wallets are not.  A source that is archived
\* and has nothing left is a noop; what is left is abstracted to its subscriptions.
MergeLook(d, source, target) ==
    /\ source # target
    /\ person[source].state # "none" /\ person[target].state = "active"
    /\ {source, target} \cap present = {}
    /\ person[source].state = "archived" => person[source].subscribed
    /\ ~WalletClash(person[source].phone, person[target].phone)
    /\ LET from == person[source].phone
           to == person[target].phone
       IN  Look(d, [Idle EXCEPT !.op = "merge", !.p = target, !.q = source, !.phone = to,
                                !.old = IF from = to \/ wallet[from] # Nobody THEN from
                                        ELSE NoPhone])

\* The wallet keeps its row and gets the phone and the name of the target.
Merge(d) ==
    LET r == desk[d]
        had == r.old # NoPhone /\ wallet[r.old] # Nobody
    IN  /\ At(d, "merge")
        /\ had => ~WalletClash(r.old, r.phone)
        /\ wallet' = IF had THEN [MoveWallet(r.old, r.phone) EXCEPT ![r.phone] = r.p]
                     ELSE wallet
        /\ present' = IF r.q \in present THEN (present \ {r.q}) \cup {r.p} ELSE present
        /\ person' = [person EXCEPT
                        ![r.p].subscribed = @ \/ person[r.q].subscribed,
                        ![r.q].subscribed = FALSE, ![r.q].state = "archived"]
        /\ Flag(person[r.p].phone, person[r.q].subscribed /\ ~Subscriber(r.p))
        /\ Lose(r.p, r.late /\ (\/ person[r.p].phone # r.phone
                                \/ r.q \in present /\ person[r.p].state = "archived"))
        /\ Written(d, Idle)
        /\ UNCHANGED roster

\* A wallet is opened for somebody at the desk; its phone is unique.
OpenWallet(p) ==
    /\ person[p].state = "active"
    /\ wallet[person[p].phone] = Nobody
    /\ wallet' = [wallet EXCEPT ![person[p].phone] = p]
    /\ ops < MaxOps /\ ops' = ops + 1
    /\ UNCHANGED <<person, roster, present, desk, unguarded, loose>>

-----------------------------------------------------------------------------
Archives(d, p) == \/ ArchiveLook(d, p) \/ DeleteTrainee(d, p)
                  \/ DeleteTamkeenStudent(d, p) \/ DeleteSubscriber(d, p)
Restores(d, p) == \/ RestoreLook(d, p) \/ RestoreTrainee(d, p)
                  \/ RestoreTamkeenStudent(d, p) \/ RestoreSubscriber(d, p)
Updates(d, p, ph) == \/ UpdateTrainee(d, p, ph) \/ UpdateTamkeenStudent(d, p, ph)
                     \/ UpdateSubscriber(d, p, ph)

Next ==
    \/ \E d \in Desk : Free(d) /\
         (\/ \E ph \in Phone, type \in Kind :
               CreateLook(d, ph, type) \/ ImportLook(d, ph, type) \/ WalkInLook(d, ph, type)
          \/ \E ph \in Phone : HireLook(d, ph) \/ AnchorLook(d, ph)
          \/ \E p \in Person :
               ReactivateLook(d, p) \/ CheckInLook(d, p) \/ Archives(d, p) \/ Restores(d, p)
          \/ \E p \in Person, ph \in Phone : Updates(d, p, ph) \/ EditLook(d, p, ph)
          \/ \E p \in Person, type \in Kind : ConvertLook(d, p, type)
          \/ \E p, q \in Person : MergeLook(d, p, q))
    \/ \E d \in Desk :
         \/ Create(d) \/ Reactivate(d) \/ Import(d) \/ Hire(d) \/ WalkIn(d) \/ CheckIn(d)
         \/ Rename(d) \/ Convert(d) \/ Archive(d) \/ Restore(d) \/ Merge(d) \/ Abort(d)
    \/ \E p \in Person : Renew(p) \/ CheckOut(p) \/ OpenWallet(p)
    \/ \E p \in Person, ph \in Phone : EditSessionPhone(p, ph)
    \/ \E ph \in Phone : Dismiss(ph)

Spec == Init /\ [][Next]_vars

-----------------------------------------------------------------------------
(* Properties.                                                             *)

\* Those personUniqueness.ts calls people: subscriber, trainee, Tamkeen student; the
\* roster is the fourth.  A row of type employee is its anchor, not another person.
Holders(ph) == {p \in On(ph) : person[p].type \in {"trainee", "tamkeen"} \/ Subscriber(p)}

\* One phone, one active person, as long as nobody came to the phone by a door without
\* a guard, or wrote after what it had looked at changed: creation, import, conversion,
\* restoring, merging and editing guard it by different questions, which must fit.
OnePersonPerPhone ==
    \A ph \in Phone \ unguarded :
       /\ Cardinality(Holders(ph)) <= 1
       /\ ph \in roster => Holders(ph) = {}

\* A wallet stays with the person it is named after, through edits of the phone, merges
\* and conversions that nobody overtook.
WalletStaysWithItsPerson ==
    \A ph \in Phone :
       wallet[ph] \in Person \ loose => person[wallet[ph]].phone = ph

\* Nobody is archived while they sit in the space.
ArchivedAreAway ==
    \A p \in Person \ loose : person[p].state = "archived" => p \notin present
=============================================================================
