------------------------------ MODULE Contacts ------------------------------
(***************************************************************************)
(* The address book (modules/contacts).  Every operation looks a phone up  *)
(* before it writes, but here the schema makes the phone unique: the       *)
(* database refuses what slipped in between.  An import goes row by row,   *)
(* each with its own lookups and its own write, and goes on when a row is  *)
(* refused.                                                                *)
(***************************************************************************)
EXTENDS Naturals, FiniteSets

CONSTANTS Id, Name, Phone, Clerk, NoId, NoName, NoPhone

VARIABLES
    contact,    \* the rows
    clerk       \* the local variables of each request

vars == <<contact, clerk>>

Row == [name: Name, phone: Phone]
NoRow == [name |-> NoName, phone |-> NoPhone]

\* What a request gives: an update gives only the fields it changes.
Fields == [name: Name \cup {NoName}, phone: Phone \cup {NoPhone}]

Request ==
    [op: {"idle", "create", "update", "import", "insert"},
     id: Id \cup {NoId}, row: Fields,
     todo: SUBSET Row]      \* the rows of the file not yet done

Idle == [op |-> "idle", id |-> NoId, row |-> NoRow, todo |-> {}]

TypeOK ==
    /\ contact \in [Id -> Row \cup {NoRow}]
    /\ clerk \in [Clerk -> Request]

Init ==
    /\ contact = [i \in Id |-> NoRow]
    /\ clerk = [c \in Clerk |-> Idle]

\* The rows that hold the phone, other than i's.
Holder(phone, i) == \E j \in Id \ {i} : contact[j].phone = phone
Named(name, i) == \E j \in Id \ {i} : contact[j].name = name

Goto(c, request) ==
    /\ clerk' = [clerk EXCEPT ![c] = request]
    /\ UNCHANGED contact

CreateLook(c, row) ==
    /\ clerk[c] = Idle
    /\ ~Holder(row.phone, NoId)
    /\ Goto(c, [Idle EXCEPT !.op = "create", !.row = row])

\* The phone is looked up only if it is given.
UpdateLook(c, i, given) ==
    /\ clerk[c] = Idle
    /\ contact[i] # NoRow
    /\ given.phone # NoPhone => ~Holder(given.phone, i)
    /\ Goto(c, [Idle EXCEPT !.op = "update", !.id = i, !.row = given])

ImportStart(c, file) ==
    /\ clerk[c] = Idle /\ file # {}
    /\ Goto(c, [Idle EXCEPT !.op = "import", !.todo = file])

\* A known phone or a known name is counted as a duplicate or a conflict, and skipped.
ImportLook(c, row) ==
    LET r == clerk[c]
        rest == r.todo \ {row}
    IN  /\ r.op = "import" /\ row \in r.todo
        /\ IF Holder(row.phone, NoId) \/ Named(row.name, NoId)
           THEN Goto(c, IF rest = {} THEN Idle ELSE [r EXCEPT !.todo = rest])
           ELSE Goto(c, [Idle EXCEPT !.op = "insert", !.row = row, !.todo = rest])

Then(c, next) == clerk' = [clerk EXCEPT ![c] = next]

\* Mutant: the phone is not unique in the schema.
PutAnyway(i, row) == contact' = [contact EXCEPT ![i] = row]

\* The unique index: a second row with the phone is refused.
Put(i, row) ==
    /\ ~Holder(row.phone, i)
    /\ contact' = [contact EXCEPT ![i] = row]

Create(c) ==
    /\ clerk[c].op = "create"
    /\ \E i \in Id : contact[i] = NoRow /\ Put(i, clerk[c].row)
    /\ Then(c, Idle)

\* Row i with the fields given; the others stay as they are when it is written.
Merged(i, given) ==
    [name  |-> IF given.name = NoName THEN contact[i].name ELSE given.name,
     phone |-> IF given.phone = NoPhone THEN contact[i].phone ELSE given.phone]

Update(c) ==
    LET r == clerk[c]
    IN  /\ r.op = "update"
        /\ contact[r.id] # NoRow
        /\ Put(r.id, Merged(r.id, r.row))
        /\ Then(c, Idle)

AfterRow(r) == IF r.todo = {} THEN Idle ELSE [Idle EXCEPT !.op = "import", !.todo = r.todo]

Insert(c) ==
    LET r == clerk[c]
    IN  /\ r.op = "insert"
        /\ \E i \in Id : contact[i] = NoRow /\ Put(i, r.row)
        /\ Then(c, AfterRow(r))

\* The row is counted as an error, and the import goes on.
InsertFails(c) ==
    /\ clerk[c].op = "insert"
    /\ Goto(c, AfterRow(clerk[c]))

\* The database refuses, or the process dies: the rows already imported stay.
Abort(c) ==
    /\ clerk[c] # Idle
    /\ Goto(c, Idle)

Delete(i) ==
    /\ contact[i] # NoRow
    /\ contact' = [contact EXCEPT ![i] = NoRow]
    /\ UNCHANGED clerk

Next ==
    \/ \E c \in Clerk :
         \/ \E row \in Row : CreateLook(c, row) \/ ImportLook(c, row)
         \/ \E i \in Id, given \in Fields : UpdateLook(c, i, given)
         \/ \E file \in SUBSET Row : ImportStart(c, file)
         \/ Create(c) \/ Update(c) \/ Insert(c) \/ InsertFails(c) \/ Abort(c)
    \/ \E i \in Id : Delete(i)

Spec == Init /\ [][Next]_vars

-----------------------------------------------------------------------------
Cards == {[id |-> i, name |-> contact[i].name, phone |-> contact[i].phone] :
             i \in {j \in Id : contact[j] # NoRow}}

Book == INSTANCE Directory WITH cards <- Cards

\* However the requests interleave, the address book behaves like one that is changed a
\* card at a time and has one card per phone: create, update and import implement it.
IsADirectory == Book!Spec
=============================================================================
