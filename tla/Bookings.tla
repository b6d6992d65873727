------------------------------ MODULE Bookings ------------------------------
(***************************************************************************)
(* Room bookings (modules/rooms).  Conflicts are looked up before the      *)
(* write, by a query of its own, and nothing in the schema forbids two     *)
(* confirmed bookings of one room at one time.                             *)
(***************************************************************************)
EXTENDS Naturals, FiniteSets

CONSTANTS
    Booking, Room, Clerk,
    Given,          \* the statuses given as input in an instance
    Start, End,     \* the instants given as input, as numbers
    NoBooking, NoRoom

VARIABLES
    booking,        \* the rows
    clerk,          \* the local variables of each request
    raced,          \* history: rooms where a conflict arose between check and write
    moved           \* history: rooms into which an edit moved a booking over another

vars == <<booking, clerk, raced, moved>>

Status == {"confirmed", "pending", "cancelled"}

Time == Start \cup End \cup {0}

Row == [status: Status \cup {"none"}, room: Room \cup {NoRoom}, from: Time, to: Time]
NoRow == [status |-> "none", room |-> NoRoom, from |-> 0, to |-> 0]

\* A request names some of the fields of a row; an edit here names one.
Data == [status: Given] \cup [room: Room] \cup [from: Start] \cup [to: End]
NewData == [status: Given, room: Room, from: Start, to: End]

Request ==
    [op: {"idle", "create", "update"}, b: Booking \cup {NoBooking},
     data: Data \cup NewData \cup {NoRow},
     late: BOOLEAN]         \* history: another request wrote since

Idle == [op |-> "idle", b |-> NoBooking, data |-> NoRow, late |-> FALSE]

TypeOK ==
    /\ booking \in [Booking -> Row]
    /\ \A b \in Booking : booking[b].status # "none" => booking[b].room # NoRoom
    /\ clerk \in [Clerk -> Request]
    /\ raced \subseteq Room /\ moved \subseteq Room

Init ==
    /\ booking = [b \in Booking |-> NoRow]
    /\ clerk = [c \in Clerk |-> Idle]
    /\ raced = {} /\ moved = {}

\* findConflict: half-open intervals; the length of a booking is never checked.
Conflict(room, from, to, exclude) ==
    \E b \in Booking \ {exclude} :
       /\ booking[b].status = "confirmed" /\ booking[b].room = room
       /\ booking[b].from < to /\ booking[b].to > from

Look(c, request) ==
    /\ clerk[c] = Idle
    /\ clerk' = [clerk EXCEPT ![c] = request]
    /\ UNCHANGED <<booking, raced, moved>>

CreateLook(c, data) ==
    /\ data.status = "confirmed" => ~Conflict(data.room, data.from, data.to, NoBooking)
    /\ Look(c, [Idle EXCEPT !.op = "create", !.data = data])

With(row, data) == [f \in DOMAIN row |-> IF f \in DOMAIN data THEN data[f] ELSE row[f]]

\* Mutant: the row as it was is looked up, without what the request changes of it.
UpdateLookOld(c, b, data) ==
    LET row == booking[b]
    IN  /\ row.status # "none"
        /\ row.status = "confirmed" => ~Conflict(row.room, row.from, row.to, b)
        /\ Look(c, [Idle EXCEPT !.op = "update", !.b = b, !.data = data])

\* The row as it will be, but looked up in the room it is in now.
UpdateLook(c, b, data) ==
    LET row == With(booking[b], data)
    IN  /\ booking[b].status # "none"
        /\ row.status = "confirmed" => ~Conflict(booking[b].room, row.from, row.to, b)
        /\ Look(c, [Idle EXCEPT !.op = "update", !.b = b, !.data = data])

Written(c) ==
    clerk' = [e \in Clerk |-> IF e = c \/ clerk[e] = Idle THEN Idle
                              ELSE [clerk[e] EXCEPT !.late = TRUE]]

Clashes(row, b) == row.status = "confirmed" /\ Conflict(row.room, row.from, row.to, b)

Race(c, row, b) ==
    raced' = IF clerk[c].late /\ Clashes(row, b) THEN raced \cup {row.room} ELSE raced

Create(c) ==
    LET row == clerk[c].data
    IN  /\ clerk[c].op = "create"
        /\ \E b \in Booking : /\ booking[b] = NoRow
                              /\ booking' = [booking EXCEPT ![b] = row]
        /\ Race(c, row, NoBooking)
        /\ Written(c)
        /\ UNCHANGED moved

\* Only the fields of the request are written: the rest is as others left it.
Update(c) ==
    LET b == clerk[c].b
        row == With(booking[b], clerk[c].data)
    IN  /\ clerk[c].op = "update" /\ booking[b] # NoRow
        /\ booking' = [booking EXCEPT ![b] = row]
        /\ Race(c, row, b)
        /\ moved' = IF row.room # booking[b].room /\ Clashes(row, b)
                    THEN moved \cup {row.room} ELSE moved
        /\ Written(c)

\* The row is gone, or the process dies.
Abort(c) ==
    /\ clerk[c] # Idle
    /\ clerk' = [clerk EXCEPT ![c] = Idle]
    /\ UNCHANGED <<booking, raced, moved>>

Delete(b) ==
    /\ booking[b] # NoRow
    /\ booking' = [booking EXCEPT ![b] = NoRow]
    /\ UNCHANGED <<clerk, raced, moved>>

\* The bookings of a room go with it (onDelete: Cascade); it may be made anew.
DeleteRoom(room) ==
    /\ booking' = [b \in Booking |-> IF booking[b].room = room THEN NoRow ELSE booking[b]]
    /\ UNCHANGED <<clerk, raced, moved>>

Next ==
    \/ \E c \in Clerk :
         \/ /\ clerk[c] = Idle
            /\ \/ \E data \in NewData : CreateLook(c, data)
               \/ \E b \in Booking, data \in Data : UpdateLook(c, b, data)
         \/ Create(c) \/ Update(c) \/ Abort(c)
    \/ \E b \in Booking : Delete(b)
    \/ \E room \in Room : DeleteRoom(room)

Spec == Init /\ [][Next]_vars

-----------------------------------------------------------------------------
\* The instants a confirmed booking takes.
Takes(b) == {t \in Time : booking[b].from <= t /\ t < booking[b].to}

DoubleBooked(a, b) ==
    /\ a # b /\ booking[a].room = booking[b].room
    /\ booking[a].status = "confirmed" /\ booking[b].status = "confirmed"
    /\ Takes(a) \cap Takes(b) # {}

\* No room is promised twice for an instant, unless the conflict arose between a check
\* and its write, or an edit moved a booking to another room, where nobody looked: edits
\* of one field at a time, by several clerks, must not add up to an overlap.
NoDoubleBooking ==
    \A a, b \in Booking : DoubleBooked(a, b) => booking[a].room \in raced \cup moved
=============================================================================
