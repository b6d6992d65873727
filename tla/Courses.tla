------------------------------ MODULE Courses -------------------------------
(***************************************************************************)
(* Courses, their trainees and what these have paid (modules/courses).  A  *)
(* payment reads the row of the trainee and the price, and later writes    *)
(* the sum it computed and the status that goes with it.  Deleting a       *)
(* course is refused while it has trainees, but the schema cascades.       *)
(***************************************************************************)
EXTENDS Naturals

CONSTANTS
    Course, Trainee, Clerk,
    Price, Amount,      \* the prices and the payments given as input, in coins
    NoCourse, NoTrainee

VARIABLES
    course,     \* the rows of Course
    trainee,    \* the rows of Trainee
    clerk,      \* the local variables of each request
    handed,     \* history: what each trainee has handed over
    byHand,     \* history: trainees whose row or price was set by hand
    overlapped  \* history: trainees two of whose payments overlapped

vars == <<course, trainee, clerk, handed, byHand, overlapped>>

Paid == Nat

Request ==
    [op: {"idle", "pay", "delete"}, t: Trainee \cup {NoTrainee}, k: Course \cup {NoCourse},
     amount: Amount \cup {0},       \* what is handed over
     paid: Paid, status: {"installment", "full"},   \* what will be written
     late: BOOLEAN]     \* history: a payment of t was written since

Idle == [op |-> "idle", t |-> NoTrainee, k |-> NoCourse, amount |-> 0, paid |-> 0,
         status |-> "installment", late |-> FALSE]

Absent == [state |-> "none", course |-> NoCourse, paid |-> 0, status |-> "installment"]

TypeOK ==
    /\ course \in [Course -> [open: BOOLEAN, price: Price \cup {0}]]
    /\ trainee \in [Trainee -> [state: {"none", "enrolled", "gone"}, paid: Paid,
                                course: Course \cup {NoCourse},
                                status: {"installment", "full"}]]
    /\ \A t \in Trainee : trainee[t].state = "enrolled" => course[trainee[t].course].open
    /\ clerk \in [Clerk -> Request]
    /\ handed \in [Trainee -> Paid]
    /\ byHand \subseteq Trainee /\ overlapped \subseteq Trainee

Init ==
    /\ course = [k \in Course |-> [open |-> FALSE, price |-> 0]]
    /\ trainee = [t \in Trainee |-> Absent]
    /\ clerk = [c \in Clerk |-> Idle]
    /\ handed = [t \in Trainee |-> 0]
    /\ byHand = {} /\ overlapped = {}

Enrolled(k) == {t \in Trainee : trainee[t].state = "enrolled" /\ trainee[t].course = k}

SetCourse(k, price) ==
    /\ course' = [course EXCEPT ![k] = [open |-> TRUE, price |-> price]]
    /\ byHand' = byHand \cup Enrolled(k)
    /\ UNCHANGED <<trainee, clerk, handed, overlapped>>

Create(k, price) == ~course[k].open /\ SetCourse(k, price)
Update(k, price) == course[k].open /\ SetCourse(k, price)

\* What was paid already and the status are taken as given.
AddTrainee(t, k, paid, status) ==
    /\ trainee[t].state = "none" /\ course[k].open
    /\ trainee' = [trainee EXCEPT ![t] = [state |-> "enrolled", course |-> k, paid |-> paid,
                                          status |-> status]]
    /\ handed' = [handed EXCEPT ![t] = paid]
    /\ byHand' = IF paid > course[k].price \/ (status = "full" /\ paid < course[k].price)
                 THEN byHand \cup {t} ELSE byHand
    /\ UNCHANGED <<course, clerk, overlapped>>

Look(c, request) ==
    /\ clerk[c] = Idle
    /\ clerk' = [clerk EXCEPT ![c] = request]
    /\ UNCHANGED <<course, trainee, handed, byHand, overlapped>>

PayLook(c, t, amount) ==
    LET row == trainee[t]
        price == course[row.course].price
        paid == row.paid + amount
    IN  /\ row.state = "enrolled"
        /\ paid <= price
        /\ Look(c, [Idle EXCEPT !.op = "pay", !.t = t, !.amount = amount, !.paid = paid,
                    !.status = IF paid >= price THEN "full" ELSE row.status])

\* The others who are about to pay for t have read too early.
PaidFor(c, t) ==
    clerk' = [d \in Clerk |-> IF d = c THEN Idle
                              ELSE [clerk[d] EXCEPT !.late = @ \/ clerk[d].t = t]]

\* Mutant: a status is only ever raised.
PayRaising(c) ==
    LET r == clerk[c]
    IN  /\ r.op = "pay" /\ trainee[r.t].state = "enrolled"
        /\ trainee' = [trainee EXCEPT
                         ![r.t].paid = r.paid,
                         ![r.t].status = IF r.status = "full" THEN "full" ELSE @]
        /\ handed' = [handed EXCEPT ![r.t] = @ + r.amount]
        /\ overlapped' = IF r.late THEN overlapped \cup {r.t} ELSE overlapped
        /\ PaidFor(c, r.t)
        /\ UNCHANGED <<course, byHand>>

Pay(c) ==
    LET r == clerk[c]
    IN  /\ r.op = "pay" /\ trainee[r.t].state = "enrolled"
        /\ trainee' = [trainee EXCEPT ![r.t].paid = r.paid, ![r.t].status = r.status]
        /\ handed' = [handed EXCEPT ![r.t] = @ + r.amount]
        /\ overlapped' = IF r.late THEN overlapped \cup {r.t} ELSE overlapped
        /\ PaidFor(c, r.t)
        /\ UNCHANGED <<course, byHand>>

\* An edit writes the fields it names as they are given.
UpdateTrainee(t, paid, status) ==
    /\ trainee[t].state = "enrolled"
    /\ trainee' = [trainee EXCEPT ![t].paid = paid, ![t].status = status]
    /\ byHand' = byHand \cup {t}
    /\ UNCHANGED <<course, clerk, handed, overlapped>>

DeleteTrainee(t) ==
    /\ trainee[t].state = "enrolled"
    /\ trainee' = [trainee EXCEPT ![t].state = "gone"]
    /\ UNCHANGED <<course, clerk, handed, byHand, overlapped>>

DeleteLook(c, k) ==
    /\ course[k].open
    /\ Enrolled(k) = {}
    /\ Look(c, [Idle EXCEPT !.op = "delete", !.k = k])

\* Mutant: the rows of the trainees stay.
ClosedAlone(k) ==
    /\ course' = [course EXCEPT ![k].open = FALSE]
    /\ UNCHANGED trainee

\* onDelete: Cascade
Closed(k) ==
    /\ course' = [course EXCEPT ![k].open = FALSE]
    /\ trainee' = [t \in Trainee |-> IF t \in Enrolled(k) THEN [trainee[t] EXCEPT !.state = "gone"]
                                     ELSE trainee[t]]

Delete(c) ==
    LET k == clerk[c].k
    IN  /\ clerk[c].op = "delete" /\ course[k].open
        /\ Closed(k)
        /\ clerk' = [clerk EXCEPT ![c] = Idle]
        /\ UNCHANGED <<handed, byHand, overlapped>>

\* The room of the course is deleted, and its courses go with it.
DeleteRoom(k) ==
    /\ course[k].open
    /\ Closed(k)
    /\ UNCHANGED <<clerk, handed, byHand, overlapped>>

\* The row is gone, or the process dies before it writes.
Abort(c) ==
    /\ clerk[c] # Idle
    /\ clerk' = [clerk EXCEPT ![c] = Idle]
    /\ UNCHANGED <<course, trainee, handed, byHand, overlapped>>

Next ==
    \/ \E k \in Course :
         \/ \E price \in Price : Create(k, price) \/ Update(k, price)
         \/ DeleteRoom(k)
         \/ \E t \in Trainee, paid \in Amount \cup {0}, status \in {"installment", "full"} :
              AddTrainee(t, k, paid, status)
    \/ \E t \in Trainee :
         \/ \E paid \in Amount \cup {0}, status \in {"installment", "full"} :
              UpdateTrainee(t, paid, status)
         \/ DeleteTrainee(t)
    \/ \E c \in Clerk :
         \/ \E t \in Trainee, amount \in Amount : PayLook(c, t, amount)
         \/ \E k \in Course : DeleteLook(c, k)
         \/ Pay(c) \/ Delete(c) \/ Abort(c)

Spec == Init /\ [][Next]_vars

-----------------------------------------------------------------------------
\* Unless somebody set the row or the price by hand, who counts as paid in full has paid
\* the price, even when payments overlap: the status is written with the sum it was
\* computed from.  Payments that do not overlap add up to what was handed over, and never
\* to more than the price.
PaymentsAddUp ==
    \A t \in Trainee \ byHand :
       LET row == trainee[t]
           price == course[row.course].price
       IN  row.state = "enrolled" =>
              /\ row.status = "full" => row.paid >= price
              /\ t \notin overlapped => row.paid = handed[t] /\ handed[t] <= price
=============================================================================
