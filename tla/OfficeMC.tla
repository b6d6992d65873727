------------------------------ MODULE OfficeMC ------------------------------
(***************************************************************************)
(* Bounds for Office.                                                      *)
(***************************************************************************)
EXTENDS Office, TLC

CONSTANT MaxHanded      \* bound on what a trainee hands over

Symmetry == Permutations(Clerk) \cup Permutations(Booking) \cup Permutations(Room)

\* Where a booking has raced or was moved over another, its room is claimed no more; one
\* subscription edited or overtaken is enough, and after a renewal that died nothing is
\* claimed of the last one; nothing is claimed of a phone that got a holder by a door
\* without a guard, or of what such a holder left behind.
Calm ==
    /\ raced = {} /\ moved = {}
    /\ \A a, b \in Booking : booking[a].status = "pending" /\ booking[b].status # "none" => a = b
    /\ \A t \in Trainee : handed[t] <= MaxHanded
    /\ \A x, y \in edited \cup overlapped : x = y
    /\ ~dropped
    /\ odd = {} /\ slipped = {}
    /\ unguarded = {} /\ loose = {}
=============================================================================
