---------------------------- MODULE AttendanceMC ----------------------------
(***************************************************************************)
(* Finite instances of Attendance.                                         *)
(***************************************************************************)
EXTENDS Attendance, TLC

Symmetry == Permutations(Sessions) \cup Permutations(Reqs)
=============================================================================
