------------------------------- MODULE CafeMC -------------------------------
(***************************************************************************)
(* Finite instances of Cafe, and the property of it that the code does not *)
(* keep.                                                                   *)
(***************************************************************************)
EXTENDS Cafe, TLC

Symmetry == Permutations(Orders) \cup Permutations(Sales) \cup Permutations(Reqs)

\* Room for one delivery of an item, none of a drink.
OpeningUnits == [t \in Things |-> IF t \in Items THEN 1 ELSE 2]

\* What comes after the first lost or abandoned write is left to the proof.
Exact == exact

\* "Restore inventory stock that was deducted on creation" (sales/service.ts:297):
\* the units that the deletion of a sale gives back had left, so the shelf does not
\* get more than it was ever given.
GivesBackWhatWasTaken ==
    [][\A r \in Reqs :
         At(r, "restore") /\ req[r].op = "deleteSale" /\ stock' # stock =>
           \A t \in Things : stock'[t] =< supplied[t]]_vars
=============================================================================
