----------------------------- MODULE BillingMC -----------------------------
(***************************************************************************)
(* Finite instances of Billing, and the property of it that the code does  *)
(* not keep.                                                               *)
(***************************************************************************)
EXTENDS Billing, TLC

Symmetry == Permutations(Debts) \cup Permutations(Reqs)

\* Nothing is said of what was disturbed: a run need not go on from there.
Calm == disturbed = {}

\* "If fully paid, mark as collected. Preserve original amount for revenue
\* calculation." (debts/service.ts:217): what revenue counts for a collected debt is
\* what was handed over for it.
CollectedIsTaken ==
    \A d \in Debts : debt[d].st = "collected" /\ debt[d].of \notin disturbed =>
                       debt[d].amount = debt[d].taken
=============================================================================
