----------------------------- MODULE HotspotMC -----------------------------
(***************************************************************************)
(* Finite instances of Hotspot, and the property of it that the code does  *)
(* not keep.                                                               *)
(***************************************************************************)
EXTENDS Hotspot, TLC

Symmetry == Permutations(Sessions) \cup Permutations(Nets) \cup Permutations(Reqs)

\* "The actual amount was already included in the session total by checkout ...
\* BEFORE endByPhone was called" (hotspot.service.ts:734): the label of an internet
\* charge goes to a session that has the internet in its amount.
PostedIsInvoiced ==
    [][\A s \in Sessions : session'[s].posted => session[s].posted \/ session[s].from # 0]_vars
=============================================================================
