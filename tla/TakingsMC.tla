----------------------------- MODULE TakingsMC ------------------------------
(***************************************************************************)
(* Bounds for Takings on its own, for the property that the code does not  *)
(* keep; what it keeps is checked with the other services (OfficeMC).      *)
(***************************************************************************)
EXTENDS Takings, TLC

Symmetry == Permutations(Visit) \cup Permutations(Item) \cup Permutations(Debt)

\* "No double-counting as long as the session has paymentStatus !== "paid" when the debt is
\* created" (REVENUE_AUDIT_REPORT.md:453).  Once all visits have ended and all debts are
\* settled, and no order differs from its sale, the revenue for visits, sales and debts is
\* no more than what was handed over for them.
NoDoubleCounting ==
    LET revenue == Revenue(1, LastDay)
        settled == /\ \A v \in Visit : visit[v].st \in {"none", "closed"}
                   /\ \A d \in Debt : debt[d].st # "unpaid"
                   /\ \A i \in Item : item[i].by = "order" => item[i].order = item[i].sale
    IN  settled => revenue.hours + revenue.snacks + revenue.hot + revenue.debts <= handed
=============================================================================
