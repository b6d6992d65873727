--------------------------- MODULE SnackWalletMC ---------------------------
(***************************************************************************)
(* Finite instances of SnackWallet, and the property of it that the code   *)
(* does not keep.                                                          *)
(***************************************************************************)
EXTENDS SnackWallet, FiniteSetsExt, TLC

CONSTANTS w1, s1

Symmetry == Permutations(Orders) \cup Permutations(Reqs)

OneWallet == [s \in Sessions |-> w1]

\* What the rows of a session have taken from a wallet, less what they gave back.
NetCharge(w, s) ==
    LET Rows(type) == {i \in DOMAIN ledger[w] :
                         ledger[w][i].session = s /\ ledger[w][i].type = type}
        Amount(i) == ledger[w][i].amount
    IN  MapThenSumSet(Amount, Rows("deduction")) - MapThenSumSet(Amount, Rows("topup"))

\* "Finds all deduction transactions for the given session and credits them
\* back" (snack-wallet/service.ts:176): a session is credited no more than it
\* was charged.
NoOverRefund == \A w \in Wallets, s \in Sessions : NetCharge(w, s) >= 0
=============================================================================
