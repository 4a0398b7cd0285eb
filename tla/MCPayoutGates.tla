---------------------------- MODULE MCPayoutGates ----------------------------
(* Small instances of PayoutGates for TLC: two ordinary disbursements and  *)
(* one over the approval threshold.                                        *)
EXTENDS PayoutGates, TLC

CONSTANTS d1, d2, d3, a1, a2, p1, p2

Three == {d1, d2, d3}
Two == {a1, a2}
TwoApprovers == {p1, p2}

AmountOf == (d1 :> 2) @@ (d2 :> 2) @@ (d3 :> 3)

Symmetry == Permutations({d1, d2}) \cup Permutations(Executors)
=============================================================================
