----------------------------- MODULE MCTreasury -----------------------------
(* A small instance of Treasury for TLC: two bills, two batches and two    *)
(* settlements that users make by hand.                                    *)
EXTENDS Treasury, TLC

CONSTANTS small, large

Bills == (small :> 1) @@ (large :> 2)
Alike == Permutations(Batches) \cup Permutations(Payments)
=============================================================================
