--------------------------- MODULE MCMergeDriver ---------------------------
(* MergeDriver for TLC: two names, one recipient, two clocks. *)
EXTENDS MergeDriver, TLC

TwoTimes == {1, 2}
Symmetry == Permutations(Names)
=============================================================================
