--------------------------- MODULE MCEnvironments ---------------------------
(* Environments for TLC. *)
EXTENDS Environments, TLC

CONSTANTS p1, p2

OneProc   == {p1}
TwoProcs  == {p1, p2}
TwoEnvs   == {"default", "staging"}
Symmetric == Permutations(TwoProcs)
=============================================================================
