----------------------------- MODULE MCIdentity -----------------------------
(* Identity for TLC. *)
EXTENDS Identity, TLC

Symmetric == Permutations(Procs)
=============================================================================
