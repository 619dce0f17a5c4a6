----------------------------- MODULE MCGitSync -----------------------------
(* GitSync for TLC. *)
EXTENDS GitSync, TLC

CONSTANTS p1, p2

OneProc  == {p1}
TwoProcs == {p1, p2}
=============================================================================
