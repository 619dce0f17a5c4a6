--------------------------- MODULE MCSessionCache ---------------------------
(* SessionCache for TLC. *)
EXTENDS SessionCache, TLC

CONSTANTS p1, p2

TwoProcs == {p1, p2}
Symmetric == Permutations(TwoProcs)

(* Off, inside the cap, and beyond it. *)
OffAndLong == {0, 9}
=============================================================================
