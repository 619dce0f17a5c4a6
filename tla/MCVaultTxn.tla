------------------------------ MODULE MCVaultTxn ------------------------------
(* VaultTxn for TLC: the constants of the runs. *)
EXTENDS VaultTxn

CONSTANTS p1, p2

TwoProcs == {p1, p2}
=============================================================================
