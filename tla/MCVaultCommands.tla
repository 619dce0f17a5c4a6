--------------------------- MODULE MCVaultCommands ---------------------------
(* VaultCommands for TLC: who may run which command. *)
EXTENDS VaultCommands, TLC

CONSTANTS p1, p2, a, b

TwoProcs   == {p1, p2}
OneName    == {a}
TwoNames   == {a, b}

(* Everybody sets, removes and reads. *)
Setters == [p \in TwoProcs |-> {"set", "unset", "get"}]

(* One operator uses every command; somebody else reads. *)
OneWriter == [p \in TwoProcs |-> IF p = p1 THEN Ops ELSE {"get"}]

(* One operator repairs and sets; somebody else reads. *)
OneRepairer == [p \in TwoProcs |-> IF p = p1 THEN {"repair", "set"} ELSE {"get"}]

(* A setter beside a command that takes the lock only to commit. *)
SetAndConfig == [p \in TwoProcs |-> IF p = p1 THEN {"set"} ELSE {"config"}]
SetAndRotate == [p \in TwoProcs |-> IF p = p1 THEN {"set"} ELSE {"rotate"}]
SetAndRepair == [p \in TwoProcs |-> IF p = p1 THEN {"set"} ELSE {"repair"}]
ReadAndSet   == [p \in TwoProcs |-> IF p = p1 THEN {"get"} ELSE {"set", "get"}]
SetOnly          == [p \in TwoProcs |-> {"set"}]

Interchangeable == Permutations(TwoProcs) \cup Permutations(TwoNames)
=============================================================================
