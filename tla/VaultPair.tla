------------------------------ MODULE VaultPair ------------------------------
(***************************************************************************)
(* What src/src/storage/vault_txn.rs promises about `.lock/vault.toml` and *)
(* `.lock/secrets.lock`: seen through crash recovery they are ONE value    *)
(* that changes in one step, "either both become visible or neither".     *)
(*                                                                         *)
(* A file's content is the number of the commit that wrote it.  Every      *)
(* commit seals a new vault.toml (its epoch grows, its hash gets a fresh   *)
(* nonce), so commit n always writes vault content n; it writes secrets    *)
(* content n when the caller passed new secrets.lock bytes and leaves the  *)
(* secrets alone when it passed None.                                      *)
(***************************************************************************)
EXTENDS Naturals

VARIABLE pair        \* <<vault content, secrets content>>

Init == pair = <<0, 0>>

(* A commit newer than every earlier one installs its pair in one step. *)
Install ==
  /\ pair'[1] \in Nat
  /\ pair'[1] > pair[1]
  /\ pair' \in {<<pair'[1], pair'[1]>>, <<pair'[1], pair[2]>>}

Spec == Init /\ [][Install]_pair
=============================================================================
