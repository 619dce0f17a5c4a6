----------------------------- MODULE SecretStore -----------------------------
(***************************************************************************)
(* What `dl set` and `dl unset` promise to their callers, whatever runs    *)
(* beside them: a store of named values in which one step gives one name a *)
(* value never stored before, or removes one name, and nothing else ever   *)
(* changes it.  Module VaultCommands implements it over the vault pair.    *)
(***************************************************************************)
EXTENDS Integers

CONSTANT Names       \* the names of secrets

VARIABLES
  store,             \* store[n]: the value `dl get n` prints, 0 if there is none
  minted             \* the newest value ever stored

Init ==
  /\ store \in [Names -> {0, 1}]
  /\ minted = 1

Set(n) ==
  /\ minted' > minted
  /\ store' = [store EXCEPT ![n] = minted']

Unset(n) ==
  /\ store[n] # 0
  /\ store' = [store EXCEPT ![n] = 0]
  /\ UNCHANGED minted

(* Other commands mint numbers for their keys. *)
Mint == minted' > minted /\ UNCHANGED store

Next == Mint \/ \E n \in Names : Set(n) \/ Unset(n)

Spec == Init /\ [][Next]_<<store, minted>>
=============================================================================
