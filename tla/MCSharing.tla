------------------------------ MODULE MCSharing ------------------------------
(* Sharing for TLC: an owner and a colleague. *)
EXTENDS Sharing, TLC

CONSTANTS alice, bob

Both == {alice, bob}
Alice == {alice}

(* Today's vaults, where people may still have RSA keys, and vaults that
   predate signed grants, where nobody has. *)
Today == {[kind |-> "master", rsa |-> {}], [kind |-> "signed", rsa |-> Both],
          [kind |-> "signed", rsa |-> {bob}], [kind |-> "unsigned", rsa |-> {}]}

(* A vault that predates signed grants, and people with RSA keys. *)
Transition == {[kind |-> "unsigned", rsa |-> Both]}

(* A vault without keys per secret. *)
Direct == {[kind |-> "direct", rsa |-> {}]}
=============================================================================
