---------------------------- MODULE MCProviders ----------------------------
(* Providers for TLC: what there is in the vault. *)
EXTENDS Providers

Static1(may)        == [kind |-> "static", allowed |-> may, boot |-> {}, pin |-> 0]
Dynamic1(may, b, v) == [kind |-> "dynamic", allowed |-> may, boot |-> b, pin |-> v]

(* A static secret, a provider that is given it, and one that is given none;
   with and without a pin, for the owner and for a limited recipient. *)
SmallVaults ==
  {<<Static1(may), Dynamic1(also, b, v)>> :
     may \in BOOLEAN, also \in BOOLEAN, b \in {{}, {1}}, v \in {0, 1}}
  \cup {<<Dynamic1(TRUE, {}, 1), Dynamic1(TRUE, {}, 0)>>, <<Dynamic1(TRUE, {1}, 1)>>}
=============================================================================
