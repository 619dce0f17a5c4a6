------------------------------- MODULE Sharing -------------------------------
(***************************************************************************)
(* Shared access: who can open the vault, who can read which secret, and   *)
(* what the commands that share, revoke, write and rotate do to that       *)
(* (`dl share`, `dl cert migrate`, `dl set`, `dl migrate`, `dl unset`,     *)
(* `dl rotate`).                                                           *)
(*                                                                         *)
(* A command is one step here: VaultTxn and VaultCommands are about what   *)
(* happens inside and between commands.  A key opens what it has sealed    *)
(* and nothing else; a DEK is <<c, "dek">> and the key of a secret is      *)
(* <<c, name>>, for the command c that made it.  A public key belongs to a *)
(* person and is legacy (RSA) or modern; its fingerprint is that pair.     *)
(* Hash and MAC of vault.toml follow from its content and are left out:    *)
(* what they do here is to make a stale project key fail.                  *)
(***************************************************************************)
EXTENDS Naturals, FiniteSets, SequencesExt

CONSTANTS
  People,            \* those who have a clone of the project
  Owners,            \* those among them who know the master password
  Names,             \* the names of secrets
  Starts,            \* the vaults at the start: [kind, rsa], see Init
  MaxOps             \* bound: commands

ASSUME PeopleAssumption == IsFiniteSet(People)
ASSUME OwnersAssumption == Owners \subseteq People /\ Owners # {}
ASSUME StartsAssumption ==
  Starts \subseteq [kind : {"master", "signed", "unsigned", "direct"}, rsa : SUBSET People]
ASSUME MaxOpsAssumption == MaxOps \in Nat

None   == 0
Legacy == 1                              \* RSA
Modern == 2                              \* Ed25519
Keys   == {Legacy, Modern}
NoKey  == <<0, "none">>
NoOne  == <<"nobody", None>>

VARIABLES
  vault,             \* vault.toml: old (before version 5), shared, dek, wraps
                     \* (record id -> key), rcpts and signers
  secrets,           \* secrets.lock: secrets[n] is [id, key] of the record of n
  ident,             \* ident[p]: the key pair `now` of p, and the archived `old`
  ops,               \* commands so far
  aim                \* history: whom the last command was to give or take access

vars == <<vault, secrets, ident, ops, aim>>

Override(f, g)  == [i \in DOMAIN f \cup DOMAIN g |-> IF i \in DOMAIN g THEN g[i] ELSE f[i]]
Insert(f, k, x) == Override(f, [i \in {k} |-> x])
Without(f, ks)  == [i \in DOMAIN f \ ks |-> f[i]]
Empty           == [i \in {} |-> NoKey]

NoRecord   == [id |-> <<>>, key |-> NoKey]
Present(s) == {n \in Names : s[n] # NoRecord}
IdsOf(s)   == {s[n].id : n \in Present(s)}

-----------------------------------------------------------------------------
(* Reading.                                                                 *)

(* recipient_grant_is_valid *)
ValidGrant(r, signers) == r.by \in signers
(* No key for a recipient without a valid grant, once there are signers. *)
MayGet(v, r) == v.signers = {} \/ ValidGrant(r, v.signers)

(* Where the first recipient with this fingerprint is, or 0. *)
At(v, fp) == SelectInSeq(v.rcpts, LAMBDA r : r.fp = fp)

(* find_local_recipient: by the current key pair, or by the archived one. *)
LocalAt(v, p) ==
  LET now == At(v, <<p, ident[p].now>>)
  IN  IF ident[p].now # None /\ now # 0 THEN now ELSE At(v, <<p, ident[p].old>>)

(* How p unlocks.  A recipient whose project key is stale fails the MAC, and
   the master password is not asked for; a recipient without any key is sent
   to it. *)
Access(v, p) ==
  LET i == LocalAt(v, p)
      password == IF p \in Owners THEN "full" ELSE "denied"
  IN  IF ~v.shared \/ i = 0 THEN password
      ELSE CASE v.rcpts[i].dek = v.dek -> "full"
             [] v.rcpts[i].dek \notin {v.dek, NoKey} -> "tampered"
             [] v.rcpts[i].dek = NoKey -> IF DOMAIN v.rcpts[i].sdks # {}
                                          THEN "limited" ELSE password

(* secret_key_from_project_key_or_legacy *)
DekOpens(v, r) ==
  IF r.id \in DOMAIN v.wraps THEN v.wraps[r.id] = [sdk |-> r.key, under |-> v.dek]
                             ELSE v.old /\ r.key = v.dek

(* secret_sdk_from_local_identity: the first key pair that finds one. *)
OwnWrappings(v, p, r) ==
  LET has(k) == k # None /\ At(v, <<p, k>>) # 0
                /\ r.id \in DOMAIN v.rcpts[At(v, <<p, k>>)].sdks
      sdk(k) == v.rcpts[At(v, <<p, k>>)].sdks[r.id]
  IN  CASE has(ident[p].now)  -> {sdk(ident[p].now)}
        [] ~has(ident[p].now) -> IF has(ident[p].old) THEN {sdk(ident[p].old)} ELSE {}

(* decrypt_secret_value, after an unlock. *)
CanRead(v, s, p, n) ==
  /\ Access(v, p) \in {"full", "limited"}
  /\ IF ~v.shared THEN DekOpens(v, s[n])
     ELSE LET own == OwnWrappings(v, p, s[n])
          IN  IF own = {} THEN v.rcpts = <<>> /\ DekOpens(v, s[n]) ELSE own = {s[n].key}

(* reject_limited_identity_write *)
Limited(v, p) ==
  v.shared /\ \E k \in {ident[p].now, ident[p].old} \ {None} :
                At(v, <<p, k>>) # 0 /\ v.rcpts[At(v, <<p, k>>)].dek = NoKey

-----------------------------------------------------------------------------
(* Writing: what the commands make of the vault v and the records s.        *)

Dek    == <<ops + 1, "dek">>
Sdk(n) == <<ops + 1, n>>

(* Every commit seals, and sealing raises the version to 7. *)
Sealed(v) == [v EXCEPT !.old = FALSE]

Each(v, F(_)) == [v EXCEPT !.rcpts = [i \in DOMAIN v.rcpts |-> F(v.rcpts[i])]]

(* Bug of the mutants: a recipient gets a new key only if it had one. *)
WrapForKnown(v, sdks) ==
  LET known(r) == [i \in DOMAIN sdks \cap DOMAIN r.sdks |-> sdks[i]]
      wrap(r)  == [r EXCEPT !.sdks = Override(@, known(r))]
  IN  [Each(v, wrap) EXCEPT
        !.wraps = Override(@, [i \in DOMAIN sdks |-> [sdk |-> sdks[i], under |-> v.dek]])]

(* A key for each record of sdks: wrapped for the project and, by
   wrap_sdk_for_authorized_full_access_recipients, for those with full access. *)
Wrap(v, sdks) ==
  LET wrap(r) == IF r.full /\ MayGet(v, r) THEN [r EXCEPT !.sdks = Override(@, sdks)] ELSE r
  IN  [Each(v, wrap) EXCEPT
        !.wraps = Override(@, [i \in DOMAIN sdks |-> [sdk |-> sdks[i], under |-> v.dek]])]

(* upsert_record, for the names of ns: the key of a wrapped record stays. *)
UpsertMany(v, s, ns) ==
  LET id(n)  == IF s[n] = NoRecord THEN <<n, ops + 1>> ELSE s[n].id
      sdk(n) == IF id(n) \in DOMAIN v.wraps THEN v.wraps[id(n)].sdk ELSE Sdk(n)
  IN  [vault   |-> Wrap(v, [i \in {id(n) : n \in ns} |-> sdk(i[1])]),
       secrets |-> [n \in Names |-> IF n \in ns THEN [id |-> id(n), key |-> sdk(n)]
                                    ELSE s[n]]]

Unwrapped(v, s) == {n \in Present(s) : s[n].id \notin DOMAIN v.wraps}

(* migrate_all_secrets_to_envelope: every record gets a key of its own. *)
MigrateAll(v, s) ==
  LET ns == Unwrapped(v, s)
      w  == Wrap(v, [i \in {s[n].id : n \in ns} |-> Sdk(i[1])])
  IN  [vault   |-> IF ns = {} THEN v ELSE Sealed(w),
       secrets |-> [n \in Names |-> IF n \in ns THEN [s[n] EXCEPT !.key = Sdk(n)] ELSE s[n]]]

(* Bug of the mutants: the recipients keep the old project key. *)
RotatedForNobody(v) ==
  Sealed([v EXCEPT !.dek = Dek,
                   !.wraps = [i \in DOMAIN v.wraps |-> [v.wraps[i] EXCEPT !.under = Dek]]])

(* rotate_project_key_wrapping: wrappings and recipients get a new key. *)
Rotated(v) ==
  LET rewrap(r) == IF r.dek # NoKey /\ MayGet(v, r) THEN [r EXCEPT !.dek = Dek] ELSE r
  IN  Sealed([Each(v, rewrap) EXCEPT
               !.dek = Dek,
               !.wraps = [i \in DOMAIN v.wraps |-> [v.wraps[i] EXCEPT !.under = Dek]]])

(* wrap_allowed_sdks *)
Allowed(v, ids) == [i \in ids \cap DOMAIN v.wraps |-> v.wraps[i].sdk]

(* Bug of the mutants: the others lose their grants to the new signer. *)
BlessedNone(v, signer) == [v EXCEPT !.signers = {signer}]

(* bless_recipient_grants, with the signer added. *)
Blessed(v, signer) ==
  LET signers  == v.signers \cup {signer}
      bless(r) == IF ValidGrant(r, signers) THEN r ELSE [r EXCEPT !.by = signer]
  IN  [Each(v, bless) EXCEPT !.signers = signers]

(* grant_recipient_with_secret_ids *)
Granted(v, fp, ids, full, signer) ==
  LET r == [fp |-> fp, dek |-> IF full THEN v.dek ELSE NoKey,
            sdks |-> Allowed(v, IF full THEN DOMAIN v.wraps ELSE ids),
            full |-> full, by |-> signer]
      rcpts == IF At(v, fp) # 0 THEN [v.rcpts EXCEPT ![At(v, fp)] = r] ELSE Append(v.rcpts, r)
  IN  Sealed(Blessed([v EXCEPT !.shared = TRUE, !.rcpts = rcpts], signer))

(* revoke_recipient_in_memory, and revoke_recipient_and_rotate *)
Dropped(v, i) == [v EXCEPT !.rcpts = RemoveAt(v.rcpts, i)]
RevokedAndRotated(v, i) == Rotated(Dropped(v, i))

-----------------------------------------------------------------------------

Init ==
  /\ \E start \in Starts, present \in SUBSET Names, members \in SUBSET People :
     \E order \in SetToSeqs(members) :
       LET dek    == <<0, "dek">>
           direct == start.kind = "direct"
           key(p) == IF p \in start.rsa THEN Legacy ELSE Modern
           signer == <<CHOOSE o \in Owners : TRUE, key(CHOOSE o \in Owners : TRUE)>>
           signed == start.kind = "signed"
           all    == [i \in present \X {0} |-> <<0, i[1]>>]
           entry(p) == [fp |-> <<p, key(p)>>, dek |-> dek, sdks |-> all, full |-> TRUE,
                        by |-> IF signed THEN signer ELSE NoOne]
           shared == start.kind \in {"signed", "unsigned"}
       IN  /\ shared <=> members # {}
           /\ vault = [old |-> direct, shared |-> shared, dek |-> dek,
                       wraps |-> IF direct THEN Empty
                                 ELSE [i \in DOMAIN all |-> [sdk |-> all[i], under |-> dek]],
                       rcpts |-> [i \in DOMAIN order |-> entry(order[i])],
                       signers |-> IF signed THEN {signer} ELSE {}]
           /\ secrets = [n \in Names |-> IF n \in present
                THEN [id |-> <<n, 0>>, key |-> IF direct THEN dek ELSE <<0, n>>] ELSE NoRecord]
           /\ \E without \in {{}, IF shared THEN People \ (members \cup Owners) ELSE People} :
                ident = [p \in People |->
                  [now |-> IF p \in without THEN None ELSE key(p), old |-> None]]
  /\ ops = 0 /\ aim = {}

Command(whom) == ops < MaxOps /\ ops' = ops + 1 /\ aim' = whom
Commit(v)     == vault' = v /\ UNCHANGED <<secrets, ident>>

(* Commands by those who unlock with full access.                           *)

EnableShared(p) ==
  /\ Access(vault, p) = "full" /\ Command({})
  /\ Commit(Sealed([vault EXCEPT !.shared = TRUE]))

(* `dl config set`: nothing but the seal matters here. *)
Configure(p) ==
  /\ Access(vault, p) = "full" /\ Command({})
  /\ Commit(Sealed(vault))

(* `dl set` for one name, `dl migrate` for several. *)
Upsert(p, ns) ==
  /\ Access(vault, p) = "full" /\ ~Limited(vault, p) /\ Command({})
  /\ LET new == UpsertMany(Sealed(vault), secrets, ns)
     IN  vault' = new.vault /\ secrets' = new.secrets
  /\ UNCHANGED ident

Unset(p, n) ==
  /\ Access(vault, p) = "full" /\ ~Limited(vault, p) /\ Command({})
  /\ secrets[n] # NoRecord
  /\ LET drop(r) == [r EXCEPT !.sdks = Without(@, {secrets[n].id})]
     IN  vault' = Sealed([Each(vault, drop) EXCEPT
                           !.wraps = Without(vault.wraps, {secrets[n].id})])
  /\ secrets' = [secrets EXCEPT ![n] = NoRecord]
  /\ UNCHANGED ident

(* Commands that ask for the master password.                               *)

Rotate(o) == o \in Owners /\ Command({}) /\ Commit(Rotated(vault))

Revoke(o, fp) ==
  /\ o \in Owners /\ At(vault, fp) # 0 /\ Command({fp[1]})
  /\ Commit(RevokedAndRotated(vault, At(vault, fp)))

(* Grant and allow first migrate the records, if they can be decrypted. *)
MayManage(o) ==
  /\ o \in Owners /\ ~Limited(vault, o)
  /\ \A n \in Unwrapped(vault, secrets) : secrets[n].key = vault.dek

(* The grant itself needs the identity of the owner, who signs it. *)
Grant(o, p, ids, full) ==
  /\ MayManage(o) /\ ident[p].now # None /\ Command({p})
  /\ LET new == MigrateAll(vault, secrets) IN
       /\ secrets' = new.secrets
       /\ vault' = IF ident[o].now = None THEN new.vault
                   ELSE Granted(new.vault, <<p, ident[p].now>>, ids, full,
                                <<o, ident[o].now>>)
  /\ UNCHANGED ident

(* add_recipient_secret_ids *)
AllowAdd(o, fp, n) ==
  /\ MayManage(o) /\ At(vault, fp) # 0 /\ secrets[n] # NoRecord /\ Command({fp[1]})
  /\ LET new == MigrateAll(vault, secrets)
         v   == new.vault
         id  == secrets[n].id
         i   == At(v, fp)
         more == IF id \in DOMAIN v.rcpts[i].sdks \/ id \notin DOMAIN v.wraps
                 THEN v.rcpts[i].sdks ELSE Insert(v.rcpts[i].sdks, id, v.wraps[id].sdk)
     IN  /\ vault' = Sealed([v EXCEPT !.rcpts[i].sdks = more, !.rcpts[i].full = FALSE])
         /\ secrets' = new.secrets
  /\ UNCHANGED ident

(* Bug of the mutants: the new key is not wrapped for the project. *)
RewrappedUnkept(v, i, id, sdk) ==
  [v EXCEPT !.rcpts = [j \in DOMAIN v.rcpts |->
                        [v.rcpts[j] EXCEPT !.sdks = IF j = i THEN Without(@, {id})
                                                    ELSE Insert(@, id, sdk)]]]

(* What rotate_secret_sdks_after_acl_removal does for one record. *)
Rewrapped(v, i, id, sdk) ==
  LET other(r) == IF MayGet(v, r) /\ (r.full \/ id \in DOMAIN r.sdks)
                  THEN [r EXCEPT !.sdks = Insert(@, id, sdk)] ELSE r
      rcpt(j)  == IF j = i THEN [v.rcpts[j] EXCEPT !.sdks = Without(@, {id}), !.full = FALSE]
                  ELSE other(v.rcpts[j])
  IN  [v EXCEPT !.wraps[id] = [sdk |-> sdk, under |-> v.dek],
                !.rcpts = [j \in DOMAIN v.rcpts |-> rcpt(j)]]

AllowRemove(o, fp, n) ==
  /\ MayManage(o) /\ At(vault, fp) # 0 /\ secrets[n] # NoRecord /\ Command({fp[1]})
  /\ LET new == MigrateAll(vault, secrets)
         v   == new.vault
         id  == secrets[n].id
         has == id \in DOMAIN v.rcpts[At(v, fp)].sdks
         sdk == <<ops + 1, "allow">>
     IN  /\ vault' = Sealed(IF has THEN Rewrapped(v, At(v, fp), id, sdk) ELSE v)
         /\ secrets' = IF has THEN [new.secrets EXCEPT ![n].key = sdk] ELSE new.secrets
  /\ UNCHANGED ident

-----------------------------------------------------------------------------
(* dl cert: the identity of p, and its entry in this vault.                 *)

InitIdentity(p) ==
  /\ ident[p].now = None /\ Command({})
  /\ ident' = [ident EXCEPT ![p].now = Modern]
  /\ UNCHANGED <<vault, secrets>>

MigrateIdentity(p) ==
  /\ ident[p].now = Legacy /\ Command({})
  /\ ident' = [ident EXCEPT ![p] = [now |-> Modern, old |-> Legacy]]
  /\ UNCHANGED <<vault, secrets>>

(* migrate_recipient_identity *)
Rekeyed(v, i, fp) ==
  LET r   == v.rcpts[i]
      dek == IF r.dek = NoKey THEN NoKey ELSE v.dek
  IN  [v EXCEPT !.rcpts[i] = [r EXCEPT !.fp = fp, !.by = fp, !.dek = dek,
                                       !.sdks = Allowed(v, DOMAIN r.sdks)],
                !.signers = @ \cup {fp}]

(* The second half of `dl cert migrate`: unlocks with the archived key. *)
Rekey(p) ==
  LET i == At(vault, <<p, ident[p].old>>) IN
  /\ ident[p].old # None /\ i # 0 /\ vault.rcpts[i].dek = vault.dek
  /\ Command({})
  /\ Commit(Sealed(Rekeyed(vault, i, <<p, ident[p].now>>)))

Next ==
  \/ \E p \in People :
       \/ EnableShared(p) \/ Configure(p)
       \/ \E ns \in SUBSET Names \ {{}} : Upsert(p, ns)
       \/ \E n \in Names : Unset(p, n)
       \/ InitIdentity(p) \/ MigrateIdentity(p) \/ Rekey(p)
  \/ \E o \in Owners :
       \/ Rotate(o)
       \/ \E p \in People, ns \in SUBSET Present(secrets) \ {{}} :
            Grant(o, p, {secrets[n].id : n \in ns}, FALSE)
       \/ \E p \in People : Grant(o, p, {}, TRUE)
       \/ \E fp \in People \X Keys :
            \/ Revoke(o, fp)
            \/ \E n \in Names : AllowAdd(o, fp, n) \/ AllowRemove(o, fp, n)

Spec == Init /\ [][Next]_vars

-----------------------------------------------------------------------------

Recipients(v) == {v.rcpts[i] : i \in DOMAIN v.rcpts}

(* Types; a recipient is never of nobody, and keys come from commands. *)
TypeOK ==
  /\ vault.old \in BOOLEAN /\ vault.shared \in BOOLEAN
  /\ vault.dek \in (0 .. MaxOps) \X {"dek"} /\ DOMAIN vault.wraps \subseteq Names \X (0 .. MaxOps)
  /\ vault.signers \subseteq People \X Keys
  /\ \A r \in Recipients(vault) :
       /\ r.fp \in People \X Keys /\ r.full \in BOOLEAN
       /\ r.by \in (People \X Keys) \cup {NoOne}
  /\ \A p \in People : ident[p].now \in Keys \cup {None} /\ ident[p].old \in {None, Legacy}
  /\ ops \in 0 .. MaxOps /\ aim \subseteq People

(* No stale wrapping: whatever was shared, taken away, written and rotated in
   whatever order, every record opens with the project key, and every recipient
   with a valid grant holds the keys of now - all of them, if it has full
   access, and none of a record that is gone. *)
WrappingsCurrent ==
  /\ DOMAIN vault.wraps = IdsOf(secrets)
  /\ \A n \in Present(secrets) : DekOpens(vault, secrets[n])
  /\ \A r \in Recipients(vault) : MayGet(vault, r) =>
       /\ r.dek \in {vault.dek, NoKey}
       /\ \A i \in DOMAIN r.sdks : i \in DOMAIN vault.wraps /\ r.sdks[i] = vault.wraps[i].sdk
       /\ r.full => DOMAIN r.sdks = DOMAIN vault.wraps

(* Full access means every secret, through whichever key pair (current or
   archived) the entry is found, and it is never refused as tampering. *)
FullReadsAll ==
  \A p \in People :
    LET i == LocalAt(vault, p) IN
      vault.shared /\ i # 0 /\ vault.rcpts[i].full /\ MayGet(vault, vault.rcpts[i]) =>
        Access(vault, p) = "full" /\ \A n \in Present(secrets) : CanRead(vault, secrets, p, n)

(* How many entries p has: two, if he was granted access again after he made a
   new key pair and before `dl cert migrate` replaced the entry of the old. *)
EntriesOf(v, p) == Cardinality({i \in DOMAIN v.rcpts : v.rcpts[i].fp[1] = p})

(* Nobody who is a recipient loses a secret by a command that is not about him
   (migrate_recipient_identity: "Other recipients are untouched, so mixed
   RSA/X25519 vaults keep working"), his own migration included. *)
RecipientsKeepReading ==
  [][\A p \in People, n \in Names :
       /\ EntriesOf(vault, p) = 1 /\ LocalAt(vault, p) # 0
       /\ secrets[n] # NoRecord /\ CanRead(vault, secrets, p, n)
       /\ secrets'[n].id = secrets[n].id /\ p \notin aim'
       => CanRead(vault, secrets, p, n)']_vars

(* An owner gets back to every secret with the master password: he revokes what
   entries he has, up to two of the new key pair (see EntriesOf), and grants
   himself full access. *)
OwnerRegainsAll ==
  \A o \in Owners : ident[o].now # None =>
    LET revoke(v, k) == LET i == At(v, <<o, k>>)
                        IN  IF i = 0 THEN v ELSE RevokedAndRotated(v, i)
        none  == revoke(revoke(revoke(vault, Legacy), Modern), Modern)
        fp    == <<o, ident[o].now>>
        again == Granted(none, fp, {}, TRUE, fp)
    IN  \A n \in Present(secrets) : CanRead(again, secrets, o, n)

(* README.md:458 "Revocation rotates project access material so the revoked
   identity cannot unlock future vault states". *)
RevokedIsOut ==
  [][\A p \in People :
       aim' = {p} /\ Len(vault'.rcpts) < Len(vault.rcpts)
         /\ At(vault, <<p, Modern>>) # At(vault', <<p, Modern>>)
       => At(vault', <<p, Modern>>) = 0]_vars

(* secrets_lock.rs:532 "Pre-v5 vaults keep the legacy DEK-direct behavior". *)
ProjectKeyOpensAll == \A n \in Present(secrets) : DekOpens(vault, secrets[n])

(* domain/vault.rs:301 "write requires full-access recipient or master
   password": the master password is enough. *)
MasterPasswordWrites == \A o \in Owners : Access(vault, o) = "full" => ~Limited(vault, o)

(* README.md:376 "the project owner keeps the master password, and recipients
   unlock with their own private key". *)
OwnerKeepsReading ==
  [][\A o \in Owners, n \in Names :
       CanRead(vault, secrets, o, n) /\ secrets'[n].id = secrets[n].id /\ o \notin aim'
       => CanRead(vault, secrets, o, n)']_vars
=============================================================================
