---------------------------- MODULE VaultCommands ----------------------------
(***************************************************************************)
(* Whole `dl` commands over one vault: unlock, then read or write.         *)
(*                                                                         *)
(* A command reads vault.toml once, unlocks (session cache or password),   *)
(* checks the rollback anchor and the secrets hash, and then works on the  *)
(* metadata it has in memory.  Some mutators take the pair lock before     *)
(* they look at the pair again (`dl set`, `dl unset`); the others take it  *)
(* only inside commit_vault_pair.                                          *)
(*                                                                         *)
(*   - a commit of the pair is one step: VaultTxn implements an atomic     *)
(*     pair (its theorem Refinement), lock included;                       *)
(*   - the hash of secrets.lock is its content; the project key, the SDKs, *)
(*     the record ids and the values are numbers, minted fresh;            *)
(*   - the metadata MAC, the encrypted hash and the SDK wrappings of a     *)
(*     vault.toml are all under its project key `dek`; a command that does *)
(*     not hold that key fails on the MAC first;                           *)
(*   - a crash and every error return are the same step: the lock goes,    *)
(*     the files stay.                                                     *)
(***************************************************************************)
EXTENDS Integers

CONSTANTS
  Procs,             \* the `dl` processes
  NoProc,            \* nobody: the lock is free
  Names,             \* the names of secrets
  Can,               \* Can[p]: the commands p may run
  RatchetAfter,      \* auto_ratchet_after_writes, 0 if it is not set
  Damaged,           \* what a partial restore or an old merge left: see Init
  MaxCalls           \* bound: the mutating commands of a behaviour

LockedOps   == {"set", "unset"}
MasterOps   == {"rotate", "allow"}      \* always ask for the master password
MetaOps     == {"config", "rotate"}     \* commit metadata only
Mutators    == LockedOps \cup MasterOps \cup MetaOps \cup {"repair"}
Ops         == Mutators \cup {"get"}
NamedOps    == LockedOps \cup {"get", "allow"}    \* name a secret

ASSUME NoProcAssumption == NoProc \notin Procs
ASSUME CanAssumption == Can \in [Procs -> SUBSET Ops]
ASSUME RatchetAfterAssumption == RatchetAfter \in Nat
ASSUME DamagedAssumption == Damaged \in BOOLEAN
ASSUME MaxCallsAssumption == MaxCalls \in Nat

VARIABLES
  vault,             \* vault.toml: epoch, dek, the writes since dek was made,
                     \* wraps (record id -> SDK) and the hash of secrets.lock
  secrets,           \* secrets.lock: secrets[n] is the record of name n
  lock,              \* the holder of the pair lock, or NoProc
  anchor,            \* the per-user rollback anchor, 0 if there is none
  cache,             \* the project key in the session cache, 0 if none
  pc,                \* pc[p]: what p does next
  op,                \* op[p]: p's command and the secret it names
  meta,              \* meta[p]: the metadata p has in memory
  key,               \* key[p]: the project key p holds
  phase,             \* phase[p]: where that key comes from
  file,              \* file[p]: the secrets.lock p loaded without the lock
  installed,         \* installed[p]: p is inside commit_vault_pair, past the renames
  fresh,             \* the newest number minted
  calls,             \* mutating commands started (bounded by MaxCalls)
  overtaken,         \* history: commands during which another one committed
  alarms             \* history: errors of commands nobody overtook

disk    == <<vault, secrets>>
mine    == <<op, meta, key, phase, file, installed>>
bounds  == <<fresh, calls>>
history == <<overtaken, alarms>>
vars    == <<disk, lock, anchor, cache, pc, mine, bounds, history>>

NoKey    == 0
NoName   == "none"
NoOp     == [cmd |-> "none", name |-> NoName]
NoRecord == [at |-> 0, sdk |-> 0, val |-> 0]
NoFile   == [n \in Names |-> NoRecord]
LostHash == [n \in {} |-> NoRecord]    \* a sealed hash that dek does not open
BadWrap  == 0                          \* a wrapping that dek does not open
NoMeta   == [epoch |-> 0, dek |-> NoKey, writes |-> 0,
             wraps |-> [i \in {} |-> 0], hash |-> NoFile]

Cmd(p) == op[p].cmd

(* The uuid of a record: minted with it, so it outlives neither. *)
Id(s, n) == <<n, s[n].at>>

Insert(w, id, sdk) == [i \in DOMAIN w \cup {id} |-> IF i = id THEN sdk ELSE w[i]]
Drop(w, ids) == [i \in DOMAIN w \ ids |-> w[i]]

(* Every wrapping of vault.toml opens under its project key, be there a record
   for it or not. *)
Unbroken(m) == \A i \in DOMAIN m.wraps : m.wraps[i] # BadWrap

(* The record of n decrypts under the SDK that the metadata wraps for it. *)
Readable(m, s, n) ==
  s[n] # NoRecord => Id(s, n) \in DOMAIN m.wraps /\ m.wraps[Id(s, n)] = s[n].sdk

(* Any set of names may have a secret when the behaviour begins.  A partial
   restore of a backup, a lost journal or an old merge may have left a hash of
   another secrets.lock or one that does not open; records without a wrapping,
   with that of another SDK or with one that does not open, and such wrappings
   without a record; and a vault.toml older than the anchor. *)
Init ==
  /\ \E present \in SUBSET Names, wrapped \in SUBSET Names :
     \E wrapping \in [wrapped -> IF Damaged THEN {BadWrap, 1, 2} ELSE {1}] :
       /\ wrapped = present \/ Damaged
       /\ secrets = [n \in Names |-> IF n \in present
                       THEN [at |-> 1, sdk |-> 1, val |-> 1] ELSE NoRecord]
       /\ vault \in [epoch : {1}, dek : {1}, writes : {0},
                     wraps : {[i \in wrapped \X {1} |-> wrapping[i[1]]]},
                     hash : IF Damaged THEN {secrets, NoFile, LostHash} ELSE {secrets}]
  /\ lock = NoProc /\ cache = NoKey
  /\ anchor \in {0, 1} \cup (IF Damaged THEN {3} ELSE {})
  /\ pc = [p \in Procs |-> "idle"]
  /\ op = [p \in Procs |-> NoOp]
  /\ meta = [p \in Procs |-> NoMeta]
  /\ key = [p \in Procs |-> NoKey]
  /\ phase = [p \in Procs |-> "none"]
  /\ file = [p \in Procs |-> NoFile]
  /\ installed = [p \in Procs |-> FALSE]
  /\ fresh = (IF Damaged THEN 2 ELSE 1) /\ calls = 0
  /\ overtaken = {} /\ alarms = {}

Goto(p, label) == pc' = [pc EXCEPT ![p] = label]

(* The command returns, fails or dies: its locals are gone and so is its lock. *)
End(p) ==
  /\ Goto(p, "idle")
  /\ lock' = IF lock = p THEN NoProc ELSE lock
  /\ op' = [op EXCEPT ![p] = NoOp]
  /\ meta' = [meta EXCEPT ![p] = NoMeta]
  /\ key' = [key EXCEPT ![p] = NoKey]
  /\ phase' = [phase EXCEPT ![p] = "none"]
  /\ file' = [file EXCEPT ![p] = NoFile]
  /\ installed' = [installed EXCEPT ![p] = FALSE]
  /\ overtaken' = overtaken \ {p}

(* The pair on disk opens: the sealed hash is that of secrets.lock, and every
   record decrypts under an SDK that vault.toml wraps. *)
PairUsable ==
  /\ vault.hash = secrets
  /\ \A n \in Names : Readable(vault, secrets, n)

(* The anchor is not ahead of the vault: if it is, every unlock on the machine
   is refused as a rollback. *)
AnchorNotAhead == anchor <= vault.epoch

(* Nothing is left of a partial restore or an old merge. *)
Healthy == PairUsable /\ Unbroken(vault) /\ AnchorNotAhead

(* The command fails with an error that a user takes for damage, and is right
   if the vault began damaged and still is. *)
Fail(p, error) ==
  /\ End(p)
  /\ alarms' = IF p \in overtaken \/ (Damaged /\ ~Healthy)
               THEN alarms ELSE alarms \cup {error}

-----------------------------------------------------------------------------
(* Unlock (prepare_vault_access, unlock_vault_prepared).                    *)

Start(p, cmd, n) ==
  /\ pc[p] = "idle" /\ cmd \in Can[p]
  /\ cmd \in NamedOps <=> n # NoName
  /\ IF cmd \in Mutators THEN calls < MaxCalls /\ calls' = calls + 1
                         ELSE UNCHANGED calls
  /\ op' = [op EXCEPT ![p] = [cmd |-> cmd, name |-> n]]
  /\ Goto(p, "readVault")
  /\ UNCHANGED <<disk, lock, anchor, cache, meta, key, phase, file, installed,
                 fresh, history>>

(* The one read of vault.toml of a command. *)
ReadVault(p) ==
  /\ pc[p] = "readVault"
  /\ meta' = [meta EXCEPT ![p] = vault]
  /\ Goto(p, "key")
  /\ UNCHANGED <<disk, lock, anchor, cache, op, key, phase, file, installed,
                 bounds, history>>

(* The session cache is consulted first; a key that does not verify the MAC
   makes the command fail and empties the cache. *)
UseCachedKey(p) ==
  /\ pc[p] = "key" /\ Cmd(p) \notin MasterOps \cup {"repair"}
  /\ cache # NoKey
  /\ IF cache = meta[p].dek
     THEN /\ key' = [key EXCEPT ![p] = cache]
          /\ phase' = [phase EXCEPT ![p] = "cached"]
          /\ Goto(p, "anchor")
          /\ UNCHANGED <<cache, lock, op, meta, file, installed, history>>
     ELSE cache' = NoKey /\ Fail(p, "MetadataTampered")
  /\ UNCHANGED <<disk, anchor, bounds>>

(* The password, or the local identity, unwraps the key of the vault.toml
   that was read.  A cache that was consulted had expired and is shredded. *)
UsePassword(p) ==
  /\ pc[p] = "key"
  /\ key' = [key EXCEPT ![p] = meta[p].dek]
  /\ phase' = [phase EXCEPT ![p] = "password"]
  /\ cache' = IF Cmd(p) \in MasterOps \cup {"repair"} THEN cache ELSE NoKey
  /\ Goto(p, IF Cmd(p) = "repair" THEN "diagnose" ELSE "anchor")
  /\ UNCHANGED <<disk, lock, anchor, op, meta, file, installed, bounds, history>>

(* Bug of the mutants: the newest vault seen is refused as well. *)
EnforceAnchorStrictly(p) ==
  /\ pc[p] = "anchor"
  /\ IF meta[p].epoch <= anchor
     THEN Fail(p, "VaultRolledBack")
     ELSE Goto(p, "compare") /\ UNCHANGED <<lock, mine, history>>
  /\ UNCHANGED <<disk, anchor, cache, bounds>>

(* A vault older than the newest one seen on this machine is refused, or
   accepted by the user (DOTLOCK_ALLOW_VAULT_ROLLBACK=1): the anchor stays. *)
EnforceAnchor(p) ==
  /\ pc[p] = "anchor"
  /\ \/ meta[p].epoch < anchor /\ Fail(p, "VaultRolledBack")
     \/ /\ meta[p].epoch < anchor
        /\ Goto(p, "verify") /\ UNCHANGED <<lock, mine, history>>
     \/ /\ meta[p].epoch >= anchor
        /\ Goto(p, "compare") /\ UNCHANGED <<lock, mine, history>>
  /\ UNCHANGED <<disk, anchor, cache, bounds>>

(* The anchor belongs to two callers: an unlock, which verifies the secrets
   next, and commit_vault_pair, which is about to drop its lock. *)
AfterAnchor(p) == Goto(p, IF installed[p] THEN "release" ELSE "verify")

(* advance_epoch: the stored epoch is read ... *)
CompareAnchor(p) ==
  /\ pc[p] = "compare"
  /\ IF anchor >= meta[p].epoch THEN AfterAnchor(p) ELSE Goto(p, "write")
  /\ UNCHANGED <<disk, lock, anchor, cache, mine, bounds, history>>

(* Bug of the mutants: the epoch of the next commit is anchored. *)
WriteNextAnchor(p) ==
  /\ pc[p] = "write"
  /\ anchor' = meta[p].epoch + 1
  /\ AfterAnchor(p)
  /\ UNCHANGED <<disk, lock, cache, mine, bounds, history>>

(* ... and replaced, with nothing in between to keep others away. *)
WriteAnchor(p) ==
  /\ pc[p] = "write"
  /\ anchor' = meta[p].epoch
  /\ AfterAnchor(p)
  /\ UNCHANGED <<disk, lock, cache, mine, bounds, history>>

(* secrets.lock is hashed. *)
VerifySecrets(p) ==
  /\ pc[p] = "verify"
  /\ IF secrets = meta[p].hash
     THEN Goto(p, "cacheKey") /\ UNCHANGED <<cache, lock, mine, history>>
     ELSE /\ cache' = IF phase[p] = "cached" THEN NoKey ELSE cache
          /\ Fail(p, "TamperedSecretsFile")
  /\ UNCHANGED <<disk, anchor, bounds>>

(* The key is cached; a shared vault keeps no cache. *)
CacheKey(p) ==
  /\ pc[p] = "cacheKey"
  /\ cache' \in {key[p], NoKey}
  /\ Goto(p, "unlocked")
  /\ UNCHANGED <<disk, lock, anchor, mine, bounds, history>>

(* dl get: secrets.lock is read again, after it was verified. *)
Get(p) ==
  /\ pc[p] = "unlocked" /\ Cmd(p) = "get"
  /\ IF Readable(meta[p], secrets, op[p].name)
     THEN End(p) /\ UNCHANGED alarms
     ELSE Fail(p, "MissingSecretKeyWrapping")
  /\ UNCHANGED <<disk, anchor, cache, bounds>>

-----------------------------------------------------------------------------
(* Commits.                                                                 *)

(* seal_vault_metadata: the epoch advances and the MAC is computed anew. *)
Seal(m) == [m EXCEPT !.epoch = @ + 1]

(* record_vault_write *)
Count(m) == [m EXCEPT !.writes = @ + 1]

(* commit_vault_pair: both files change at once, under the lock, and the
   anchor is advanced before the lock is dropped. *)
CommitPair(p, m, s) ==
  /\ vault' = Seal(m) /\ secrets' = s
  /\ meta' = [meta EXCEPT ![p] = Seal(m)]
  /\ lock' = p
  /\ installed' = [installed EXCEPT ![p] = TRUE]
  /\ overtaken' = overtaken \cup {q \in Procs \ {p} : pc[q] \notin {"idle", "readVault"}}
  /\ Goto(p, "compare")
  /\ UNCHANGED <<anchor, cache, op, file, calls, alarms>>

(* Bug of the mutants: the hash is that of the old secrets.lock. *)
CommitSecretsOldHash(p, m, s) ==
  /\ CommitPair(p, Count(m), s)
  /\ UNCHANGED <<key, phase>>

(* commit_secrets_and_metadata: the hash is that of the new secrets.lock. *)
CommitSecrets(p, m, s) ==
  /\ CommitPair(p, [Count(m) EXCEPT !.hash = s], s)
  /\ UNCHANGED <<key, phase>>

(* The next write would reach the configured count (into_write). *)
RatchetDue(p) ==
  /\ RatchetAfter > 0 /\ meta[p].writes + 1 >= RatchetAfter
  /\ phase[p] \in {"cached", "password"}

(* The commands that take the lock before they look at the pair again. *)
WantLock(p) ==
  /\ pc[p] = "unlocked" /\ Cmd(p) \in LockedOps
  /\ ~RatchetDue(p) /\ phase[p] # "ratchet"
  /\ Goto(p, "wantLock")
  /\ UNCHANGED <<disk, lock, anchor, cache, mine, bounds, history>>

LockPair(p) ==
  /\ pc[p] = "wantLock" /\ lock = NoProc
  /\ lock' = p
  /\ Goto(p, IF Cmd(p) = "repair" THEN "reseal" ELSE "refresh")
  /\ UNCHANGED <<disk, anchor, cache, mine, bounds, history>>

(* Bug of the mutants: the metadata of the unlock are good enough. *)
RefreshNothing(p) ==
  /\ pc[p] = "refresh"
  /\ Goto(p, "modify")
  /\ UNCHANGED <<disk, lock, anchor, cache, mine, bounds, history>>

(* lock_pair_and_refresh_metadata: a newer vault.toml replaces the metadata
   in memory, if it verifies under the key the command holds. *)
Refresh(p) ==
  /\ pc[p] = "refresh"
  /\ IF vault.epoch > meta[p].epoch
     THEN \/ /\ vault.dek = key[p] /\ secrets = vault.hash
             /\ meta' = [meta EXCEPT ![p] = vault]
             /\ Goto(p, "modify")
             /\ UNCHANGED <<lock, op, key, phase, file, installed, history>>
          \/ ~(vault.dek = key[p] /\ secrets = vault.hash) /\ Fail(p, "MetadataTampered")
     ELSE Goto(p, "modify") /\ UNCHANGED <<lock, mine, history>>
  /\ UNCHANGED <<disk, anchor, cache, bounds>>

(* A wrapping that `dl set` would reuse, a rotation would rewrap or `dl share
   allow` would replace does not open, or its record does not decrypt. *)
CannotUnwrap(p) ==
  \/ /\ pc[p] = "modify" /\ Cmd(p) = "set"
     /\ secrets[op[p].name] # NoRecord
     /\ \E i \in DOMAIN meta[p].wraps :
          i = Id(secrets, op[p].name) /\ meta[p].wraps[i] = BadWrap
  \/ /\ pc[p] = "unlocked" /\ (Cmd(p) = "rotate" \/ phase[p] = "ratchet")
     /\ ~Unbroken(meta[p])
  \/ pc[p] = "reencrypt" /\ ~Readable(meta[p], file[p], op[p].name)

FailToUnwrap(p) ==
  /\ CannotUnwrap(p)
  /\ Fail(p, "Crypto")
  /\ UNCHANGED <<disk, anchor, cache, bounds>>

(* dl set: the record is created, or encrypted anew under the SDK that the
   metadata wraps for it, or under a fresh one. *)
CommitSet(p) ==
  /\ pc[p] = "modify" /\ Cmd(p) = "set"
  /\ ~CannotUnwrap(p)
  /\ fresh' = fresh + 1
  /\ LET n   == op[p].name
         at  == IF secrets[n] = NoRecord THEN fresh' ELSE secrets[n].at
         w   == meta[p].wraps
         sdk == IF <<n, at>> \in DOMAIN w THEN w[<<n, at>>] ELSE fresh'
     IN CommitSecrets(p, [meta[p] EXCEPT !.wraps = Insert(@, <<n, at>>, sdk)],
          [secrets EXCEPT ![n] = [at |-> at, sdk |-> sdk, val |-> fresh']])

(* dl unset: the record and its wrapping go, or there is none. *)
CommitUnset(p) ==
  /\ pc[p] = "modify" /\ Cmd(p) = "unset"
  /\ LET n == op[p].name IN
       \/ /\ secrets[n] = NoRecord
          /\ End(p)
          /\ UNCHANGED <<disk, anchor, cache, bounds, alarms>>
       \/ /\ secrets[n] # NoRecord
          /\ CommitSecrets(p, [meta[p] EXCEPT !.wraps = Drop(@, {Id(secrets, n)})],
                           [secrets EXCEPT ![n] = NoRecord])
          /\ UNCHANGED fresh

(* dl config set, dl share enable and grant, and a new master password: the
   metadata that was unlocked goes back, sealed, without another look. *)
CommitConfig(p) ==
  /\ pc[p] = "unlocked" /\ Cmd(p) = "config" /\ lock = NoProc
  /\ CommitPair(p, Count(meta[p]), secrets)
  /\ UNCHANGED <<key, phase, fresh>>

(* The ratchet: the master password is asked again, and the metadata that
   were unlocked are verified again. *)
StartRatchet(p) ==
  /\ pc[p] = "unlocked" /\ Cmd(p) \in LockedOps
  /\ RatchetDue(p)
  /\ phase' = [phase EXCEPT ![p] = "ratchet"]
  /\ Goto(p, "anchor")
  /\ UNCHANGED <<disk, lock, anchor, cache, op, meta, key, file, installed,
                 bounds, history>>

(* rotate_project_key: a new project key rewraps what the unlocked metadata
   holds; secrets.lock stays as it is. *)
CommitRotation(p) ==
  /\ pc[p] = "unlocked" /\ lock = NoProc
  /\ Cmd(p) = "rotate" \/ phase[p] = "ratchet"
  /\ ~CannotUnwrap(p)
  /\ fresh' = fresh + 1
  /\ CommitPair(p, [meta[p] EXCEPT !.dek = fresh', !.writes = 0], secrets)
  /\ key' = [key EXCEPT ![p] = fresh']
  /\ UNCHANGED phase

(* dl share allow --remove: a record without a wrapping is taken for a legacy
   one and does not decrypt as such; then the secret is looked up by its name
   and secrets.lock is loaded ... *)
LoadForAllow(p) ==
  /\ pc[p] = "unlocked" /\ Cmd(p) = "allow"
  /\ IF \A n \in Names : secrets[n] # NoRecord => Id(secrets, n) \in DOMAIN meta[p].wraps
     THEN \/ /\ secrets[op[p].name] = NoRecord
             /\ End(p) /\ UNCHANGED alarms
          \/ /\ secrets[op[p].name] # NoRecord
             /\ file' = [file EXCEPT ![p] = secrets]
             /\ Goto(p, "reencrypt")
             /\ UNCHANGED <<lock, op, meta, key, phase, installed, history>>
     ELSE Fail(p, "Crypto")
  /\ UNCHANGED <<disk, anchor, cache, bounds>>

(* Bug of the mutants: the fresh SDK is not wrapped. *)
CommitAllowUnwrapped(p) ==
  /\ pc[p] = "reencrypt" /\ lock = NoProc
  /\ ~CannotUnwrap(p)
  /\ fresh' = fresh + 1
  /\ CommitSecrets(p, meta[p], [file[p] EXCEPT ![op[p].name].sdk = fresh'])

(* ... and committed with the secret under a fresh SDK, *)
CommitAllow(p) ==
  /\ pc[p] = "reencrypt" /\ lock = NoProc
  /\ ~CannotUnwrap(p)
  /\ fresh' = fresh + 1
  /\ LET n == op[p].name
     IN CommitSecrets(p,
          [meta[p] EXCEPT !.wraps = Insert(@, Id(file[p], n), fresh')],
          [file[p] EXCEPT ![n].sdk = fresh'])

(* ... or as it was loaded, if the recipient did not hold the secret. *)
CommitAllowAsLoaded(p) ==
  /\ pc[p] = "reencrypt" /\ lock = NoProc
  /\ CommitSecrets(p, meta[p], file[p])
  /\ UNCHANGED fresh

(* dl repair: the records that cannot be read and the state of the hash are
   found before the lock is taken; a healthy vault is left alone. *)
Diagnose(p) ==
  /\ pc[p] = "diagnose"
  /\ \/ /\ secrets = meta[p].hash
        /\ \A n \in Names : Readable(meta[p], secrets, n)
        /\ End(p) /\ UNCHANGED alarms
     \/ /\ ~(/\ secrets = meta[p].hash
             /\ \A n \in Names : Readable(meta[p], secrets, n))
        /\ file' = [file EXCEPT ![p] = secrets]
        /\ Goto(p, "wantLock")
        /\ UNCHANGED <<lock, op, meta, key, phase, installed, history>>
  /\ UNCHANGED <<disk, anchor, cache, bounds>>

(* Bugs of the mutants: the hash is not recomputed; a hash that does not match
   condemns every record. *)
CommitRepairOldHash(p) ==
  /\ pc[p] = "reseal"
  /\ CommitPair(p, meta[p], secrets)
  /\ UNCHANGED <<key, phase, fresh>>

CommitRepairPrunesAll(p) ==
  /\ pc[p] = "reseal"
  /\ LET lost == {Id(file[p], n) : n \in {m \in Names :
                     ~Readable(meta[p], file[p], m) \/ file[p] # meta[p].hash}}
     IN CommitSecrets(p, [meta[p] EXCEPT !.wraps = Drop(@, lost)],
          [n \in Names |-> IF Id(secrets, n) \in lost THEN NoRecord ELSE secrets[n]])
  /\ UNCHANGED fresh

(* repair_reseal: under the lock, with the metadata read before it, the
   records diagnosed as lost are pruned from secrets.lock as it is now. *)
CommitRepair(p) ==
  /\ pc[p] = "reseal"
  /\ LET lost == {Id(file[p], n) : n \in {m \in Names : ~Readable(meta[p], file[p], m)}}
     IN CommitSecrets(p, [meta[p] EXCEPT !.wraps = Drop(@, lost)],
          [n \in Names |-> IF Id(secrets, n) \in lost THEN NoRecord ELSE secrets[n]])
  /\ UNCHANGED fresh

(* commit_vault_pair returns and the lock is free again; a rotation empties
   the cache, any other command is over. *)
Release(p) ==
  /\ pc[p] = "release"
  /\ IF Cmd(p) = "rotate" \/ phase[p] = "ratchet"
     THEN /\ lock' = NoProc
          /\ Goto(p, "dropCache")
          /\ UNCHANGED <<mine, history>>
     ELSE End(p) /\ UNCHANGED alarms
  /\ UNCHANGED <<disk, anchor, cache, bounds>>

(* invalidate_cache; a command that ratcheted goes on with the new key. *)
DropCache(p) ==
  /\ pc[p] = "dropCache"
  /\ cache' = NoKey
  /\ \/ /\ phase[p] = "ratchet"
        /\ phase' = [phase EXCEPT ![p] = "rotated"]
        /\ installed' = [installed EXCEPT ![p] = FALSE]
        /\ Goto(p, "unlocked")
        /\ UNCHANGED <<lock, op, meta, key, file, history>>
     \/ phase[p] # "ratchet" /\ End(p) /\ UNCHANGED alarms
  /\ UNCHANGED <<disk, anchor, bounds>>

-----------------------------------------------------------------------------
Crash(p) ==
  /\ pc[p] # "idle"
  /\ End(p)
  /\ UNCHANGED <<disk, anchor, cache, bounds, alarms>>

Unlock(p) ==
  \/ ReadVault(p) \/ UseCachedKey(p) \/ UsePassword(p) \/ EnforceAnchor(p)
  \/ CompareAnchor(p) \/ WriteAnchor(p) \/ VerifySecrets(p) \/ CacheKey(p)

Write(p) ==
  \/ WantLock(p) \/ LockPair(p) \/ Refresh(p) \/ CommitSet(p) \/ CommitUnset(p)
  \/ CommitConfig(p) \/ StartRatchet(p) \/ CommitRotation(p)
  \/ FailToUnwrap(p) \/ LoadForAllow(p) \/ CommitAllow(p) \/ CommitAllowAsLoaded(p)
  \/ Diagnose(p) \/ CommitRepair(p)
  \/ Release(p) \/ DropCache(p)

Process(p) ==
  \/ \E cmd \in Ops, n \in Names \cup {NoName} : Start(p, cmd, n)
  \/ Unlock(p) \/ Get(p) \/ Write(p) \/ Crash(p)

Next == \E p \in Procs : Process(p)

Spec == Init /\ [][Next]_vars

-----------------------------------------------------------------------------
(* Properties.                                                              *)

Metadata(m) ==
  /\ DOMAIN m = {"epoch", "dek", "writes", "wraps", "hash"}
  /\ m.epoch \in Nat /\ m.writes \in Nat /\ m.dek \in 0..fresh
  /\ DOMAIN m.wraps \subseteq Names \X (1..fresh)
  /\ \A i \in DOMAIN m.wraps : m.wraps[i] \in 0..fresh

Records(s) == s \in [Names -> [at : 0..fresh, sdk : 0..fresh, val : 0..fresh]]

Hash(h) == h = LostHash \/ Records(h)

Labels == {"idle", "readVault", "key", "anchor", "compare", "write", "verify",
           "cacheKey", "unlocked", "wantLock", "refresh", "modify", "reencrypt",
           "diagnose", "reseal", "release", "dropCache"}

TypeOK ==
  /\ Metadata(vault) /\ Hash(vault.hash) /\ Records(secrets)
  /\ lock \in Procs \cup {NoProc}
  /\ anchor \in Nat /\ cache \in 0..fresh
  /\ pc \in [Procs -> Labels]
  /\ op \in [Procs -> [cmd : Ops \cup {"none"}, name : Names \cup {NoName}]]
  /\ \A p \in Procs : Metadata(meta[p]) /\ Hash(meta[p].hash)
  /\ key \in [Procs -> 0..fresh]
  /\ phase \in [Procs -> {"none", "cached", "password", "ratchet", "rotated"}]
  /\ \A p \in Procs : Records(file[p])
  /\ installed \in [Procs -> BOOLEAN]
  /\ fresh \in Nat \ {0} /\ calls \in 0..MaxCalls
  /\ overtaken \subseteq Procs
  /\ alarms \subseteq {"MetadataTampered", "VaultRolledBack",
                       "TamperedSecretsFile", "MissingSecretKeyWrapping", "Crypto"}

(* While one operator works, no command breaks a pair that opens ("no
   intermediate state ever contains a ciphertext without its SDK",
   vault_txn.rs), whatever was damaged and repaired before. *)
PairStaysUsable == [][PairUsable => PairUsable']_vars

(* Concurrent `dl set` and `dl unset` do not lose each other's updates: what
   `dl get` would print changes by whole commands only. *)
Store == INSTANCE SecretStore WITH
  store <- [n \in Names |->
              IF vault.hash = secrets /\ Readable(vault, secrets, n)
              THEN secrets[n].val ELSE 0],
  minted <- fresh
ImplementsStore == Store!Spec

(* The vault epoch is monotonic: each commit installs a larger one, whatever
   epoch its author unlocked (seal_vault_metadata). *)
EpochAdvances == [][vault' # vault => vault'.epoch > vault.epoch]_vars

(* No step lets the anchor run ahead of the vault, whatever crash falls between
   the renames, the comparison and the replacement of the anchor; one that a
   restore of an old vault.toml left ahead is passed and stays passed. *)
AnchorFollowsVault == [][AnchorNotAhead => AnchorNotAhead']_vars

(* A command that nobody overtook does not fail: no hash, anchor or wrapping
   is ever left behind in a state that looks like damage. *)
NoFalseAlarm == alarms = {}

(* The one false alarm of a vault with a single writer is a cached key that a
   rotation replaced; it empties the cache. *)
OnlyStaleCacheAlarms == alarms \subseteq {"MetadataTampered"}

(* A repair leaves a pair that opens, whatever a partial restore or an old merge
   had left of it: missing, foreign or broken wrappings, a stale hash or one
   that does not open.  That says nothing of the anchor: unlock_full_for_repair
   does not look at it. *)
RepairHeals ==
  [][\A p \in Procs : pc[p] = "reseal" /\ pc'[p] = "compare" => PairUsable']_vars

(* What "recovers a vault" after "partial backup restores" (README.md) suggests
   and repair does not do: the repaired vault is not refused as a rollback. *)
RepairedUnlocks ==
  [][\A p \in Procs : pc[p] = "reseal" /\ pc'[p] = "compare" => AnchorNotAhead']_vars

(* "Irrecoverable records are only ever removed": a repair never prunes a
   record that decrypts under the vault.toml it finds. *)
RepairPrunesOnlyLost ==
  [][\A p \in Procs, n \in Names :
       pc[p] = "reseal" /\ pc'[p] = "compare" /\ Readable(vault, secrets, n)
         => secrets'[n] = secrets[n]]_vars

(* "so a concurrent `dl set` cannot make us clobber its secret or drop its SDK
   wrapping": what a `dl set` commits can be read, every record of it. *)
SetLeavesNoOrphan ==
  [][\A p \in Procs, n \in Names :
       pc[p] = "modify" /\ pc'[p] = "compare" => Readable(vault', secrets', n)]_vars

(* A project key that a rotation retired never comes back. *)
RotationSticks == [][vault'.dek # vault.dek => vault'.dek > vault.dek]_vars

(* "Never moves backward" (advance_epoch). *)
AnchorNeverBackward == [][anchor' >= anchor]_vars

=============================================================================
