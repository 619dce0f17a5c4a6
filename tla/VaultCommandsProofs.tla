------------------------ MODULE VaultCommandsProofs ------------------------
(* Proofs about VaultCommands, for any processes, names and bounds: what a
   single writer may rely on, with the ratchet, rotations and repairs of a
   damaged pair, and what any number of `dl set` and `dl unset` may. *)
EXTENDS VaultCommands, TLAPS

USE NoProcAssumption, CanAssumption, RatchetAfterAssumption,
    DamagedAssumption, MaxCallsAssumption

-----------------------------------------------------------------------------
(* Types.                                                                    *)

(* Metadata and records whose numbers were minted up to f. *)
MetadataUpTo(m, f) ==
  /\ DOMAIN m = {"epoch", "dek", "writes", "wraps", "hash"}
  /\ m.epoch \in Nat /\ m.writes \in Nat /\ m.dek \in 0..f
  /\ DOMAIN m.wraps \subseteq Names \X (1..f)
  /\ \A i \in DOMAIN m.wraps : m.wraps[i] \in 0..f

RecordsUpTo(s, f) ==
  s \in [Names -> {NoRecord} \cup [at : 1..f, sdk : 1..f, val : 1..f]]

HashUpTo(h, f) == h = LostHash \/ RecordsUpTo(h, f)

DiskTypes ==
  MetadataUpTo(vault, fresh) /\ HashUpTo(vault.hash, fresh) /\ RecordsUpTo(secrets, fresh)

SharedTypes ==
  /\ lock \in Procs \cup {NoProc}
  /\ anchor \in Nat /\ cache \in 0..fresh
  /\ fresh \in Nat \ {0} /\ calls \in 0..MaxCalls
  /\ alarms \subseteq {"MetadataTampered", "VaultRolledBack",
                       "TamperedSecretsFile", "MissingSecretKeyWrapping", "Crypto"}

LocalTypes ==
  /\ pc \in [Procs -> Labels]
  /\ op \in [Procs -> [cmd : Ops \cup {"none"}, name : Names \cup {NoName}]]
  /\ installed \in [Procs -> BOOLEAN]
  /\ phase \in [Procs -> {"none", "cached", "password", "ratchet", "rotated"}]
  /\ overtaken \subseteq Procs

MetaTypes ==
  /\ DOMAIN meta = Procs /\ DOMAIN file = Procs
  /\ key \in [Procs -> 0..fresh]
  /\ \A p \in Procs : MetadataUpTo(meta[p], fresh) /\ HashUpTo(meta[p].hash, fresh)
  /\ \A p \in Procs : RecordsUpTo(file[p], fresh)

Types == DiskTypes /\ SharedTypes /\ LocalTypes /\ MetaTypes

(* A command that names a secret has a name, and it is `dl share allow` that
   encrypts anew a secret it loaded without the lock. *)
NameInv ==
  \A p \in Procs :
    /\ Cmd(p) \in NamedOps => op[p].name \in Names
    /\ pc[p] = "reencrypt" => Cmd(p) = "allow" /\ file[p][op[p].name] # NoRecord

(* The named parts are the type invariant of the module. *)
LEMMA TypesImply == Types => TypeOK
BY DEF NoRecord, Types, DiskTypes, SharedTypes, LocalTypes, MetaTypes, TypeOK, Metadata, Records,
       Hash, MetadataUpTo, RecordsUpTo, HashUpTo

(* What was minted up to f was minted up to any later number. *)
LEMMA LaterTypes ==
  ASSUME NEW f \in Nat, NEW g \in Nat, f <= g
  PROVE  /\ \A m : MetadataUpTo(m, f) => MetadataUpTo(m, g)
         /\ \A s : RecordsUpTo(s, f) => RecordsUpTo(s, g)
         /\ \A h : HashUpTo(h, f) => HashUpTo(h, g)
<1>1. 0..f \subseteq 0..g /\ 1..f \subseteq 1..g
  OBVIOUS
<1>2. \A m : MetadataUpTo(m, f) => MetadataUpTo(m, g)
  BY <1>1 DEF MetadataUpTo
<1>3. ASSUME NEW s, RecordsUpTo(s, f) PROVE RecordsUpTo(s, g)
  BY <1>1, <1>3 DEF RecordsUpTo
<1>4. QED
  BY <1>2, <1>3 DEF HashUpTo

(* No secret, and nothing minted. *)
LEMMA NoTypes ==
  ASSUME NEW f \in Nat
  PROVE  MetadataUpTo(NoMeta, f) /\ HashUpTo(NoMeta.hash, f) /\ RecordsUpTo(NoFile, f)
<1>1. RecordsUpTo(NoFile, f)
  BY DEF RecordsUpTo, NoFile
<1>2. MetadataUpTo(NoMeta, f)
  BY DEF MetadataUpTo, NoMeta, NoKey
<1>3. QED
  BY <1>1, <1>2 DEF NoMeta, HashUpTo

(* What a commit does to metadata and records keeps their types. *)
LEMMA EditTypes ==
  ASSUME NEW f \in Nat, NEW m, MetadataUpTo(m, f)
  PROVE  /\ MetadataUpTo(Seal(m), f) /\ Seal(m).hash = m.hash
         /\ MetadataUpTo(Count(m), f) /\ Count(m).hash = m.hash
         /\ \A ids : MetadataUpTo([m EXCEPT !.wraps = Drop(@, ids)], f)
         /\ \A w : [m EXCEPT !.wraps = w].hash = m.hash
         /\ \A id \in Names \X (1..f), sdk \in 0..f :
              MetadataUpTo([m EXCEPT !.wraps = Insert(@, id, sdk)], f)
         /\ \A h : /\ MetadataUpTo([m EXCEPT !.hash = h], f)
                   /\ [m EXCEPT !.hash = h].hash = h
BY DEF MetadataUpTo, Seal, Count, Drop, Insert

(* What commit_secrets_and_metadata makes of them. *)
LEMMA CountedTypes ==
  ASSUME NEW f \in Nat, NEW m, NEW t, MetadataUpTo(m, f)
  PROVE  LET c == [Count(m) EXCEPT !.hash = t] IN MetadataUpTo(c, f) /\ c.hash = t
BY DEF MetadataUpTo, Count

(* The initial state has the types. *)
LEMMA InitTypes == Init => Types
<1> SUFFICES ASSUME Init PROVE Types
  OBVIOUS
<1>1. PICK present \in SUBSET Names, wrapped \in SUBSET Names :
        \E wrapping \in [wrapped -> IF Damaged THEN {BadWrap, 1, 2} ELSE {1}] :
        /\ wrapped = present \/ Damaged
        /\ secrets = [n \in Names |-> IF n \in present
                        THEN [at |-> 1, sdk |-> 1, val |-> 1] ELSE NoRecord]
        /\ vault \in [epoch : {1}, dek : {1}, writes : {0},
                      wraps : {[i \in wrapped \X {1} |-> wrapping[i[1]]]},
                      hash : IF Damaged THEN {secrets, NoFile, LostHash} ELSE {secrets}]
  BY DEF Init
<1>2. PICK wrapping \in [wrapped -> IF Damaged THEN {BadWrap, 1, 2} ELSE {1}] :
        vault \in [epoch : {1}, dek : {1}, writes : {0},
                   wraps : {[i \in wrapped \X {1} |-> wrapping[i[1]]]},
                   hash : IF Damaged THEN {secrets, NoFile, LostHash} ELSE {secrets}]
  BY <1>1
<1>3. fresh = IF Damaged THEN 2 ELSE 1
  BY DEF Init
<1>4. RecordsUpTo(secrets, fresh) /\ RecordsUpTo(NoFile, fresh)
  BY <1>1, <1>3 DEF RecordsUpTo, NoFile
<1>5. DiskTypes /\ SharedTypes
  <2>1. HashUpTo(vault.hash, fresh)
    BY <1>2, <1>4 DEF HashUpTo
  <2>2. \A i \in wrapped \X {1} : wrapping[i[1]] \in 0..fresh
    BY <1>2, <1>3 DEF BadWrap
  <2>3. vault.wraps = [i \in wrapped \X {1} |-> wrapping[i[1]]]
    BY <1>2
  <2>4. MetadataUpTo(vault, fresh)
    BY <1>2, <1>3, <2>2, <2>3 DEF MetadataUpTo
  <2>5. SharedTypes
    BY <1>3 DEF Init, SharedTypes, NoKey
  <2>6. QED
    BY <1>4, <2>1, <2>4, <2>5 DEF DiskTypes
<1>6. LocalTypes
  BY DEF Init, LocalTypes, Labels, NoOp, NoName
<1>7. MetaTypes
  <2>1. DOMAIN meta = Procs /\ DOMAIN file = Procs /\ key \in [Procs -> 0..fresh]
    BY DEF Init, NoKey
  <2>2. \A p \in Procs : meta[p] = NoMeta /\ file[p] = NoFile
    BY DEF Init
  <2>3. fresh \in Nat
    BY <1>3
  <2>4. QED
    BY <2>1, <2>2, <2>3, NoTypes DEF MetaTypes
<1>8. QED
  BY <1>5, <1>6, <1>7 DEF Types

(* A command that is over has left its locals and its lock. *)
LEMMA EndTypes ==
  ASSUME Types, NEW p \in Procs, End(p), fresh' = fresh
  PROVE  LocalTypes' /\ MetaTypes' /\ lock' \in Procs \cup {NoProc}
<1>1. LocalTypes'
  BY DEF Types, LocalTypes, End, Goto, NoOp, NoName, Labels
<1>2. lock' \in Procs \cup {NoProc}
  BY DEF Types, SharedTypes, End
<1>3. MetaTypes'
  <2>1. /\ DOMAIN meta' = Procs /\ DOMAIN file' = Procs
        /\ key' \in [Procs -> 0..fresh]
        /\ \A q \in Procs : meta'[q] \in {NoMeta, meta[q]} /\ file'[q] \in {NoFile, file[q]}
    BY DEF Types, SharedTypes, MetaTypes, End, NoKey
  <2>2. fresh \in Nat
    BY DEF Types, SharedTypes
  <2>3. QED
    BY <2>1, <2>2, NoTypes DEF Types, MetaTypes
<1>4. QED
  BY <1>1, <1>2, <1>3

(* A command that fails has ended, with one alarm more or none. *)
LEMMA FailTypes ==
  ASSUME Types, NEW p \in Procs, NEW error, Fail(p, error), fresh' = fresh,
         error \in {"MetadataTampered", "VaultRolledBack",
                    "TamperedSecretsFile", "MissingSecretKeyWrapping", "Crypto"}
  PROVE  /\ LocalTypes' /\ MetaTypes' /\ lock' \in Procs \cup {NoProc}
         /\ alarms' \subseteq {"MetadataTampered", "VaultRolledBack",
                               "TamperedSecretsFile", "MissingSecretKeyWrapping", "Crypto"}
BY EndTypes DEF Fail, Types, SharedTypes

(* A commit of well-typed metadata and records. *)
LEMMA CommitTypes ==
  ASSUME Types, NEW p \in Procs, NEW m, NEW s, CommitPair(p, m, s),
         fresh' \in Nat, fresh <= fresh', key' \in [Procs -> 0..fresh'],
         phase' = phase,
         MetadataUpTo(m, fresh'), HashUpTo(m.hash, fresh'), RecordsUpTo(s, fresh')
  PROVE  Types'
<1>1. MetadataUpTo(Seal(m), fresh') /\ HashUpTo(Seal(m).hash, fresh')
  BY EditTypes
<1>2. DiskTypes'
  BY <1>1 DEF DiskTypes, CommitPair
<1>3. fresh \in Nat \ {0} /\ 0..fresh \subseteq 0..fresh'
  BY DEF Types, SharedTypes
<1>4. SharedTypes'
  BY <1>3 DEF Types, SharedTypes, CommitPair
<1>5. LocalTypes'
  BY DEF Types, LocalTypes, CommitPair, Goto, Labels
<1>6. MetaTypes'
  <2>1. /\ DOMAIN meta' = Procs /\ file' = file
        /\ \A q \in Procs : meta'[q] \in {Seal(m), meta[q]}
    BY DEF Types, MetaTypes, CommitPair
  <2>2. \A q \in Procs : /\ MetadataUpTo(meta[q], fresh') /\ HashUpTo(meta[q].hash, fresh')
                         /\ RecordsUpTo(file[q], fresh')
    BY <1>3, LaterTypes DEF Types, MetaTypes
  <2>3. DOMAIN file = Procs
    BY DEF Types, MetaTypes
  <2>4. QED
    BY <1>1, <2>1, <2>2, <2>3 DEF MetaTypes
<1>7. QED
  BY <1>2, <1>4, <1>5, <1>6 DEF Types

(* The steps of an unlock keep the types: none of them writes the pair. *)
LEMMA UnlockTypes ==
  ASSUME Types, NEW p \in Procs, Unlock(p) \/ Get(p)
  PROVE  Types'
<1> USE DEF Types
<1>1. fresh' = fresh /\ UNCHANGED <<disk, calls>>
  BY DEF Unlock, Get, ReadVault, UseCachedKey, UsePassword, EnforceAnchor, CompareAnchor,
         WriteAnchor, VerifySecrets, CacheKey, disk, bounds
<1>2. DiskTypes'
  BY <1>1 DEF DiskTypes, disk
<1>3. CASE ReadVault(p)
  <2>1. LocalTypes' /\ SharedTypes'
    BY <1>3, <1>1 DEF ReadVault, LocalTypes, SharedTypes, Goto, Labels, disk, bounds, history
  <2>2. MetaTypes'
    BY <1>3, <1>1 DEF ReadVault, MetaTypes, DiskTypes, disk, bounds, history
  <2>3. QED
    BY <1>2, <2>1, <2>2
<1>4. CASE UseCachedKey(p)
  <2>1. CASE cache = meta[p].dek
    <3>1. LocalTypes' /\ SharedTypes'
      BY <1>4, <1>1, <2>1 DEF UseCachedKey, LocalTypes, SharedTypes, Goto, Labels, disk, bounds, history
    <3>2. MetaTypes'
      BY <1>4, <1>1, <2>1 DEF UseCachedKey, MetaTypes, SharedTypes, disk, bounds, history
    <3>3. QED
      BY <1>2, <3>1, <3>2
  <2>2. CASE cache # meta[p].dek
    BY <1>4, <1>1, <1>2, <2>2, FailTypes DEF UseCachedKey, SharedTypes, NoKey, disk, bounds
  <2>3. QED
    BY <2>1, <2>2
<1>5. CASE UsePassword(p)
  <2>1. LocalTypes' /\ SharedTypes'
    BY <1>5, <1>1 DEF UsePassword, LocalTypes, SharedTypes, Goto, Labels, disk, bounds, history, NoKey
  <2>2. MetaTypes'
    BY <1>5, <1>1 DEF UsePassword, MetaTypes, MetadataUpTo, disk, bounds, history
  <2>3. QED
    BY <1>2, <2>1, <2>2
<1>6. CASE EnforceAnchor(p)
  <2>1. CASE Fail(p, "VaultRolledBack")
    BY <1>6, <1>1, <1>2, <2>1, FailTypes DEF EnforceAnchor, SharedTypes, disk, bounds
  <2>2. CASE /\ Goto(p, "compare") \/ Goto(p, "verify")
             /\ UNCHANGED <<lock, mine, history>>
    BY <1>6, <1>1, <1>2, <2>2 DEF EnforceAnchor, SharedTypes, LocalTypes, MetaTypes, Goto,
       Labels, disk, mine, bounds, history
  <2>3. QED
    BY <1>6, <2>1, <2>2 DEF EnforceAnchor
<1>7. CASE CompareAnchor(p) \/ WriteAnchor(p)
  <2>1. MetaTypes' /\ LocalTypes'
    BY <1>7, <1>1 DEF CompareAnchor, WriteAnchor, AfterAnchor, LocalTypes, MetaTypes, Goto,
       Labels, disk, mine, bounds, history
  <2>2. SharedTypes'
    BY <1>7, <1>1 DEF CompareAnchor, WriteAnchor, SharedTypes, MetaTypes, MetadataUpTo,
       disk, mine, bounds, history
  <2>3. QED
    BY <1>2, <2>1, <2>2
<1>8. CASE VerifySecrets(p)
  <2>1. CASE Goto(p, "cacheKey") /\ UNCHANGED <<cache, lock, mine, history>>
    BY <1>8, <1>1, <1>2, <2>1 DEF VerifySecrets, SharedTypes, LocalTypes, MetaTypes, Goto,
       Labels, disk, mine, bounds, history
  <2>2. CASE secrets # meta[p].hash
    BY <1>8, <1>1, <1>2, <2>2, FailTypes DEF VerifySecrets, SharedTypes, NoKey, disk, bounds
  <2>3. QED
    BY <1>8, <2>1, <2>2 DEF VerifySecrets
<1>9. CASE CacheKey(p)
  BY <1>9, <1>1, <1>2 DEF CacheKey, SharedTypes, LocalTypes, MetaTypes, Goto, Labels, NoKey,
     disk, mine, bounds, history
<1>10. CASE Get(p)
  <2>1. CASE Readable(meta[p], secrets, op[p].name)
    BY <1>10, <1>1, <1>2, <2>1, EndTypes DEF Get, SharedTypes, disk, bounds
  <2>2. CASE ~Readable(meta[p], secrets, op[p].name)
    BY <1>10, <1>1, <1>2, <2>2, FailTypes DEF Get, SharedTypes, disk, bounds
  <2>3. QED
    BY <2>1, <2>2
<1>11. QED
  BY <1>3, <1>4, <1>5, <1>6, <1>7, <1>8, <1>9, <1>10 DEF Unlock

(* So do the steps of a write that leave the pair alone. *)
LEMMA QuietTypes ==
  ASSUME Types, NEW p \in Procs,
         \/ WantLock(p) \/ LockPair(p) \/ Refresh(p) \/ StartRatchet(p) \/ LoadForAllow(p)
         \/ Diagnose(p) \/ Release(p) \/ DropCache(p) \/ Crash(p) \/ FailToUnwrap(p)
  PROVE  Types'
<1> USE DEF Types
<1>1. fresh' = fresh /\ UNCHANGED <<disk, anchor, calls>>
  BY DEF WantLock, LockPair, Refresh, StartRatchet, LoadForAllow, Diagnose, Release, DropCache,
         Crash, FailToUnwrap, disk, bounds
<1>2. DiskTypes'
  BY <1>1 DEF DiskTypes, disk
<1>3. CASE WantLock(p) \/ LockPair(p)
  BY <1>3, <1>1, <1>2 DEF WantLock, LockPair, SharedTypes, LocalTypes, MetaTypes, Goto, Labels,
     disk, mine, bounds, history
<1>4. CASE Refresh(p)
  <2>1. CASE Fail(p, "MetadataTampered")
    BY <1>4, <1>1, <1>2, <2>1, FailTypes DEF Refresh, SharedTypes, disk, bounds
  <2>2. CASE meta' = [meta EXCEPT ![p] = vault] /\ Goto(p, "modify")
             /\ UNCHANGED <<lock, op, key, phase, file, installed, history>>
    BY <1>4, <1>1, <1>2, <2>2 DEF Refresh, SharedTypes, LocalTypes, MetaTypes, DiskTypes, Goto,
       Labels, disk, bounds, history
  <2>3. CASE Goto(p, "modify") /\ UNCHANGED <<lock, mine, history>>
    BY <1>4, <1>1, <1>2, <2>3 DEF Refresh, SharedTypes, LocalTypes, MetaTypes, Goto,
       Labels, disk, mine, bounds, history
  <2>4. QED
    BY <1>4, <2>1, <2>2, <2>3 DEF Refresh
<1>5. CASE StartRatchet(p)
  BY <1>5, <1>1, <1>2 DEF StartRatchet, SharedTypes, LocalTypes, MetaTypes, Goto,
     Labels, disk, bounds, history
<1>6. CASE LoadForAllow(p)
  <2>1. CASE End(p) /\ UNCHANGED alarms
    BY <1>6, <1>1, <1>2, <2>1, EndTypes DEF LoadForAllow, SharedTypes, disk, bounds
  <2>2. CASE Fail(p, "Crypto")
    BY <1>6, <1>1, <1>2, <2>2, FailTypes DEF LoadForAllow, SharedTypes, disk, bounds
  <2>3. CASE file' = [file EXCEPT ![p] = secrets] /\ Goto(p, "reencrypt")
             /\ UNCHANGED <<lock, op, meta, key, phase, installed, history>>
    BY <1>6, <1>1, <1>2, <2>3 DEF LoadForAllow, SharedTypes, LocalTypes, MetaTypes, DiskTypes, Goto,
       Labels, disk, bounds, history
  <2>4. QED
    BY <1>6, <2>1, <2>2, <2>3 DEF LoadForAllow
<1>7. CASE Diagnose(p)
  <2>1. CASE End(p) /\ UNCHANGED alarms
    BY <1>7, <1>1, <1>2, <2>1, EndTypes DEF Diagnose, SharedTypes, disk, bounds
  <2>2. CASE file' = [file EXCEPT ![p] = secrets] /\ Goto(p, "wantLock")
             /\ UNCHANGED <<lock, op, meta, key, phase, installed, history>>
    BY <1>7, <1>1, <1>2, <2>2 DEF Diagnose, SharedTypes, LocalTypes, MetaTypes, DiskTypes, Goto,
       Labels, disk, bounds, history
  <2>3. QED
    BY <1>7, <2>1, <2>2 DEF Diagnose
<1>8. CASE Release(p)
  <2>1. CASE End(p) /\ UNCHANGED alarms
    BY <1>8, <1>1, <1>2, <2>1, EndTypes DEF Release, SharedTypes, disk, bounds
  <2>2. CASE lock' = NoProc /\ Goto(p, "dropCache") /\ UNCHANGED <<mine, history>>
    BY <1>8, <1>1, <1>2, <2>2 DEF Release, SharedTypes, LocalTypes, MetaTypes, Goto,
       Labels, disk, mine, bounds, history
  <2>3. QED
    BY <1>8, <2>1, <2>2 DEF Release
<1>9. CASE DropCache(p)
  <2>1. CASE End(p) /\ UNCHANGED alarms
    BY <1>9, <1>1, <1>2, <2>1, EndTypes DEF DropCache, SharedTypes, NoKey, disk, bounds
  <2>2. CASE /\ phase' = [phase EXCEPT ![p] = "rotated"]
             /\ installed' = [installed EXCEPT ![p] = FALSE]
             /\ Goto(p, "unlocked")
             /\ UNCHANGED <<lock, op, meta, key, file, history>>
    BY <1>9, <1>1, <1>2, <2>2 DEF DropCache, SharedTypes, LocalTypes, MetaTypes, Goto,
       Labels, NoKey, disk, bounds, history
  <2>3. QED
    BY <1>9, <2>1, <2>2 DEF DropCache
<1>10. CASE Crash(p)
  BY <1>10, <1>1, <1>2, EndTypes DEF Crash, SharedTypes, disk, bounds
<1>11. CASE FailToUnwrap(p)
  BY <1>11, <1>1, <1>2, FailTypes DEF FailToUnwrap, SharedTypes, disk, bounds
<1>12. QED
  BY <1>3, <1>4, <1>5, <1>6, <1>7, <1>8, <1>9, <1>10, <1>11

(* So does the start of a command. *)
LEMMA StartTypes ==
  ASSUME Types, NEW p \in Procs, NEW cmd \in Ops, NEW n \in Names \cup {NoName},
         Start(p, cmd, n)
  PROVE  Types'
<1> USE DEF Types
<1>1. UNCHANGED <<vault, secrets, lock, anchor, cache, meta, key, phase, file, installed,
                  fresh, overtaken, alarms>>
  BY DEF Start, disk, history
<1>2. DiskTypes'
  BY <1>1 DEF DiskTypes
<1>3. calls' \in 0..MaxCalls
  BY DEF Start, SharedTypes
<1>4. SharedTypes'
  BY <1>1, <1>3 DEF SharedTypes
<1>5. LocalTypes'
  BY <1>1 DEF Start, LocalTypes, Goto, Labels
<1>6. MetaTypes'
  BY <1>1 DEF MetaTypes
<1>7. QED
  BY <1>2, <1>4, <1>5, <1>6

(* The steps of a commit keep the types. *)
LEMMA WriteTypes ==
  ASSUME Types, NameInv, NEW p \in Procs,
         \/ CommitSet(p) \/ CommitUnset(p) \/ CommitConfig(p) \/ CommitRotation(p)
         \/ CommitAllow(p) \/ CommitAllowAsLoaded(p) \/ CommitRepair(p)
  PROVE  Types'
<1>1. /\ fresh \in Nat \ {0} /\ key \in [Procs -> 0..fresh]
      /\ MetadataUpTo(meta[p], fresh) /\ HashUpTo(meta[p].hash, fresh)
      /\ RecordsUpTo(secrets, fresh) /\ RecordsUpTo(file[p], fresh)
  BY DEF Types, SharedTypes, MetaTypes, DiskTypes
<1>2. CASE fresh' = fresh + 1
  <2>1. /\ MetadataUpTo(meta[p], fresh') /\ HashUpTo(meta[p].hash, fresh')
        /\ RecordsUpTo(secrets, fresh') /\ RecordsUpTo(file[p], fresh')
        /\ fresh' \in Nat /\ fresh <= fresh' /\ fresh' \in 1..fresh'
    BY <1>1, <1>2, LaterTypes
  <2>2. key \in [Procs -> 0..fresh']
    BY <1>1, <1>2
  <2>3. CASE CommitSet(p)
    <3> DEFINE n   == op[p].name
               at  == IF secrets[n] = NoRecord THEN fresh' ELSE secrets[n].at
               w   == meta[p].wraps
               sdk == IF <<n, at>> \in DOMAIN w THEN w[<<n, at>>] ELSE fresh'
               m   == [meta[p] EXCEPT !.wraps = Insert(@, <<n, at>>, sdk)]
               t   == [secrets EXCEPT ![n] = [at |-> at, sdk |-> sdk, val |-> fresh']]
    <3>1. /\ CommitPair(p, [Count(m) EXCEPT !.hash = t], t)
          /\ UNCHANGED <<key, phase>>
      BY <2>3 DEF CommitSet, CommitSecrets
    <3>2. n \in Names
      BY <2>3 DEF CommitSet, NameInv, NamedOps, LockedOps
    <3>3. at \in 1..fresh'
      BY <2>1, <3>2 DEF RecordsUpTo
    <3>4. sdk \in 1..fresh'
      <4>1. ASSUME <<n, at>> \in DOMAIN w PROVE w[<<n, at>>] # BadWrap
        <5>1. CASE secrets[n] = NoRecord
          BY <1>1, <1>2, <4>1, <5>1 DEF MetadataUpTo
        <5>2. CASE secrets[n] # NoRecord
          BY <2>3, <4>1, <5>2 DEF CommitSet, CannotUnwrap, Id
        <5>3. QED
          BY <5>1, <5>2
      <4>2. \A i \in DOMAIN w : w[i] \in 0..fresh'
        BY <2>1 DEF MetadataUpTo
      <4>3. QED
        BY <2>1, <4>1, <4>2 DEF BadWrap
    <3>5. RecordsUpTo(t, fresh')
      BY <2>1, <3>3, <3>4 DEF RecordsUpTo
    <3>6. MetadataUpTo(m, fresh')
      <4>1. <<n, at>> \in Names \X (1..fresh')
        BY <3>2, <3>3
      <4> HIDE DEF n, at, sdk
      <4>2. QED
        BY <2>1, <3>4, <4>1, EditTypes, 1..fresh' \subseteq 0..fresh'
    <3> HIDE DEF m, t
    <3>7. MetadataUpTo([Count(m) EXCEPT !.hash = t], fresh') /\ [Count(m) EXCEPT !.hash = t].hash = t
      BY <2>1, <3>6, CountedTypes
    <3>8. QED
      BY <2>1, <2>2, <3>1, <3>5, <3>7, CommitTypes DEF HashUpTo
  <2>4. CASE CommitRotation(p)
    <3> DEFINE m == [meta[p] EXCEPT !.dek = fresh', !.writes = 0]
    <3>1. MetadataUpTo(m, fresh') /\ m.hash = meta[p].hash
      BY <2>1 DEF MetadataUpTo
    <3>2. key' \in [Procs -> 0..fresh'] /\ phase' = phase
      BY <2>1, <2>2, <2>4 DEF CommitRotation
    <3>3. CommitPair(p, m, secrets)
      BY <2>4 DEF CommitRotation
    <3>4. QED
      BY <2>1, <3>1, <3>2, <3>3, CommitTypes
  <2>5. CASE CommitAllow(p)
    <3> DEFINE n == op[p].name
               m == [meta[p] EXCEPT !.wraps = Insert(@, Id(file[p], n), fresh')]
               t == [file[p] EXCEPT ![n].sdk = fresh']
    <3>1. /\ file[p][n] # NoRecord
          /\ CommitPair(p, [Count(m) EXCEPT !.hash = t], t)
          /\ UNCHANGED <<key, phase>>
      BY <2>5 DEF CommitAllow, CommitSecrets, NameInv
    <3>2. n \in Names
      BY <2>5 DEF CommitAllow, NameInv, NamedOps
    <3>3. file[p][n] \in [at : 1..fresh', sdk : 1..fresh', val : 1..fresh']
      BY <2>1, <3>1, <3>2 DEF RecordsUpTo
    <3>4. RecordsUpTo(t, fresh')
      BY <2>1, <3>2, <3>3 DEF RecordsUpTo
    <3>5. MetadataUpTo(m, fresh')
      <4>1. Id(file[p], n) \in Names \X (1..fresh') /\ fresh' \in 0..fresh'
        BY <2>1, <3>2, <3>3 DEF Id
      <4> HIDE DEF n
      <4>2. QED
        BY <2>1, <4>1, EditTypes
    <3>6. MetadataUpTo([Count(m) EXCEPT !.hash = t], fresh') /\ [Count(m) EXCEPT !.hash = t].hash = t
      BY <2>1, <3>5, CountedTypes
    <3>7. QED
      BY <2>1, <2>2, <3>1, <3>4, <3>6, CommitTypes DEF HashUpTo
  <2>6. CASE CommitUnset(p) \/ CommitConfig(p) \/ CommitRepair(p) \/ CommitAllowAsLoaded(p)
    BY <1>1, <1>2, <2>6 DEF CommitUnset, CommitConfig, CommitRepair, CommitAllowAsLoaded, bounds
  <2>7. QED
    BY <2>3, <2>4, <2>5, <2>6
<1>3. CASE fresh' = fresh
  <2> HIDE DEF Types
  <2>1. CASE End(p) /\ UNCHANGED <<disk, anchor, cache, bounds, alarms>>
    <3>1. DiskTypes'
      BY <2>1 DEF Types, DiskTypes, disk, bounds
    <3>2. SharedTypes'
      BY <2>1, EndTypes, <1>3 DEF Types, SharedTypes, bounds
    <3>3. QED
      BY <2>1, <1>3, <3>1, <3>2, EndTypes DEF Types
  <2>2. CASE CommitUnset(p) /\ secrets[op[p].name] # NoRecord
    <3> DEFINE n == op[p].name
               m == [meta[p] EXCEPT !.wraps = Drop(@, {Id(secrets, n)})]
               t == [secrets EXCEPT ![n] = NoRecord]
    <3>1. /\ CommitPair(p, [Count(m) EXCEPT !.hash = t], t)
          /\ UNCHANGED <<key, phase>>
      BY <2>2 DEF CommitUnset, CommitSecrets
    <3>2. RecordsUpTo(t, fresh)
      BY <1>1 DEF RecordsUpTo
    <3>3. MetadataUpTo(m, fresh)
      BY <1>1, EditTypes
    <3> HIDE DEF m, t
    <3>4. MetadataUpTo([Count(m) EXCEPT !.hash = t], fresh) /\ [Count(m) EXCEPT !.hash = t].hash = t
      BY <1>1, <3>3, CountedTypes
    <3> DEFINE c == [Count(m) EXCEPT !.hash = t]
    <3>5. CommitPair(p, c, t) /\ MetadataUpTo(c, fresh') /\ HashUpTo(c.hash, fresh')
      BY <1>3, <3>1, <3>2, <3>4 DEF HashUpTo
    <3> HIDE DEF c
    <3>6. fresh' \in Nat /\ fresh <= fresh' /\ key' \in [Procs -> 0..fresh'] /\ phase' = phase
      BY <1>1, <1>3, <3>1
    <3>7. RecordsUpTo(t, fresh')
      BY <1>3, <3>2
    <3>8. QED
      BY <3>5, <3>6, <3>7, CommitTypes
  <2>3. CASE CommitConfig(p)
    <3>1. MetadataUpTo(Count(meta[p]), fresh) /\ Count(meta[p]).hash = meta[p].hash
      BY <1>1, EditTypes
    <3>2. CommitPair(p, Count(meta[p]), secrets) /\ UNCHANGED <<key, phase>>
      BY <2>3 DEF CommitConfig
    <3>3. QED
      BY <1>1, <1>3, <3>1, <3>2, CommitTypes
  <2>4. CASE CommitRepair(p)
    <3> DEFINE lost == {Id(file[p], n) : n \in {x \in Names : ~Readable(meta[p], file[p], x)}}
               m == [meta[p] EXCEPT !.wraps = Drop(@, lost)]
               t == [n \in Names |-> IF Id(secrets, n) \in lost THEN NoRecord ELSE secrets[n]]
    <3>1. CommitPair(p, [Count(m) EXCEPT !.hash = t], t) /\ UNCHANGED <<key, phase>>
      BY <2>4 DEF CommitRepair, CommitSecrets
    <3> HIDE DEF lost
    <3>2. RecordsUpTo(t, fresh)
      BY <1>1 DEF RecordsUpTo
    <3>3. MetadataUpTo(m, fresh)
      BY <1>1, EditTypes
    <3> HIDE DEF m, t
    <3>4. MetadataUpTo([Count(m) EXCEPT !.hash = t], fresh) /\ [Count(m) EXCEPT !.hash = t].hash = t
      BY <1>1, <3>3, CountedTypes
    <3> DEFINE c == [Count(m) EXCEPT !.hash = t]
    <3>5. CommitPair(p, c, t) /\ MetadataUpTo(c, fresh') /\ HashUpTo(c.hash, fresh')
      BY <1>3, <3>1, <3>2, <3>4 DEF HashUpTo
    <3> HIDE DEF c
    <3>6. fresh' \in Nat /\ fresh <= fresh' /\ key' \in [Procs -> 0..fresh'] /\ phase' = phase
      BY <1>1, <1>3, <3>1
    <3>7. RecordsUpTo(t, fresh')
      BY <1>3, <3>2
    <3>8. QED
      BY <3>5, <3>6, <3>7, CommitTypes
  <2>5. CASE CommitAllowAsLoaded(p)
    <3> DEFINE t == file[p]
               c == [Count(meta[p]) EXCEPT !.hash = t]
    <3>1. CommitPair(p, c, t) /\ UNCHANGED <<key, phase>>
      BY <2>5 DEF CommitAllowAsLoaded, CommitSecrets
    <3>2. MetadataUpTo(c, fresh) /\ c.hash = t /\ RecordsUpTo(t, fresh)
      BY <1>1, CountedTypes
    <3> HIDE DEF c, t
    <3>3. QED
      BY <1>1, <1>3, <3>1, <3>2, CommitTypes DEF HashUpTo
  <2>6. CASE CommitAllow(p) \/ CommitSet(p) \/ CommitRotation(p)
    <3>1. fresh' # fresh + 1
      BY <1>1, <1>3
    <3>2. QED
      BY <2>6, <3>1 DEF CommitAllow, CommitSet, CommitRotation
  <2>7. QED
    BY <2>1, <2>2, <2>3, <2>4, <2>5, <2>6 DEF CommitUnset
<1>4. fresh' \in {fresh, fresh + 1}
  BY DEF CommitSet, CommitUnset, CommitConfig, CommitRotation, CommitAllow,
         CommitAllowAsLoaded, CommitRepair, bounds
<1>5. QED
  BY <1>2, <1>3, <1>4

-----------------------------------------------------------------------------
(* The inductive invariants.                                                 *)

(* p has read vault.toml and not ended yet. *)
Past(p) == pc[p] \notin {"idle", "readVault"}

(* Metadata in memory are never newer than vault.toml, are vault.toml if they
   have its epoch, and are overtaken otherwise. *)
Knows ==
  \A p \in Procs : Past(p) =>
    /\ meta[p].epoch <= vault.epoch
    /\ meta[p].epoch = vault.epoch => meta[p] = vault
    /\ p \notin overtaken => meta[p] = vault

(* A command that only reads. *)
Reader(p) ==
  /\ Cmd(p) \in {"get", "none"}
  /\ pc[p] \in {"idle", "readVault", "key", "anchor", "compare", "write", "verify",
               "cacheKey", "unlocked"}
  /\ phase[p] \in {"none", "cached", "password"}
  /\ ~installed[p] /\ lock # p

(* The one command that writes works on the pair as it is. *)
Writer(w) ==
  /\ Past(w) => meta[w] = vault
  /\ w \notin overtaken
  /\ pc[w] \in {"reencrypt", "reseal"} \/ (pc[w] = "wantLock" /\ Cmd(w) = "repair")
       => file[w] = secrets

(* The inductive invariant of a vault that w alone writes ... *)
OneWriterInv(w) ==
  /\ Types /\ NameInv /\ Knows
  /\ \A p \in Procs \ {w} : Reader(p)
  /\ Writer(w)
  /\ ~Damaged => Healthy
  /\ OnlyStaleCacheAlarms

(* `dl set`, `dl unset` or `dl get`: between the refresh and the end of its
   commit it holds the lock, and what it modifies is the pair as it is. *)
Setter(p) ==
  /\ Cmd(p) \in LockedOps \cup {"get", "none"}
  /\ pc[p] \in {"idle", "readVault", "key", "anchor", "compare", "write", "verify",
               "cacheKey", "unlocked", "wantLock", "refresh", "modify", "release"}
  /\ phase[p] \in {"none", "cached", "password"}
  /\ pc[p] \in {"refresh", "modify", "release"} \/ installed[p] => lock = p
  /\ pc[p] = "modify" => meta[p] = vault
  /\ Past(p) => meta[p].dek = vault.dek
  /\ pc[p] \notin {"idle", "readVault", "key"} => key[p] = vault.dek

(* ... and of a vault that any number of setters write. *)
SettersInv ==
  /\ Types /\ NameInv /\ Knows
  /\ \A p \in Procs : Setter(p)
  /\ cache \in {NoKey, vault.dek}
  /\ Healthy /\ NoFalseAlarm

-----------------------------------------------------------------------------
(* What a step leaves alone.                                                 *)

Same(q) ==
  /\ pc'[q] = pc[q] /\ op'[q] = op[q] /\ meta'[q] = meta[q] /\ key'[q] = key[q]
  /\ phase'[q] = phase[q] /\ file'[q] = file[q] /\ installed'[q] = installed[q]

Ended(p) ==
  /\ pc'[p] = "idle" /\ op'[p] = NoOp /\ meta'[p] = NoMeta /\ key'[p] = NoKey
  /\ phase'[p] = "none" /\ file'[p] = NoFile /\ ~installed'[p] /\ lock' # p
  /\ lock' \in {lock, NoProc} /\ overtaken' = overtaken \ {p}

(* What the end of a command means for it and for the others. *)
LEMMA EndEffect ==
  ASSUME Types, NEW p \in Procs, End(p)
  PROVE  Ended(p) /\ \A q \in Procs \ {p} : Same(q)
<1>1. \A q \in Procs \ {p} : Same(q)
  BY DEF Types, LocalTypes, MetaTypes, End, Goto, Same
<1>2. pc'[p] = "idle" /\ op'[p] = NoOp /\ meta'[p] = NoMeta /\ key'[p] = NoKey
      /\ phase'[p] = "none" /\ file'[p] = NoFile /\ ~installed'[p]
  BY DEF Types, LocalTypes, MetaTypes, End, Goto
<1>3. lock' # p /\ lock' \in {lock, NoProc} /\ overtaken' = overtaken \ {p}
  BY DEF End
<1>4. QED
  BY <1>1, <1>2, <1>3 DEF Ended

(* A commit installs a sealed vault.toml, of which its author keeps a copy,
   and overtakes everybody else who holds metadata. *)
LEMMA CommitEffect ==
  ASSUME Types, NEW p \in Procs, NEW m, NEW s, CommitPair(p, m, s),
         key' = key \/ \E k : key' = [key EXCEPT ![p] = k], phase' = phase
  PROVE  /\ vault' = Seal(m) /\ secrets' = s /\ meta'[p] = Seal(m)
         /\ lock' = p /\ installed'[p] /\ pc'[p] = "compare"
         /\ op' = op /\ file' = file /\ anchor' = anchor /\ cache' = cache /\ alarms' = alarms
         /\ \A q \in Procs \ {p} : Same(q) /\ (Past(q) => q \in overtaken')
         /\ p \in overtaken' => p \in overtaken
<1>1. \A q \in Procs \ {p} : Same(q)
  BY DEF Types, LocalTypes, MetaTypes, CommitPair, Goto, Same
<1>2. QED
  BY <1>1 DEF Types, LocalTypes, MetaTypes, CommitPair, Goto, Past

(* The steps that write neither the pair nor what others know. *)
Quiet(p) ==
  \/ Unlock(p) \/ Get(p) \/ WantLock(p) \/ LockPair(p) \/ Refresh(p)
  \/ StartRatchet(p) \/ LoadForAllow(p) \/ Diagnose(p) \/ Release(p) \/ DropCache(p)
  \/ Crash(p) \/ \E cmd \in Ops, n \in Names \cup {NoName} : Start(p, cmd, n)
  \/ CommitUnset(p) /\ secrets[op[p].name] = NoRecord
  \/ FailToUnwrap(p)

(* A step that commits nothing leaves the pair and the other commands alone. *)
LEMMA QuietEffect ==
  ASSUME Types, NEW p \in Procs, Quiet(p)
  PROVE  /\ UNCHANGED <<vault, secrets, fresh>>
         /\ \A q \in Procs \ {p} : Same(q)
         /\ overtaken' \in {overtaken, overtaken \ {p}}
<1> USE EndEffect DEF disk, mine, bounds, history
<1>1. CASE Unlock(p) \/ Get(p)
  <2>1. UNCHANGED <<vault, secrets, fresh>>
    BY <1>1 DEF Unlock, ReadVault, UseCachedKey, UsePassword, EnforceAnchor, CompareAnchor,
                WriteAnchor, VerifySecrets, CacheKey, Get
  <2>2. CASE End(p)
    BY <2>1, <2>2 DEF Ended
  <2>3. CASE ~End(p)
    BY <1>1, <2>1, <2>3
       DEF Unlock, ReadVault, UseCachedKey, UsePassword, EnforceAnchor, CompareAnchor,
           WriteAnchor, VerifySecrets, CacheKey, Get, Fail, Goto, AfterAnchor, Same, Types,
           LocalTypes, MetaTypes
  <2>4. QED
    BY <2>2, <2>3
<1>2. CASE \/ WantLock(p) \/ LockPair(p) \/ Refresh(p) \/ StartRatchet(p) \/ LoadForAllow(p)
           \/ Diagnose(p) \/ Release(p) \/ DropCache(p) \/ Crash(p)
  <2>1. UNCHANGED <<vault, secrets, fresh>>
    BY <1>2 DEF WantLock, LockPair, Refresh, StartRatchet, LoadForAllow, Diagnose, Release,
                DropCache, Crash
  <2>2. CASE End(p)
    BY <2>1, <2>2 DEF Ended
  <2>3. CASE ~End(p)
    BY <1>2, <2>1, <2>3
       DEF WantLock, LockPair, Refresh, StartRatchet, LoadForAllow, Diagnose, Release,
           DropCache, Crash, Fail, Goto, Same, Types, LocalTypes, MetaTypes
  <2>4. QED
    BY <2>2, <2>3
<1>3. ASSUME NEW cmd \in Ops, NEW n \in Names \cup {NoName}, Start(p, cmd, n)
      PROVE  /\ UNCHANGED <<vault, secrets, fresh>>
             /\ \A q \in Procs \ {p} : Same(q)
             /\ overtaken' \in {overtaken, overtaken \ {p}}
  BY <1>3 DEF Start, Goto, Same, Types, LocalTypes
<1>4. CASE CommitUnset(p) /\ secrets[op[p].name] = NoRecord
  BY <1>4 DEF CommitUnset, Ended
<1>5. CASE FailToUnwrap(p)
  BY <1>5 DEF FailToUnwrap, Fail, Ended
<1>6. QED
  BY <1>1, <1>2, <1>3, <1>4, <1>5 DEF Quiet

(* Types and names are kept by every step. *)
LEMMA TypesStep ==
  ASSUME Types, NameInv, NEW p \in Procs, Process(p)
  PROVE  Types'
BY UnlockTypes, QuietTypes, WriteTypes, StartTypes DEF Process, Write, Get

(* A command's name stays with it, and only LoadForAllow leads to reencrypt. *)
LEMMA NameStep ==
  ASSUME Types, NameInv, NEW p \in Procs, Process(p)
  PROVE  NameInv'
<1>1. CASE \E cmd \in Ops, n \in Names \cup {NoName} : Start(p, cmd, n)
  <2>1. PICK cmd \in Ops, n \in Names \cup {NoName} : Start(p, cmd, n)
    BY <1>1
  <2>2. \A q \in Procs \ {p} : Same(q)
    BY <2>1, QuietEffect DEF Quiet
  <2>3. /\ op'[p] = [cmd |-> cmd, name |-> n] /\ pc'[p] = "readVault"
        /\ cmd \in NamedOps <=> n # NoName
    BY <2>1 DEF Start, Goto, Types, LocalTypes
  <2>4. QED
    BY <2>2, <2>3 DEF NameInv, Same, Cmd
<1>2. CASE \/ CommitSet(p) \/ CommitConfig(p) \/ CommitRotation(p) \/ CommitRepair(p)
           \/ CommitUnset(p) /\ secrets[op[p].name] # NoRecord
           \/ CommitAllow(p) \/ CommitAllowAsLoaded(p)
  <2>1. /\ op' = op /\ file' = file /\ pc'[p] = "compare"
        /\ \A q \in Procs \ {p} : pc'[q] = pc[q]
    BY <1>2 DEF CommitSet, CommitConfig, CommitRotation, CommitRepair, CommitUnset, CommitAllow,
                CommitAllowAsLoaded, CommitSecrets, CommitPair, Goto, Types, LocalTypes
  <2>2. QED
    BY <2>1 DEF NameInv, Cmd
<1>3. CASE LoadForAllow(p) /\ ~End(p)
  BY <1>3 DEF LoadForAllow, Fail, NameInv, Goto, Cmd, Types, LocalTypes, MetaTypes
<1>4. CASE /\ Quiet(p) /\ ~(LoadForAllow(p) /\ ~End(p))
           /\ ~\E cmd \in Ops, n \in Names \cup {NoName} : Start(p, cmd, n)
  <2>1. \A q \in Procs \ {p} : Same(q)
    BY <1>4, QuietEffect
  <2>2. CASE End(p)
    BY <2>1, <2>2, EndEffect DEF NameInv, Same, Cmd, Ended, NoOp, NamedOps, LockedOps
  <2>3. CASE ~End(p)
    <3>1. CASE Unlock(p) \/ Get(p)
      BY <2>1, <2>3, <3>1
         DEF Unlock, ReadVault, UseCachedKey, UsePassword, EnforceAnchor, CompareAnchor,
             WriteAnchor, VerifySecrets, CacheKey, Get, Fail, Goto, AfterAnchor, Same, Types,
             LocalTypes, NameInv, Cmd, mine
    <3>2. CASE ~(Unlock(p) \/ Get(p))
      BY <1>4, <2>1, <2>3, <3>2
         DEF Quiet, WantLock, LockPair, Refresh, StartRatchet, Diagnose, Release,
             DropCache, Crash, Fail, Goto, Same, Types, LocalTypes, NameInv, Cmd, mine,
             CommitUnset, FailToUnwrap
    <3>3. QED
      BY <3>1, <3>2
  <2>4. QED
    BY <2>2, <2>3
<1>5. QED
  BY <1>1, <1>2, <1>3, <1>4 DEF Process, Write, Quiet

(* Whoever runs which command, the state has its types. *)
THEOREM TypeCorrect == Spec => []TypeOK
<1>1. Init => Types /\ NameInv
  <2> SUFFICES ASSUME Init PROVE Types /\ NameInv
    OBVIOUS
  <2>1. \A p \in Procs : Cmd(p) = "none" /\ pc[p] = "idle"
    BY DEF Init, Cmd, NoOp
  <2>2. QED
    BY <2>1, InitTypes DEF NameInv, NamedOps, LockedOps
<1>2. Types /\ NameInv /\ [Next]_vars => (Types /\ NameInv)'
  <2> SUFFICES ASSUME Types, NameInv, [Next]_vars
               PROVE  (Types /\ NameInv)'
    OBVIOUS
  <2>1. CASE UNCHANGED vars
    BY <2>1 DEF vars, disk, mine, bounds, history, Types, DiskTypes, SharedTypes, LocalTypes,
       MetaTypes, NameInv, Cmd
  <2>2. ASSUME NEW p \in Procs, Process(p) PROVE (Types /\ NameInv)'
    BY <2>2, TypesStep, NameStep
  <2>3. QED
    BY <2>1, <2>2 DEF Next
<1>3. Types /\ NameInv => TypeOK
  BY TypesImply
<1>4. QED
  BY <1>1, <1>2, <1>3, PTL DEF Spec

-----------------------------------------------------------------------------
(* What the commits make of the pair, when they start from the pair as it is.*)

(* dl set leaves a pair that opens if it found one. *)
LEMMA SetUsable ==
  ASSUME Types, NameInv, NEW p \in Procs, CommitSet(p), meta[p] = vault
  PROVE  /\ vault'.epoch = vault.epoch + 1 /\ vault'.dek = vault.dek
         /\ PairUsable => PairUsable'
         /\ Unbroken(vault) => Unbroken(vault')
<1> DEFINE n   == op[p].name
           at  == IF secrets[n] = NoRecord THEN fresh' ELSE secrets[n].at
           w   == meta[p].wraps
           sdk == IF <<n, at>> \in DOMAIN w THEN w[<<n, at>>] ELSE fresh'
           m   == [meta[p] EXCEPT !.wraps = Insert(@, <<n, at>>, sdk)]
           t   == [secrets EXCEPT ![n] = [at |-> at, sdk |-> sdk, val |-> fresh']]
<1>1. vault' = Seal([Count(m) EXCEPT !.hash = t]) /\ secrets' = t
  BY DEF CommitSet, CommitSecrets, CommitPair
<1>2. n \in Names
  BY DEF CommitSet, NameInv, NamedOps, LockedOps
<1>3. DOMAIN secrets = Names /\ DOMAIN vault = {"epoch", "dek", "writes", "wraps", "hash"}
  BY DEF Types, DiskTypes, RecordsUpTo, MetadataUpTo
<1>4. /\ vault'.epoch = vault.epoch + 1 /\ vault'.dek = vault.dek /\ vault'.hash = t
      /\ vault'.wraps = Insert(vault.wraps, <<n, at>>, sdk)
  BY <1>1, <1>3 DEF Seal, Count
<1>5. t[n] = [at |-> at, sdk |-> sdk, val |-> fresh'] /\ \A x \in Names \ {n} : t[x] = secrets[x]
  BY <1>2, <1>3
<1>6. ASSUME PairUsable, NEW x \in Names
      PROVE  Readable(vault', secrets', x)
  <2>1. CASE x = n
    <3>1. Id(t, n) = <<n, at>> /\ t[n].sdk = sdk
      BY <1>5 DEF Id
    <3> HIDE DEF at, sdk, t, n
    <3>2. QED
      BY <2>1, <3>1, <1>1, <1>4 DEF Readable, Insert
  <2>2. CASE x # n
    <3>1. t[x] = secrets[x] /\ Id(t, x) = Id(secrets, x) /\ Id(secrets, x) # <<n, at>>
      BY <1>5, <2>2 DEF Id
    <3>2. Readable(vault, secrets, x)
      BY <1>6 DEF PairUsable
    <3> HIDE DEF at, sdk, t, n
    <3>3. QED
      BY <3>1, <3>2, <1>1, <1>4 DEF Readable, Insert
  <2>3. QED
    BY <2>1, <2>2
<1>7. ASSUME Unbroken(vault) PROVE Unbroken(vault')
  <2>1. fresh' # BadWrap
    BY DEF CommitSet, BadWrap, Types, SharedTypes
  <2>2. sdk # BadWrap
    BY <1>7, <2>1 DEF Unbroken
  <2> HIDE DEF sdk, at, n
  <2>3. QED
    BY <1>4, <1>7, <2>2 DEF Unbroken, Insert
<1>8. QED
  BY <1>1, <1>4, <1>6, <1>7 DEF PairUsable

(* So does dl unset. *)
LEMMA UnsetUsable ==
  ASSUME Types, NEW p \in Procs, CommitUnset(p), secrets[op[p].name] # NoRecord,
         meta[p] = vault
  PROVE  /\ vault'.epoch = vault.epoch + 1 /\ vault'.dek = vault.dek
         /\ PairUsable => PairUsable'
         /\ Unbroken(vault) => Unbroken(vault')
<1> DEFINE n == op[p].name
           m == [meta[p] EXCEPT !.wraps = Drop(@, {Id(secrets, n)})]
           t == [secrets EXCEPT ![n] = NoRecord]
<1>1. vault' = Seal([Count(m) EXCEPT !.hash = t]) /\ secrets' = t
  BY DEF CommitUnset, CommitSecrets, CommitPair
<1>2. DOMAIN secrets = Names /\ DOMAIN vault = {"epoch", "dek", "writes", "wraps", "hash"}
  BY DEF Types, DiskTypes, RecordsUpTo, MetadataUpTo
<1>3. /\ vault'.epoch = vault.epoch + 1 /\ vault'.dek = vault.dek /\ vault'.hash = t
      /\ vault'.wraps = Drop(vault.wraps, {Id(secrets, n)})
  BY <1>1, <1>2 DEF Seal, Count
<1>4. ASSUME PairUsable, NEW x \in Names
      PROVE  Readable(vault', secrets', x)
  <2>1. CASE x = n
    BY <1>1, <1>2, <2>1 DEF Readable
  <2>2. CASE x # n
    <3>1. t[x] = secrets[x] /\ Id(t, x) = Id(secrets, x) /\ Id(secrets, x) # Id(secrets, n)
      BY <1>2, <2>2 DEF Id
    <3>2. Readable(vault, secrets, x)
      BY <1>4 DEF PairUsable
    <3> HIDE DEF t, n
    <3>3. QED
      BY <3>1, <3>2, <1>1, <1>3 DEF Readable, Drop
  <2>3. QED
    BY <2>1, <2>2
<1>5. Unbroken(vault) => Unbroken(vault')
  BY <1>3 DEF Unbroken, Drop
<1>6. QED
  BY <1>1, <1>3, <1>4, <1>5 DEF PairUsable

(* So do the commits of metadata only. *)
LEMMA MetaUsable ==
  ASSUME Types, NEW p \in Procs, CommitConfig(p) \/ CommitRotation(p), meta[p] = vault
  PROVE  /\ vault'.epoch = vault.epoch + 1 /\ vault'.dek \in {vault.dek, fresh + 1}
         /\ PairUsable => PairUsable'
         /\ Unbroken(vault) => Unbroken(vault')
<1>1. DOMAIN vault = {"epoch", "dek", "writes", "wraps", "hash"}
  BY DEF Types, DiskTypes, MetadataUpTo
<1>2. /\ vault'.epoch = vault.epoch + 1 /\ vault'.dek \in {vault.dek, fresh + 1}
      /\ vault'.wraps = vault.wraps /\ vault'.hash = vault.hash /\ secrets' = secrets
  BY <1>1 DEF CommitConfig, CommitRotation, CommitPair, Seal, Count
<1>3. QED
  BY <1>2 DEF PairUsable, Readable, Unbroken

(* So does dl share allow, from the secrets.lock that is still there. *)
LEMMA AllowUsable ==
  ASSUME Types, NameInv, NEW p \in Procs, CommitAllow(p),
         meta[p] = vault, file[p] = secrets
  PROVE  /\ vault'.epoch = vault.epoch + 1 /\ vault'.dek = vault.dek
         /\ PairUsable => PairUsable'
         /\ Unbroken(vault) => Unbroken(vault')
<1> DEFINE n == op[p].name
           m == [meta[p] EXCEPT !.wraps = Insert(@, Id(file[p], n), fresh')]
           t == [file[p] EXCEPT ![n].sdk = fresh']
<1>1. vault' = Seal([Count(m) EXCEPT !.hash = t]) /\ secrets' = t
  BY DEF CommitAllow, CommitSecrets, CommitPair
<1>2. n \in Names
  BY DEF CommitAllow, NameInv, NamedOps
<1>3. /\ DOMAIN secrets = Names /\ DOMAIN vault = {"epoch", "dek", "writes", "wraps", "hash"}
      /\ secrets[n] \in [at : 1..fresh, sdk : 1..fresh, val : 1..fresh]
  BY <1>2 DEF CommitAllow, NameInv, Types, DiskTypes, RecordsUpTo, MetadataUpTo
<1>4. /\ vault'.epoch = vault.epoch + 1 /\ vault'.dek = vault.dek /\ vault'.hash = t
      /\ vault'.wraps = Insert(vault.wraps, Id(secrets, n), fresh')
  BY <1>1, <1>3 DEF Seal, Count
<1>5. /\ t[n].sdk = fresh' /\ Id(t, n) = Id(secrets, n)
      /\ \A x \in Names \ {n} : t[x] = secrets[x]
  BY <1>2, <1>3 DEF Id
<1>6. ASSUME PairUsable, NEW x \in Names
      PROVE  Readable(vault', secrets', x)
  <2>1. CASE x = n
    <3> HIDE DEF t, n
    <3>1. QED
      BY <2>1, <1>1, <1>4, <1>5 DEF Readable, Insert
  <2>2. CASE x # n
    <3>1. t[x] = secrets[x] /\ Id(t, x) = Id(secrets, x) /\ Id(secrets, x) # Id(secrets, n)
      BY <1>5, <2>2 DEF Id
    <3>2. Readable(vault, secrets, x)
      BY <1>6 DEF PairUsable
    <3> HIDE DEF t, n
    <3>3. QED
      BY <3>1, <3>2, <1>1, <1>4 DEF Readable, Insert
  <2>3. QED
    BY <2>1, <2>2
<1>7. ASSUME Unbroken(vault) PROVE Unbroken(vault')
  <2>1. fresh' # BadWrap
    BY DEF CommitAllow, BadWrap, Types, SharedTypes
  <2> HIDE DEF n
  <2>2. QED
    BY <1>4, <1>7, <2>1 DEF Unbroken, Insert
<1>8. QED
  BY <1>1, <1>4, <1>6, <1>7 DEF PairUsable

(* ... or with nothing changed in them. *)
LEMMA AsLoadedUsable ==
  ASSUME Types, NEW p \in Procs, CommitAllowAsLoaded(p), meta[p] = vault, file[p] = secrets
  PROVE  /\ vault'.epoch = vault.epoch + 1 /\ vault'.dek = vault.dek
         /\ PairUsable => PairUsable'
         /\ Unbroken(vault) => Unbroken(vault')
<1>1. DOMAIN vault = {"epoch", "dek", "writes", "wraps", "hash"}
  BY DEF Types, DiskTypes, MetadataUpTo
<1>2. /\ vault'.epoch = vault.epoch + 1 /\ vault'.dek = vault.dek
      /\ vault'.wraps = vault.wraps /\ vault'.hash = secrets /\ secrets' = secrets
  BY <1>1 DEF CommitAllowAsLoaded, CommitSecrets, CommitPair, Seal, Count
<1>3. QED
  BY <1>2 DEF PairUsable, Readable, Unbroken

(* dl repair leaves a pair that opens whatever was left of it, and every record
   that was readable. *)
LEMMA RepairUsable ==
  ASSUME Types, NEW p \in Procs, CommitRepair(p), meta[p] = vault, file[p] = secrets
  PROVE  /\ vault'.epoch = vault.epoch + 1 /\ vault'.dek = vault.dek
         /\ PairUsable'
         /\ Unbroken(vault) => Unbroken(vault')
         /\ \A n \in Names : Readable(vault, secrets, n) => secrets'[n] = secrets[n]
<1> DEFINE lost == {Id(file[p], n) : n \in {x \in Names : ~Readable(meta[p], file[p], x)}}
           m == [meta[p] EXCEPT !.wraps = Drop(@, lost)]
           t == [n \in Names |-> IF Id(secrets, n) \in lost THEN NoRecord ELSE secrets[n]]
<1>1. vault' = Seal([Count(m) EXCEPT !.hash = t]) /\ secrets' = t
  BY DEF CommitRepair, CommitSecrets, CommitPair
<1>2. DOMAIN vault = {"epoch", "dek", "writes", "wraps", "hash"}
  BY DEF Types, DiskTypes, MetadataUpTo
<1>3. /\ vault'.epoch = vault.epoch + 1 /\ vault'.dek = vault.dek /\ vault'.hash = t
      /\ vault'.wraps = Drop(vault.wraps, lost)
  BY <1>1, <1>2 DEF Seal, Count
<1>4. \A n \in Names : Id(secrets, n) \in lost <=> ~Readable(vault, secrets, n)
  BY DEF Id
<1> HIDE DEF lost
<1>5. \A n \in Names : Readable(vault, secrets, n) => secrets'[n] = secrets[n]
  BY <1>1, <1>4
<1>6. ASSUME NEW x \in Names PROVE Readable(vault', secrets', x)
  <2>1. CASE Readable(vault, secrets, x)
    <3>1. t[x] = secrets[x] /\ Id(t, x) = Id(secrets, x) /\ Id(secrets, x) \notin lost
      BY <1>4, <2>1 DEF Id
    <3> HIDE DEF t
    <3>2. QED
      BY <2>1, <3>1, <1>1, <1>3 DEF Readable, Drop
  <2>2. CASE ~Readable(vault, secrets, x)
    BY <1>1, <1>4, <2>2 DEF Readable
  <2>3. QED
    BY <2>1, <2>2
<1>7. Unbroken(vault) => Unbroken(vault')
  BY <1>3 DEF Unbroken, Drop
<1>8. QED
  BY <1>1, <1>3, <1>5, <1>6, <1>7 DEF PairUsable

-----------------------------------------------------------------------------
(* What every step means for the metadata in memory, the anchor and the      *)
(* errors.                                                                   *)

(* Without a commit, the metadata in p's memory are what they were or what
   vault.toml is now. *)
LEMMA OwnMeta ==
  ASSUME Types, NEW p \in Procs, Quiet(p)
  PROVE  \/ pc'[p] \in {"idle", "readVault"}
         \/ meta'[p] = vault
         \/ Past(p) /\ meta'[p] = meta[p] /\ overtaken' = overtaken
<1> USE DEF disk, mine, bounds, history
<1>1. CASE End(p)
  BY <1>1, EndEffect DEF Ended
<1>2. CASE \E cmd \in Ops, n \in Names \cup {NoName} : Start(p, cmd, n)
  BY <1>2 DEF Start, Goto, Types, LocalTypes
<1>3. CASE (Unlock(p) \/ Get(p)) /\ ~End(p)
  BY <1>3 DEF Unlock, ReadVault, UseCachedKey, UsePassword, EnforceAnchor, CompareAnchor,
              WriteAnchor, VerifySecrets, CacheKey, Get, Fail, Goto, Types, LocalTypes,
              MetaTypes, Past
<1>4. CASE /\ ~End(p)
           /\ \/ WantLock(p) \/ LockPair(p) \/ Refresh(p) \/ StartRatchet(p) \/ LoadForAllow(p)
              \/ Diagnose(p) \/ Release(p) \/ DropCache(p) \/ Crash(p)
  BY <1>4 DEF WantLock, LockPair, Refresh, StartRatchet, LoadForAllow, Diagnose, Release,
              DropCache, Crash, Fail, Goto, Types, LocalTypes, MetaTypes, Past
<1>5. QED
  BY <1>1, <1>2, <1>3, <1>4 DEF Quiet, CommitUnset, FailToUnwrap, Fail

(* What the commands know stays true in it. *)
LEMMA QuietKnows ==
  ASSUME Types, Knows, NEW p \in Procs, Quiet(p)
  PROVE  Knows'
<1>1. vault' = vault /\ vault.epoch \in Nat /\ overtaken' \in {overtaken, overtaken \ {p}}
  BY QuietEffect DEF Types, DiskTypes, MetadataUpTo
<1>2. \A q \in Procs \ {p} : Same(q)
  BY QuietEffect
<1>3. CASE pc'[p] \in {"idle", "readVault"} \/ meta'[p] = vault
  BY <1>1, <1>2, <1>3 DEF Knows, Past, Same
<1>4. CASE Past(p) /\ meta'[p] = meta[p] /\ overtaken' = overtaken
  BY <1>1, <1>2, <1>4 DEF Knows, Past, Same
<1>5. QED
  BY <1>3, <1>4, OwnMeta

(* The anchor is only written with an epoch that vault.toml has had. *)
LEMMA QuietAnchor ==
  ASSUME Types, Knows, NEW p \in Procs, Quiet(p)
  PROVE  AnchorNotAhead => AnchorNotAhead'
<1>1. anchor' = anchor \/ (pc[p] = "write" /\ anchor' = meta[p].epoch)
  BY DEF Quiet, Unlock, ReadVault, UseCachedKey, UsePassword, EnforceAnchor, CompareAnchor,
         WriteAnchor, VerifySecrets, CacheKey, Get, WantLock, LockPair, Refresh, StartRatchet,
         LoadForAllow, Diagnose, Release, DropCache, Crash, Start, CommitUnset, FailToUnwrap,
         CommitSecrets, CommitPair
<1>2. vault' = vault
  BY QuietEffect
<1>3. QED
  BY <1>1, <1>2 DEF AnchorNotAhead, Knows, Past

(* A commit that starts from the pair as it is leaves everybody else behind. *)
LEMMA CommitKnows ==
  ASSUME Types, Knows, NEW p \in Procs, NEW m, NEW s, CommitPair(p, m, s),
         key' = key \/ \E k : key' = [key EXCEPT ![p] = k], phase' = phase,
         vault'.epoch = vault.epoch + 1
  PROVE  Knows' /\ (AnchorNotAhead => AnchorNotAhead')
<1>1. /\ meta'[p] = vault' /\ anchor' = anchor
      /\ \A q \in Procs \ {p} : Same(q) /\ (Past(q) => q \in overtaken')
  BY CommitEffect
<1>2. vault.epoch \in Nat /\ anchor \in Nat /\ \A q \in Procs : meta[q].epoch \in Nat
  BY DEF Types, DiskTypes, SharedTypes, MetaTypes, MetadataUpTo
<1>3. \A q \in Procs \ {p} : Past(q) => meta'[q].epoch < vault'.epoch
  BY <1>1, <1>2 DEF Knows, Same
<1>4. Knows'
  BY <1>1, <1>2, <1>3 DEF Knows, Same, Past
<1>5. QED
  BY <1>1, <1>2, <1>4 DEF AnchorNotAhead

(* While nothing is damaged, or the vault began so, a command that nobody
   overtook can only fail on a key that is not that of vault.toml. *)
LEMMA QuietAlarms ==
  ASSUME Types, Knows, ~Damaged => Healthy, NameInv,
         NEW p \in Procs, Quiet(p), alarms' # alarms,
         pc[p] = "reencrypt" => file[p] = secrets
  PROVE  /\ alarms' \subseteq alarms \cup {"MetadataTampered"}
         /\ \/ UseCachedKey(p) /\ cache # NoKey /\ cache # meta[p].dek
            \/ Refresh(p) /\ ~(vault.dek = key[p] /\ secrets = vault.hash)
<1> USE DEF disk, mine, bounds, history
<1>1. \/ UseCachedKey(p) \/ EnforceAnchor(p) \/ VerifySecrets(p) \/ Get(p) \/ Refresh(p)
      \/ LoadForAllow(p) \/ FailToUnwrap(p)
  BY DEF Quiet, Unlock, ReadVault, UsePassword, CompareAnchor, WriteAnchor, CacheKey, WantLock,
         LockPair, StartRatchet, Diagnose, Release, DropCache, Crash, Start, CommitUnset
<1>2. vault.epoch \in Nat /\ anchor \in Nat /\ \A q \in Procs : meta[q].epoch \in Nat
  BY DEF Types, DiskTypes, SharedTypes, MetaTypes, MetadataUpTo
<1>3. ASSUME NEW error, Fail(p, error)
      PROVE  p \notin overtaken /\ PairUsable /\ Unbroken(vault) /\ AnchorNotAhead
  BY <1>3 DEF Fail, Healthy
<1>4. ASSUME NEW error, Fail(p, error), Past(p)
      PROVE  meta[p] = vault
  BY <1>3, <1>4 DEF Knows
<1>5. ~EnforceAnchor(p)
  <2> SUFFICES ASSUME EnforceAnchor(p) PROVE FALSE
    OBVIOUS
  <2>1. Fail(p, "VaultRolledBack") /\ meta[p].epoch < anchor /\ Past(p)
    BY DEF EnforceAnchor, Past
  <2>2. QED
    BY <1>2, <1>3, <1>4, <2>1 DEF AnchorNotAhead
<1>6. ~VerifySecrets(p)
  <2> SUFFICES ASSUME VerifySecrets(p) PROVE FALSE
    OBVIOUS
  <2>1. Fail(p, "TamperedSecretsFile") /\ secrets # meta[p].hash /\ Past(p)
    BY DEF VerifySecrets, Past
  <2>2. QED
    BY <1>3, <1>4, <2>1 DEF PairUsable
<1>7. ~Get(p)
  <2> SUFFICES ASSUME Get(p) PROVE FALSE
    OBVIOUS
  <2>1. op[p].name \in Names /\ Past(p)
    BY DEF Get, NameInv, NamedOps, Past
  <2>2. Fail(p, "MissingSecretKeyWrapping") /\ ~Readable(meta[p], secrets, op[p].name)
    BY DEF Get
  <2>3. QED
    BY <1>3, <1>4, <2>1, <2>2 DEF PairUsable
<1>8. ~LoadForAllow(p)
  <2> SUFFICES ASSUME LoadForAllow(p) PROVE FALSE
    OBVIOUS
  <2>1. /\ Fail(p, "Crypto") /\ Past(p)
        /\ \E n \in Names : secrets[n] # NoRecord /\ Id(secrets, n) \notin DOMAIN meta[p].wraps
    BY DEF LoadForAllow, Past
  <2>2. QED
    BY <1>3, <1>4, <2>1 DEF PairUsable, Readable
<1>9. ~FailToUnwrap(p)
  <2> SUFFICES ASSUME FailToUnwrap(p) PROVE FALSE
    OBVIOUS
  <2>1. Fail(p, "Crypto") /\ CannotUnwrap(p)
    BY DEF FailToUnwrap
  <2>2. Past(p)
    BY <2>1 DEF CannotUnwrap, Past
  <2>3. meta[p] = vault /\ Unbroken(vault) /\ PairUsable
    BY <1>3, <1>4, <2>1, <2>2
  <2>4. pc[p] = "reencrypt" /\ ~Readable(vault, secrets, op[p].name)
    BY <2>1, <2>3 DEF CannotUnwrap, Unbroken
  <2>5. op[p].name \in Names
    BY <2>4 DEF NameInv, NamedOps
  <2>6. QED
    BY <2>3, <2>4, <2>5 DEF PairUsable
<1>10. CASE UseCachedKey(p)
  BY <1>10 DEF UseCachedKey, Fail
<1>11. CASE Refresh(p)
  BY <1>11 DEF Refresh, Fail
<1>12. QED
  BY <1>1, <1>5, <1>6, <1>7, <1>8, <1>9, <1>10, <1>11

-----------------------------------------------------------------------------
(* A vault with one writer.                                                  *)

Alone(w) == \A p \in Procs \ {w} : Can[p] \subseteq {"get"}

(* A vault that does not begin damaged is healthy at first. *)
LEMMA InitHealthy == Init /\ ~Damaged => Healthy
<1> SUFFICES ASSUME Init, ~Damaged PROVE Healthy
  OBVIOUS
<1>1. PICK present \in SUBSET Names, wrapped \in SUBSET Names :
        \E wrapping \in [wrapped -> IF Damaged THEN {BadWrap, 1, 2} ELSE {1}] :
        /\ wrapped = present \/ Damaged
        /\ secrets = [n \in Names |-> IF n \in present
                        THEN [at |-> 1, sdk |-> 1, val |-> 1] ELSE NoRecord]
        /\ vault \in [epoch : {1}, dek : {1}, writes : {0},
                      wraps : {[i \in wrapped \X {1} |-> wrapping[i[1]]]},
                      hash : IF Damaged THEN {secrets, NoFile, LostHash} ELSE {secrets}]
  BY DEF Init
<1>2. PICK wrapping \in [present -> {1}] :
        vault \in [epoch : {1}, dek : {1}, writes : {0},
                   wraps : {[i \in present \X {1} |-> wrapping[i[1]]]}, hash : {secrets}]
  BY <1>1
<1>3. /\ vault.wraps = [i \in present \X {1} |-> wrapping[i[1]]]
      /\ vault.hash = secrets /\ vault.epoch = 1
  BY <1>2
<1>4. \A i \in present \X {1} : wrapping[i[1]] = 1
  BY <1>2
<1>5. ASSUME NEW n \in Names, secrets[n] # NoRecord
      PROVE  Id(secrets, n) \in DOMAIN vault.wraps /\ vault.wraps[Id(secrets, n)] = secrets[n].sdk
  <2>1. n \in present /\ secrets[n] = [at |-> 1, sdk |-> 1, val |-> 1]
    BY <1>1, <1>5
  <2>2. Id(secrets, n) \in present \X {1}
    BY <2>1 DEF Id
  <2>3. QED
    BY <1>3, <1>4, <2>1, <2>2
<1>6. Unbroken(vault)
  BY <1>3, <1>4 DEF Unbroken, BadWrap
<1>7. AnchorNotAhead
  BY <1>3 DEF Init, AnchorNotAhead
<1>8. QED
  BY <1>3, <1>5, <1>6, <1>7 DEF Healthy, PairUsable, Readable

(* At the start no command is under way. *)
LEMMA InitCommon ==
  Init => /\ Types /\ NameInv /\ Knows /\ NoFalseAlarm
          /\ ~Damaged => Healthy
          /\ cache = NoKey /\ lock = NoProc
          /\ \A p \in Procs : /\ pc[p] = "idle" /\ Cmd(p) = "none" /\ phase[p] = "none"
                               /\ ~installed[p] /\ p \notin overtaken
<1> SUFFICES ASSUME Init
             PROVE  /\ NameInv /\ Knows /\ NoFalseAlarm
                    /\ cache = NoKey /\ lock = NoProc
                    /\ \A p \in Procs : /\ pc[p] = "idle" /\ Cmd(p) = "none" /\ phase[p] = "none"
                                         /\ ~installed[p] /\ p \notin overtaken
  BY InitTypes, InitHealthy
<1>1. \A p \in Procs : /\ pc[p] = "idle" /\ Cmd(p) = "none" /\ phase[p] = "none"
                       /\ ~installed[p] /\ p \notin overtaken
  BY DEF Init, Cmd, NoOp
<1>2. alarms = {} /\ cache = NoKey /\ lock = NoProc
  BY DEF Init
<1>3. QED
  BY <1>1, <1>2 DEF NameInv, NamedOps, LockedOps, Knows, Past, NoFalseAlarm

(* The invariant of one writer holds at the start, *)
LEMMA InitOneWriter == ASSUME NEW w \in Procs PROVE Init => OneWriterInv(w)
BY InitCommon DEF OneWriterInv, Reader, Writer, Past, NoFalseAlarm, OnlyStaleCacheAlarms

(* A reader commits nothing. *)
LEMMA ReaderQuiet ==
  ASSUME Types, NEW p \in Procs, Reader(p), Process(p)
  PROVE  /\ Quiet(p)
         /\ ~WantLock(p) /\ ~LockPair(p) /\ ~Refresh(p) /\ ~StartRatchet(p) /\ ~LoadForAllow(p)
         /\ ~Diagnose(p) /\ ~Release(p) /\ ~DropCache(p) /\ ~CommitUnset(p) /\ ~FailToUnwrap(p)
<1>1. /\ ~WantLock(p) /\ ~LockPair(p) /\ ~Refresh(p) /\ ~StartRatchet(p) /\ ~LoadForAllow(p)
      /\ ~Diagnose(p) /\ ~Release(p) /\ ~DropCache(p)
  BY DEF Reader, LockedOps, WantLock, LockPair, Refresh, StartRatchet, LoadForAllow, Diagnose,
         Release, DropCache
<1>2. /\ ~CommitSet(p) /\ ~CommitUnset(p) /\ ~CommitConfig(p) /\ ~CommitRotation(p)
      /\ ~CommitAllow(p) /\ ~CommitAllowAsLoaded(p) /\ ~CommitRepair(p) /\ ~FailToUnwrap(p)
  BY DEF Reader, CommitSet, CommitUnset, CommitConfig, CommitRotation, CommitAllow,
         CommitAllowAsLoaded, CommitRepair, FailToUnwrap, CannotUnwrap
<1>3. QED
  BY <1>1, <1>2 DEF Process, Write, Quiet

(* ... and stays one. *)
LEMMA ReaderStays ==
  ASSUME Types, NEW p \in Procs, Reader(p), Can[p] \subseteq {"get"}, Process(p)
  PROVE  Reader(p)' /\ lock' \in {lock, NoProc}
<1>1. CASE End(p)
  BY <1>1, EndEffect DEF Reader, Ended, Cmd, NoOp
<1>2. CASE \E cmd \in Ops, n \in Names \cup {NoName} : Start(p, cmd, n)
  BY <1>2 DEF Start, Goto, Types, LocalTypes, Reader, Cmd
<1>3. CASE (Unlock(p) \/ Get(p)) /\ ~End(p)
  BY <1>3 DEF Unlock, ReadVault, UseCachedKey, UsePassword, EnforceAnchor, CompareAnchor,
              WriteAnchor, VerifySecrets, CacheKey, Get, Fail, Goto, Types, LocalTypes,
              AfterAnchor, Reader, Cmd, mine
<1>4. CASE Crash(p)
  BY <1>1, <1>4 DEF Crash
<1>5. QED
  BY <1>1, <1>2, <1>3, <1>4, ReaderQuiet DEF Quiet

(* ... through the steps of the readers, *)
LEMMA OneWriterReads ==
  ASSUME NEW w \in Procs, Alone(w), OneWriterInv(w), NEW p \in Procs \ {w}, Process(p)
  PROVE  OneWriterInv(w)' /\ UNCHANGED <<vault, secrets>> /\ Same(w)
<1> USE DEF OneWriterInv
<1>1. Quiet(p) /\ Can[p] \subseteq {"get"}
  BY ReaderQuiet DEF Alone
<1>2. /\ UNCHANGED <<vault, secrets>> /\ \A q \in Procs \ {p} : Same(q)
      /\ overtaken' \subseteq overtaken
  BY <1>1, QuietEffect
<1>3. Types' /\ NameInv' /\ Knows' /\ (AnchorNotAhead => AnchorNotAhead')
  BY <1>1, TypesStep, NameStep, QuietKnows, QuietAnchor
<1>4. \A q \in Procs \ {w} : Reader(q)'
  <2>1. Reader(p)' /\ lock' \in {lock, NoProc}
    BY <1>1, ReaderStays
  <2>2. QED
    BY <1>2, <2>1 DEF Reader, Same, Cmd
<1>5. Writer(w)'
  BY <1>2 DEF Writer, Same, Past, Cmd
<1>6. (~Damaged => Healthy)'
  BY <1>2, <1>3 DEF Healthy, PairUsable, Readable
<1>7. OnlyStaleCacheAlarms'
  BY <1>1, QuietAlarms DEF OnlyStaleCacheAlarms, Reader
<1>8. QED
  BY <1>2, <1>3, <1>4, <1>5, <1>6, <1>7

(* What is loaded without the lock for `dl share allow`, and diagnosed for
   `dl repair`, is the secrets.lock of that moment. *)
LEMMA QuietFile ==
  ASSUME Types, NEW p \in Procs, Quiet(p), Writer(p)
  PROVE  pc'[p] \in {"reencrypt", "reseal"} \/ (pc'[p] = "wantLock" /\ Cmd(p)' = "repair")
           => file'[p] = secrets
<1> USE DEF disk, mine, bounds, history
<1>1. CASE End(p)
  BY <1>1, EndEffect DEF Ended
<1>2. CASE \E cmd \in Ops, n \in Names \cup {NoName} : Start(p, cmd, n)
  BY <1>2 DEF Start, Goto, Types, LocalTypes
<1>3. CASE (Unlock(p) \/ Get(p)) /\ ~End(p)
  BY <1>3 DEF Unlock, ReadVault, UseCachedKey, UsePassword, EnforceAnchor, CompareAnchor,
              WriteAnchor, VerifySecrets, CacheKey, Get, Fail, Goto, Types, LocalTypes, AfterAnchor
<1>4. CASE /\ ~End(p)
           /\ \/ WantLock(p) \/ LockPair(p) \/ Refresh(p) \/ StartRatchet(p) \/ LoadForAllow(p)
              \/ Diagnose(p) \/ Release(p) \/ DropCache(p) \/ Crash(p)
  BY <1>4 DEF WantLock, LockPair, Refresh, StartRatchet, LoadForAllow, Diagnose, Release,
              DropCache, Crash, Fail, Goto, Types, LocalTypes, MetaTypes, Writer, Cmd, LockedOps
<1>5. QED
  BY <1>1, <1>2, <1>3, <1>4 DEF Quiet, CommitUnset, FailToUnwrap, Fail

(* The steps of the writer that commit nothing. *)
LEMMA OneWriterQuiet ==
  ASSUME NEW w \in Procs, Alone(w), OneWriterInv(w), Quiet(w), Process(w)
  PROVE  OneWriterInv(w)' /\ UNCHANGED <<vault, secrets>>
<1> USE DEF OneWriterInv
<1>1. /\ UNCHANGED <<vault, secrets>> /\ \A q \in Procs \ {w} : Same(q)
      /\ overtaken' \subseteq overtaken
  BY QuietEffect
<1>2. Types' /\ NameInv' /\ Knows' /\ (AnchorNotAhead => AnchorNotAhead')
  BY TypesStep, NameStep, QuietKnows, QuietAnchor
<1>3. \A q \in Procs \ {w} : Reader(q)'
  <2>1. lock' \in {lock, NoProc, w}
    BY DEF Quiet, Unlock, ReadVault, UseCachedKey, UsePassword, EnforceAnchor, CompareAnchor,
           WriteAnchor, VerifySecrets, CacheKey, Get, WantLock, LockPair, Refresh, StartRatchet,
           LoadForAllow, Diagnose, Release, DropCache, Crash, Start, CommitUnset, FailToUnwrap,
           CommitSecrets, CommitPair, Fail, End, mine
  <2>2. QED
    BY <1>1, <2>1 DEF Reader, Same, Cmd
<1>4. Writer(w)'
  BY <1>1, OwnMeta, QuietFile DEF Writer, Past
<1>5. (~Damaged => Healthy)'
  BY <1>1, <1>2 DEF Healthy, PairUsable, Readable
<1>6. OnlyStaleCacheAlarms'
  BY QuietAlarms DEF OnlyStaleCacheAlarms, Writer
<1>7. QED
  BY <1>1, <1>2, <1>3, <1>4, <1>5, <1>6

(* Its commits start from the pair as it is. *)
Commits(p) ==
  \/ CommitSet(p) \/ CommitConfig(p) \/ CommitRotation(p) \/ CommitRepair(p)
  \/ CommitUnset(p) /\ secrets[op[p].name] # NoRecord
  \/ CommitAllow(p) \/ CommitAllowAsLoaded(p)

(* A step either is quiet or commits, and if it commits it does what
   commit_vault_pair does. *)
LEMMA QuietOrCommits ==
  ASSUME NEW p \in Procs, Process(p)
  PROVE  Quiet(p) \/ Commits(p)
BY DEF Process, Write, Quiet, Commits

(* A step that commits installs a pair. *)
LEMMA CommitsPair ==
  ASSUME NEW p \in Procs, Commits(p)
  PROVE  /\ \E m, s : CommitPair(p, m, s)
         /\ key' = key \/ \E k : key' = [key EXCEPT ![p] = k]
         /\ phase' = phase
         /\ Past(p)
<1>1. CASE CommitSet(p)
  BY <1>1 DEF CommitSet, CommitSecrets, Past
<1>2. CASE CommitConfig(p)
  BY <1>2 DEF CommitConfig, Past
<1>3. CASE CommitRotation(p)
  BY <1>3 DEF CommitRotation, Past
<1>4. CASE CommitRepair(p)
  BY <1>4 DEF CommitRepair, CommitSecrets, Past
<1>5. CASE CommitUnset(p) /\ secrets[op[p].name] # NoRecord
  BY <1>5 DEF CommitUnset, CommitSecrets, Past
<1>6. CASE CommitAllow(p) \/ CommitAllowAsLoaded(p)
  BY <1>6 DEF CommitAllow, CommitAllowAsLoaded, CommitSecrets, Past
<1>7. QED
  BY <1>1, <1>2, <1>3, <1>4, <1>5, <1>6 DEF Commits

(* ... through the commits of the writer, with what the properties say of them, *)
LEMMA OneWriterCommits ==
  ASSUME NEW w \in Procs, Alone(w), OneWriterInv(w), Commits(w), Process(w)
  PROVE  /\ OneWriterInv(w)'
         /\ vault'.epoch = vault.epoch + 1 /\ vault'.dek \in {vault.dek, fresh + 1}
         /\ PairUsable => PairUsable'
         /\ AnchorNotAhead => AnchorNotAhead'
         /\ pc[w] = "reseal" =>
              /\ PairUsable'
              /\ \A n \in Names : Readable(vault, secrets, n) => secrets'[n] = secrets[n]
<1> USE DEF OneWriterInv
<1>1. meta[w] = vault
  BY CommitsPair DEF Writer
<1>2. /\ vault'.epoch = vault.epoch + 1 /\ vault'.dek \in {vault.dek, fresh + 1}
      /\ PairUsable => PairUsable'
      /\ Unbroken(vault) => Unbroken(vault')
      /\ pc[w] = "reseal" =>
           /\ PairUsable'
           /\ \A n \in Names : Readable(vault, secrets, n) => secrets'[n] = secrets[n]
  <2>1. CASE CommitSet(w)
    BY <1>1, <2>1, SetUsable DEF CommitSet
  <2>2. CASE CommitConfig(w) \/ CommitRotation(w)
    BY <1>1, <2>2, MetaUsable DEF CommitConfig, CommitRotation
  <2>3. CASE CommitRepair(w)
    BY <1>1, <2>3, RepairUsable DEF CommitRepair, Writer
  <2>4. CASE CommitUnset(w) /\ secrets[op[w].name] # NoRecord
    BY <1>1, <2>4, UnsetUsable DEF CommitUnset
  <2>5. CASE CommitAllow(w) \/ CommitAllowAsLoaded(w)
    BY <1>1, <2>5, AllowUsable, AsLoadedUsable DEF CommitAllow, CommitAllowAsLoaded, Writer
  <2>6. QED
    BY <2>1, <2>2, <2>3, <2>4, <2>5 DEF Commits
<1>3. PICK m, s : CommitPair(w, m, s)
  BY CommitsPair
<1>4. key' = key \/ (\E k : key' = [key EXCEPT ![w] = k])
  BY CommitsPair
<1>5. phase' = phase
  BY CommitsPair
<1>6. Types' /\ NameInv' /\ Knows' /\ (AnchorNotAhead => AnchorNotAhead')
  BY <1>2, <1>3, <1>4, <1>5, TypesStep, NameStep, CommitKnows
<1>7. /\ meta'[w] = vault' /\ lock' = w /\ pc'[w] = "compare" /\ alarms' = alarms
      /\ \A q \in Procs \ {w} : Same(q)
      /\ w \in overtaken' => w \in overtaken
  BY <1>3, <1>4, <1>5, CommitEffect
<1>8. (\A q \in Procs \ {w} : Reader(q)') /\ Writer(w)'
  BY <1>7 DEF Reader, Writer, Same, Cmd, Past
<1>9. (~Damaged => Healthy)' /\ OnlyStaleCacheAlarms'
  BY <1>2, <1>6, <1>7 DEF OnlyStaleCacheAlarms, Healthy
<1>10. QED
  BY <1>2, <1>6, <1>8, <1>9

(* ... and through every step. *)
LEMMA OneWriterStep ==
  ASSUME NEW w \in Procs, Alone(w), OneWriterInv(w), [Next]_vars
  PROVE  OneWriterInv(w)'
<1>1. CASE UNCHANGED vars
  BY <1>1 DEF vars, disk, mine, bounds, history, OneWriterInv, Types, DiskTypes, SharedTypes,
     LocalTypes, MetaTypes, NameInv, Knows, Past, Reader, Writer, Cmd, Healthy, PairUsable,
     Readable, AnchorNotAhead, OnlyStaleCacheAlarms
<1>2. ASSUME NEW p \in Procs, Process(p) PROVE OneWriterInv(w)'
  <2>1. CASE p # w
    BY <1>2, <2>1, OneWriterReads
  <2>2. CASE p = w
    BY <1>2, <2>2, QuietOrCommits, OneWriterQuiet, OneWriterCommits
  <2>3. QED
    BY <2>1, <2>2
<1>3. QED
  BY <1>1, <1>2 DEF Next

(* So it holds in every reachable state. *)
LEMMA OneWriterInvariance ==
  ASSUME NEW w \in Procs, Alone(w)
  PROVE  Spec => []OneWriterInv(w)
<1>1. Init => OneWriterInv(w)
  BY InitOneWriter
<1>2. OneWriterInv(w) /\ [Next]_vars => OneWriterInv(w)'
  BY OneWriterStep
<1>3. QED
  BY <1>1, <1>2, PTL DEF Spec

(* One process may run any command, whatever was damaged; the others read. *)
OneWriter == \E w \in Procs : Alone(w)

(* The only error of a command that nobody overtook is a cached key that a
   rotation replaced (load_cached_key, the MAC check of the unlock). *)
THEOREM OnlyTheCacheAlarms == ASSUME OneWriter PROVE Spec => []OnlyStaleCacheAlarms
<1>1. PICK w \in Procs : Alone(w)
  BY DEF OneWriter
<1>2. Spec => []OneWriterInv(w)
  BY <1>1, OneWriterInvariance
<1>3. OneWriterInv(w) => OnlyStaleCacheAlarms
  BY DEF OneWriterInv
<1>4. QED
  BY <1>2, <1>3, PTL

(* What one step of a vault with one writer does to the pair. *)
LEMMA OneWriterPair ==
  ASSUME NEW w \in Procs, Alone(w), OneWriterInv(w), [Next]_vars
  PROVE  /\ PairUsable => PairUsable'
         /\ AnchorNotAhead => AnchorNotAhead'
         /\ vault' # vault => vault'.epoch > vault.epoch
         /\ vault'.dek # vault.dek => vault'.dek > vault.dek
         /\ \A p \in Procs : pc[p] = "reseal" /\ pc'[p] = "compare" =>
              /\ PairUsable'
              /\ \A n \in Names : Readable(vault, secrets, n) => secrets'[n] = secrets[n]
<1>1. vault.epoch \in Nat /\ fresh \in Nat /\ vault.dek \in 0..fresh
  BY DEF OneWriterInv, Types, DiskTypes, SharedTypes, MetadataUpTo
<1>2. CASE UNCHANGED vars
  BY <1>2 DEF vars, disk, PairUsable, Readable, AnchorNotAhead
<1>3. ASSUME NEW p \in Procs \ {w} PROVE pc[p] # "reseal"
  BY <1>3 DEF OneWriterInv, Reader
<1>4. ASSUME NEW q \in Procs, Process(q), Quiet(q), UNCHANGED <<vault, secrets>>,
             ~(pc[w] = "reseal" /\ pc'[w] = "compare")
      PROVE  /\ PairUsable => PairUsable'
             /\ AnchorNotAhead => AnchorNotAhead'
             /\ vault' # vault => vault'.epoch > vault.epoch
             /\ vault'.dek # vault.dek => vault'.dek > vault.dek
             /\ \A p \in Procs : ~(pc[p] = "reseal" /\ pc'[p] = "compare")
  BY <1>3, <1>4, QuietAnchor DEF PairUsable, Readable, OneWriterInv
<1>5. ASSUME NEW q \in Procs \ {w}, Process(q)
      PROVE  /\ Quiet(q) /\ UNCHANGED <<vault, secrets>>
             /\ ~(pc[w] = "reseal" /\ pc'[w] = "compare")
  BY <1>5, OneWriterReads, ReaderQuiet DEF Same, OneWriterInv
<1>6. ASSUME Process(w), Quiet(w)
      PROVE  UNCHANGED <<vault, secrets>> /\ ~(pc[w] = "reseal" /\ pc'[w] = "compare")
  <2>1. UNCHANGED <<vault, secrets>>
    BY <1>6, QuietEffect DEF OneWriterInv
  <2>2. ASSUME pc[w] = "reseal" PROVE pc'[w] # "compare"
    <3>1. Crash(w)
      BY <1>6, <2>2 DEF Quiet, Unlock, ReadVault, UseCachedKey, UsePassword, EnforceAnchor,
         CompareAnchor, WriteAnchor, VerifySecrets, CacheKey, Get, WantLock, LockPair, Refresh,
         StartRatchet, LoadForAllow, Diagnose, Release, DropCache, Crash, Start, CommitUnset,
         FailToUnwrap, CannotUnwrap
    <3>2. QED
      BY <3>1, EndEffect DEF Crash, Ended, OneWriterInv
  <2>3. QED
    BY <2>1, <2>2
<1>7. CASE Process(w) /\ Commits(w)
  BY <1>1, <1>3, <1>7, OneWriterCommits
<1>8. CASE \E q \in Procs : Process(q) /\ ~(q = w /\ Commits(q))
  BY <1>4, <1>5, <1>6, <1>8, QuietOrCommits
<1>9. QED
  BY <1>2, <1>7, <1>8 DEF Next

(* While one process writes, no command breaks a pair that opens ("no
   intermediate state ever contains a ciphertext without its SDK"). *)
THEOREM UsablePairStays == ASSUME OneWriter PROVE Spec => PairStaysUsable
<1>1. PICK w \in Procs : Alone(w)
  BY DEF OneWriter
<1>2. Spec => []OneWriterInv(w)
  BY <1>1, OneWriterInvariance
<1>3. OneWriterInv(w) /\ [Next]_vars => [PairUsable => PairUsable']_vars
  BY <1>1, OneWriterPair
<1>4. QED
  BY <1>2, <1>3, PTL DEF Spec, PairStaysUsable

(* No crash between the renames, the comparison and the replacement of the
   anchor, no ratchet and no repair lets the anchor of a vault that one process
   writes run ahead of it (advance_epoch is only given epochs that vault.toml
   has had). *)
THEOREM AnchorHolds == ASSUME OneWriter PROVE Spec => AnchorFollowsVault
<1>1. PICK w \in Procs : Alone(w)
  BY DEF OneWriter
<1>2. Spec => []OneWriterInv(w)
  BY <1>1, OneWriterInvariance
<1>3. OneWriterInv(w) /\ [Next]_vars => [AnchorNotAhead => AnchorNotAhead']_vars
  BY <1>1, OneWriterPair
<1>4. QED
  BY <1>2, <1>3, PTL DEF Spec, AnchorFollowsVault

(* repair_reseal leaves a pair that opens, whatever wrappings and hash were left
   of it.  Whether an unlock then accepts the vault is another matter: the
   anchor may be ahead of it (RepairedUnlocks fails). *)
THEOREM RepairLeavesUsablePair == ASSUME OneWriter PROVE Spec => RepairHeals
<1>1. PICK w \in Procs : Alone(w)
  BY DEF OneWriter
<1>2. Spec => []OneWriterInv(w)
  BY <1>1, OneWriterInvariance
<1>3. OneWriterInv(w) /\ [Next]_vars =>
        [\A p \in Procs : pc[p] = "reseal" /\ pc'[p] = "compare" => PairUsable']_vars
  BY <1>1, OneWriterPair
<1>4. QED
  BY <1>2, <1>3, PTL DEF Spec, RepairHeals

(* repair_reseal never prunes a record that decrypts under the vault.toml it
   finds ("irrecoverable records are only ever removed"). *)
THEOREM RepairSparesReadable == ASSUME OneWriter PROVE Spec => RepairPrunesOnlyLost
<1>1. PICK w \in Procs : Alone(w)
  BY DEF OneWriter
<1>2. Spec => []OneWriterInv(w)
  BY <1>1, OneWriterInvariance
<1>3. OneWriterInv(w) /\ [Next]_vars =>
        [\A p \in Procs, n \in Names :
           pc[p] = "reseal" /\ pc'[p] = "compare" /\ Readable(vault, secrets, n)
             => secrets'[n] = secrets[n]]_vars
  BY <1>1, OneWriterPair
<1>4. QED
  BY <1>2, <1>3, PTL DEF Spec, RepairPrunesOnlyLost

(* Each commit of the one writer installs a larger epoch
   (seal_vault_metadata). *)
THEOREM WriterAdvancesEpoch == ASSUME OneWriter PROVE Spec => EpochAdvances
<1>1. PICK w \in Procs : Alone(w)
  BY DEF OneWriter
<1>2. Spec => []OneWriterInv(w)
  BY <1>1, OneWriterInvariance
<1>3. OneWriterInv(w) /\ [Next]_vars => [vault' # vault => vault'.epoch > vault.epoch]_vars
  BY <1>1, OneWriterPair
<1>4. QED
  BY <1>2, <1>3, PTL DEF Spec, EpochAdvances

(* A project key that its rotation retired never comes back
   (rotate_project_key). *)
THEOREM WriterRotationSticks == ASSUME OneWriter PROVE Spec => RotationSticks
<1>1. PICK w \in Procs : Alone(w)
  BY DEF OneWriter
<1>2. Spec => []OneWriterInv(w)
  BY <1>1, OneWriterInvariance
<1>3. OneWriterInv(w) /\ [Next]_vars => [vault'.dek # vault.dek => vault'.dek > vault.dek]_vars
  BY <1>1, OneWriterPair
<1>4. QED
  BY <1>2, <1>3, PTL DEF Spec, RotationSticks

-----------------------------------------------------------------------------
(* A vault that any number of `dl set`, `dl unset` and `dl get` share.       *)

(* No command of theirs is due for a ratchet, and the pair was not damaged. *)
SettersOnly ==
  /\ \A p \in Procs : Can[p] \subseteq LockedOps \cup {"get"}
  /\ RatchetAfter = 0 /\ ~Damaged

(* The invariant of setters holds at the start, *)
LEMMA InitSetters == Init /\ SettersOnly => SettersInv
<1> SUFFICES ASSUME Init, SettersOnly PROVE SettersInv
  OBVIOUS
<1>1. \A p \in Procs : Setter(p)
  BY InitCommon DEF Setter, Past
<1>2. QED
  BY <1>1, InitCommon DEF SettersInv, SettersOnly

(* What a step of p may do to the lock and to the cached key. *)
LEMMA QuietLock ==
  ASSUME Types, NEW p \in Procs, Quiet(p), pc[p] = "release" => lock = p
  PROVE  /\ \A q \in Procs \ {p} : lock = q => lock' = q
         /\ cache' \in {cache, NoKey} \/ (pc[p] = "cacheKey" /\ cache' = key[p])
<1>1. \A q \in Procs \ {p} : lock = q => lock' = q
  <2>1. \/ lock' = lock \/ lock = NoProc \/ End(p) \/ pc[p] = "release"
    BY DEF Quiet, Unlock, ReadVault, UseCachedKey, UsePassword, EnforceAnchor, CompareAnchor,
           WriteAnchor, VerifySecrets, CacheKey, Get, WantLock, LockPair, Refresh, StartRatchet,
           LoadForAllow, Diagnose, Release, DropCache, Crash, Start, CommitUnset, FailToUnwrap, Fail
  <2>2. QED
    BY <2>1 DEF End

<1>2. cache' \in {cache, NoKey} \/ (pc[p] = "cacheKey" /\ cache' = key[p])
  BY DEF Quiet, Unlock, ReadVault, UseCachedKey, UsePassword, EnforceAnchor, CompareAnchor,
         WriteAnchor, VerifySecrets, CacheKey, Get, WantLock, LockPair, Refresh, StartRatchet,
         LoadForAllow, Diagnose, Release, DropCache, Crash, Start, CommitUnset, FailToUnwrap,
         CommitSecrets, CommitPair
<1>3. QED
  BY <1>1, <1>2

(* A setter that commits nothing stays one. *)
LEMMA SetterQuiet ==
  ASSUME SettersOnly, SettersInv, NEW p \in Procs, Quiet(p)
  PROVE  Setter(p)'
<1> USE DEF SettersInv, disk, mine, bounds, history
<1>1. CASE End(p)
  BY <1>1, EndEffect DEF Setter, Ended, Cmd, NoOp, Past
<1>2. CASE \E cmd \in Ops, n \in Names \cup {NoName} : Start(p, cmd, n)
  <2>1. /\ Cmd(p)' \in LockedOps \cup {"get"} /\ pc'[p] = "readVault"
        /\ UNCHANGED <<phase, installed, lock, meta, key, vault>> /\ pc[p] = "idle"
    BY <1>2 DEF Start, Goto, Types, LocalTypes, Cmd, SettersOnly
  <2>2. QED
    BY <2>1 DEF Setter, Past
<1>3. CASE (Unlock(p) \/ Get(p)) /\ ~End(p)
  <2> USE DEF Setter, Types, LocalTypes, MetaTypes, Goto, Cmd, Past
  <2>1. CASE ReadVault(p)
    BY <1>3, <2>1 DEF ReadVault
  <2>2. CASE UseCachedKey(p)
    BY <1>3, <2>2 DEF UseCachedKey, Fail
  <2>3. CASE UsePassword(p)
    BY <1>3, <2>3 DEF UsePassword, LockedOps, MasterOps
  <2>4. CASE EnforceAnchor(p) \/ VerifySecrets(p) \/ CacheKey(p)
    BY <1>3, <2>4 DEF EnforceAnchor, VerifySecrets, CacheKey, Fail
  <2>5. CASE CompareAnchor(p) \/ WriteAnchor(p)
    BY <1>3, <2>5 DEF CompareAnchor, WriteAnchor, AfterAnchor
  <2>6. CASE Get(p)
    BY <1>3, <2>6 DEF Get, Fail
  <2>7. QED
    BY <1>3, <2>1, <2>2, <2>3, <2>4, <2>5, <2>6 DEF Unlock
<1>4. CASE WantLock(p) \/ LockPair(p)
  BY <1>4 DEF WantLock, LockPair, Setter, Types, LocalTypes, Goto, Cmd, Past, LockedOps
<1>5. CASE Refresh(p) /\ ~End(p)
  <2>1. vault.epoch \in Nat /\ meta[p].epoch \in Nat
    BY DEF Types, DiskTypes, MetaTypes, MetadataUpTo
  <2>2. CASE vault.epoch > meta[p].epoch
    BY <1>5, <2>2 DEF Refresh, Fail, Setter, Types, LocalTypes, MetaTypes, Goto, Cmd, Past
  <2>3. CASE ~(vault.epoch > meta[p].epoch)
    <3>1. meta[p] = vault
      BY <1>5, <2>1, <2>3 DEF Knows, Past, Refresh
    <3>2. QED
      BY <1>5, <2>3, <3>1 DEF Refresh, Setter, Types, LocalTypes, Goto, Cmd, Past
  <2>4. QED
    BY <2>2, <2>3
<1>6. ~RatchetDue(p)
  BY DEF RatchetDue, SettersOnly
<1>7. /\ ~StartRatchet(p) /\ ~LoadForAllow(p) /\ ~Diagnose(p) /\ ~DropCache(p)
      /\ ~(FailToUnwrap(p) /\ ~End(p))
  BY <1>6 DEF StartRatchet, LoadForAllow, Diagnose, DropCache, FailToUnwrap, Fail, Setter, LockedOps
<1>8. CASE Release(p) /\ ~End(p)
  BY <1>8 DEF Release, Setter, LockedOps
<1>9. QED
  BY <1>1, <1>2, <1>3, <1>4, <1>5, <1>7, <1>8 DEF Quiet, Crash, CommitUnset

(* ... through the steps that commit nothing, *)
LEMMA SettersQuiet ==
  ASSUME SettersOnly, SettersInv, NEW p \in Procs, Quiet(p), Process(p)
  PROVE  SettersInv' /\ UNCHANGED <<vault, secrets, fresh>>
<1> USE DEF SettersInv
<1>1. UNCHANGED <<vault, secrets, fresh>> /\ \A q \in Procs \ {p} : Same(q)
  BY QuietEffect
<1>2. Types' /\ NameInv' /\ Knows' /\ (AnchorNotAhead => AnchorNotAhead')
  BY TypesStep, NameStep, QuietKnows, QuietAnchor
<1>3. /\ \A q \in Procs \ {p} : lock = q => lock' = q
      /\ cache' \in {cache, NoKey} \/ (pc[p] = "cacheKey" /\ cache' = key[p])
  BY QuietLock DEF Setter
<1>4. \A q \in Procs : Setter(q)'
  <2>1. ASSUME NEW q \in Procs \ {p} PROVE Setter(q)'
    <3>1. Setter(q) /\ Same(q) /\ (lock = q => lock' = q) /\ vault' = vault
      BY <1>1, <1>3
    <3>2. QED
      BY <3>1 DEF Setter, Same, Cmd, Past
  <2>2. QED
    BY <2>1, SetterQuiet
<1>5. cache' \in {NoKey, vault'.dek}
  BY <1>1, <1>3 DEF Setter
<1>6. Healthy'
  BY <1>1, <1>2 DEF Healthy, PairUsable, Readable
<1>7. NoFalseAlarm'
  <2>1. ASSUME alarms' # alarms PROVE FALSE
    <3>1. \/ UseCachedKey(p) /\ cache # NoKey /\ cache # meta[p].dek
          \/ Refresh(p) /\ ~(vault.dek = key[p] /\ secrets = vault.hash)
      BY <2>1, QuietAlarms DEF Setter
    <3>2. ~UseCachedKey(p) \/ cache = NoKey \/ cache = meta[p].dek
      BY DEF UseCachedKey, Setter, Past
    <3>3. Refresh(p) => vault.dek = key[p] /\ secrets = vault.hash
      BY DEF Refresh, Setter, Healthy, PairUsable
    <3>4. QED
      BY <3>1, <3>2, <3>3
  <2>2. QED
    BY <2>1 DEF NoFalseAlarm
<1>8. QED
  BY <1>1, <1>2, <1>4, <1>5, <1>6, <1>7

(* A setter commits under the lock, from the pair as it is. *)
LEMMA SettersCommits ==
  ASSUME SettersOnly, SettersInv, NEW p \in Procs, Commits(p), Process(p)
  PROVE  /\ SettersInv'
         /\ vault'.epoch = vault.epoch + 1
         /\ \/ CommitSet(p)
            \/ CommitUnset(p) /\ secrets[op[p].name] # NoRecord
<1> USE DEF SettersInv
<1>1. \/ CommitSet(p)
      \/ CommitUnset(p) /\ secrets[op[p].name] # NoRecord
  BY DEF Commits, CommitConfig, CommitRotation, CommitRepair, CommitAllow, CommitAllowAsLoaded,
         Setter, LockedOps
<1>2. meta[p] = vault /\ lock = p /\ pc[p] = "modify"
  BY <1>1 DEF CommitSet, CommitUnset, Setter
<1>3. /\ vault'.epoch = vault.epoch + 1 /\ vault'.dek = vault.dek
      /\ PairUsable' /\ Unbroken(vault')
  BY <1>1, <1>2, SetUsable, UnsetUsable DEF Healthy
<1>4. PICK m, s : CommitPair(p, m, s)
  BY CommitsPair
<1>5. key' = key /\ phase' = phase
  BY <1>1 DEF CommitSet, CommitUnset, CommitSecrets, End
<1>6. Types' /\ NameInv' /\ Knows' /\ (AnchorNotAhead => AnchorNotAhead')
  BY <1>3, <1>4, <1>5, TypesStep, NameStep, CommitKnows
<1>7. /\ meta'[p] = vault' /\ lock' = p /\ pc'[p] = "compare" /\ alarms' = alarms
      /\ cache' = cache /\ op' = op
      /\ \A q \in Procs \ {p} : Same(q)
  BY <1>4, <1>5, CommitEffect
<1>8. \A q \in Procs : Setter(q)'
  <2>1. ASSUME NEW q \in Procs \ {p} PROVE Setter(q)'
    BY <1>2, <1>3, <1>7 DEF Setter, Same, Cmd, Past
  <2>2. Setter(p)'
    BY <1>2, <1>3, <1>5, <1>7 DEF Setter, Cmd, Past
  <2>3. QED
    BY <2>1, <2>2
<1>9. QED
  BY <1>1, <1>3, <1>6, <1>7, <1>8 DEF NoFalseAlarm, Healthy

(* ... and through every step. *)
LEMMA SettersStep ==
  ASSUME SettersOnly, SettersInv, [Next]_vars
  PROVE  SettersInv'
<1>1. CASE UNCHANGED vars
  BY <1>1 DEF vars, disk, mine, bounds, history, SettersInv, Types, DiskTypes, SharedTypes,
     LocalTypes, MetaTypes, NameInv, Knows, Past, Setter, Cmd, Healthy, PairUsable,
     Readable, AnchorNotAhead, NoFalseAlarm
<1>2. ASSUME NEW p \in Procs, Process(p) PROVE SettersInv'
  BY <1>2, QuietOrCommits, SettersQuiet, SettersCommits
<1>3. QED
  BY <1>1, <1>2 DEF Next

(* So it holds in every reachable state. *)
LEMMA SettersInvariance == ASSUME SettersOnly PROVE Spec => []SettersInv
<1>1. Init => SettersInv
  BY InitSetters
<1>2. SettersInv /\ [Next]_vars => SettersInv'
  BY SettersStep
<1>3. QED
  BY <1>1, <1>2, PTL DEF Spec

(* However many `dl set`, `dl unset` and `dl get` run at once, none of them
   that nobody overtook fails (lock_pair_and_refresh_metadata). *)
THEOREM SettersRaiseNoAlarm == ASSUME SettersOnly PROVE Spec => []NoFalseAlarm
<1>1. Spec => []SettersInv
  BY SettersInvariance
<1>2. SettersInv => NoFalseAlarm
  BY DEF SettersInv
<1>3. QED
  BY <1>1, <1>2, PTL

(* ... the pair always opens ... *)
THEOREM SettersKeepPairUsable == ASSUME SettersOnly PROVE Spec => []PairUsable
<1>1. Spec => []SettersInv
  BY SettersInvariance
<1>2. SettersInv => PairUsable
  BY DEF SettersInv, Healthy
<1>3. QED
  BY <1>1, <1>2, PTL

(* ... and the anchor never runs ahead of the vault. *)
THEOREM SettersKeepAnchorBehind == ASSUME SettersOnly PROVE Spec => []AnchorNotAhead
<1>1. Spec => []SettersInv
  BY SettersInvariance
<1>2. SettersInv => AnchorNotAhead
  BY DEF SettersInv, Healthy
<1>3. QED
  BY <1>1, <1>2, PTL

-----------------------------------------------------------------------------
(* The refinement of SecretStore.                                            *)

(* What `dl get` prints for every name, as ImplementsStore maps it. *)
Printed ==
  [n \in Names |-> IF vault.hash = secrets /\ Readable(vault, secrets, n)
                   THEN secrets[n].val ELSE 0]

(* Of a pair that opens every value is printed. *)
LEMMA PrintedAll == PairUsable => Printed = [n \in Names |-> secrets[n].val]
BY DEF PairUsable, Printed

(* The initial states are ones of the store. *)
LEMMA StoreInit == Init /\ SettersOnly => Store!Init
<1> SUFFICES ASSUME Init, SettersOnly PROVE Store!Init
  OBVIOUS
<1>1. PairUsable
  BY InitHealthy DEF SettersOnly, Healthy
<1>2. \A n \in Names : secrets[n].val \in {0, 1}
  <2>1. PICK present \in SUBSET Names :
          secrets = [n \in Names |-> IF n \in present
                       THEN [at |-> 1, sdk |-> 1, val |-> 1] ELSE NoRecord]
    BY DEF Init
  <2>2. QED
    BY <2>1 DEF NoRecord
<1>3. Printed \in [Names -> {0, 1}]
  BY <1>1, <1>2, PrintedAll
<1>4. fresh = 1
  BY DEF Init, SettersOnly
<1>5. QED
  BY <1>3, <1>4 DEF Store!Init, Printed

(* Every step is one of the store, or none. *)
LEMMA StoreStep ==
  ASSUME SettersOnly, SettersInv, [Next]_vars
  PROVE  [Store!Next]_<<Printed, fresh>>
<1>1. /\ PairUsable /\ PairUsable' /\ fresh \in Nat
      /\ RecordsUpTo(secrets, fresh)
  BY SettersStep DEF SettersInv, Healthy, Types, DiskTypes, SharedTypes
<1>2. /\ Printed = [n \in Names |-> secrets[n].val]
      /\ Printed' = [n \in Names |-> secrets'[n].val]
  BY <1>1 DEF PairUsable, Printed
<1>3. CASE UNCHANGED <<vault, secrets, fresh>>
  BY <1>2, <1>3
<1>4. ASSUME NEW p \in Procs, CommitSet(p)
      PROVE  Store!Next
  <2> DEFINE n == op[p].name
  <2>1. n \in Names
    BY <1>4 DEF CommitSet, NameInv, NamedOps, LockedOps, SettersInv
  <2> DEFINE at  == IF secrets[n] = NoRecord THEN fresh' ELSE secrets[n].at
             w   == meta[p].wraps
             sdk == IF <<n, at>> \in DOMAIN w THEN w[<<n, at>>] ELSE fresh'
  <2>2. secrets' = [secrets EXCEPT ![n] = [at |-> at, sdk |-> sdk, val |-> fresh']]
    BY <1>4 DEF CommitSet, CommitSecrets, CommitPair
  <2> HIDE DEF at, sdk
  <2>3. fresh' > fresh
    BY <1>1, <1>4 DEF CommitSet
  <2>4. Printed' = [Printed EXCEPT ![n] = fresh']
    BY <1>1, <1>2, <2>1, <2>2 DEF RecordsUpTo
  <2>5. QED
    BY <2>1, <2>3, <2>4 DEF Store!Next, Store!Set, Printed
<1>5. ASSUME NEW p \in Procs, CommitUnset(p), secrets[op[p].name] # NoRecord
      PROVE  Store!Next
  <2> DEFINE n == op[p].name
  <2>1. n \in Names
    BY <1>5 DEF CommitUnset, NameInv, NamedOps, LockedOps, SettersInv
  <2>2. secrets' = [secrets EXCEPT ![n] = NoRecord] /\ fresh' = fresh
    BY <1>5 DEF CommitUnset, CommitSecrets, CommitPair
  <2>3. secrets[n].val \in 1..fresh
    BY <1>1, <1>5, <2>1 DEF RecordsUpTo
  <2>4. Printed[n] # 0
    BY <1>1, <1>2, <2>1, <2>3
  <2>5. Printed' = [Printed EXCEPT ![n] = 0]
    BY <1>1, <1>2, <2>1, <2>2 DEF RecordsUpTo, NoRecord
  <2>6. QED
    BY <2>1, <2>2, <2>4, <2>5 DEF Store!Next, Store!Unset, Printed
<1>6. CASE UNCHANGED vars
  BY <1>3, <1>6 DEF vars, disk, bounds
<1>7. ASSUME NEW p \in Procs, Process(p)
      PROVE  Store!Next \/ UNCHANGED <<vault, secrets, fresh>>
  BY <1>4, <1>5, <1>7, QuietOrCommits, SettersQuiet, SettersCommits
<1>8. QED
  BY <1>3, <1>6, <1>7 DEF Next

(* Concurrent `dl set` and `dl unset` lose none of each other's updates: what
   `dl get` prints changes by whole commands only. *)
THEOREM Refinement == ASSUME SettersOnly PROVE Spec => ImplementsStore
<1>1. Init => Store!Init
  BY StoreInit
<1>2. SettersInv /\ [Next]_vars => [Store!Next]_<<Printed, fresh>>
  BY StoreStep
<1>3. Spec => []SettersInv
  BY SettersInvariance
<1>4. QED
  BY <1>1, <1>2, <1>3, PTL DEF Spec, ImplementsStore, Store!Spec, Printed

=============================================================================
