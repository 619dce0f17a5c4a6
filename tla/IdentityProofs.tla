--------------------------- MODULE IdentityProofs ---------------------------
(* Proofs about Identity, for any number of commands and any passphrases, as
   long as one `dl cert` command runs at a time. *)
EXTENDS Identity, TLAPS

USE OverlapAssumption, MaxCommandsAssumption

-----------------------------------------------------------------------------
(* The inductive invariant.                                                  *)

IsRecord(r) ==
  r = [pc |-> r.pc, cmd |-> r.cmd, under |-> r.under, key |-> r.key,
       files |-> r.files, left |-> r.left]

Types ==
  /\ disk = [s \in Slots |-> disk[s]]
  /\ proc = [p \in Procs |-> proc[p]] /\ \A p \in Procs : IsRecord(proc[p])

OneRuns == \A p, q \in Procs : p # q => proc[p].pc = "idle" \/ proc[q].pc = "idle"

HasKey(k)   == Exists("priv") /\ disk["priv"].key = k
NonePrimary == \A s \in Primary : ~Exists(s)

(* A private key beside a public key is that of it; and a migration that has
   archived only part of the RSA pair has left no private key in use, and
   nothing that `cert init` would write over. *)
FilesInv ==
  /\ Exists("priv") /\ Exists("pub") => disk["priv"].key = disk["pub"].key
  /\ Exists("oldpriv") /\ ~Exists("oldmeta") => ~Exists("priv") /\ Exists("meta")

(* What a command knows of the files between its steps. *)
AskedInv(p) ==
  proc[p].pc = "asked" =>
    /\ proc[p].cmd \in {"init", "passwd", "migrate"}
    /\ proc[p].cmd = "init" => NonePrimary
    /\ proc[p].cmd = "passwd" => HasKey(proc[p].key)
    /\ proc[p].cmd = "migrate" => Exists("meta") /\ ~Exists("oldmeta")

All   == <<"priv", "pub", "meta">>
ArchiveInv(p) ==
  proc[p].pc = "archive" =>
    /\ proc[p].left \in {All, <<"pub", "meta">>, <<"meta">>}
    /\ Exists("meta") /\ ~Exists("oldmeta")
    /\ proc[p].left # All => ~Exists("priv")
    /\ proc[p].left = <<"meta">> => ~Exists("pub")

WriteInv(p) ==
  proc[p].pc = "write" =>
    /\ proc[p].left \in {All, <<"pub", "meta">>, <<"meta">>, <<"priv", "meta">>}
    /\ proc[p].left = All => NonePrimary
    /\ proc[p].left # All => HasKey(proc[p].key)
    /\ proc[p].left = <<"pub", "meta">> => ~Exists("pub")

StageInv(p) ==
  /\ AskedInv(p) /\ ArchiveInv(p) /\ WriteInv(p)
  /\ proc[p].pc = "reading" => proc[p].cmd = "passwd"
  /\ proc[p].pc \in {"archive", "write"} => proc[p].files = Files(proc[p].key, proc[p].under)
  /\ proc[p].pc \in {"rekey", "commit"} /\ proc[p].key # NoKey => HasKey(proc[p].key)

KeyInv ==
  "forced" \notin excused => FilesInv /\ KeyKept /\ \A p \in Procs : StageInv(p)

(* The files of a pair, wherever they are, fit together. *)
Fits(priv, pub, meta) ==
  /\ Exists(priv) /\ Exists(pub) /\ Exists(meta)
  /\ disk[priv].key = disk[meta].fp /\ disk[pub].key = disk[meta].fp
  /\ FlagFits(priv, meta)
OldWhole  == Whole("oldpriv", "oldpub", "oldmeta")
BothWhole == Whole("priv", "pub", "meta") /\ OldWhole
PubOf(k)  == Exists("pub") /\ disk["pub"].key = k
PairOf(k) ==
  /\ Exists("priv") /\ Exists("pub") /\ Exists("meta")
  /\ disk["priv"].key = k /\ disk["pub"].key = k /\ disk["meta"].fp = k

(* Where the files are while a command moves and writes them, if no init and no
   migrate was killed before: of the pair that is archived, some in use and the others
   archived; of the one that is written, the first ones new. *)
AskedFit(p) ==
  proc[p].pc = "asked" =>
    /\ proc[p].cmd \in {"init", "passwd", "migrate"}
    /\ proc[p].cmd = "passwd" => PubOf(proc[p].key)
    /\ proc[p].cmd = "migrate" => Exists("meta") /\ ~Exists("oldmeta")

ArchiveFit(p) ==
  proc[p].pc = "archive" =>
    /\ proc[p].cmd = "migrate"
    /\ \/ /\ proc[p].left = All
          /\ Fits("priv", "pub", "meta")
          /\ ~Exists("oldpriv") /\ ~Exists("oldpub") /\ ~Exists("oldmeta")
       \/ /\ proc[p].left = <<"pub", "meta">>
          /\ Fits("oldpriv", "pub", "meta")
          /\ ~Exists("priv") /\ ~Exists("oldpub") /\ ~Exists("oldmeta")
       \/ /\ proc[p].left = <<"meta">>
          /\ Fits("oldpriv", "oldpub", "meta")
          /\ ~Exists("priv") /\ ~Exists("pub") /\ ~Exists("oldmeta")

WriteFit(p) ==
  proc[p].pc = "write" =>
    /\ OldWhole
    /\ proc[p].left \in {All, <<"pub", "meta">>, <<"meta">>, <<"priv", "meta">>}
    /\ proc[p].left \in {<<"pub", "meta">>, <<"meta">>} => disk["priv"] = proc[p].files["priv"]
    /\ proc[p].left \in {<<"priv", "meta">>, <<"meta">>} => PubOf(proc[p].key)
    /\ proc[p].cmd = "passwd" =>
         proc[p].left \in {<<"priv", "meta">>, <<"meta">>} /\ PairOf(proc[p].key)

Fit(p) ==
  /\ proc[p].pc \notin {"idle", "archive", "write"} => BothWhole
  /\ AskedFit(p) /\ ArchiveFit(p) /\ WriteFit(p)
  /\ proc[p].pc = "reading" => proc[p].cmd = "passwd"
  /\ proc[p].pc \in {"archive", "write"} => proc[p].files = Files(proc[p].key, proc[p].under)

OwnKeys == \A e \in entries : e.fp = e.key

FitInv ==
  "killed" \notin excused =>
    /\ OwnKeys
    /\ AllIdle => BothWhole
    /\ \A p \in Procs : Fit(p)

IInv == Types /\ OneRuns /\ KeyInv /\ FitInv

(* Whatever identity there is at first, if any, its key is on disk. *)
LEMMA InitIInv == Init => IInv
<1> SUFFICES ASSUME Init PROVE IInv
  OBVIOUS
<1>1. PICK k \in {<<0, "rsa">>, <<0, "ed25519">>}, u \in Passphrases \cup {Blank, Plain},
            some \in BOOLEAN, member \in BOOLEAN :
        /\ disk = [s \in Slots |-> IF some /\ s \in Primary THEN Files(k, u)[s] ELSE Absent]
        /\ entries = IF some /\ member THEN {[fp |-> k, key |-> k]} ELSE {}
  BY DEF Init
<1>2. proc = [p \in Procs |-> Idle] /\ \A p \in Procs : proc[p].pc = "idle"
  BY DEF Init, Idle
<1>3. Types
  BY <1>1, <1>2 DEF Types, IsRecord, Idle
<1>4. OneRuns /\ \A p \in Procs : StageInv(p)
  BY <1>2 DEF OneRuns, StageInv, AskedInv, ArchiveInv, WriteInv
<1>5. FilesInv /\ KeyKept
  <2>1. \A s \in Slots : disk[s] = IF some /\ s \in Primary THEN Files(k, u)[s] ELSE Absent
    BY <1>1
  <2>2. ~Exists("oldpriv")
    BY <2>1 DEF Exists, Slots, Primary
  <2>3. CASE some
    <3>1. disk["priv"] = [key |-> k, under |-> u] /\ disk["pub"] = [key |-> k]
      BY <2>1, <2>3 DEF Slots, Primary, Files
    <3>2. Exists("priv") /\ disk["priv"].key = k /\ disk["pub"].key = k
      BY <3>1 DEF Exists, Absent
    <3>3. \A e \in entries : e.key = k
      BY <1>1
    <3>4. QED
      BY <2>2, <3>2, <3>3 DEF FilesInv, KeyKept, Kept
  <2>4. CASE ~some
    BY <1>1, <2>1, <2>2, <2>4 DEF FilesInv, KeyKept, Exists, Slots, Primary
  <2>5. QED
    BY <2>3, <2>4
<1>6. FitInv
  <2>1. \A s \in Slots : disk[s] = IF some /\ s \in Primary THEN Files(k, u)[s] ELSE Absent
    BY <1>1
  <2>2. OldWhole
    BY <2>1 DEF OldWhole, Whole, Exists, Slots, Primary
  <2>3. Whole("priv", "pub", "meta")
    <3>1. CASE some
      <4> DEFINE e == u # Plain
      <4>1. /\ disk["priv"] = [key |-> k, under |-> u] /\ disk["pub"] = [key |-> k]
            /\ disk["meta"] = [fp |-> k, encrypted |-> e]
        BY <2>1, <3>1 DEF Slots, Primary, Files
      <4>2. /\ disk["priv"].key = k /\ disk["priv"].under = u /\ disk["pub"].key = k
            /\ disk["meta"].fp = k /\ disk["meta"].encrypted = (u # Plain)
        BY <4>1
      <4>3. Exists("priv") /\ Exists("pub") /\ Exists("meta")
        BY <4>1 DEF Exists, Absent
      <4>4. QED
        BY <4>2, <4>3 DEF Whole, FlagFits, Decrypts
    <3>2. CASE ~some
      BY <2>1, <3>2 DEF Whole, Exists, Slots, Primary
    <3>3. QED
      BY <3>1, <3>2
  <2>4. \A p \in Procs : Fit(p)
    BY <1>2 DEF Fit, AskedFit, ArchiveFit, WriteFit
  <2>5. OwnKeys
    BY <1>1 DEF OwnKeys
  <2>6. QED
    BY <2>2, <2>3, <2>4, <2>5 DEF FitInv, BothWhole
<1>7. QED
  BY <1>3, <1>4, <1>5, <1>6 DEF IInv, KeyInv

-----------------------------------------------------------------------------
(* Steps.                                                                    *)

Step(p) ==
  \/ \E under \in Passphrases \cup {Plain} :
       \/ \E force \in BOOLEAN : StartInit(p, force, under)
       \/ StartPasswd(p, under)
       \/ StartMigrate(p, under)
  \/ ReadPrivate(p) \/ Answer(p) \/ GiveUp(p)
  \/ Archive(p) \/ Write(p)
  \/ RekeyUnlock(p) \/ RekeyCommit(p)
  \/ Granted(p) \/ Kill(p)

(* One command moves, and the others are idle. *)
LEMMA OthersIdle ==
  ASSUME ~Overlap, Types, OneRuns, NEW p \in Procs, Step(p)
  PROVE  /\ \A q \in Procs \ {p} : proc[q].pc = "idle" /\ proc'[q] = proc[q]
         /\ proc' = [q \in Procs |-> proc'[q]]
<1>1. \A q \in Procs \ {p} : proc[q].pc = "idle"
  <2>1. CASE AllIdle
    BY <2>1 DEF AllIdle
  <2>2. CASE proc[p].pc # "idle"
    BY <2>2 DEF OneRuns
  <2>3. AllIdle \/ proc[p].pc # "idle"
    BY DEF Step, StartInit, StartPasswd, StartMigrate, Start, ReadPrivate, Answer, GiveUp,
           Archive, Write, RekeyUnlock, RekeyCommit, Granted, Kill
  <2>4. QED
    BY <2>1, <2>2, <2>3
<1>2. \/ \E x : proc' = [proc EXCEPT ![p] = x]
      \/ \E x : proc' = [proc EXCEPT ![p].pc = x]
      \/ \E x, y : proc' = [proc EXCEPT ![p].pc = x, ![p].key = y]
      \/ \E x : proc' = [proc EXCEPT ![p].left = x]
      \/ \E x, y : proc' = [proc EXCEPT ![p].left = x, ![p].pc = y]
      \/ \E x, y : proc' = [proc EXCEPT ![p].pc = x, ![p].left = y]
  <2>1. CASE Write(p)
    BY <2>1 DEF Write, Finish
  <2>2. CASE Archive(p)
    BY <2>2 DEF Archive, Finish
  <2>3. CASE Answer(p)
    BY <2>3 DEF Answer
  <2>4. CASE ReadPrivate(p)
    BY <2>4 DEF ReadPrivate
  <2>5. CASE RekeyUnlock(p)
    BY <2>5 DEF RekeyUnlock, Goto
  <2>6. CASE GiveUp(p) \/ RekeyCommit(p) \/ Kill(p)
    BY <2>6 DEF GiveUp, RekeyCommit, Kill, Finish
  <2>7. ASSUME NEW pc, NEW cmd, NEW under, Start(p, pc, cmd, under)
        PROVE  \E x : proc' = [proc EXCEPT ![p] = x]
    BY <2>7 DEF Start
  <2>8. QED
    BY <2>1, <2>2, <2>3, <2>4, <2>5, <2>6, <2>7
       DEF Step, StartInit, StartPasswd, StartMigrate, Granted
<1>3. QED
  BY <1>1, <1>2 DEF Types

(* Steps that touch no file: what they take over or have compared is so. *)
LEMMA QuietStep ==
  ASSUME ~Overlap, Types, OneRuns, "forced" \notin excused', "forced" \notin excused,
         FilesInv, KeyKept, NEW p \in Procs, StageInv(p), disk' = disk,
         Step(p), ~Archive(p), ~Write(p)
  PROVE  FilesInv' /\ KeyKept' /\ StageInv(p)'
<1> USE DEF Types
<1>0. IsRecord(proc[p]) /\ proc = [q \in Procs |-> proc[q]]
  OBVIOUS
<1>1. disk' = disk /\ FilesInv' /\ (entries' = entries => KeyKept')
  <2>1. FilesInv'
    BY DEF FilesInv, Exists
  <2>2. entries' = entries => KeyKept'
    BY DEF KeyKept, Kept, Exists
  <2>3. QED
    BY <2>1, <2>2
<1>2. CASE proc'[p].pc = "idle" /\ entries' = entries
  BY <1>1, <1>2 DEF StageInv, AskedInv, ArchiveInv, WriteInv, HasKey, NonePrimary, Exists
<1>3. ASSUME NEW under, NEW pc, NEW cmd, Start(p, pc, cmd, under)
      PROVE  /\ proc'[p].pc = pc /\ proc'[p].cmd = cmd /\ proc'[p].under = under
             /\ proc'[p].key = NoKey
  BY <1>3 DEF Start, Idle
<1>4. ASSUME NEW under, NEW force, StartInit(p, force, under)
      PROVE  KeyKept' /\ StageInv(p)'
  <2>1. NonePrimary /\ entries' = entries
    BY <1>4 DEF StartInit, NonePrimary
  <2>2. Start(p, "asked", "init", under)
    BY <1>4 DEF StartInit
  <2>3. QED
    BY <1>1, <1>3, <2>1, <2>2 DEF StageInv, AskedInv, ArchiveInv, WriteInv, HasKey, NonePrimary, Exists
<1>5. ASSUME NEW under, StartPasswd(p, under)
      PROVE  KeyKept' /\ StageInv(p)'
  <2>1. Start(p, "reading", "passwd", under) /\ entries' = entries
    BY <1>5 DEF StartPasswd
  <2>2. QED
    BY <1>1, <1>3, <2>1 DEF StageInv, AskedInv, ArchiveInv, WriteInv, HasKey, NonePrimary, Exists
<1>6. ASSUME NEW under, StartMigrate(p, under)
      PROVE  KeyKept' /\ StageInv(p)'
  <2>1. CASE ~Exists("oldmeta") /\ Start(p, "asked", "migrate", under)
    BY <1>1, <1>3, <1>6, <2>1 DEF StartMigrate, StageInv, AskedInv, ArchiveInv, WriteInv, HasKey, NonePrimary, Exists
  <2>2. CASE Start(p, "rekey", "migrate", under)
    BY <1>1, <1>3, <1>6, <2>2 DEF StartMigrate, StageInv, AskedInv, ArchiveInv, WriteInv, HasKey, NonePrimary, Exists
  <2>3. QED
    BY <1>6, <2>1, <2>2 DEF StartMigrate
<1>7. CASE ReadPrivate(p)
  <2>1. proc'[p].pc = "asked" /\ proc'[p].key = disk["priv"].key /\ Exists("priv")
        /\ proc'[p].cmd = proc[p].cmd /\ proc[p].pc = "reading" /\ entries' = entries
    BY <1>0, <1>7 DEF ReadPrivate, IsRecord
  <2>2. QED
    BY <1>1, <2>1 DEF StageInv, AskedInv, ArchiveInv, WriteInv, HasKey, NonePrimary, Exists
<1>8. CASE Answer(p)
  <2>1. PICK k : /\ proc' = [proc EXCEPT ![p] = Prepared(p, k)]
                 /\ proc[p].cmd = "passwd" => k = proc[p].key
    BY <1>8 DEF Answer
  <2>2. /\ proc'[p].key = k /\ proc'[p].under = proc[p].under
        /\ proc'[p].files = Files(k, proc[p].under)
        /\ proc'[p].pc = IF proc[p].cmd = "migrate" THEN "archive" ELSE "write"
        /\ proc'[p].left = IF proc[p].cmd = "passwd" THEN <<"priv", "meta">> ELSE All
    BY <1>0, <2>1 DEF Prepared, IsRecord, All
  <2>3. proc[p].pc = "asked" /\ entries' = entries
    BY <1>8 DEF Answer
  <2>4. proc[p].cmd = "passwd" => HasKey(k)
    BY <2>1, <2>3 DEF StageInv, AskedInv
  <2>5. <<"priv", "meta">> # All /\ <<"priv", "meta">> # <<"pub", "meta">>
        /\ All # <<"pub", "meta">> /\ All # <<"meta">> /\ <<"priv", "meta">> # <<"meta">>
    BY DEF All
  <2>6. CASE proc[p].cmd = "passwd"
    BY <1>1, <2>2, <2>3, <2>4, <2>5, <2>6 DEF StageInv, AskedInv, ArchiveInv, WriteInv, HasKey, NonePrimary, Exists
  <2>7. CASE proc[p].cmd = "init"
    BY <1>1, <2>2, <2>3, <2>5, <2>7 DEF StageInv, AskedInv, ArchiveInv, WriteInv, HasKey, NonePrimary, Exists
  <2>8. CASE proc[p].cmd = "migrate"
    BY <1>1, <2>2, <2>3, <2>5, <2>8 DEF StageInv, AskedInv, ArchiveInv, WriteInv, HasKey, NonePrimary, Exists
  <2>9. QED
    BY <2>3, <2>6, <2>7, <2>8 DEF StageInv, AskedInv
<1>9. CASE GiveUp(p) \/ Kill(p)
  BY <1>0, <1>1, <1>9 DEF GiveUp, Kill, Finish, Idle, StageInv, AskedInv, ArchiveInv, WriteInv, HasKey, NonePrimary, Exists
<1>10. CASE RekeyUnlock(p)
  <2>1. proc'[p].pc = "commit" /\ proc'[p].key = proc[p].key /\ proc[p].pc = "rekey"
        /\ entries' = entries
    BY <1>0, <1>10 DEF RekeyUnlock, Goto, IsRecord
  <2>2. QED
    BY <1>1, <2>1 DEF StageInv, AskedInv, ArchiveInv, WriteInv, HasKey, NonePrimary, Exists
<1>11. CASE RekeyCommit(p)
  <2>1. /\ proc'[p].pc = "idle" /\ proc[p].pc = "commit"
        /\ entries' \subseteq entries \cup {NewIdentity(p)}
    BY <1>0, <1>11 DEF RekeyCommit, Finish, Idle
  <2>2. CASE proc[p].key # NoKey
    BY <1>1, <2>1, <2>2
       DEF NewIdentity, StageInv, AskedInv, ArchiveInv, WriteInv, HasKey, NonePrimary, Exists, KeyKept, Kept
  <2>3. CASE proc[p].key = NoKey
    <3>1. Exists("priv") /\ Exists("pub")
      BY <1>11, <2>3 DEF RekeyCommit, Primary
    <3>2. disk["priv"].key = disk["pub"].key
      BY <3>1 DEF FilesInv
    <3>3. QED
      BY <1>1, <2>1, <2>3, <3>1, <3>2
         DEF NewIdentity, StageInv, AskedInv, ArchiveInv, WriteInv, HasKey, NonePrimary, Exists, KeyKept, Kept
  <2>4. QED
    BY <2>2, <2>3
<1>12. CASE Granted(p)
  <2>1. /\ Exists("priv") /\ Exists("pub") /\ proc'[p].pc = "idle"
        /\ entries' \subseteq entries \cup {[fp |-> disk["pub"].key, key |-> disk["pub"].key]}
    BY <1>3, <1>12 DEF Granted, Primary
  <2>2. disk["priv"].key = disk["pub"].key
    BY <2>1 DEF FilesInv
  <2>3. QED
    BY <1>1, <2>1, <2>2 DEF StageInv, AskedInv, ArchiveInv, WriteInv, HasKey, NonePrimary, Exists, KeyKept, Kept
<1>13. QED
  BY <1>1, <1>4, <1>5, <1>6, <1>7, <1>8, <1>9, <1>10, <1>11, <1>12 DEF Step

(* A rename of migrate's: the private key that was in use is the archived one,
   and there was none archived that it could have replaced. *)
LEMMA ArchiveStep ==
  ASSUME Types, FilesInv, KeyKept, NEW p \in Procs, StageInv(p), Archive(p),
         excused' = excused
  PROVE  FilesInv' /\ KeyKept' /\ StageInv(p)'
<1>0. IsRecord(proc[p]) /\ proc = [q \in Procs |-> proc[q]]
      /\ disk = [s \in Slots |-> disk[s]]
  BY DEF Types
<1>1. proc[p].pc = "archive" /\ entries' = entries /\ ArchiveInv(p)
  BY DEF Archive, StageInv
<1>2. proc[p].left \in {All, <<"pub", "meta">>, <<"meta">>}
      /\ Exists("meta") /\ ~Exists("oldmeta")
      /\ (Exists("oldpriv") => ~Exists("priv"))
  BY <1>1 DEF ArchiveInv, FilesInv
<1>3. All # <<"pub", "meta">> /\ All # <<"meta">> /\ <<"pub", "meta">> # <<"meta">>
  BY DEF All
<1>4. CASE ~Exists(Head(proc[p].left))
  <2>1. proc' = [proc EXCEPT ![p] = Idle] /\ disk' = disk
    BY <1>4 DEF Archive, Finish
  <2>2. proc'[p].pc = "idle"
    BY <1>0, <2>1 DEF Idle
  <2>3. QED
    BY <1>1, <2>1, <2>2 DEF FilesInv, KeyKept, Kept, Exists, StageInv, AskedInv, ArchiveInv,
       WriteInv
<1>5. ASSUME NEW s \in Primary, NEW rest, Exists(s),
             Head(proc[p].left) = s, Tail(proc[p].left) = rest
      PROVE  /\ disk' = [disk EXCEPT ![Archived(s)] = disk[s], ![s] = Absent]
             /\ proc'[p].left = IF rest = <<>> THEN All ELSE rest
             /\ proc'[p].pc = IF rest = <<>> THEN "write" ELSE "archive"
             /\ proc'[p].key = proc[p].key /\ proc'[p].under = proc[p].under
             /\ proc'[p].files = proc[p].files
  <2>1. /\ disk' = [disk EXCEPT ![Archived(s)] = disk[s], ![s] = Absent]
        /\ proc' = [proc EXCEPT ![p].left = IF rest = <<>> THEN All ELSE rest,
                                ![p].pc   = IF rest = <<>> THEN "write" ELSE "archive"]
    BY <1>5 DEF Archive, All
  <2>2. PICK l, pc : /\ proc' = [proc EXCEPT ![p].left = l, ![p].pc = pc]
                     /\ l = IF rest = <<>> THEN All ELSE rest
                     /\ pc = IF rest = <<>> THEN "write" ELSE "archive"
    BY <2>1
  <2>3. /\ proc'[p].left = l /\ proc'[p].pc = pc
        /\ proc'[p].key = proc[p].key /\ proc'[p].under = proc[p].under
        /\ proc'[p].files = proc[p].files
    BY <1>0, <2>2 DEF IsRecord
  <2>4. QED
    BY <2>1, <2>2, <2>3
<1>6. CASE proc[p].left = All /\ Exists("priv")
  <2>1. Head(All) = "priv" /\ Tail(All) = <<"pub", "meta">> /\ <<"pub", "meta">> # <<>>
    BY DEF All
  <2>2. /\ disk' = [disk EXCEPT !["oldpriv"] = disk["priv"], !["priv"] = Absent]
        /\ proc'[p].left = <<"pub", "meta">> /\ proc'[p].pc = "archive"
        /\ proc'[p].key = proc[p].key /\ proc'[p].under = proc[p].under
        /\ proc'[p].files = proc[p].files
    BY <1>5, <1>6, <2>1 DEF Primary, Archived
  <2>3. /\ disk'["oldpriv"] = disk["priv"] /\ disk'["priv"] = Absent
        /\ disk'["meta"] = disk["meta"] /\ disk'["oldmeta"] = disk["oldmeta"]
    BY <1>0, <2>2 DEF Slots, Primary
  <2>4. FilesInv'
    BY <1>2, <2>3 DEF FilesInv, Exists
  <2>5. KeyKept'
    BY <1>1, <1>2, <1>6, <2>3 DEF KeyKept, Kept, Exists
  <2>6. StageInv(p)'
    BY <1>1, <1>2, <1>3, <2>2, <2>3 DEF StageInv, AskedInv, ArchiveInv, WriteInv, Exists
  <2>7. QED
    BY <2>4, <2>5, <2>6
<1>7. CASE proc[p].left = <<"pub", "meta">> /\ Exists("pub")
  <2>1. /\ disk' = [disk EXCEPT !["oldpub"] = disk["pub"], !["pub"] = Absent]
        /\ proc'[p].left = <<"meta">> /\ proc'[p].pc = "archive"
        /\ proc'[p].key = proc[p].key /\ proc'[p].under = proc[p].under
        /\ proc'[p].files = proc[p].files
    <3>1. Head(<<"pub", "meta">>) = "pub" /\ Tail(<<"pub", "meta">>) = <<"meta">>
          /\ <<"meta">> # <<>>
      OBVIOUS
    <3>2. QED
      BY <1>5, <1>7, <3>1 DEF Primary, Archived
  <2>2. /\ disk'["oldpriv"] = disk["oldpriv"] /\ disk'["priv"] = disk["priv"]
        /\ disk'["meta"] = disk["meta"] /\ disk'["oldmeta"] = disk["oldmeta"]
        /\ disk'["pub"] = Absent
    BY <1>0, <2>1 DEF Slots, Primary
  <2>3. FilesInv' /\ KeyKept'
    BY <1>1, <2>2 DEF FilesInv, KeyKept, Kept, Exists
  <2>4. ~Exists("priv")
    BY <1>1, <1>3, <1>7 DEF ArchiveInv
  <2>5. StageInv(p)'
    BY <1>1, <1>2, <1>3, <2>1, <2>2, <2>4
       DEF StageInv, AskedInv, ArchiveInv, WriteInv, Exists
  <2>6. QED
    BY <2>3, <2>5
<1>8. CASE proc[p].left = <<"meta">> /\ Exists("meta")
  <2>1. /\ disk' = [disk EXCEPT !["oldmeta"] = disk["meta"], !["meta"] = Absent]
        /\ proc'[p].left = All /\ proc'[p].pc = "write"
        /\ proc'[p].key = proc[p].key /\ proc'[p].under = proc[p].under
        /\ proc'[p].files = proc[p].files
    BY <1>5, <1>8 DEF Primary, Archived
  <2>2. /\ disk'["oldpriv"] = disk["oldpriv"] /\ disk'["priv"] = disk["priv"]
        /\ disk'["meta"] = Absent /\ disk'["oldmeta"] = disk["meta"]
        /\ disk'["pub"] = disk["pub"]
    BY <1>0, <2>1 DEF Slots, Primary
  <2>3. ~Exists("priv") /\ ~Exists("pub")
    BY <1>1, <1>3, <1>8 DEF ArchiveInv
  <2>4. FilesInv' /\ KeyKept'
    BY <1>1, <1>2, <2>2, <2>3 DEF FilesInv, KeyKept, Kept, Exists
  <2>5. NonePrimary'
    BY <2>2, <2>3 DEF NonePrimary, Primary, Exists
  <2>6. StageInv(p)'
    BY <1>1, <1>3, <2>1, <2>5 DEF StageInv, AskedInv, ArchiveInv, WriteInv
  <2>7. QED
    BY <2>4, <2>6
<1>9. QED
  BY <1>2, <1>4, <1>6, <1>7, <1>8 DEF All

(* What a command writes is never over another private key. *)
LEMMA WriteStep ==
  ASSUME Types, FilesInv, KeyKept, NEW p \in Procs, StageInv(p), Write(p),
         excused' = excused
  PROVE  FilesInv' /\ KeyKept' /\ StageInv(p)'
<1>0. IsRecord(proc[p]) /\ proc = [q \in Procs |-> proc[q]]
      /\ disk = [s \in Slots |-> disk[s]]
  BY DEF Types
<1>1. proc[p].pc = "write" /\ entries' = entries /\ WriteInv(p)
      /\ proc[p].files = Files(proc[p].key, proc[p].under)
  BY DEF Write, StageInv
<1>2. proc[p].left \in {All, <<"pub", "meta">>, <<"meta">>, <<"priv", "meta">>}
  BY <1>1 DEF WriteInv
<1>3. /\ All # <<"pub", "meta">> /\ All # <<"meta">> /\ All # <<"priv", "meta">>
      /\ <<"pub", "meta">> # <<"meta">> /\ <<"pub", "meta">> # <<"priv", "meta">>
      /\ <<"meta">> # <<"priv", "meta">>
  BY DEF All
<1>4. ASSUME NEW s \in Primary, NEW rest,
             Head(proc[p].left) = s, Tail(proc[p].left) = rest
      PROVE  /\ disk' = [disk EXCEPT ![s] = proc[p].files[s]]
             /\ rest # <<>> => /\ proc'[p].left = rest /\ proc'[p].pc = "write"
                               /\ proc'[p].key = proc[p].key
                               /\ proc'[p].under = proc[p].under
                               /\ proc'[p].files = proc[p].files
             /\ rest = <<>> => \/ proc'[p].pc = "rekey" /\ proc'[p].key = proc[p].key
                               \/ proc'[p].pc = "idle"
  <2>1. /\ disk' = [disk EXCEPT ![s] = proc[p].files[s]]
        /\ IF rest # <<>> THEN proc' = [proc EXCEPT ![p].left = rest]
           ELSE IF proc[p].cmd = "migrate"
                THEN proc' = [proc EXCEPT ![p].pc = "rekey", ![p].left = <<>>]
                ELSE Finish(p)
    BY <1>4 DEF Write
  <2>2. CASE rest # <<>>
    BY <1>0, <1>1, <2>1, <2>2 DEF IsRecord
  <2>3. CASE rest = <<>> /\ proc[p].cmd = "migrate"
    BY <1>0, <2>1, <2>3 DEF IsRecord
  <2>4. CASE rest = <<>> /\ proc[p].cmd # "migrate"
    BY <1>0, <2>1, <2>4 DEF Finish, Idle
  <2>5. QED
    BY <2>1, <2>2, <2>3, <2>4
<1>5. CASE proc[p].left = All \/ proc[p].left = <<"priv", "meta">>
  <2>1. PICK rest \in {<<"pub", "meta">>, <<"meta">>} :
          /\ Head(proc[p].left) = "priv" /\ Tail(proc[p].left) = rest
          /\ proc[p].left = All <=> rest = <<"pub", "meta">>
    <3>1. /\ Head(All) = "priv" /\ Tail(All) = <<"pub", "meta">>
          /\ Head(<<"priv", "meta">>) = "priv" /\ Tail(<<"priv", "meta">>) = <<"meta">>
      BY DEF All
    <3>2. QED
      BY <1>3, <1>5, <3>1
  <2>2. rest # <<>>
    BY <2>1
  <2>3. /\ disk' = [disk EXCEPT !["priv"] = proc[p].files["priv"]]
        /\ proc'[p].left = rest /\ proc'[p].pc = "write" /\ proc'[p].key = proc[p].key
        /\ proc'[p].under = proc[p].under /\ proc'[p].files = proc[p].files
    BY <1>4, <2>1, <2>2 DEF Primary
  <2>4. /\ disk'["priv"] = [key |-> proc[p].key, under |-> proc[p].under]
        /\ disk'["pub"] = disk["pub"] /\ disk'["meta"] = disk["meta"]
        /\ disk'["oldpriv"] = disk["oldpriv"] /\ disk'["oldmeta"] = disk["oldmeta"]
    BY <1>0, <1>1, <2>3 DEF Slots, Primary, Files
  <2>5. Exists("priv")' /\ disk'["priv"].key = proc[p].key
    BY <2>4 DEF Exists, Absent
  <2>6. HasKey(proc[p].key) \/ NonePrimary
    BY <1>1, <1>3, <1>5 DEF WriteInv
  <2>7. FilesInv'
    BY <2>4, <2>5, <2>6 DEF FilesInv, HasKey, NonePrimary, Primary, Exists
  <2>8. KeyKept'
    BY <1>1, <2>4, <2>5, <2>6 DEF KeyKept, Kept, HasKey, NonePrimary, Primary, Exists
  <2>9. rest = <<"pub", "meta">> => disk["pub"] = Absent
    BY <1>1, <2>1 DEF WriteInv, NonePrimary, Primary, Exists
  <2>10. StageInv(p)'
    BY <1>1, <1>3, <2>1, <2>3, <2>4, <2>5, <2>9
       DEF StageInv, AskedInv, ArchiveInv, WriteInv, HasKey, Exists
  <2>11. QED
    BY <2>7, <2>8, <2>10
<1>6. CASE proc[p].left = <<"pub", "meta">>
  <2>1. /\ disk' = [disk EXCEPT !["pub"] = proc[p].files["pub"]]
        /\ proc'[p].left = <<"meta">> /\ proc'[p].pc = "write" /\ proc'[p].key = proc[p].key
        /\ proc'[p].under = proc[p].under /\ proc'[p].files = proc[p].files
    <3>1. Head(<<"pub", "meta">>) = "pub" /\ Tail(<<"pub", "meta">>) = <<"meta">>
          /\ <<"meta">> # <<>>
      OBVIOUS
    <3>2. QED
      BY <1>4, <1>6, <3>1 DEF Primary
  <2>2. /\ disk'["pub"] = [key |-> proc[p].key]
        /\ disk'["priv"] = disk["priv"] /\ disk'["meta"] = disk["meta"]
        /\ disk'["oldpriv"] = disk["oldpriv"] /\ disk'["oldmeta"] = disk["oldmeta"]
    BY <1>0, <1>1, <2>1 DEF Slots, Primary, Files
  <2>3. HasKey(proc[p].key)
    BY <1>1, <1>3, <1>6 DEF WriteInv
  <2>4. FilesInv' /\ KeyKept'
    BY <1>1, <2>2, <2>3 DEF FilesInv, KeyKept, Kept, HasKey, Exists
  <2>5. StageInv(p)'
    BY <1>1, <1>3, <2>1, <2>2, <2>3
       DEF StageInv, AskedInv, ArchiveInv, WriteInv, HasKey, Exists
  <2>6. QED
    BY <2>4, <2>5
<1>7. CASE proc[p].left = <<"meta">>
  <2>1. /\ disk' = [disk EXCEPT !["meta"] = proc[p].files["meta"]]
        /\ \/ proc'[p].pc = "rekey" /\ proc'[p].key = proc[p].key
           \/ proc'[p].pc = "idle"
    BY <1>4, <1>7 DEF Primary
  <2>2. /\ disk'["pub"] = disk["pub"] /\ disk'["priv"] = disk["priv"]
        /\ disk'["oldpriv"] = disk["oldpriv"] /\ disk'["oldmeta"] = disk["oldmeta"]
    BY <1>0, <2>1 DEF Slots, Primary
  <2>3. HasKey(proc[p].key)
    BY <1>1, <1>3, <1>7 DEF WriteInv
  <2>4. FilesInv' /\ KeyKept'
    BY <1>1, <2>2, <2>3 DEF FilesInv, KeyKept, Kept, HasKey, Exists
  <2>5. StageInv(p)'
    BY <2>1, <2>2, <2>3 DEF StageInv, AskedInv, ArchiveInv, WriteInv, HasKey, Exists
  <2>6. QED
    BY <2>4, <2>5
<1>8. QED
  BY <1>2, <1>5, <1>6, <1>7

-----------------------------------------------------------------------------
(* The files fit together.                                                   *)

FitAt(p) ==
  /\ OwnKeys
  /\ proc[p].pc = "idle" => BothWhole
  /\ Fit(p)

(* Whatever moves no file has found all of them whole, and what it takes over
   from them is of one pair. *)
LEMMA FitQuiet ==
  ASSUME ~Overlap, Types, FitInv, "killed" \notin excused', "killed" \notin excused,
         NEW p \in Procs, Step(p), disk' = disk, ~Archive(p), ~Write(p)
  PROVE  FitAt(p)'
<1>0. IsRecord(proc[p]) /\ proc = [q \in Procs |-> proc[q]]
  BY DEF Types
<1>1. OwnKeys /\ Fit(p) /\ (AllIdle => BothWhole)
  BY DEF FitInv
<1>2. excused \subseteq excused'
  BY DEF Step, StartInit, StartPasswd, StartMigrate, ReadPrivate, Answer, GiveUp,
         RekeyUnlock, RekeyCommit, Granted, Kill
<1>17. OldWhole => OldWhole'
  BY <1>2 DEF OldWhole, Whole, Exists, FlagFits, Decrypts
<1>19. entries' = entries => OwnKeys'
  BY <1>1 DEF OwnKeys
<1>18. CASE Kill(p)
  <2>1. /\ proc[p].pc # "idle" /\ proc[p].cmd = "passwd" /\ "passwd" \in excused'
        /\ proc'[p].pc = "idle" /\ entries' = entries
    BY <1>0, <1>18 DEF Kill, Finish, Idle
  <2>2. OldWhole /\ (Whole("priv", "pub", "meta") \/ PairOf(proc[p].key))
    BY <1>1, <2>1 DEF Fit, BothWhole, ArchiveFit, WriteFit
  <2>3. Whole("priv", "pub", "meta")'
    BY <1>2, <2>1, <2>2 DEF Whole, PairOf, Exists, FlagFits, Decrypts
  <2>4. QED
    BY <1>1, <1>17, <2>1, <2>2, <2>3
       DEF FitAt, Fit, AskedFit, ArchiveFit, WriteFit, BothWhole, OwnKeys
<1> SUFFICES ASSUME ~Kill(p) PROVE FitAt(p)'
  BY <1>18
<1>3. BothWhole
  <2>1. AllIdle \/ proc[p].pc \in {"asked", "reading", "rekey", "commit"}
    BY <1>2 DEF Step, StartInit, StartPasswd, StartMigrate, Start, ReadPrivate, Answer,
       GiveUp, RekeyUnlock, RekeyCommit, Granted
  <2>2. QED
    BY <1>1, <2>1 DEF Fit
<1>4. BothWhole' /\ OldWhole'
  BY <1>2, <1>3 DEF BothWhole, OldWhole, Whole, Exists, FlagFits, Decrypts
<1>5. CASE proc'[p].pc \in {"idle", "rekey", "commit"} /\ OwnKeys'
  BY <1>4, <1>5 DEF FitAt, Fit, AskedFit, ArchiveFit, WriteFit
<1>6. ASSUME NEW under, NEW pc, NEW cmd, Start(p, pc, cmd, under)
      PROVE  /\ proc'[p].pc = pc /\ proc'[p].cmd = cmd
  BY <1>0, <1>6 DEF Start, Idle
<1>7. ASSUME NEW under, NEW force, StartInit(p, force, under) PROVE FitAt(p)'
  <2>1. Start(p, "asked", "init", under) /\ entries' = entries
    BY <1>7 DEF StartInit
  <2>2. QED
    BY <1>4, <1>6, <1>19, <2>1 DEF FitAt, Fit, AskedFit, ArchiveFit, WriteFit
<1>8. ASSUME NEW under, StartPasswd(p, under) PROVE FitAt(p)'
  <2>1. Start(p, "reading", "passwd", under) /\ entries' = entries
    BY <1>8 DEF StartPasswd
  <2>2. QED
    BY <1>4, <1>6, <1>19, <2>1 DEF FitAt, Fit, AskedFit, ArchiveFit, WriteFit
<1>9. ASSUME NEW under, StartMigrate(p, under) PROVE FitAt(p)'
  <2>1. CASE ~Exists("oldmeta") /\ Start(p, "asked", "migrate", under)
    BY <1>4, <1>6, <1>9, <1>19, <2>1
       DEF StartMigrate, FitAt, Fit, AskedFit, ArchiveFit, WriteFit, Exists
  <2>2. CASE Start(p, "rekey", "migrate", under)
    BY <1>5, <1>6, <1>9, <1>19, <2>2 DEF StartMigrate
  <2>3. QED
    BY <1>9, <2>1, <2>2 DEF StartMigrate
<1>10. CASE ReadPrivate(p)
  <2>1. /\ proc'[p].pc = "asked" /\ proc'[p].key = disk["priv"].key /\ Exists("priv")
        /\ proc'[p].cmd = proc[p].cmd /\ proc[p].pc = "reading" /\ entries' = entries
    BY <1>0, <1>10 DEF ReadPrivate, IsRecord
  <2>2. proc[p].cmd = "passwd" /\ Exists("pub") /\ disk["pub"].key = disk["priv"].key
    BY <1>1, <1>3, <2>1 DEF Fit, BothWhole, Whole
  <2>3. QED
    BY <1>4, <1>19, <2>1, <2>2
       DEF FitAt, Fit, AskedFit, ArchiveFit, WriteFit, PubOf, Exists
<1>11. CASE Answer(p)
  <2>1. PICK k : /\ proc' = [proc EXCEPT ![p] = Prepared(p, k)]
                 /\ proc[p].cmd = "passwd" => k = proc[p].key
    BY <1>11 DEF Answer
  <2>2. /\ proc'[p].key = k /\ proc'[p].under = proc[p].under
        /\ proc'[p].cmd = proc[p].cmd
        /\ proc'[p].files = Files(k, proc[p].under)
        /\ proc'[p].pc = IF proc[p].cmd = "migrate" THEN "archive" ELSE "write"
        /\ proc'[p].left = IF proc[p].cmd = "passwd" THEN <<"priv", "meta">> ELSE All
    BY <1>0, <2>1 DEF Prepared, IsRecord, All
  <2>3. proc[p].pc = "asked" /\ entries' = entries /\ AskedFit(p)
    BY <1>1, <1>11 DEF Answer, Fit
  <2>4. <<"priv", "meta">> # All /\ <<"priv", "meta">> # <<"pub", "meta">>
        /\ All # <<"pub", "meta">> /\ All # <<"meta">> /\ <<"priv", "meta">> # <<"meta">>
    BY DEF All
  <2>5. CASE proc[p].cmd = "passwd"
    <3>1. PubOf(k)' /\ PairOf(k)'
      BY <1>3, <2>1, <2>3, <2>5 DEF AskedFit, PubOf, PairOf, BothWhole, Whole, Exists
    <3>2. proc'[p].pc = "write" /\ proc'[p].left = <<"priv", "meta">>
      BY <2>2, <2>5
    <3>3. QED
      BY <1>1, <1>4, <2>2, <2>3, <2>4, <3>1, <3>2
         DEF FitAt, Fit, AskedFit, ArchiveFit, WriteFit, OwnKeys
  <2>6. CASE proc[p].cmd = "init"
    <3>1. proc'[p].pc = "write" /\ proc'[p].left = All
      BY <2>2, <2>6
    <3>2. QED
      BY <1>4, <1>19, <2>2, <2>3, <2>4, <2>6, <3>1 DEF FitAt, Fit, AskedFit, ArchiveFit, WriteFit
  <2>7. CASE proc[p].cmd = "migrate"
    <3>1. proc'[p].pc = "archive" /\ proc'[p].left = All
      BY <2>2, <2>7
    <3>2. Exists("meta") /\ ~Exists("oldmeta")
      BY <2>3, <2>7 DEF AskedFit
    <3>3. Fits("priv", "pub", "meta") /\ ~Exists("oldpriv") /\ ~Exists("oldpub")
      BY <1>3, <3>2 DEF BothWhole, OldWhole, Whole, Fits
    <3>4. /\ Fits("priv", "pub", "meta")'
          /\ ~Exists("oldpriv")' /\ ~Exists("oldpub")' /\ ~Exists("oldmeta")'
      BY <1>2, <3>2, <3>3 DEF Fits, Exists, FlagFits, Decrypts
    <3>5. QED
      BY <1>19, <2>2, <2>3, <2>4, <2>7, <3>1, <3>4
         DEF FitAt, Fit, AskedFit, ArchiveFit, WriteFit
  <2>8. QED
    BY <2>3, <2>5, <2>6, <2>7 DEF AskedFit
<1>12. CASE GiveUp(p)
  BY <1>0, <1>5, <1>12, <1>19 DEF GiveUp, Finish, Idle
<1>13. CASE RekeyUnlock(p)
  <2>1. proc'[p].pc = "commit" /\ entries' = entries
    BY <1>0, <1>13 DEF RekeyUnlock, Goto, IsRecord
  <2>2. QED
    BY <1>5, <1>19, <2>1
<1>14. CASE RekeyCommit(p)
  <2>1. proc'[p].pc = "idle" /\ entries' \subseteq entries \cup {NewIdentity(p)}
    BY <1>0, <1>14 DEF RekeyCommit, Finish, Idle
  <2>2. proc[p].key = NoKey => disk["pub"].key = disk["meta"].fp
    BY <1>3, <1>14 DEF RekeyCommit, Primary, BothWhole, Whole
  <2>3. OwnKeys'
    BY <1>1, <2>1, <2>2 DEF NewIdentity, OwnKeys
  <2>4. QED
    BY <1>5, <2>1, <2>3
<1>15. CASE Granted(p)
  <2>1. /\ Start(p, "idle", "none", Plain)
        /\ entries' \subseteq entries \cup {[fp |-> disk["pub"].key, key |-> disk["pub"].key]}
    BY <1>15 DEF Granted
  <2>2. proc'[p].pc = "idle" /\ OwnKeys'
    BY <1>1, <1>6, <2>1 DEF OwnKeys
  <2>3. QED
    BY <1>5, <2>2
<1>16. QED
  BY <1>7, <1>8, <1>9, <1>10, <1>11, <1>12, <1>13, <1>14, <1>15 DEF Step

(* One file after the other goes to the archive, which was empty. *)
LEMMA FitArchive ==
  ASSUME Types, FitInv, "killed" \notin excused, NEW p \in Procs, Archive(p)
  PROVE  FitAt(p)'
<1>0. IsRecord(proc[p]) /\ proc = [q \in Procs |-> proc[q]]
      /\ disk = [s \in Slots |-> disk[s]]
  BY DEF Types
<1>1. /\ OwnKeys' /\ proc[p].pc = "archive" /\ ArchiveFit(p) /\ excused' = excused
      /\ proc[p].files = Files(proc[p].key, proc[p].under)
  BY DEF FitInv, Fit, Archive, OwnKeys
<1>2. /\ All # <<"pub", "meta">> /\ All # <<"meta">> /\ <<"pub", "meta">> # <<"meta">>
      /\ <<"pub", "meta">> # <<>> /\ <<"meta">> # <<>> /\ All # <<"priv", "meta">>
      /\ Head(All) = "priv" /\ Tail(All) = <<"pub", "meta">>
      /\ Head(<<"pub", "meta">>) = "pub" /\ Tail(<<"pub", "meta">>) = <<"meta">>
      /\ Head(<<"meta">>) = "meta" /\ Tail(<<"meta">>) = <<>>
  BY DEF All
<1>3. ASSUME NEW s \in Primary, NEW rest, Exists(s),
             Head(proc[p].left) = s, Tail(proc[p].left) = rest
      PROVE  /\ disk' = [disk EXCEPT ![Archived(s)] = disk[s], ![s] = Absent]
             /\ proc'[p].left = IF rest = <<>> THEN All ELSE rest
             /\ proc'[p].pc = IF rest = <<>> THEN "write" ELSE "archive"
             /\ proc'[p].key = proc[p].key /\ proc'[p].under = proc[p].under
             /\ proc'[p].files = proc[p].files /\ proc'[p].cmd = proc[p].cmd
  <2>1. /\ disk' = [disk EXCEPT ![Archived(s)] = disk[s], ![s] = Absent]
        /\ proc' = [proc EXCEPT ![p].left = IF rest = <<>> THEN All ELSE rest,
                                ![p].pc   = IF rest = <<>> THEN "write" ELSE "archive"]
    BY <1>3 DEF Archive, All
  <2>2. PICK l, pc : /\ proc' = [proc EXCEPT ![p].left = l, ![p].pc = pc]
                     /\ l = IF rest = <<>> THEN All ELSE rest
                     /\ pc = IF rest = <<>> THEN "write" ELSE "archive"
    BY <2>1
  <2>3. /\ proc'[p].left = l /\ proc'[p].pc = pc
        /\ proc'[p].key = proc[p].key /\ proc'[p].under = proc[p].under
        /\ proc'[p].files = proc[p].files /\ proc'[p].cmd = proc[p].cmd
    BY <1>0, <2>2 DEF IsRecord
  <2>4. QED
    BY <2>1, <2>2, <2>3
<1>4. CASE proc[p].left = All
  <2>1. Fits("priv", "pub", "meta") /\ ~Exists("oldpub") /\ ~Exists("oldmeta")
    BY <1>1, <1>2, <1>4 DEF ArchiveFit
  <2>2. /\ disk' = [disk EXCEPT !["oldpriv"] = disk["priv"], !["priv"] = Absent]
        /\ proc'[p].left = <<"pub", "meta">> /\ proc'[p].pc = "archive"
        /\ proc'[p].key = proc[p].key /\ proc'[p].under = proc[p].under
        /\ proc'[p].files = proc[p].files /\ proc'[p].cmd = proc[p].cmd
    BY <1>2, <1>3, <1>4, <2>1 DEF Primary, Archived, Fits
  <2>3. /\ disk'["oldpriv"] = disk["priv"] /\ disk'["priv"] = Absent
        /\ disk'["pub"] = disk["pub"] /\ disk'["oldpub"] = disk["oldpub"]
        /\ disk'["meta"] = disk["meta"] /\ disk'["oldmeta"] = disk["oldmeta"]
    BY <1>0, <2>2 DEF Slots, Primary
  <2>4. Fits("oldpriv", "pub", "meta")' /\ ~Exists("priv")'
        /\ ~Exists("oldpub")' /\ ~Exists("oldmeta")'
    BY <1>1, <2>1, <2>3 DEF Fits, Exists, FlagFits, Decrypts
  <2>5. QED
    BY <1>1, <2>2, <2>4 DEF FitAt, Fit, AskedFit, ArchiveFit, WriteFit
<1>5. CASE proc[p].left = <<"pub", "meta">>
  <2>1. Fits("oldpriv", "pub", "meta") /\ ~Exists("priv") /\ ~Exists("oldmeta")
    BY <1>1, <1>2, <1>5 DEF ArchiveFit
  <2>2. /\ disk' = [disk EXCEPT !["oldpub"] = disk["pub"], !["pub"] = Absent]
        /\ proc'[p].left = <<"meta">> /\ proc'[p].pc = "archive"
        /\ proc'[p].key = proc[p].key /\ proc'[p].under = proc[p].under
        /\ proc'[p].files = proc[p].files /\ proc'[p].cmd = proc[p].cmd
    BY <1>2, <1>3, <1>5, <2>1 DEF Primary, Archived, Fits
  <2>3. /\ disk'["oldpriv"] = disk["oldpriv"] /\ disk'["priv"] = disk["priv"]
        /\ disk'["pub"] = Absent /\ disk'["oldpub"] = disk["pub"]
        /\ disk'["meta"] = disk["meta"] /\ disk'["oldmeta"] = disk["oldmeta"]
    BY <1>0, <2>2 DEF Slots, Primary
  <2>4. Fits("oldpriv", "oldpub", "meta")' /\ ~Exists("priv")'
        /\ ~Exists("pub")' /\ ~Exists("oldmeta")'
    BY <1>1, <2>1, <2>3 DEF Fits, Exists, FlagFits, Decrypts
  <2>5. QED
    BY <1>1, <2>2, <2>4 DEF FitAt, Fit, AskedFit, ArchiveFit, WriteFit
<1>6. CASE proc[p].left = <<"meta">>
  <2>1. Fits("oldpriv", "oldpub", "meta")
    BY <1>1, <1>2, <1>6 DEF ArchiveFit
  <2>2. /\ disk' = [disk EXCEPT !["oldmeta"] = disk["meta"], !["meta"] = Absent]
        /\ proc'[p].left = All /\ proc'[p].pc = "write"
        /\ proc'[p].key = proc[p].key /\ proc'[p].under = proc[p].under
        /\ proc'[p].files = proc[p].files /\ proc'[p].cmd = proc[p].cmd
    BY <1>2, <1>3, <1>6, <2>1 DEF Primary, Archived, Fits
  <2>3. /\ disk'["oldpriv"] = disk["oldpriv"] /\ disk'["oldpub"] = disk["oldpub"]
        /\ disk'["oldmeta"] = disk["meta"]
    BY <1>0, <2>2 DEF Slots, Primary
  <2>4. OldWhole'
    BY <1>1, <2>1, <2>3 DEF OldWhole, Whole, Fits, Exists, FlagFits, Decrypts
  <2>5. QED
    BY <1>1, <1>2, <2>2, <2>4 DEF FitAt, Fit, AskedFit, ArchiveFit, WriteFit
<1>7. QED
  BY <1>1, <1>4, <1>5, <1>6 DEF ArchiveFit

(* The last file written is the metadata, and then the pair is whole. *)
LEMMA FitWrite ==
  ASSUME Types, FitInv, "killed" \notin excused, NEW p \in Procs, Write(p)
  PROVE  FitAt(p)'
<1>0. IsRecord(proc[p]) /\ proc = [q \in Procs |-> proc[q]]
      /\ disk = [s \in Slots |-> disk[s]]
  BY DEF Types
<1>1. /\ OwnKeys' /\ proc[p].pc = "write" /\ WriteFit(p) /\ excused' = excused
      /\ proc[p].files = Files(proc[p].key, proc[p].under)
  BY DEF FitInv, Fit, Write, OwnKeys
<1>2. /\ All # <<"pub", "meta">> /\ All # <<"meta">> /\ All # <<"priv", "meta">>
      /\ <<"pub", "meta">> # <<"meta">> /\ <<"pub", "meta">> # <<"priv", "meta">>
      /\ <<"meta">> # <<"priv", "meta">> /\ <<"pub", "meta">> # <<>> /\ <<"meta">> # <<>>
      /\ Head(All) = "priv" /\ Tail(All) = <<"pub", "meta">>
      /\ Head(<<"priv", "meta">>) = "priv" /\ Tail(<<"priv", "meta">>) = <<"meta">>
      /\ Head(<<"pub", "meta">>) = "pub" /\ Tail(<<"pub", "meta">>) = <<"meta">>
      /\ Head(<<"meta">>) = "meta" /\ Tail(<<"meta">>) = <<>>
  BY DEF All
<1>3. ASSUME NEW s \in Primary, NEW rest,
             Head(proc[p].left) = s, Tail(proc[p].left) = rest
      PROVE  /\ disk' = [disk EXCEPT ![s] = proc[p].files[s]]
             /\ rest # <<>> => /\ proc'[p].left = rest /\ proc'[p].pc = "write"
                               /\ proc'[p].key = proc[p].key
                               /\ proc'[p].under = proc[p].under
                               /\ proc'[p].files = proc[p].files /\ proc'[p].cmd = proc[p].cmd
             /\ rest = <<>> => proc'[p].pc \in {"rekey", "idle"}
  <2>1. /\ disk' = [disk EXCEPT ![s] = proc[p].files[s]]
        /\ IF rest # <<>> THEN proc' = [proc EXCEPT ![p].left = rest]
           ELSE IF proc[p].cmd = "migrate"
                THEN proc' = [proc EXCEPT ![p].pc = "rekey", ![p].left = <<>>]
                ELSE Finish(p)
    BY <1>3 DEF Write
  <2>2. CASE rest # <<>>
    BY <1>0, <1>1, <2>1, <2>2 DEF IsRecord
  <2>3. CASE rest = <<>> /\ proc[p].cmd = "migrate"
    BY <1>0, <2>1, <2>3 DEF IsRecord
  <2>4. CASE rest = <<>> /\ proc[p].cmd # "migrate"
    BY <1>0, <2>1, <2>4 DEF Finish, Idle
  <2>5. QED
    BY <2>1, <2>2, <2>3, <2>4
<1>4. ASSUME NEW s \in Primary, disk' = [disk EXCEPT ![s] = proc[p].files[s]]
      PROVE  OldWhole'
  <2>1. /\ disk'["oldpriv"] = disk["oldpriv"] /\ disk'["oldpub"] = disk["oldpub"]
        /\ disk'["oldmeta"] = disk["oldmeta"]
    BY <1>0, <1>4 DEF Slots, Primary
  <2>2. QED
    BY <1>1, <2>1 DEF WriteFit, OldWhole, Whole, Exists, FlagFits, Decrypts
<1>5. CASE proc[p].left = All
  <2>1. /\ disk' = [disk EXCEPT !["priv"] = proc[p].files["priv"]]
        /\ proc'[p].left = <<"pub", "meta">> /\ proc'[p].pc = "write"
        /\ proc'[p].key = proc[p].key /\ proc'[p].under = proc[p].under
        /\ proc'[p].files = proc[p].files /\ proc'[p].cmd = proc[p].cmd
    BY <1>2, <1>3, <1>5 DEF Primary
  <2>2. disk'["priv"] = proc[p].files["priv"]
    BY <1>0, <2>1 DEF Slots, Primary
  <2>3. OldWhole'
    BY <1>4, <2>1 DEF Primary
  <2>4. QED
    BY <1>1, <1>2, <1>5, <2>1, <2>2, <2>3
       DEF FitAt, Fit, AskedFit, ArchiveFit, WriteFit
<1>6. CASE proc[p].left = <<"priv", "meta">>
  <2>1. /\ disk' = [disk EXCEPT !["priv"] = proc[p].files["priv"]]
        /\ proc'[p].left = <<"meta">> /\ proc'[p].pc = "write"
        /\ proc'[p].key = proc[p].key /\ proc'[p].under = proc[p].under
        /\ proc'[p].files = proc[p].files /\ proc'[p].cmd = proc[p].cmd
    BY <1>2, <1>3, <1>6 DEF Primary
  <2>2. disk'["priv"] = proc[p].files["priv"] /\ disk'["pub"] = disk["pub"]
    BY <1>0, <2>1 DEF Slots, Primary
  <2>3. OldWhole' /\ PubOf(proc[p].key)
    BY <1>1, <1>4, <1>6, <2>1 DEF Primary, WriteFit
  <2>4. PubOf(proc[p].key)'
    BY <2>1, <2>2, <2>3 DEF PubOf, Exists
  <2>5. proc[p].cmd = "passwd" => PairOf(proc[p].key)'
    <3>1. /\ disk'["priv"] = [key |-> proc[p].key, under |-> proc[p].under]
          /\ disk'["meta"] = disk["meta"]
      BY <1>0, <1>1, <2>1, <2>2 DEF Slots, Primary, Files
    <3>2. Exists("priv")' /\ disk'["priv"].key = proc[p].key
      BY <3>1 DEF Exists, Absent
    <3>3. proc[p].cmd = "passwd" => PairOf(proc[p].key)
      BY <1>1 DEF WriteFit
    <3>4. QED
      BY <2>1, <2>2, <3>1, <3>2, <3>3 DEF PairOf, Exists
  <2>6. QED
    BY <1>1, <1>2, <2>1, <2>2, <2>3, <2>4, <2>5
       DEF FitAt, Fit, AskedFit, ArchiveFit, WriteFit
<1>7. CASE proc[p].left = <<"pub", "meta">>
  <2>1. /\ disk' = [disk EXCEPT !["pub"] = proc[p].files["pub"]]
        /\ proc'[p].left = <<"meta">> /\ proc'[p].pc = "write"
        /\ proc'[p].key = proc[p].key /\ proc'[p].under = proc[p].under
        /\ proc'[p].files = proc[p].files /\ proc'[p].cmd = proc[p].cmd
    BY <1>2, <1>3, <1>7 DEF Primary
  <2>2. disk'["priv"] = disk["priv"] /\ disk'["pub"] = [key |-> proc[p].key]
    BY <1>0, <1>1, <2>1 DEF Slots, Primary, Files
  <2>3. OldWhole' /\ disk["priv"] = proc[p].files["priv"]
    BY <1>1, <1>4, <1>7, <2>1 DEF Primary, WriteFit
  <2>4. PubOf(proc[p].key)'
    BY <2>1, <2>2 DEF PubOf, Exists, Absent
  <2>5. QED
    BY <1>1, <1>2, <1>7, <2>1, <2>2, <2>3, <2>4
       DEF FitAt, Fit, AskedFit, ArchiveFit, WriteFit
<1>8. CASE proc[p].left = <<"meta">>
  <2>1. /\ disk' = [disk EXCEPT !["meta"] = proc[p].files["meta"]]
        /\ proc'[p].pc \in {"rekey", "idle"}
    BY <1>2, <1>3, <1>8 DEF Primary
  <2>2. /\ disk'["priv"] = disk["priv"] /\ disk'["pub"] = disk["pub"]
        /\ disk'["meta"] = proc[p].files["meta"]
    BY <1>0, <2>1 DEF Slots, Primary
  <2>3. OldWhole' /\ disk["priv"] = proc[p].files["priv"] /\ PubOf(proc[p].key)
    BY <1>1, <1>4, <1>8, <2>1 DEF Primary, WriteFit
  <2>4. Whole("priv", "pub", "meta")'
    <3> DEFINE u == proc[p].under
               e == u # Plain
    <3>1. /\ disk'["priv"] = [key |-> proc[p].key, under |-> u]
          /\ disk'["meta"] = [fp |-> proc[p].key, encrypted |-> e]
      BY <1>1, <2>2, <2>3 DEF Files
    <3>2. /\ disk'["priv"].key = proc[p].key /\ disk'["priv"].under = u
          /\ disk'["meta"].fp = proc[p].key /\ disk'["meta"].encrypted = (u # Plain)
      BY <3>1
    <3>3. Exists("priv")' /\ Exists("pub")' /\ Exists("meta")'
      <4>1. \A k, v : [key |-> k, under |-> v] # <<>> /\ [fp |-> k, encrypted |-> v] # <<>>
        OBVIOUS
      <4>2. Exists("priv")' /\ Exists("meta")'
        BY <3>1, <4>1 DEF Exists, Absent
      <4>3. Exists("pub")'
        BY <2>2, <2>3 DEF Exists, PubOf
      <4>4. QED
        BY <4>2, <4>3
    <3>4. disk'["pub"].key = proc[p].key
      BY <2>2, <2>3 DEF PubOf
    <3> HIDE DEF u, e
    <3>5. QED
      BY <3>2, <3>3, <3>4 DEF Whole, FlagFits, Decrypts
  <2>5. QED
    BY <1>1, <2>1, <2>3, <2>4
       DEF FitAt, Fit, AskedFit, ArchiveFit, WriteFit, BothWhole, OldWhole
<1>9. QED
  BY <1>1, <1>5, <1>6, <1>7, <1>8 DEF WriteFit

(* The shape of the state. *)
LEMMA TypesStep ==
  ASSUME ~Overlap, Types, OneRuns, NEW p \in Procs, Step(p)
  PROVE  Types'
<1>0. IsRecord(proc[p]) /\ proc = [q \in Procs |-> proc[q]]
      /\ disk = [s \in Slots |-> disk[s]]
  BY DEF Types
<1>1. IsRecord(proc'[p])
  <2>1. ASSUME NEW pc, NEW cmd, NEW under, Start(p, pc, cmd, under)
        PROVE  IsRecord(proc'[p])
    BY <1>0, <2>1 DEF Start, Idle, IsRecord
  <2>2. CASE proc' = [proc EXCEPT ![p] = Idle]
    BY <1>0, <2>2 DEF Idle, IsRecord
  <2>3. CASE Write(p)
    BY <1>0, <2>2, <2>3 DEF Write, Finish, IsRecord
  <2>4. CASE Archive(p)
    BY <1>0, <2>2, <2>4 DEF Archive, Finish, IsRecord
  <2>5. CASE Answer(p)
    BY <1>0, <2>5 DEF Answer, Prepared, IsRecord
  <2>6. CASE ReadPrivate(p) \/ RekeyUnlock(p)
    BY <1>0, <2>6 DEF ReadPrivate, RekeyUnlock, Goto, IsRecord
  <2>7. QED
    BY <2>1, <2>2, <2>3, <2>4, <2>5, <2>6
       DEF Step, StartInit, StartPasswd, StartMigrate, Granted, GiveUp, RekeyCommit, Kill, Finish
<1>2. disk' = [s \in Slots |-> disk'[s]]
  <2>1. \/ disk' = disk
        \/ \E s, x : disk' = [disk EXCEPT ![s] = x]
        \/ \E s, t, x, y : disk' = [disk EXCEPT ![s] = x, ![t] = y]
    <3>1. CASE Write(p)
      BY <3>1 DEF Write
    <3>2. CASE Archive(p)
      <4> DEFINE s == Head(proc[p].left)
      <4>1. \/ disk' = disk
            \/ disk' = [disk EXCEPT ![Archived(s)] = disk[s], ![s] = Absent]
        BY <3>2 DEF Archive
      <4> HIDE DEF s
      <4>2. QED
        BY <4>1
    <3>3. QED
      BY <3>1, <3>2 DEF Step, StartInit, StartPasswd, StartMigrate, Granted, GiveUp,
         RekeyCommit, Kill, Answer, ReadPrivate, RekeyUnlock
  <2>2. QED
    BY <1>0, <2>1
<1>3. QED
  BY <1>1, <1>2, OthersIdle DEF Types

-----------------------------------------------------------------------------
(* The theorems.                                                             *)

(* Every step keeps KeyInv, one command at a time. *)
LEMMA KeyStep ==
  ASSUME ~Overlap, IInv, Next
  PROVE  IInv'
<1> PICK p \in Procs : Step(p)
  BY DEF Next, Step
<1>1. /\ \A q \in Procs \ {p} : proc[q].pc = "idle" /\ proc'[q] = proc[q]
      /\ proc' = [q \in Procs |-> proc'[q]]
  BY OthersIdle DEF IInv
<1>2. Types' /\ OneRuns'
  BY <1>1, TypesStep DEF IInv, OneRuns
<1>3. excused \subseteq excused' /\ (Archive(p) \/ Write(p) => excused' = excused)
      /\ (~Archive(p) /\ ~Write(p) => disk' = disk)
  BY DEF Step, StartInit, StartPasswd, StartMigrate, Granted, GiveUp, RekeyCommit, Kill,
         Write, Archive, Answer, ReadPrivate, RekeyUnlock
<1>4. ASSUME "forced" \notin excused'
      PROVE  FilesInv' /\ KeyKept' /\ StageInv(p)'
  <2>1. "forced" \notin excused /\ FilesInv /\ KeyKept /\ StageInv(p)
    BY <1>3, <1>4 DEF IInv, KeyInv
  <2>2. CASE Archive(p)
    BY <1>3, <2>1, <2>2, ArchiveStep DEF IInv
  <2>3. CASE Write(p)
    BY <1>3, <2>1, <2>3, WriteStep DEF IInv
  <2>4. CASE ~Archive(p) /\ ~Write(p)
    BY <1>3, <1>4, <2>1, <2>4, QuietStep DEF IInv
  <2>5. QED
    BY <2>2, <2>3, <2>4
<1>5. ASSUME NEW q \in Procs, q # p PROVE StageInv(q)'
  BY <1>1, <1>5 DEF StageInv, AskedInv, ArchiveInv, WriteInv
<1>6. KeyInv'
  BY <1>4, <1>5 DEF KeyInv
<1>7. FitInv'
  <2> SUFFICES ASSUME "killed" \notin excused' PROVE FitInv'
    BY DEF FitInv
  <2>1. "killed" \notin excused
    BY <1>3
  <2>2. FitAt(p)'
    <3>1. CASE Archive(p)
      BY <2>1, <3>1, FitArchive DEF IInv
    <3>2. CASE Write(p)
      BY <2>1, <3>2, FitWrite DEF IInv
    <3>3. CASE ~Archive(p) /\ ~Write(p)
      BY <1>3, <2>1, <3>3, FitQuiet DEF IInv
    <3>4. QED
      BY <3>1, <3>2, <3>3
  <2>3. ASSUME NEW q \in Procs, q # p PROVE Fit(q)'
    BY <1>1, <2>3 DEF Fit, AskedFit, ArchiveFit, WriteFit
  <2>4. QED
    BY <2>2, <2>3 DEF FitInv, FitAt, AllIdle
<1>8. QED
  BY <1>2, <1>6, <1>7 DEF IInv

(* IInv holds in every reachable state, when one `dl cert` command runs at a
   time. *)
THEOREM Invariance ==
  ASSUME ~Overlap
  PROVE  Spec => []IInv
<1>1. IInv /\ UNCHANGED vars => IInv'
  <2> SUFFICES ASSUME IInv, UNCHANGED vars PROVE IInv'
    OBVIOUS
  <2>1. Types' /\ OneRuns' /\ KeyInv'
    BY DEF vars, IInv, Types, OneRuns, KeyInv, FilesInv, KeyKept, Kept, StageInv, AskedInv,
           ArchiveInv, WriteInv, HasKey, NonePrimary, Exists
  <2>2. FitInv'
    BY DEF vars, IInv, FitInv, AllIdle, BothWhole, OldWhole, Whole, Fits, PubOf, PairOf,
           Exists, FlagFits, Decrypts, OwnKeys, Fit, AskedFit, ArchiveFit, WriteFit
  <2>3. QED
    BY <2>1, <2>2 DEF IInv
<1>2. IInv /\ Next => IInv'
  BY KeyStep
<1>3. QED
  BY InitIInv, <1>1, <1>2, PTL DEF Spec

(* The private key the vault is wrapped for is on disk, killed commands or not,
   until somebody forces a new one. *)
THEOREM KeyIsKept ==
  ASSUME ~Overlap
  PROVE  Spec => []KeyKept
<1>1. IInv => KeyKept
  BY DEF IInv, KeyInv, KeyKept
<1>2. QED
  BY Invariance, <1>1, PTL

(* No migration, passwd or init that ran to its end leaves files that do not
   fit together, and no passwd that was killed, but for the flag that says
   whether the private key is encrypted. *)
THEOREM FilesFit ==
  ASSUME ~Overlap
  PROVE  Spec => []WholeAtRest
<1>1. IInv => WholeAtRest
  BY DEF IInv, FitInv, BothWhole, OldWhole, WholeAtRest
<1>2. QED
  BY Invariance, <1>1, PTL

(* The member of the project unlocks it, whatever migrations, changes of the
   passphrase and grants came in which order. *)
THEOREM MemberUnlocks ==
  ASSUME ~Overlap
  PROVE  Spec => []CanUnlock
<1>1. IInv => CanUnlock
  <2> SUFFICES ASSUME IInv, AllIdle, excused = {}, entries # {}
               PROVE  IF Exists("meta") /\ EntriesOf("meta") # {}
                      THEN Unlocks("priv", "pub", "meta")
                      ELSE Unlocks("oldpriv", "oldpub", "oldmeta")
    BY DEF CanUnlock
  <2>1. OwnKeys /\ BothWhole /\ \A e \in entries : Kept(e.key)
    BY DEF IInv, FitInv, KeyInv, KeyKept
  <2>2. CASE Exists("meta") /\ EntriesOf("meta") # {}
    BY <2>1, <2>2 DEF BothWhole, Whole, FlagFits, Unlocks, EntriesOf, OwnKeys
  <2>3. CASE ~(Exists("meta") /\ EntriesOf("meta") # {})
    <3>1. PICK e \in entries : Kept(e.key)
      BY <2>1
    <3>2. Exists("oldpriv") /\ disk["oldpriv"].key = e.key
      BY <2>1, <2>3, <3>1 DEF Kept, BothWhole, Whole, EntriesOf, OwnKeys
    <3>3. QED
      BY <2>1, <2>3, <3>2
         DEF BothWhole, OldWhole, Whole, FlagFits, Unlocks, EntriesOf, OwnKeys
  <2>4. QED
    BY <2>2, <2>3
<1>2. QED
  BY Invariance, <1>1, PTL

(* Without a kill and without --force, no private key is lost, the one of the
   RSA pair least of all. *)
THEOREM NoRsaKeyLost ==
  ASSUME ~Overlap
  PROVE  Spec => RsaKept
<1>1. ASSUME IInv, [Next]_vars, NEW k \in Keys, Kept(k), excused' = {}
      PROVE  Kept(k)'
  <2>1. CASE UNCHANGED vars
    BY <1>1, <2>1 DEF vars, Kept, Exists
  <2>2. CASE Next
    <3> PICK p \in Procs : Step(p)
      BY <2>2 DEF Next, Step
    <3>0. disk = [s \in Slots |-> disk[s]] /\ excused = {}
      BY <1>1 DEF IInv, Types, Step, StartInit, StartPasswd, StartMigrate, Granted, GiveUp,
         RekeyCommit, Kill, Write, Archive, Answer, ReadPrivate, RekeyUnlock
    <3>1. CASE Archive(p)
      <4>1. proc[p].pc = "archive" /\ ArchiveFit(p)
        BY <1>1, <3>0, <3>1 DEF Archive, IInv, FitInv, Fit
      <4> DEFINE s == Head(proc[p].left)
      <4>2. \/ disk' = disk
            \/ disk' = [disk EXCEPT ![Archived(s)] = disk[s], ![s] = Absent]
        BY <3>1 DEF Archive
      <4>3. \/ s = "priv" /\ ~Exists("oldpriv")
            \/ s \in {"pub", "meta"}
        BY <4>1 DEF ArchiveFit, All
      <4> HIDE DEF s
      <4>4. CASE s = "priv" /\ ~Exists("oldpriv")
        <5>1. Archived(s) = "oldpriv"
          BY <4>4 DEF Archived
        <5>2. disk' = disk \/ disk'["oldpriv"] = disk["priv"]
          BY <3>0, <4>2, <4>4, <5>1 DEF Slots, Primary
        <5>3. QED
          BY <1>1, <4>4, <5>2 DEF Kept, Exists
      <4>5. CASE s \in {"pub", "meta"}
        <5>1. Archived(s) \in {"oldpub", "oldmeta"}
          BY <4>5 DEF Archived
        <5>2. disk'["priv"] = disk["priv"] /\ disk'["oldpriv"] = disk["oldpriv"]
          BY <3>0, <4>2, <4>5, <5>1 DEF Slots, Primary
        <5>3. QED
          BY <1>1, <5>2 DEF Kept, Exists
      <4>6. QED
        BY <4>3, <4>4, <4>5
    <3>2. CASE Write(p)
      <4>1. /\ proc[p].pc = "write" /\ WriteInv(p)
            /\ proc[p].files = Files(proc[p].key, proc[p].under)
        BY <1>1, <3>0, <3>2 DEF Write, IInv, KeyInv, StageInv
      <4> DEFINE s == Head(proc[p].left)
                 u == proc[p].under
      <4>2. disk' = [disk EXCEPT ![s] = proc[p].files[s]]
        BY <3>2 DEF Write
      <4>3. \/ s = "priv" /\ (NonePrimary \/ HasKey(proc[p].key))
            \/ s \in {"pub", "meta"}
        BY <4>1 DEF WriteInv, All
      <4>4. proc[p].files["priv"] = [key |-> proc[p].key, under |-> u]
        BY <4>1 DEF Files
      <4> HIDE DEF s, u
      <4>5. CASE s = "priv" /\ (NonePrimary \/ HasKey(proc[p].key))
        <5>1. /\ disk'["priv"] = [key |-> proc[p].key, under |-> u]
              /\ disk'["oldpriv"] = disk["oldpriv"]
          BY <3>0, <4>2, <4>4, <4>5 DEF Slots, Primary
        <5>2. Exists("priv")' /\ disk'["priv"].key = proc[p].key
          BY <5>1 DEF Exists, Absent
        <5>3. QED
          BY <1>1, <4>5, <5>1, <5>2 DEF Kept, Exists, NonePrimary, Primary, HasKey
      <4>6. CASE s \in {"pub", "meta"}
        <5>1. disk'["priv"] = disk["priv"] /\ disk'["oldpriv"] = disk["oldpriv"]
          BY <3>0, <4>2, <4>6 DEF Slots, Primary
        <5>2. QED
          BY <1>1, <5>1 DEF Kept, Exists
      <4>7. QED
        BY <4>3, <4>5, <4>6
    <3>3. CASE ~Archive(p) /\ ~Write(p)
      <4>1. disk' = disk
        BY <3>3 DEF Step, StartInit, StartPasswd, StartMigrate, Granted, GiveUp,
           RekeyCommit, Kill, Answer, ReadPrivate, RekeyUnlock
      <4>2. QED
        BY <1>1, <4>1 DEF Kept, Exists
    <3>4. QED
      BY <3>1, <3>2, <3>3
  <2>3. QED
    BY <1>1, <2>1, <2>2
<1>2. IInv /\ [Next]_vars
        => [\A k \in Keys : k[2] = "rsa" /\ Kept(k) /\ excused' = {} => Kept(k)']_vars
  BY <1>1
<1>3. QED
  BY Invariance, <1>2, PTL DEF Spec, RsaKept
=============================================================================
