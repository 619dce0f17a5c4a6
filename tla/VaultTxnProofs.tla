---------------------------- MODULE VaultTxnProofs ----------------------------
(* Proofs about VaultTxn, for any set of processes and any number of commits. *)
EXTENDS VaultTxn, TLAPS

USE NoProcAssumption, MaxTxnAssumption
USE DEF Absent, Torn, Unlocked, Locked, Committing, Recovering, Outcomes,
        NoDigests, Goto, Disturb, Request, Call, pairFiles, log, files,
        caller, hist, local

(* The inductive invariant: the types and what each step knows of the files. *)
IInv == TypeOK /\ ProtocolInv

(* No process runs, no journal is there and nothing but pair 0 was installed. *)
LEMMA InitIInv == Init => IInv
  BY DEF Init, IInv, TypeOK, ProtocolInv, LockInv, JournalInv, CommitInv,
         RecoverInv, FreshInv, ResolvesToCommitted, Resolved, ReadInv, Mixed,
         VaultIsNew

(* Whatever the files, recover_pending_locked ends in one of its results. *)
LEMMA VerdictType == Verdict \in Outcomes \ {"Clean"}
  BY DEF Verdict, TornVerdict

(* A command that ends leaves its variables well typed. *)
LEMMA EndType ==
  ASSUME TypeOK, NEW p \in Procs, End(p)
  PROVE  /\ lock' \in Procs \cup {NoProc}
         /\ pc' \in [Procs -> Unlocked \cup Locked]
         /\ goal' \in [Procs -> {"none", "guard", "commit", "read"}]
         /\ guarded' \in [Procs -> BOOLEAN]
         /\ newId' \in [Procs -> Nat]
         /\ changed' \in [Procs -> BOOLEAN]
         /\ view' \in [Procs -> Nat \X Nat]
         /\ nextId' \in Nat \ {0}
         /\ calls' \in 0..MaxTxn
         /\ committed' \subseteq Nat \X Nat
         /\ disturbed' \subseteq Procs
  BY DEF TypeOK, End

(* Every step keeps the types: what is renamed into place was written in full. *)
LEMMA TypeStep ==
  ASSUME TypeOK, CommitInv, RecoverInv, NEW p \in Procs, Process(p)
  PROVE  TypeOK'
<1> USE DEF TypeOK, CommitInv, RecoverInv, Mixed
<1>1. CASE Ask(p)
  <2>1. CASE RequestGuard(p)
    BY <2>1 DEF RequestGuard
  <2>2. CASE RequestCommit(p)
    BY <2>2 DEF RequestCommit
  <2>3. CASE StartRead(p)
    BY <2>3 DEF StartRead
  <2>4. QED
    BY <1>1, <2>1, <2>2, <2>3 DEF Ask
<1>2. CASE Acquire(p)
  BY <1>2 DEF Acquire
<1>3. CASE Commit(p)
  <2>1. CASE BeginCommit(p)
    BY <2>1 DEF BeginCommit
  <2>2. CASE CleanVaultTmp(p)
    BY <2>2 DEF CleanVaultTmp
  <2>3. CASE CleanSecretsTmp(p)
    BY <2>3 DEF CleanSecretsTmp
  <2>4. CASE WriteVaultTmp(p)
    BY <2>4 DEF WriteVaultTmp
  <2>5. CASE WriteSecretsTmp(p)
    BY <2>5 DEF WriteSecretsTmp
  <2>6. CASE WriteJournal(p)
    BY <2>6 DEF WriteJournal
  <2>7. CASE RenameVault(p)
    BY <2>7 DEF RenameVault
  <2>8. CASE RenameSecrets(p)
    BY <2>8 DEF RenameSecrets
  <2>9. CASE DropJournal(p)
    <3>1. CASE guarded[p]
      BY <2>9, <3>1 DEF DropJournal
    <3>2. CASE ~guarded[p]
      BY <2>9, <3>2, EndType DEF DropJournal
    <3>3. QED
      BY <3>1, <3>2
  <2>10. QED
    BY <1>3, <2>1, <2>2, <2>3, <2>4, <2>5, <2>6, <2>7, <2>8, <2>9 DEF Commit
<1>4. CASE Recover(p)
  <2>1. CASE Recheck(p)
    BY <2>1 DEF Recheck
  <2>2. CASE Classify(p)
    <3>1. CASE Verdict = "RepairError"
      BY <2>2, <3>1, EndType DEF Classify
    <3>2. CASE Verdict # "RepairError"
      BY <2>2, <3>2, VerdictType DEF Classify
    <3>3. QED
      BY <3>1, <3>2
  <2>3. CASE RollForward(p)
    BY <2>3 DEF RollForward
  <2>4. CASE RemoveVaultTmp(p)
    BY <2>4 DEF RemoveVaultTmp
  <2>5. CASE RemoveSecretsTmp(p)
    BY <2>5 DEF RemoveSecretsTmp
  <2>6. CASE RemoveJournal(p)
    BY <2>6 DEF RemoveJournal
  <2>7. QED
    BY <1>4, <2>1, <2>2, <2>3, <2>4, <2>5, <2>6 DEF Recover
<1>5. CASE Read(p)
  <2>1. CASE ReadVault(p)
    <3>1. view[p][2] \in Nat
      BY DEF TypeOK
    <3>2. QED
      BY <2>1, <3>1 DEF ReadVault
  <2>2. CASE ReadSecrets(p)
    <3>1. view[p][1] \in Nat
      BY DEF TypeOK
    <3>2. QED
      BY <2>2, <3>1 DEF ReadSecrets
  <2>3. CASE EndRead(p)
    BY <2>3, EndType DEF EndRead
  <2>4. QED
    BY <1>5, <2>1, <2>2, <2>3 DEF Read
<1>6. CASE NestedCommit(p) \/ DropGuard(p)
  <2>1. CASE NestedCommit(p)
    BY <2>1 DEF NestedCommit
  <2>2. CASE DropGuard(p)
    BY <2>2, EndType DEF DropGuard
  <2>3. QED
    BY <1>6, <2>1, <2>2
<1>7. CASE Crash(p) \/ CrashWriting(p)
  <2>1. CASE Crash(p)
    BY <2>1, EndType DEF Crash
  <2>2. CASE CrashWriting(p)
    BY <2>2, EndType DEF CrashWriting
  <2>3. QED
    BY <1>7, <2>1, <2>2
<1>8. QED
  BY <1>1, <1>2, <1>3, <1>4, <1>5, <1>6, <1>7 DEF Process, Step

(* The holder of the flock is the only process inside. *)
LEMMA LockStep ==
  ASSUME TypeOK, LockInv, NEW p \in Procs, Process(p)
  PROVE  LockInv'
<1> USE DEF End, TypeOK, LockInv
<1>1. CASE Ask(p)
  BY <1>1 DEF Ask, RequestGuard, RequestCommit, StartRead
<1>2. CASE Acquire(p)
  BY <1>2 DEF Acquire
<1>3. CASE Commit(p)
  <2>1. CASE BeginCommit(p)
    BY <2>1 DEF BeginCommit
  <2>2. CASE CleanVaultTmp(p)
    BY <2>2 DEF CleanVaultTmp
  <2>3. CASE CleanSecretsTmp(p)
    BY <2>3 DEF CleanSecretsTmp
  <2>4. CASE WriteVaultTmp(p)
    BY <2>4 DEF WriteVaultTmp
  <2>5. CASE WriteSecretsTmp(p)
    BY <2>5 DEF WriteSecretsTmp
  <2>6. CASE WriteJournal(p)
    BY <2>6 DEF WriteJournal
  <2>7. CASE RenameVault(p)
    BY <2>7 DEF RenameVault
  <2>8. CASE RenameSecrets(p)
    BY <2>8 DEF RenameSecrets
  <2>9. CASE DropJournal(p)
    BY <2>9 DEF DropJournal
  <2>10. QED
    BY <1>3, <2>1, <2>2, <2>3, <2>4, <2>5, <2>6, <2>7, <2>8, <2>9 DEF Commit
<1>4. CASE Recover(p)
  <2>1. CASE Recheck(p)
    BY <2>1 DEF Recheck
  <2>2. CASE Classify(p)
    BY <2>2 DEF Classify
  <2>3. CASE RollForward(p)
    BY <2>3 DEF RollForward
  <2>4. CASE RemoveVaultTmp(p)
    BY <2>4 DEF RemoveVaultTmp
  <2>5. CASE RemoveSecretsTmp(p)
    BY <2>5 DEF RemoveSecretsTmp
  <2>6. CASE RemoveJournal(p)
    BY <2>6 DEF RemoveJournal
  <2>7. QED
    BY <1>4, <2>1, <2>2, <2>3, <2>4, <2>5, <2>6 DEF Recover
<1>5. CASE Read(p)
  BY <1>5 DEF Read, ReadVault, ReadSecrets, EndRead
<1>6. CASE NestedCommit(p) \/ DropGuard(p)
  BY <1>6 DEF NestedCommit, DropGuard
<1>7. CASE Crash(p) \/ CrashWriting(p)
  BY <1>7 DEF Crash, CrashWriting
<1>8. QED
  BY <1>1, <1>2, <1>3, <1>4, <1>5, <1>6, <1>7 DEF Process, Step

(* The journal describes the files from its creation to its removal. *)
LEMMA JournalStep ==
  ASSUME TypeOK, LockInv, JournalInv, CommitInv, RecoverInv, FreshInv, NEW p \in Procs, Process(p)
  PROVE  JournalInv'
<1> USE DEF End, TypeOK, LockInv, JournalInv, CommitInv, RecoverInv, FreshInv,
         Mixed, VaultIsNew, VaultIsOld, SecretsIsNew, SecretsIsOld, Verdict, TornVerdict
<1>1. CASE Ask(p)
  BY <1>1 DEF Ask, RequestGuard, RequestCommit, StartRead
<1>2. CASE Acquire(p)
  BY <1>2 DEF Acquire
<1>3. CASE Commit(p)
  <2>1. CASE BeginCommit(p)
    BY <2>1 DEF BeginCommit
  <2>2. CASE CleanVaultTmp(p)
    BY <2>2 DEF CleanVaultTmp
  <2>3. CASE CleanSecretsTmp(p)
    BY <2>3 DEF CleanSecretsTmp
  <2>4. CASE WriteVaultTmp(p)
    BY <2>4 DEF WriteVaultTmp
  <2>5. CASE WriteSecretsTmp(p)
    BY <2>5 DEF WriteSecretsTmp
  <2>6. CASE WriteJournal(p)
    BY <2>6 DEF WriteJournal
  <2>7. CASE RenameVault(p)
    BY <2>7 DEF RenameVault
  <2>8. CASE RenameSecrets(p)
    BY <2>8 DEF RenameSecrets
  <2>9. CASE DropJournal(p)
    BY <2>9 DEF DropJournal
  <2>10. QED
    BY <1>3, <2>1, <2>2, <2>3, <2>4, <2>5, <2>6, <2>7, <2>8, <2>9 DEF Commit
<1>4. CASE Recover(p)
  <2>1. CASE Recheck(p)
    BY <2>1 DEF Recheck
  <2>2. CASE Classify(p)
    BY <2>2 DEF Classify
  <2>3. CASE RollForward(p)
    BY <2>3 DEF RollForward
  <2>4. CASE RemoveVaultTmp(p)
    BY <2>4 DEF RemoveVaultTmp
  <2>5. CASE RemoveSecretsTmp(p)
    BY <2>5 DEF RemoveSecretsTmp
  <2>6. CASE RemoveJournal(p)
    BY <2>6 DEF RemoveJournal
  <2>7. QED
    BY <1>4, <2>1, <2>2, <2>3, <2>4, <2>5, <2>6 DEF Recover
<1>5. CASE Read(p)
  BY <1>5 DEF Read, ReadVault, ReadSecrets, EndRead
<1>6. CASE NestedCommit(p) \/ DropGuard(p)
  BY <1>6 DEF NestedCommit, DropGuard
<1>7. CASE Crash(p) \/ CrashWriting(p)
  BY <1>7 DEF Crash, CrashWriting
<1>8. QED
  BY <1>1, <1>2, <1>3, <1>4, <1>5, <1>6, <1>7 DEF Process, Step

(* What the committing process knows of the files stays true. *)
LEMMA CommitStep ==
  ASSUME TypeOK, LockInv, JournalInv, CommitInv, RecoverInv, FreshInv, NEW p \in Procs, Process(p)
  PROVE  CommitInv'
<1> USE DEF End, TypeOK, LockInv, JournalInv, CommitInv, RecoverInv, FreshInv,
         Mixed, VaultIsNew, VaultIsOld, SecretsIsNew, SecretsIsOld, Verdict, TornVerdict
<1>1. CASE Ask(p)
  BY <1>1 DEF Ask, RequestGuard, RequestCommit, StartRead
<1>2. CASE Acquire(p)
  BY <1>2 DEF Acquire
<1>3. CASE Commit(p)
  <2>1. CASE BeginCommit(p)
    BY <2>1 DEF BeginCommit
  <2>2. CASE CleanVaultTmp(p)
    BY <2>2 DEF CleanVaultTmp
  <2>3. CASE CleanSecretsTmp(p)
    BY <2>3 DEF CleanSecretsTmp
  <2>4. CASE WriteVaultTmp(p)
    BY <2>4 DEF WriteVaultTmp
  <2>5. CASE WriteSecretsTmp(p)
    BY <2>5 DEF WriteSecretsTmp
  <2>6. CASE WriteJournal(p)
    BY <2>6 DEF WriteJournal
  <2>7. CASE RenameVault(p)
    BY <2>7 DEF RenameVault
  <2>8. CASE RenameSecrets(p)
    BY <2>8 DEF RenameSecrets
  <2>9. CASE DropJournal(p)
    BY <2>9 DEF DropJournal
  <2>10. QED
    BY <1>3, <2>1, <2>2, <2>3, <2>4, <2>5, <2>6, <2>7, <2>8, <2>9 DEF Commit
<1>4. CASE Recover(p)
  <2>1. CASE Recheck(p)
    BY <2>1 DEF Recheck
  <2>2. CASE Classify(p)
    BY <2>2 DEF Classify
  <2>3. CASE RollForward(p)
    BY <2>3 DEF RollForward
  <2>4. CASE RemoveVaultTmp(p)
    BY <2>4 DEF RemoveVaultTmp
  <2>5. CASE RemoveSecretsTmp(p)
    BY <2>5 DEF RemoveSecretsTmp
  <2>6. CASE RemoveJournal(p)
    BY <2>6 DEF RemoveJournal
  <2>7. QED
    BY <1>4, <2>1, <2>2, <2>3, <2>4, <2>5, <2>6 DEF Recover
<1>5. CASE Read(p)
  BY <1>5 DEF Read, ReadVault, ReadSecrets, EndRead
<1>6. CASE NestedCommit(p) \/ DropGuard(p)
  BY <1>6 DEF NestedCommit, DropGuard
<1>7. CASE Crash(p) \/ CrashWriting(p)
  BY <1>7 DEF Crash, CrashWriting
<1>8. QED
  BY <1>1, <1>2, <1>3, <1>4, <1>5, <1>6, <1>7 DEF Process, Step

(* What the recovering process knows of the files stays true. *)
LEMMA RecoverStep ==
  ASSUME TypeOK, LockInv, JournalInv, CommitInv, RecoverInv, FreshInv, NEW p \in Procs, Process(p)
  PROVE  RecoverInv'
<1> USE DEF End, TypeOK, LockInv, JournalInv, CommitInv, RecoverInv, FreshInv,
         Mixed, VaultIsNew, VaultIsOld, SecretsIsNew, SecretsIsOld, Verdict, TornVerdict
<1>1. CASE Ask(p)
  BY <1>1 DEF Ask, RequestGuard, RequestCommit, StartRead
<1>2. CASE Acquire(p)
  BY <1>2 DEF Acquire
<1>3. CASE Commit(p)
  <2>1. CASE BeginCommit(p)
    BY <2>1 DEF BeginCommit
  <2>2. CASE CleanVaultTmp(p)
    BY <2>2 DEF CleanVaultTmp
  <2>3. CASE CleanSecretsTmp(p)
    BY <2>3 DEF CleanSecretsTmp
  <2>4. CASE WriteVaultTmp(p)
    BY <2>4 DEF WriteVaultTmp
  <2>5. CASE WriteSecretsTmp(p)
    BY <2>5 DEF WriteSecretsTmp
  <2>6. CASE WriteJournal(p)
    BY <2>6 DEF WriteJournal
  <2>7. CASE RenameVault(p)
    BY <2>7 DEF RenameVault
  <2>8. CASE RenameSecrets(p)
    BY <2>8 DEF RenameSecrets
  <2>9. CASE DropJournal(p)
    BY <2>9 DEF DropJournal
  <2>10. QED
    BY <1>3, <2>1, <2>2, <2>3, <2>4, <2>5, <2>6, <2>7, <2>8, <2>9 DEF Commit
<1>4. CASE Recover(p)
  <2>1. CASE Recheck(p)
    BY <2>1 DEF Recheck
  <2>2. CASE Classify(p)
    BY <2>2 DEF Classify
  <2>3. CASE RollForward(p)
    BY <2>3 DEF RollForward
  <2>4. CASE RemoveVaultTmp(p)
    BY <2>4 DEF RemoveVaultTmp
  <2>5. CASE RemoveSecretsTmp(p)
    BY <2>5 DEF RemoveSecretsTmp
  <2>6. CASE RemoveJournal(p)
    BY <2>6 DEF RemoveJournal
  <2>7. QED
    BY <1>4, <2>1, <2>2, <2>3, <2>4, <2>5, <2>6 DEF Recover
<1>5. CASE Read(p)
  BY <1>5 DEF Read, ReadVault, ReadSecrets, EndRead
<1>6. CASE NestedCommit(p) \/ DropGuard(p)
  BY <1>6 DEF NestedCommit, DropGuard
<1>7. CASE Crash(p) \/ CrashWriting(p)
  BY <1>7 DEF Crash, CrashWriting
<1>8. QED
  BY <1>1, <1>2, <1>3, <1>4, <1>5, <1>6, <1>7 DEF Process, Step

(* A commit writes a content that was never written before. *)
LEMMA FreshStep ==
  ASSUME TypeOK, LockInv, JournalInv, CommitInv, RecoverInv, FreshInv, NEW p \in Procs, Process(p)
  PROVE  FreshInv'
<1> USE DEF End, TypeOK, LockInv, JournalInv, CommitInv, RecoverInv, FreshInv,
         Mixed, VaultIsNew, VaultIsOld, SecretsIsNew, SecretsIsOld, Verdict, TornVerdict
<1>1. CASE Ask(p)
  BY <1>1 DEF Ask, RequestGuard, RequestCommit, StartRead
<1>2. CASE Acquire(p)
  BY <1>2 DEF Acquire
<1>3. CASE Commit(p)
  <2>1. CASE BeginCommit(p)
    BY <2>1 DEF BeginCommit
  <2>2. CASE CleanVaultTmp(p)
    BY <2>2 DEF CleanVaultTmp
  <2>3. CASE CleanSecretsTmp(p)
    BY <2>3 DEF CleanSecretsTmp
  <2>4. CASE WriteVaultTmp(p)
    BY <2>4 DEF WriteVaultTmp
  <2>5. CASE WriteSecretsTmp(p)
    BY <2>5 DEF WriteSecretsTmp
  <2>6. CASE WriteJournal(p)
    BY <2>6 DEF WriteJournal
  <2>7. CASE RenameVault(p)
    BY <2>7 DEF RenameVault
  <2>8. CASE RenameSecrets(p)
    BY <2>8 DEF RenameSecrets
  <2>9. CASE DropJournal(p)
    BY <2>9 DEF DropJournal
  <2>10. QED
    BY <1>3, <2>1, <2>2, <2>3, <2>4, <2>5, <2>6, <2>7, <2>8, <2>9 DEF Commit
<1>4. CASE Recover(p)
  <2>1. CASE Recheck(p)
    BY <2>1 DEF Recheck
  <2>2. CASE Classify(p)
    BY <2>2 DEF Classify
  <2>3. CASE RollForward(p)
    BY <2>3 DEF RollForward
  <2>4. CASE RemoveVaultTmp(p)
    BY <2>4 DEF RemoveVaultTmp
  <2>5. CASE RemoveSecretsTmp(p)
    BY <2>5 DEF RemoveSecretsTmp
  <2>6. CASE RemoveJournal(p)
    BY <2>6 DEF RemoveJournal
  <2>7. QED
    BY <1>4, <2>1, <2>2, <2>3, <2>4, <2>5, <2>6 DEF Recover
<1>5. CASE Read(p)
  BY <1>5 DEF Read, ReadVault, ReadSecrets, EndRead
<1>6. CASE NestedCommit(p) \/ DropGuard(p)
  BY <1>6 DEF NestedCommit, DropGuard
<1>7. CASE Crash(p) \/ CrashWriting(p)
  BY <1>7 DEF Crash, CrashWriting
<1>8. QED
  BY <1>1, <1>2, <1>3, <1>4, <1>5, <1>6, <1>7 DEF Process, Step

(* The resolved pair changes at the rename of vault.toml only. *)
LEMMA ResolvedStep ==
  ASSUME TypeOK, LockInv, JournalInv, CommitInv, RecoverInv, FreshInv, ResolvesToCommitted, NEW p \in Procs, Process(p)
  PROVE  ResolvesToCommitted'
<1> USE DEF End, TypeOK, LockInv, JournalInv, CommitInv, RecoverInv, FreshInv,
         Mixed, VaultIsNew, VaultIsOld, SecretsIsNew, SecretsIsOld, Verdict, TornVerdict,
         ResolvesToCommitted, Resolved
<1>1. CASE Ask(p)
  BY <1>1 DEF Ask, RequestGuard, RequestCommit, StartRead
<1>2. CASE Acquire(p)
  BY <1>2 DEF Acquire
<1>3. CASE Commit(p)
  <2>1. CASE BeginCommit(p)
    BY <2>1 DEF BeginCommit
  <2>2. CASE CleanVaultTmp(p)
    BY <2>2 DEF CleanVaultTmp
  <2>3. CASE CleanSecretsTmp(p)
    BY <2>3 DEF CleanSecretsTmp
  <2>4. CASE WriteVaultTmp(p)
    BY <2>4 DEF WriteVaultTmp
  <2>5. CASE WriteSecretsTmp(p)
    BY <2>5 DEF WriteSecretsTmp
  <2>6. CASE WriteJournal(p)
    BY <2>6 DEF WriteJournal
  <2>7. CASE RenameVault(p)
    BY <2>7 DEF RenameVault
  <2>8. CASE RenameSecrets(p)
    BY <2>8 DEF RenameSecrets
  <2>9. CASE DropJournal(p)
    BY <2>9 DEF DropJournal
  <2>10. QED
    BY <1>3, <2>1, <2>2, <2>3, <2>4, <2>5, <2>6, <2>7, <2>8, <2>9 DEF Commit
<1>4. CASE Recover(p)
  <2>1. CASE Recheck(p)
    BY <2>1 DEF Recheck
  <2>2. CASE Classify(p)
    BY <2>2 DEF Classify
  <2>3. CASE RollForward(p)
    BY <2>3 DEF RollForward
  <2>4. CASE RemoveVaultTmp(p)
    BY <2>4 DEF RemoveVaultTmp
  <2>5. CASE RemoveSecretsTmp(p)
    BY <2>5 DEF RemoveSecretsTmp
  <2>6. CASE RemoveJournal(p)
    BY <2>6 DEF RemoveJournal
  <2>7. QED
    BY <1>4, <2>1, <2>2, <2>3, <2>4, <2>5, <2>6 DEF Recover
<1>5. CASE Read(p)
  BY <1>5 DEF Read, ReadVault, ReadSecrets, EndRead
<1>6. CASE NestedCommit(p) \/ DropGuard(p)
  BY <1>6 DEF NestedCommit, DropGuard
<1>7. CASE Crash(p) \/ CrashWriting(p)
  <2>1. CASE Crash(p)
    BY <2>1 DEF Crash
  <2>2. CASE CrashWriting(p)
    BY <2>2 DEF CrashWriting
  <2>3. QED
    BY <1>7, <2>1, <2>2
<1>8. QED
  BY <1>1, <1>2, <1>3, <1>4, <1>5, <1>6, <1>7 DEF Process, Step

(* A command that ends reads nothing any more. *)
LEMMA EndKeepsReads ==
  ASSUME TypeOK, ReadInv, NEW p \in Procs, End(p), UNCHANGED <<vault, secrets>>
  PROVE  ReadInv'
<1> SUFFICES ASSUME NEW q \in Procs \ disturbed'
             PROVE  /\ pc'[q] \in {"readVault", "readSecrets"} =>
                         <<vault, secrets>>' \in committed'
                    /\ pc'[q] = "readSecrets" => view'[q][1] = vault'
                    /\ pc'[q] = "check" => view'[q] \in committed'
  BY DEF ReadInv
<1>1. CASE q = p
  BY <1>1 DEF TypeOK, End
<1>2. CASE q # p
  BY <1>2 DEF TypeOK, End, ReadInv
<1>3. QED
  BY <1>1, <1>2

(* An undisturbed reader keeps seeing the pair it started with. *)
LEMMA ReadStep ==
  ASSUME TypeOK, LockInv, JournalInv, CommitInv, RecoverInv, FreshInv,
         ResolvesToCommitted, ReadInv, NEW p \in Procs, Process(p)
  PROVE  ReadInv'
<1> USE DEF TypeOK, LockInv, JournalInv, CommitInv, RecoverInv, FreshInv,
         Mixed, VaultIsNew, VaultIsOld, SecretsIsNew, SecretsIsOld, Verdict, TornVerdict,
         ReadInv, Reading
<1>a. ~(journal = "whole" /\ Mixed) => <<vault, secrets>> \in committed
  BY DEF ResolvesToCommitted, Resolved
<1>1. CASE Ask(p)
  <2>1. CASE RequestGuard(p)
    BY <2>1 DEF RequestGuard
  <2>2. CASE RequestCommit(p)
    BY <2>2 DEF RequestCommit
  <2>3. CASE StartRead(p)
    BY <1>a, <2>3 DEF StartRead
  <2>4. QED
    BY <1>1, <2>1, <2>2, <2>3 DEF Ask
<1>2. CASE Acquire(p)
  BY <1>2 DEF Acquire
<1>3. CASE Commit(p)
  <2>1. CASE BeginCommit(p)
    BY <2>1 DEF BeginCommit
  <2>2. CASE CleanVaultTmp(p)
    BY <2>2 DEF CleanVaultTmp
  <2>3. CASE CleanSecretsTmp(p)
    BY <2>3 DEF CleanSecretsTmp
  <2>4. CASE WriteVaultTmp(p)
    <3>1. /\ UNCHANGED <<vault, secrets, disturbed, view, committed>>
          /\ \E l \in {"writeSecrets", "writeJournal"} : pc' = [pc EXCEPT ![p] = l]
      BY <2>4 DEF WriteVaultTmp
    <3>2. QED
      BY <3>1
  <2>5. CASE WriteSecretsTmp(p)
    BY <2>5 DEF WriteSecretsTmp
  <2>6. CASE WriteJournal(p)
    BY <2>6 DEF WriteJournal
  <2>7. CASE RenameVault(p)
    BY <2>7 DEF RenameVault
  <2>8. CASE RenameSecrets(p)
    BY <2>8 DEF RenameSecrets
  <2>9. CASE DropJournal(p)
    <3>1. CASE guarded[p]
      <4>1. /\ pc' = [pc EXCEPT ![p] = "guarded"]
            /\ UNCHANGED <<vault, secrets, disturbed, view, committed>>
        BY <2>9, <3>1 DEF DropJournal
      <4>2. QED
        BY <4>1
    <3>2. CASE ~guarded[p]
      BY <2>9, <3>2, EndKeepsReads DEF DropJournal
    <3>3. QED
      BY <3>1, <3>2
  <2>10. QED
    BY <1>3, <2>1, <2>2, <2>3, <2>4, <2>5, <2>6, <2>7, <2>8, <2>9 DEF Commit
<1>4. CASE Recover(p)
  <2>1. CASE Recheck(p)
    <3>1. CASE journal = "absent"
      BY <1>a, <2>1, <3>1 DEF Recheck
    <3>2. CASE journal # "absent"
      <4>1. /\ pc' = [pc EXCEPT ![p] = "recover"]
            /\ UNCHANGED <<vault, secrets, disturbed, view, committed>>
        BY <2>1, <3>2 DEF Recheck
      <4>2. QED
        BY <4>1
    <3>3. QED
      BY <3>1, <3>2
  <2>2. CASE Classify(p)
    <3>1. CASE Verdict = "RepairError"
      BY <2>2, <3>1, EndKeepsReads DEF Classify
    <3>2. CASE Verdict # "RepairError"
      <4>1. /\ pc' = [pc EXCEPT ![p] = IF Verdict = "RolledForward"
                                       THEN "forward" ELSE "rmVault"]
            /\ UNCHANGED <<vault, secrets, disturbed, view, committed>>
        BY <2>2, <3>2 DEF Classify
      <4>2. QED
        BY <4>1
    <3>3. QED
      BY <3>1, <3>2
  <2>3. CASE RollForward(p)
    BY <2>3 DEF RollForward
  <2>4. CASE RemoveVaultTmp(p)
    BY <2>4 DEF RemoveVaultTmp
  <2>5. CASE RemoveSecretsTmp(p)
    BY <2>5 DEF RemoveSecretsTmp
  <2>6. CASE RemoveJournal(p)
    BY <1>a, <2>6 DEF RemoveJournal
  <2>7. QED
    BY <1>4, <2>1, <2>2, <2>3, <2>4, <2>5, <2>6 DEF Recover
<1>5. CASE Read(p)
  <2>1. CASE ReadVault(p)
    BY <2>1 DEF ReadVault
  <2>2. CASE ReadSecrets(p)
    <3> SUFFICES ASSUME NEW q \in Procs \ disturbed'
                 PROVE  /\ pc'[q] \in {"readVault", "readSecrets"} =>
                             <<vault, secrets>>' \in committed'
                        /\ pc'[q] = "readSecrets" => view'[q][1] = vault'
                        /\ pc'[q] = "check" => view'[q] \in committed'
      BY DEF ReadInv
    <3>1. q \in Procs \ disturbed
      BY <2>2 DEF ReadSecrets
    <3>2. CASE q = p
      <4>1. view'[q] = <<view[p][1], secrets>> /\ pc'[q] = "check"
        BY <2>2, <3>2 DEF ReadSecrets
      <4>2. view[p][1] = vault /\ <<vault, secrets>> \in committed
        BY <2>2, <3>1, <3>2 DEF ReadSecrets
      <4>3. QED
        BY <2>2, <4>1, <4>2 DEF ReadSecrets
    <3>3. CASE q # p
      BY <2>2, <3>1, <3>3 DEF ReadSecrets
    <3>4. QED
      BY <3>2, <3>3
  <2>3. CASE EndRead(p)
    BY <2>3, EndKeepsReads DEF EndRead
  <2>4. QED
    BY <1>5, <2>1, <2>2, <2>3 DEF Read
<1>6. CASE NestedCommit(p) \/ DropGuard(p)
  <2>1. CASE NestedCommit(p)
    BY <2>1 DEF NestedCommit
  <2>2. CASE DropGuard(p)
    BY <2>2, EndKeepsReads DEF DropGuard
  <2>3. QED
    BY <1>6, <2>1, <2>2
<1>7. CASE Crash(p) \/ CrashWriting(p)
  <2>1. CASE Crash(p)
    BY <2>1, EndKeepsReads DEF Crash
  <2>2. CASE CrashWriting(p)
    BY <2>2, EndKeepsReads DEF CrashWriting
  <2>3. QED
    BY <1>7, <2>1, <2>2
<1>8. QED
  BY <1>1, <1>2, <1>3, <1>4, <1>5, <1>6, <1>7 DEF Process, Step

(* A stuttering step changes nothing. *)
LEMMA StutterStep ==
  ASSUME IInv, UNCHANGED vars
  PROVE  IInv'
<1> USE DEF vars
<1>1. TypeOK'
  BY DEF IInv, TypeOK
<1>2. LockInv' /\ FreshInv'
  BY DEF IInv, ProtocolInv, LockInv, FreshInv
<1>3. JournalInv'
  BY DEF IInv, ProtocolInv, JournalInv, Mixed, VaultIsNew, VaultIsOld, SecretsIsNew
<1>4. CommitInv'
  BY DEF IInv, ProtocolInv, CommitInv, Mixed, VaultIsNew, VaultIsOld, SecretsIsNew
<1>5. RecoverInv'
  BY DEF IInv, ProtocolInv, RecoverInv, Mixed, VaultIsNew
<1>6. ResolvesToCommitted'
  BY DEF IInv, ProtocolInv, ResolvesToCommitted, Resolved, Mixed, VaultIsNew
<1>7. ReadInv'
  BY DEF IInv, ProtocolInv, ReadInv
<1>8. QED
  BY <1>1, <1>2, <1>3, <1>4, <1>5, <1>6, <1>7 DEF IInv, ProtocolInv

(* The types and the protocol invariant hold in every reachable state. *)
THEOREM Invariance == Spec => []IInv
<1>1. IInv /\ [Next]_vars => IInv'
  <2> SUFFICES ASSUME IInv, [Next]_vars
               PROVE  IInv'
    OBVIOUS
  <2>1. CASE UNCHANGED vars
    BY <2>1, StutterStep
  <2>2. ASSUME NEW p \in Procs, Process(p)
        PROVE  IInv'
    BY <2>2, TypeStep, LockStep, JournalStep, CommitStep, RecoverStep,
       FreshStep, ResolvedStep, ReadStep DEF IInv, ProtocolInv
  <2>3. QED
    BY <2>1, <2>2 DEF Next
<1>2. QED
  BY <1>1, InitIInv, PTL DEF Spec

(* Type correctness. *)
THEOREM TypeCorrect == Spec => []TypeOK
<1>1. IInv => TypeOK
  BY DEF IInv
<1>2. QED
  BY <1>1, Invariance, PTL

(* Whatever crashed where, the files resolve to a pair some commit installed. *)
THEOREM AtomicPair == Spec => []ResolvesToCommitted
<1>1. IInv => ResolvesToCommitted
  BY DEF IInv, ProtocolInv
<1>2. QED
  BY <1>1, Invariance, PTL

(* repair_error is out of reach of every journal that can be parsed. *)
THEOREM ParsedJournals == Spec => []ParsedJournalResolves
<1>1. IInv => ParsedJournalResolves
  BY DEF IInv, ProtocolInv, JournalInv, ParsedJournalResolves, Verdict,
         VaultIsNew, VaultIsOld, SecretsIsNew, SecretsIsOld, Mixed
<1>2. QED
  BY <1>1, Invariance, PTL

(* A read that no rename overlaps returns a committed pair. *)
THEOREM UndisturbedReads == Spec => []UndisturbedReadIsCommitted
<1>1. IInv => UndisturbedReadIsCommitted
  BY DEF IInv, ProtocolInv, ReadInv, UndisturbedReadIsCommitted
<1>2. QED
  BY <1>1, Invariance, PTL

(* Only the holder of the lock changes the files, and only by its own steps. *)
LEMMA OnlyHolderWrites ==
  ASSUME TypeOK, LockInv, NEW p \in Procs, Process(p), ~UNCHANGED <<vault, secrets>>
  PROVE  lock = p /\ pc'[p] # pc[p]
<1>1. RenameVault(p) \/ RenameSecrets(p) \/ RollForward(p)
  BY DEF Process, Ask, RequestGuard, RequestCommit, StartRead, Acquire, Step,
         Commit, BeginCommit, CleanVaultTmp, CleanSecretsTmp, WriteVaultTmp,
         WriteSecretsTmp, WriteJournal, DropJournal, Recover, Recheck, Classify,
         RemoveVaultTmp, RemoveSecretsTmp, RemoveJournal, Read, ReadVault,
         ReadSecrets, EndRead, NestedCommit, DropGuard, Crash, CrashWriting
<1>2. QED
  BY <1>1 DEF RenameVault, RenameSecrets, RollForward, TypeOK, LockInv

(* The guard of lock_vault_pair protects its whole window. *)
THEOREM GuardedWindow == Spec => GuardedPairStable
<1> DEFINE Stable == \A p \in Procs : lock = p /\ lock' = p /\ pc'[p] = pc[p]
                        => UNCHANGED <<vault, secrets>>
<1>1. IInv /\ [Next]_vars => [Stable]_vars
  <2> SUFFICES ASSUME IInv, NEW p \in Procs, Process(p)
               PROVE  Stable
    BY DEF Next
  <2>1. CASE UNCHANGED <<vault, secrets>>
    BY <2>1
  <2>2. CASE ~UNCHANGED <<vault, secrets>>
    BY <2>2, OnlyHolderWrites DEF IInv, ProtocolInv
  <2>3. QED
    BY <2>1, <2>2
<1>2. QED
  BY <1>1, Invariance, PTL DEF Spec, GuardedPairStable

(* A step that writes neither file nor journal keeps the resolved pair. *)
LEMMA ResolvedKept ==
  ASSUME UNCHANGED <<vault, secrets, journal, digests>>
  PROVE  Resolved' = Resolved
  BY DEF Resolved, Mixed, VaultIsNew

(* The rename of vault.toml installs the pair; no other step changes what the
   files resolve to. *)
LEMMA PairStep ==
  ASSUME IInv, NEW p \in Procs, Process(p)
  PROVE  [Pair!Install]_Resolved
<1> USE DEF IInv, TypeOK, ProtocolInv, CommitInv, RecoverInv, Mixed, VaultIsNew,
            SecretsIsNew, VaultIsOld
<1>1. CASE RenameVault(p)
  <2>1. Resolved = <<vault, secrets>>
    BY <1>1 DEF RenameVault, JournalInv, Resolved
  <2>2. Resolved' = <<newId[p], IF changed[p] THEN newId[p] ELSE secrets>>
    BY <1>1 DEF RenameVault, Resolved
  <2>3. newId[p] \in Nat /\ newId[p] > vault
    BY <1>1 DEF RenameVault
  <2>4. QED
    BY <2>1, <2>2, <2>3 DEF Pair!Install
<1>2. CASE RenameSecrets(p)
  BY <1>2 DEF RenameSecrets, Resolved, JournalInv
<1>3. CASE RollForward(p)
  BY <1>3 DEF RollForward, Resolved, JournalInv
<1>4. CASE DropJournal(p)
  BY <1>4 DEF DropJournal, Resolved, JournalInv
<1>5. CASE RemoveJournal(p)
  BY <1>5 DEF RemoveJournal, Resolved, JournalInv
<1>6. CASE WriteJournal(p)
  BY <1>6 DEF WriteJournal, Resolved
<1>7. CASE CrashWriting(p)
  BY <1>7 DEF CrashWriting, Resolved
<1>8. CASE UNCHANGED <<vault, secrets, journal, digests>>
  BY <1>8, ResolvedKept
<1>9. QED
  BY <1>1, <1>2, <1>3, <1>4, <1>5, <1>6, <1>7, <1>8
     DEF Process, Ask, RequestGuard, RequestCommit, StartRead, Acquire, Step,
         Commit, BeginCommit, CleanVaultTmp, CleanSecretsTmp, WriteVaultTmp,
         WriteSecretsTmp, Recover, Recheck, Classify, RemoveVaultTmp,
         RemoveSecretsTmp, Read, ReadVault, ReadSecrets, EndRead, NestedCommit,
         DropGuard, Crash

(* The commit and recovery protocol implements the atomic pair. *)
THEOREM Refinement == Spec => ImplementsPair
<1>1. Init => Pair!Init
  BY DEF Init, Pair!Init, Resolved
<1>2. IInv /\ [Next]_vars => [Pair!Install]_Resolved
  <2> SUFFICES ASSUME IInv, [Next]_vars
               PROVE  [Pair!Install]_Resolved
    OBVIOUS
  <2>1. CASE UNCHANGED vars
    BY <2>1, ResolvedKept DEF vars
  <2>2. CASE Next
    BY <2>2, PairStep DEF Next
  <2>3. QED
    BY <2>1, <2>2
<1>3. QED
  BY <1>1, <1>2, Invariance, PTL DEF Spec, ImplementsPair, Pair!Spec
===============================================================================
