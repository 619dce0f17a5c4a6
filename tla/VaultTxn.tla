------------------------------- MODULE VaultTxn -------------------------------
(***************************************************************************)
(* The commit and recovery protocol of src/src/storage/vault_txn.rs, run   *)
(* by any number of `dl` processes over one `.lock/` directory, with a     *)
(* crash possible between any two file operations.                         *)
(*                                                                         *)
(*   - a file content is the number of the commit that wrote it; a SHA-256 *)
(*     digest is the content itself (no collisions);                       *)
(*   - one action is one file operation of the code;                       *)
(*   - `lock` is the flock on `.lock/.txn.lock`: the kernel frees it when  *)
(*     its owner dies, so a crash never leaves it behind;                  *)
(*   - Crash(p) is the death of a process and also every `?` that makes an *)
(*     operation return early: both leave the files as they are and free   *)
(*     the lock.  CrashWriting(p) leaves the file being written torn.      *)
(***************************************************************************)
EXTENDS Integers

CONSTANTS
  Procs,             \* the `dl` processes
  NoProc,            \* nobody: the lock is free
  MaxTxn             \* bound: the commits of a behaviour

ASSUME NoProcAssumption == NoProc \notin Procs
ASSUME MaxTxnAssumption == MaxTxn \in Nat

Absent == -1         \* there is no such file
Torn   == -2         \* a file whose write was cut short

VARIABLES
  vault,             \* content of vault.toml
  secrets,           \* content of secrets.lock
  vaultTmp,          \* content of vault.toml.txn-tmp
  secretsTmp,        \* content of secrets.lock.txn-tmp
  journal,           \* txn.journal: "absent", "torn" or "whole"
  digests,           \* what a whole journal says
  lock,              \* the process holding the flock, or NoProc
  pc,                \* pc[p]: the operation p performs next
  goal,              \* goal[p]: what p took, or waits for, the lock for
  guarded,           \* guarded[p]: p holds an outer lock_vault_pair guard
  newId,             \* newId[p]: the number of p's commit
  changed,           \* changed[p]: p's commit writes new secrets.lock bytes
  outcome,           \* outcome[p]: the result of p's last recovery
  view,              \* view[p]: the pair p read
  nextId,            \* the number of the next commit
  calls,             \* how many commits have been called (bounded by MaxTxn)
  committed,         \* history: every pair a commit has installed
  disturbed          \* history: readers whose read a rename overlapped

pairFiles == <<vault, secrets>>
log    == <<journal, digests>>
files  == <<pairFiles, vaultTmp, secretsTmp, log>>
caller == <<goal, guarded, newId, changed, nextId, calls>>
hist   == <<committed, disturbed>>
local  == <<caller, outcome, view, hist>>
vars   == <<files, lock, pc, local>>

Outcomes == {"Clean", "Completed", "RolledForward", "RolledBack", "RepairError"}

Unlocked   == {"idle", "lockWait", "readVault", "readSecrets", "check"}
Committing == {"begin", "cleanVault", "cleanSecrets", "writeVault",
               "writeSecrets", "writeJournal", "renameVault",
               "renameSecrets", "dropJournal"}
Recovering == {"recover", "forward", "rmVault", "rmSecrets", "rmJournal"}
Locked     == {"guarded", "recheck"} \cup Committing \cup Recovering

Reading(p) == pc[p] \in {"readVault", "readSecrets"}

NoDigests == [vaultOld |-> 0, vaultNew |-> 0, secretsChanged |-> FALSE,
              secretsOld |-> 0, secretsNew |-> 0]

Init ==
  /\ vault = 0 /\ secrets = 0
  /\ vaultTmp = Absent /\ secretsTmp = Absent
  /\ journal = "absent"
  /\ digests = NoDigests
  /\ lock = NoProc
  /\ pc = [p \in Procs |-> "idle"]
  /\ goal = [p \in Procs |-> "none"]
  /\ guarded = [p \in Procs |-> FALSE]
  /\ newId = [p \in Procs |-> 0]
  /\ changed = [p \in Procs |-> FALSE]
  /\ outcome = [p \in Procs |-> "Clean"]
  /\ view = [p \in Procs |-> <<0, 0>>]
  /\ nextId = 1
  /\ calls = 0
  /\ committed = {<<0, 0>>}
  /\ disturbed = {}

(* A commit is called; MaxTxn bounds how many are. *)
Call == calls < MaxTxn /\ calls' = calls + 1

Goto(p, label) == pc' = [pc EXCEPT ![p] = label]

(* The command of p is over: its locals are gone, the guards it holds are
   dropped and the kernel frees its flock. *)
End(p) ==
  /\ Goto(p, "idle")
  /\ lock' = IF lock = p THEN NoProc ELSE lock
  /\ guarded' = [guarded EXCEPT ![p] = FALSE]
  /\ goal' = [goal EXCEPT ![p] = "none"]
  /\ newId' = [newId EXCEPT ![p] = 0]
  /\ changed' = [changed EXCEPT ![p] = FALSE]
  /\ view' = [view EXCEPT ![p] = <<0, 0>>]
  /\ disturbed' = disturbed \ {p}
  /\ UNCHANGED <<nextId, calls, committed>>

-----------------------------------------------------------------------------
(* The lock (TxnLock::acquire, lock_vault_pair, Drop).                      *)

(* A command asks for the lock: commit_vault_pair, lock_vault_pair or, when
   its unlocked check saw a journal, recover_pending. *)
Request(p, what) ==
  /\ pc[p] = "idle"
  /\ goal' = [goal EXCEPT ![p] = what]
  /\ outcome' = [outcome EXCEPT ![p] = "Clean"]
  /\ Goto(p, "lockWait")
  /\ UNCHANGED <<files, lock, guarded, newId, changed, nextId, view, hist>>

RequestGuard(p) == Request(p, "guard") /\ UNCHANGED calls

RequestCommit(p) == Request(p, "commit") /\ Call

(* flock(LOCK_EX) returns once no other process holds the lock. *)
Acquire(p) ==
  /\ pc[p] = "lockWait"
  /\ lock = NoProc
  /\ lock' = p
  /\ guarded' = [guarded EXCEPT ![p] = (goal[p] = "guard")]
  /\ Goto(p, CASE goal[p] = "guard"  -> "guarded"
               [] goal[p] = "commit" -> "begin"
               [] OTHER              -> "recheck")
  /\ UNCHANGED <<files, goal, newId, changed, nextId, calls, outcome, view, hist>>

(* A second acquisition by the thread that holds the lock is a no-op guard. *)
NestedCommitBlocks(p) ==
  /\ pc[p] = "guarded" /\ Call
  /\ goal' = [goal EXCEPT ![p] = "commit"]
  /\ Goto(p, "lockWait")
  /\ UNCHANGED <<files, lock, guarded, newId, changed, nextId, outcome, view, hist>>

NestedCommit(p) ==
  /\ pc[p] = "guarded" /\ Call
  /\ goal' = [goal EXCEPT ![p] = "commit"]
  /\ Goto(p, "begin")
  /\ UNCHANGED <<files, lock, guarded, newId, changed, nextId, outcome, view, hist>>

(* The outer guard is dropped. *)
DropGuard(p) ==
  /\ pc[p] = "guarded"
  /\ End(p)
  /\ UNCHANGED <<files, outcome>>

-----------------------------------------------------------------------------
(* commit_vault_pair.                                                       *)

(* An interrupted transaction of another writer is resolved first. *)
BeginCommit(p) ==
  /\ pc[p] = "begin"
  /\ Goto(p, IF journal # "absent" THEN "recover" ELSE "cleanVault")
  /\ UNCHANGED <<files, lock, local>>

(* Leftover temps without a journal are garbage of a crash before it. *)
CleanVaultTmp(p) ==
  /\ pc[p] = "cleanVault"
  /\ vaultTmp' = Absent
  /\ Goto(p, "cleanSecrets")
  /\ UNCHANGED <<pairFiles, secretsTmp, log, lock, local>>

CleanSecretsTmp(p) ==
  /\ pc[p] = "cleanSecrets"
  /\ secretsTmp' = Absent
  /\ Goto(p, "writeVault")
  /\ UNCHANGED <<pairFiles, vaultTmp, log, lock, local>>

(* Bug of the mutants: the temp is renamed into place without its bytes. *)
WriteVaultTmpUnfilled(p) ==
  /\ pc[p] = "writeVault"
  /\ vaultTmp' = Torn
  /\ newId' = [newId EXCEPT ![p] = nextId]
  /\ nextId' = nextId + 1
  /\ \E c \in BOOLEAN :
       /\ changed' = [changed EXCEPT ![p] = c]
       /\ Goto(p, IF c THEN "writeSecrets" ELSE "writeJournal")
  /\ UNCHANGED <<pairFiles, secretsTmp, log, lock, goal, guarded, calls, outcome, view, hist>>

(* Step 1: the vault temp, a content never written before.  The caller
   passes new secrets.lock bytes or None. *)
WriteVaultTmp(p) ==
  /\ pc[p] = "writeVault"
  /\ vaultTmp' = nextId
  /\ newId' = [newId EXCEPT ![p] = nextId]
  /\ nextId' = nextId + 1
  /\ \E c \in BOOLEAN :
       /\ changed' = [changed EXCEPT ![p] = c]
       /\ Goto(p, IF c THEN "writeSecrets" ELSE "writeJournal")
  /\ UNCHANGED <<pairFiles, secretsTmp, log, lock, goal, guarded, calls, outcome, view, hist>>

(* Step 1, continued: the secrets temp. *)
WriteSecretsTmp(p) ==
  /\ pc[p] = "writeSecrets"
  /\ secretsTmp' = newId[p]
  /\ Goto(p, "writeJournal")
  /\ UNCHANGED <<pairFiles, vaultTmp, log, lock, local>>

(* Step 2: the journal, with the digests of the files as they are now. *)
WriteJournal(p) ==
  /\ pc[p] = "writeJournal"
  /\ journal' = "whole"
  /\ digests' = [vaultOld |-> vault, vaultNew |-> vaultTmp,
                 secretsChanged |-> changed[p], secretsOld |-> secrets,
                 secretsNew |-> IF changed[p] THEN secretsTmp ELSE secrets]
  /\ Goto(p, "renameVault")
  /\ UNCHANGED <<pairFiles, vaultTmp, secretsTmp, lock, local>>

Disturb == disturbed' = disturbed \cup {q \in Procs : Reading(q)}

(* Step 3: the metadata becomes visible first.  This is the commit point:
   from here on recovery rolls forward. *)
RenameVault(p) ==
  /\ pc[p] = "renameVault"
  /\ vault' = vaultTmp
  /\ vaultTmp' = Absent
  /\ committed' = committed \cup
       {<<vaultTmp, IF changed[p] THEN newId[p] ELSE secrets>>}
  /\ Disturb
  /\ Goto(p, IF changed[p] THEN "renameSecrets" ELSE "dropJournal")
  /\ UNCHANGED <<secrets, secretsTmp, log, lock, caller, outcome, view>>

(* Bug of the mutants: the journal is dropped before the second rename. *)
RenameSecretsAfterJournal(p) ==
  /\ pc[p] = "renameSecrets"
  /\ IF journal # "absent"
     THEN /\ journal' = "absent"
          /\ UNCHANGED <<secrets, secretsTmp, disturbed, pc>>
     ELSE /\ secrets' = secretsTmp
          /\ secretsTmp' = Absent
          /\ Disturb
          /\ Goto(p, "dropJournal")
          /\ UNCHANGED journal
  /\ UNCHANGED <<vault, vaultTmp, digests, lock, caller, outcome, view, committed>>

(* Step 4: secrets.lock becomes visible. *)
RenameSecrets(p) ==
  /\ pc[p] = "renameSecrets"
  /\ secrets' = secretsTmp
  /\ secretsTmp' = Absent
  /\ Disturb
  /\ Goto(p, "dropJournal")
  /\ UNCHANGED <<vault, vaultTmp, log, lock, caller, outcome, view, committed>>

(* Step 5: the journal goes and commit_vault_pair returns: to the outer guard
   of its caller, or dropping its own. *)
DropJournal(p) ==
  /\ pc[p] = "dropJournal"
  /\ journal' = "absent" /\ digests' = NoDigests
  /\ \/ /\ guarded[p]
        /\ Goto(p, "guarded")
        /\ UNCHANGED <<lock, caller, view, hist>>
     \/ ~guarded[p] /\ End(p)
  /\ UNCHANGED <<pairFiles, vaultTmp, secretsTmp, outcome>>

-----------------------------------------------------------------------------
(* recover_pending and recover_pending_locked.                              *)

VaultIsNew == vault = digests.vaultNew
VaultIsOld == vault = digests.vaultOld
SecretsIsNew == digests.secretsChanged => secrets = digests.secretsNew
SecretsIsOld == digests.secretsChanged => secrets = digests.secretsOld

(* vault.toml renamed, secrets.lock not yet. *)
Mixed ==
  /\ VaultIsNew /\ digests.secretsChanged
  /\ secrets = digests.secretsOld

(* The journal cannot be parsed: it is written before any rename, so a vault
   temp that is still there means that nothing was renamed. *)
TornVerdict == IF vaultTmp # Absent THEN "RolledBack" ELSE "RepairError"

(* Bug of the mutants: a new vault.toml is taken for a finished commit. *)
VerdictByVault ==
  IF journal = "torn" THEN TornVerdict
  ELSE IF VaultIsNew THEN "Completed" ELSE "RolledBack"

(* What recover_pending_locked makes of the files it finds. *)
Verdict ==
  IF journal = "torn" THEN TornVerdict
  ELSE IF VaultIsNew /\ SecretsIsNew THEN "Completed"
  ELSE IF VaultIsOld /\ SecretsIsOld THEN "RolledBack"
  ELSE IF Mixed /\ secretsTmp = digests.secretsNew THEN "RolledForward"
  ELSE "RepairError"

(* Bug of the mutants: a reader trusts the files although a journal exists. *)
StartReadUnchecked(p) ==
  /\ pc[p] = "idle"
  /\ goal' = [goal EXCEPT ![p] = "read"]
  /\ outcome' = [outcome EXCEPT ![p] = "Clean"]
  /\ Goto(p, "readVault")
  /\ UNCHANGED <<files, lock, guarded, newId, changed, nextId, calls, view, hist>>

(* Bug of the mutants: a reader recovers without taking the lock. *)
StartReadRecoversUnlocked(p) ==
  /\ pc[p] = "idle"
  /\ goal' = [goal EXCEPT ![p] = "read"]
  /\ outcome' = [outcome EXCEPT ![p] = "Clean"]
  /\ Goto(p, IF journal = "absent" THEN "readVault" ELSE "recover")
  /\ UNCHANGED <<files, lock, guarded, newId, changed, nextId, calls, view, hist>>

(* prepare_vault_access: the unlocked look for a journal. *)
StartRead(p) ==
  /\ pc[p] = "idle"
  /\ goal' = [goal EXCEPT ![p] = "read"]
  /\ outcome' = [outcome EXCEPT ![p] = "Clean"]
  /\ Goto(p, IF journal = "absent" THEN "readVault" ELSE "lockWait")
  /\ UNCHANGED <<files, lock, guarded, newId, changed, nextId, calls, view, hist>>

(* The second look, under the lock: another process may have recovered. *)
Recheck(p) ==
  /\ pc[p] = "recheck"
  /\ IF journal = "absent"
     THEN lock' = NoProc /\ Goto(p, "readVault")
     ELSE lock' = lock /\ Goto(p, "recover")
  /\ UNCHANGED <<files, local>>

(* The digests are compared and the way out chosen; repair_error ends the
   command. *)
Classify(p) ==
  /\ pc[p] = "recover"
  /\ outcome' = [outcome EXCEPT ![p] = Verdict]
  /\ \/ Verdict = "RepairError" /\ End(p)
     \/ /\ Verdict # "RepairError"
        /\ Goto(p, IF Verdict = "RolledForward" THEN "forward" ELSE "rmVault")
        /\ UNCHANGED <<lock, caller, view, hist>>
  /\ UNCHANGED files

(* Roll forward: the rename that the crash prevented. *)
RollForward(p) ==
  /\ pc[p] = "forward"
  /\ secrets' = secretsTmp
  /\ secretsTmp' = Absent
  /\ Disturb
  /\ Goto(p, "rmVault")
  /\ UNCHANGED <<vault, vaultTmp, log, lock, caller, outcome, view, committed>>

RemoveVaultTmp(p) ==
  /\ pc[p] = "rmVault"
  /\ vaultTmp' = Absent
  /\ Goto(p, IF outcome[p] = "RolledForward" THEN "rmJournal" ELSE "rmSecrets")
  /\ UNCHANGED <<pairFiles, secretsTmp, log, lock, local>>

RemoveSecretsTmp(p) ==
  /\ pc[p] = "rmSecrets"
  /\ secretsTmp' = Absent
  /\ Goto(p, "rmJournal")
  /\ UNCHANGED <<pairFiles, vaultTmp, log, lock, local>>

(* The journal goes last.  A commit continues; a reader drops the lock and
   reads. *)
RemoveJournal(p) ==
  /\ pc[p] = "rmJournal"
  /\ journal' = "absent" /\ digests' = NoDigests
  /\ IF goal[p] = "read"
     THEN lock' = NoProc /\ Goto(p, "readVault")
     ELSE lock' = lock /\ Goto(p, "cleanVault")
  /\ UNCHANGED <<pairFiles, vaultTmp, secretsTmp, local>>

-----------------------------------------------------------------------------
(* The lock-free reads of the pair that follow recover_pending.             *)

ReadVault(p) ==
  /\ pc[p] = "readVault"
  /\ view' = [view EXCEPT ![p] = <<vault, @[2]>>]
  /\ Goto(p, "readSecrets")
  /\ UNCHANGED <<files, lock, caller, outcome, hist>>

ReadSecrets(p) ==
  /\ pc[p] = "readSecrets"
  /\ view' = [view EXCEPT ![p] = <<@[1], secrets>>]
  /\ Goto(p, "check")
  /\ UNCHANGED <<files, lock, caller, outcome, hist>>

(* The hash of the pair was compared; the command goes on or fails. *)
EndRead(p) ==
  /\ pc[p] = "check"
  /\ End(p)
  /\ UNCHANGED <<files, outcome>>

-----------------------------------------------------------------------------
(* Crashes and early returns.                                               *)

Crash(p) ==
  /\ pc[p] # "idle"
  /\ End(p)
  /\ outcome' = [outcome EXCEPT ![p] = "Clean"]
  /\ UNCHANGED files

(* Killed inside write_bytes_excl: the file exists, its content is cut. *)
CrashWriting(p) ==
  /\ \/ /\ pc[p] = "writeVault"
        /\ vaultTmp' = Torn
        /\ UNCHANGED <<secretsTmp, journal>>
     \/ /\ pc[p] = "writeSecrets"
        /\ secretsTmp' = Torn
        /\ UNCHANGED <<vaultTmp, journal>>
     \/ /\ pc[p] = "writeJournal"
        /\ journal' = "torn"
        /\ UNCHANGED <<vaultTmp, secretsTmp>>
  /\ End(p)
  /\ UNCHANGED <<pairFiles, digests, outcome>>

-----------------------------------------------------------------------------
Commit(p) ==
  \/ BeginCommit(p) \/ CleanVaultTmp(p) \/ CleanSecretsTmp(p)
  \/ WriteVaultTmp(p) \/ WriteSecretsTmp(p) \/ WriteJournal(p)
  \/ RenameVault(p) \/ RenameSecrets(p) \/ DropJournal(p)

Recover(p) ==
  \/ Recheck(p) \/ Classify(p) \/ RollForward(p)
  \/ RemoveVaultTmp(p) \/ RemoveSecretsTmp(p) \/ RemoveJournal(p)

Read(p) == ReadVault(p) \/ ReadSecrets(p) \/ EndRead(p)

Step(p) == Commit(p) \/ Recover(p) \/ Read(p) \/ NestedCommit(p) \/ DropGuard(p)

Ask(p) == RequestGuard(p) \/ RequestCommit(p) \/ StartRead(p)

Process(p) == Ask(p) \/ Acquire(p) \/ Step(p) \/ Crash(p) \/ CrashWriting(p)

Next == \E p \in Procs : Process(p)

Spec == Init /\ [][Next]_vars

(* A running process keeps running, and flock does not starve a waiter for
   ever; no process has to start a command and none has to crash. *)
Fairness == \A p \in Procs : WF_vars(Step(p)) /\ SF_vars(Acquire(p))

FairSpec == Spec /\ Fairness

-----------------------------------------------------------------------------
(* Properties.                                                              *)

TypeOK ==
  /\ vault \in Nat /\ secrets \in Nat
  /\ vaultTmp \in Nat \cup {Absent, Torn}
  /\ secretsTmp \in Nat \cup {Absent, Torn}
  /\ journal \in {"absent", "torn", "whole"}
  /\ digests \in [vaultOld : Nat, vaultNew : Nat, secretsChanged : BOOLEAN,
                  secretsOld : Nat, secretsNew : Nat]
  /\ lock \in Procs \cup {NoProc}
  /\ pc \in [Procs -> Unlocked \cup Locked]
  /\ goal \in [Procs -> {"none", "guard", "commit", "read"}]
  /\ guarded \in [Procs -> BOOLEAN]
  /\ newId \in [Procs -> Nat]
  /\ changed \in [Procs -> BOOLEAN]
  /\ outcome \in [Procs -> Outcomes]
  /\ view \in [Procs -> Nat \X Nat]
  /\ nextId \in Nat \ {0}
  /\ calls \in 0..MaxTxn
  /\ committed \subseteq Nat \X Nat
  /\ disturbed \subseteq Procs

(* The pair as it will be once recovery has run: a whole journal whose
   vault.toml is in place stands for the new secrets.lock as well. *)
Resolved ==
  IF journal = "whole" /\ Mixed THEN <<vault, digests.secretsNew>>
                                ELSE <<vault, secrets>>

(* Whatever crash point interrupted whatever commit or recovery, the files
   resolve to a pair that some commit installed: the promise "either both
   files show the new state, or both show the old one" of the module. *)
ResolvesToCommitted == Resolved \in committed

(* A journal that can be parsed never leads recover_pending_locked to
   repair_error, at whatever step the commit, or an earlier recovery, died. *)
ParsedJournalResolves == journal = "whole" => Verdict # "RepairError"

(* A reader during whose two reads no rename happened has read a committed
   pair, whatever crashed before it: recover_pending "so a crashed writer
   never leaves the pair in a mixed state observable by readers". *)
UndisturbedReadIsCommitted ==
  \A p \in Procs : pc[p] = "check" /\ p \notin disturbed => view[p] \in committed

(* While a process holds the guard of lock_vault_pair and does not step
   itself, nobody changes either file: no concurrent writer, no recovery. *)
GuardedPairStable ==
  [][\A p \in Procs : lock = p /\ lock' = p /\ pc'[p] = pc[p]
        => UNCHANGED <<vault, secrets>>]_vars

(* The protocol implements the atomic pair. *)
Pair == INSTANCE VaultPair WITH pair <- Resolved
ImplementsPair == Pair!Spec

(* Every command ends: nobody waits for ever for a flock, not even a mutator
   whose commit takes the lock that the mutator itself holds. *)
EveryCommandEnds == \A p \in Procs : pc[p] # "idle" ~> pc[p] = "idle"

-----------------------------------------------------------------------------
(* The inductive invariant.                                                 *)

(* Exactly the holder of the flock is between acquiring and dropping it. *)
LockInv == \A p \in Procs : pc[p] \in Locked <=> lock = p

(* A whole journal and the files are at one of the three points between the
   journal's creation and its removal. *)
JournalInv ==
  journal = "whole" =>
    /\ digests.vaultOld < digests.vaultNew
    /\ digests.secretsChanged =>
         digests.secretsOld < digests.secretsNew /\ digests.secretsNew < nextId
    /\ \/ VaultIsOld /\ secrets = digests.secretsOld
       \/ Mixed /\ secretsTmp = digests.secretsNew
       \/ VaultIsNew /\ SecretsIsNew

(* What the holder knows of the files at each step of a commit ... *)
CommitInv ==
  \A p \in Procs :
    /\ pc[p] \in {"cleanVault", "cleanSecrets", "writeVault", "writeSecrets",
                  "writeJournal"} => journal = "absent"
    /\ pc[p] \in {"writeSecrets", "writeJournal", "renameVault"} =>
         /\ vaultTmp = newId[p]
         /\ vault < newId[p] /\ secrets < newId[p] /\ newId[p] < nextId
    /\ pc[p] \in {"writeJournal", "renameVault"} /\ changed[p] =>
         secretsTmp = newId[p]
    /\ pc[p] = "renameVault" =>
         /\ journal = "whole" /\ VaultIsOld /\ secrets = digests.secretsOld
         /\ digests.vaultNew = newId[p] /\ digests.secretsChanged = changed[p]
         /\ digests.secretsNew = IF changed[p] THEN newId[p] ELSE secrets
    /\ pc[p] = "renameSecrets" =>
         journal = "whole" /\ Mixed /\ secretsTmp = digests.secretsNew
    /\ pc[p] = "dropJournal" => journal = "whole" /\ VaultIsNew /\ SecretsIsNew

(* ... and of a recovery. *)
RecoverInv ==
  \A p \in Procs :
    /\ pc[p] = "recover" => journal # "absent"
    /\ pc[p] = "forward" =>
         journal = "whole" /\ Mixed /\ secretsTmp = digests.secretsNew
    /\ pc[p] \in {"rmVault", "rmSecrets", "rmJournal"} =>
         ~(journal = "whole" /\ Mixed)

(* Contents are numbered in the order in which they are written. *)
FreshInv == vault < nextId /\ secrets < nextId

(* What an undisturbed reader has seen is still there. *)
ReadInv ==
  \A p \in Procs \ disturbed :
    /\ pc[p] \in {"readVault", "readSecrets"} => <<vault, secrets>> \in committed
    /\ pc[p] = "readSecrets" => view[p][1] = vault
    /\ pc[p] = "check" => view[p] \in committed

ProtocolInv ==
  /\ LockInv /\ JournalInv /\ CommitInv /\ RecoverInv /\ FreshInv
  /\ ResolvesToCommitted /\ ReadInv

-----------------------------------------------------------------------------
(* What the repository says and the code does not keep.                     *)

(* "a crash at any point leaves the pair recoverable": recovery never ends in
   repair_error, which asks for a restore from backup. *)
AlwaysRecoverable == \A p \in Procs : outcome[p] # "RepairError"

(* "Commits the two writes as one transaction: either both become visible or
   neither": what a command reads is a pair some commit installed. *)
ReadersSeeWholeCommits ==
  \A p \in Procs : pc[p] = "check" => view[p] \in committed
=============================================================================
