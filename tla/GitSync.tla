------------------------------ MODULE GitSync ------------------------------
(***************************************************************************)
(* `dl run` (and `dl exec`) fast-forwards the vault from the remote before *)
(* it reads it, with a time-out; `dl sync` does so without one, and        *)
(* reports.  The pull is a child process that neither takes the vault lock *)
(* nor ends with the process that dl kills: `git merge` is a child of      *)
(* `git pull`, writes secrets.lock, then vault.toml, then the branch.      *)
(*                                                                         *)
(* A history is the sequence of its commits, a commit is a number, and so  *)
(* is what `dl set` leaves in the work tree; both files of it are the pair *)
(* a command verified and wrote in one transaction (VaultTxn), or the pair *)
(* does not verify.  git itself is external, and modelled from how its     *)
(* commands are called.                                                    *)
(***************************************************************************)
EXTENDS Naturals, Sequences, SequencesExt

CONSTANTS
  Procs,             \* dl commands under way
  Nobody,
  MaxMade            \* bound: commits and local writes

ASSUME NobodyAssumption == Nobody \notin Procs
ASSUME MaxMadeAssumption == MaxMade \in Nat \ {0}

VARIABLES
  remote,            \* the branch at the remote
  tracking,          \* refs/remotes/<remote>/<branch>
  head,              \* the branch here
  work,              \* secrets.lock and vault.toml in the work tree
  merge,             \* the fast-forward that holds git's index lock, if any
  proc,              \* proc[p]: command, where it is, what it has seen
  made,              \* commits and local writes made, for their numbers
  written,           \* history: local content that no commit has yet, or 0
  beside             \* history: a pair was read or written beside a merge its
                     \* reader or writer does not wait for, or written while
                     \* it was read

vars == <<remote, tracking, head, work, merge, proc, made, written, beside>>

Both(n) == [secrets |-> n, vault |-> n]
Whole   == work.secrets = work.vault
Clean   == work = Both(Last(head))
NoMerge == [by |-> Nobody, pc |-> "none", target |-> <<>>]
Merging == merge # NoMerge

Idle == [pc |-> "idle", cmd |-> "none", child |-> "none", fetched |-> <<>>,
         told |-> "nothing", vault |-> 0]
Goto(p, pc) == proc' = [proc EXCEPT ![p].pc = pc]
Finish(p)   == proc' = [proc EXCEPT ![p] = Idle]

Behind(h, r) == IsStrictPrefix(h, r)

(* Somebody has read the metadata, and not yet secrets.lock. *)
Reading == \E p \in Procs : proc[p].pc = "verify"

-----------------------------------------------------------------------------
(* git, as it is called: `git pull --ff-only`, `git fetch`, `git commit`,    *)
(* `git push`.                                                               *)

Init ==
  /\ remote = <<1>> /\ tracking = <<1>> /\ head = <<1>> /\ work = Both(1)
  /\ merge = NoMerge /\ made = 1 /\ written = 0 /\ beside = FALSE
  /\ proc = [p \in Procs |-> Idle]

(* Somebody else pushes; our user commits what a command wrote, or pushes. *)
Teammate ==
  /\ made < MaxMade /\ made' = made + 1
  /\ remote' = Append(remote, made')
  /\ UNCHANGED <<tracking, head, work, merge, proc, written, beside>>

UserCommits ==
  /\ ~Merging /\ Whole /\ ~Clean
  /\ head' = Append(head, work.vault) /\ written' = 0
  /\ UNCHANGED <<remote, tracking, work, merge, proc, made, beside>>

UserPushes ==
  /\ IsStrictPrefix(remote, head)
  /\ remote' = head /\ tracking' = head
  /\ UNCHANGED <<head, work, merge, proc, made, written, beside>>

(* What `git fetch`, and the first half of `git pull`, does when the remote
   answers. *)
Fetched(p, next) ==
  /\ tracking' = remote
  /\ proc' = [proc EXCEPT ![p].child = next, ![p].fetched = remote]
  /\ UNCHANGED <<remote, head, work, merge, made, written, beside>>

FetchAnswers(p) ==
  /\ proc[p].child \in {"fetch", "pull"}
  /\ Fetched(p, IF proc[p].child = "pull" THEN "merge" ELSE "ok")

Ends(p, how) ==
  /\ proc' = [proc EXCEPT ![p].child = how]
  /\ UNCHANGED <<remote, tracking, head, work, made, written, beside>>

(* The remote refuses, is away, or somebody else holds a lock of git's. *)
ChildFails(p) ==
  /\ proc[p].child \in {"fetch", "pull"}
  /\ Ends(p, "failed") /\ UNCHANGED merge

(* Bug of the mutants: `git reset --hard` to what was fetched. *)
MayReset(p) == proc[p].fetched # head /\ ~Merging

(* The second half of `git pull --ff-only`: there is nothing to do, or it is
   refused, or the checkout starts, which holds the index lock. *)
MayFastForward(p) == Behind(head, proc[p].fetched) /\ Clean /\ ~Merging

StartMerge(p) ==
  /\ proc[p].child = "merge"
  /\ \/ /\ IsPrefix(proc[p].fetched, head) /\ Ends(p, "ok") /\ UNCHANGED merge
     \/ /\ ~IsPrefix(proc[p].fetched, head) /\ ~MayFastForward(p)
        /\ Ends(p, "failed") /\ UNCHANGED merge
     \/ /\ MayFastForward(p)
        /\ merge' = [by |-> p, pc |-> "secrets", target |-> proc[p].fetched]
        /\ Ends(p, "checkout")

CheckoutSecrets ==
  /\ merge.pc = "secrets"
  /\ work' = [work EXCEPT !.secrets = Last(merge.target)]
  /\ merge' = [merge EXCEPT !.pc = "vault"]
  /\ beside' = (beside \/ Reading)
  /\ UNCHANGED <<remote, tracking, head, proc, made, written>>

CheckoutVault ==
  /\ merge.pc = "vault"
  /\ work' = [work EXCEPT !.vault = Last(merge.target)]
  /\ merge' = [merge EXCEPT !.pc = "branch"]
  /\ UNCHANGED <<remote, tracking, head, proc, made, written, beside>>

MoveBranch ==
  /\ merge.pc = "branch"
  /\ head' = merge.target
  /\ merge' = NoMerge
  /\ proc' = IF merge.by = Nobody THEN proc ELSE [proc EXCEPT ![merge.by].child = "ok"]
  /\ UNCHANGED <<remote, tracking, work, made, written, beside>>

-----------------------------------------------------------------------------
(* dl.                                                                       *)

(* `dl set`, of which the commit is the step that counts.  Its lock does not
   keep git out. *)
Set ==
  /\ Whole /\ made < MaxMade /\ made' = made + 1
  /\ work' = Both(made') /\ written' = made'
  /\ beside' = (beside \/ Merging \/ Reading)
  /\ UNCHANGED <<remote, tracking, head, merge, proc>>

(* With auto-fetch on, overridden by nobody, and on a branch; or not. *)
StartRun(p, autoFetch) ==
  /\ proc[p].pc = "idle"
  /\ proc' = [proc EXCEPT ![p] = [Idle EXCEPT !.cmd = "run",
                                    !.pc    = IF autoFetch THEN "pulling" ELSE "unlock",
                                    !.child = IF autoFetch THEN "pull" ELSE "none"]]
  /\ UNCHANGED <<remote, tracking, head, work, merge, made, written, beside>>

(* run_git_with_timeout: the child has ended; a failed pull is followed by a
   fetch, of which nothing is asked. *)
PullEnded(p) ==
  /\ proc[p].pc = "pulling" /\ proc[p].child \in {"ok", "failed"}
  /\ proc' = [proc EXCEPT ![p] =
       IF @.child = "ok" THEN [@ EXCEPT !.pc = "unlock", !.child = "none", !.told = "pulled"]
       ELSE [@ EXCEPT !.pc = "fetching", !.child = "fetch"]]
  /\ UNCHANGED <<remote, tracking, head, work, merge, made, written, beside>>

(* Bug of the mutants: a child that takes too long is left to itself, and
   counts as success. *)
TimeOutIsSuccess(p) ==
  /\ proc[p].pc = "pulling" /\ proc[p].child \notin {"ok", "failed"}
  /\ proc' = [proc EXCEPT ![p].pc = "unlock", ![p].child = "none", ![p].told = "pulled"]
  /\ UNCHANGED <<remote, tracking, head, work, merge, made, written, beside>>

(* Bug of the mutants: the second fetch has no time-out. *)
TimeOutOfPull(p) ==
  /\ proc[p].pc = "pulling" /\ proc[p].child \notin {"ok", "failed"}
  /\ merge' = IF merge.by = p THEN [merge EXCEPT !.by = Nobody] ELSE merge
  /\ proc' = [proc EXCEPT ![p].child = "failed"]
  /\ UNCHANGED <<remote, tracking, head, work, made, written, beside>>

(* The child is killed, and waited for.  A merge it had started goes on by
   itself. *)
TimeOut(p) ==
  /\ proc[p].pc \in {"pulling", "fetching"} /\ proc[p].child \notin {"ok", "failed"}
  /\ merge' = IF merge.by = p THEN [merge EXCEPT !.by = Nobody] ELSE merge
  /\ proc' = [proc EXCEPT ![p].child = "failed"]
  /\ UNCHANGED <<remote, tracking, head, work, made, written, beside>>

FetchEnded(p) ==
  /\ proc[p].pc = "fetching" /\ proc[p].child \in {"ok", "failed"}
  /\ proc' = [proc EXCEPT ![p].pc = "unlock", ![p].child = "none", ![p].told = "local"]
  /\ UNCHANGED <<remote, tracking, head, work, merge, made, written, beside>>

(* The metadata are read; then secrets.lock is compared with them. *)
LoadVault(p) ==
  /\ proc[p].pc = "unlock"
  /\ proc' = [proc EXCEPT ![p].pc = "verify", ![p].vault = work.vault]
  /\ beside' = (beside \/ (Merging /\ merge.by # p))
  /\ UNCHANGED <<remote, tracking, head, work, merge, made, written>>

(* The pair verifies, secrets.lock is read again, and the child starts with
   what of it decrypts. *)
Verify(p) ==
  /\ proc[p].pc = "verify"
  /\ proc' = [proc EXCEPT ![p].pc = IF work.secrets = proc[p].vault THEN "running" ELSE "alarm"]
  /\ UNCHANGED <<remote, tracking, head, work, merge, made, written, beside>>

StartSync(p) ==
  /\ proc[p].pc = "idle"
  /\ proc' = [proc EXCEPT ![p] =
                [Idle EXCEPT !.cmd = "sync", !.pc = "syncing", !.child = "fetch"]]
  /\ Clean
  /\ UNCHANGED <<remote, tracking, head, work, merge, made, written, beside>>

(* Bug of the mutants: the two ancestries swapped. *)
ClassifiedSwapped(local, theirs) ==
  CASE local = theirs        -> "up to date"
    [] Behind(theirs, local) -> "behind"
    [] Behind(local, theirs) -> "ahead"
    [] OTHER                 -> "diverged"

(* classify_refs, of the branch here and what was just fetched. *)
Classified(local, theirs) ==
  CASE local = theirs        -> "up to date"
    [] Behind(local, theirs) -> "behind"
    [] Behind(theirs, local) -> "ahead"
    [] OTHER                 -> "diverged"

Classify(p) ==
  /\ proc[p].pc = "syncing" /\ proc[p].child = "ok"
  /\ LET state == Classified(head, tracking)
     IN  proc' = [proc EXCEPT ![p] =
           CASE state = "behind"   -> [@ EXCEPT !.pc = "forward", !.child = "pull"]
             [] state = "diverged" -> Idle
             [] OTHER              -> [@ EXCEPT !.pc = "synced", !.told = state]]
  /\ UNCHANGED <<remote, tracking, head, work, merge, made, written, beside>>

Forwarded(p) ==
  /\ proc[p].pc = "forward" /\ proc[p].child = "ok"
  /\ proc' = [proc EXCEPT ![p].pc = "synced", ![p].told = "fast-forwarded"]
  /\ UNCHANGED <<remote, tracking, head, work, merge, made, written, beside>>

(* A git command of `dl sync` has failed, or a command is done. *)
Done(p) ==
  /\ \/ proc[p].pc \in {"running", "alarm", "synced"}
     \/ proc[p].pc \in {"syncing", "forward"} /\ proc[p].child = "failed"
  /\ Finish(p)
  /\ UNCHANGED <<remote, tracking, head, work, merge, made, written, beside>>

Dl(p) == PullEnded(p) \/ TimeOut(p) \/ FetchEnded(p) \/ LoadVault(p) \/ Verify(p)

Next ==
  \/ Teammate \/ UserCommits \/ UserPushes \/ Set
  \/ CheckoutSecrets \/ CheckoutVault \/ MoveBranch
  \/ \E p \in Procs :
       \/ FetchAnswers(p) \/ ChildFails(p) \/ StartMerge(p)
       \/ (\E autoFetch \in BOOLEAN : StartRun(p, autoFetch)) \/ StartSync(p) \/ Dl(p)
       \/ Classify(p) \/ Forwarded(p) \/ Done(p)

Spec == Init /\ [][Next]_vars

(* dl itself goes on: its polling loop sees that the child has ended, or that
   the time is over.  Of git and of the remote nothing is assumed. *)
FairSpec == Spec /\ \A p \in Procs : WF_vars(Dl(p))

-----------------------------------------------------------------------------

Numbers == 1 .. MaxMade

TypeOK ==
  /\ {remote, tracking, head} \subseteq Seq(Numbers)
  /\ work \in [secrets : Numbers, vault : Numbers]
  /\ merge.by \in Procs \cup {Nobody}
  /\ \A p \in Procs : merge.by = p <=> proc[p].child = "checkout"

(* README.md:531 "It never runs a hard reset and never discards local vault
   data": what a command wrote and no commit has is in both files, unless it
   was written while a merge was writing them too; and a branch only grows. *)
LocalWorkKept == written # 0 /\ ~beside => work = Both(written)
BranchGrows   == [][IsPrefix(head, head')]_vars

(* sync.rs SyncStatus: when `dl sync` says that the branch is up to date or
   fast-forwarded, it has all that the remote had when asked; when it says
   ahead, it has more.  Whatever other commands and the user do meanwhile. *)
SyncTellsTheTruth ==
  \A p \in Procs : proc[p].pc = "synced" =>
    IF proc[p].told = "ahead" THEN IsStrictPrefix(proc[p].fetched, head)
                              ELSE IsPrefix(proc[p].fetched, head)

(* A run that does not say "using local vault" reads a vault no older than
   what the remote had when the run asked; and a run raises no alarm about a
   pair that nobody but dl and git wrote, unless it read while a merge was
   writing: dl waits for its own. *)
RunIsCurrent ==
  \A p \in Procs : proc[p].told = "pulled" => IsPrefix(proc[p].fetched, head)
NoHalfPair == \A p \in Procs : proc[p].pc = "alarm" => beside

(* fetch.rs:131 A run comes to the vault although the remote never answers. *)
RunGoesOn ==
  \A p \in Procs : proc[p].cmd = "run" ~> proc[p].pc \in {"running", "alarm", "idle"}

(* fetch.rs:57 "auto-fetch failed; using local vault": the run that says so
   reads what was here, and raises no alarm about a pair half of which is
   somebody else's. *)
LocalMeansLocal ==
  \A p \in Procs : proc[p].told = "local" /\ proc[p].pc = "alarm" => Whole
=============================================================================
