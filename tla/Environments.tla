---------------------------- MODULE Environments ----------------------------
(***************************************************************************)
(* The environments of a project, each a vault pair with keys of its own:  *)
(* `dl init` and `dl env add` write a new pair file by file, `dl env       *)
(* remove` deletes the directory file by file, `dl env use` persists which *)
(* one the next commands mean.  None of them takes the vault lock.  Beside *)
(* them runs `dl set`, which resolves its environment once, when it        *)
(* starts, and commits in a transaction (VaultTxn), one step here.         *)
(*                                                                         *)
(* secrets.lock is a set of records, a record is <<the keys it was written *)
(* under, a number>>; vault.toml holds the keys, the epoch, and the hash   *)
(* of secrets.lock, which is its content here.  The pair opens when the    *)
(* hash fits and every record is of these keys.                            *)
(***************************************************************************)
EXTENDS Naturals, FiniteSets

CONSTANTS
  Procs,             \* commands under way
  Envs,              \* environment names
  Default,           \* the environment in .lock/ itself
  MaxKeys,           \* bound: pairs made
  MaxSets,           \* bound: records written
  MaxCommands        \* bound: commands started

ASSUME DefaultAssumption == Default \in Envs
ASSUME BoundAssumption == MaxKeys \in Nat /\ MaxSets \in Nat /\ MaxCommands \in Nat

VARIABLES
  vault,             \* vault[e]: vault.toml, or NoVault
  secrets,           \* secrets[e]: the records of secrets.lock, or Absent
  selection,         \* .lock/env, NoSelection when there is none
  proc,              \* proc[p]: command, environment, where it is, what it read
  count,             \* pairs made, records written, commands started
  kept,              \* history: the records each environment was told to keep
  excused            \* history: environments with a removal that was killed, or
                     \* created or removed beside another command of theirs

vars == <<vault, secrets, selection, proc, count, kept, excused>>

NoVault     == [keys |-> 0, epoch |-> 0, sealed |-> {}]
Absent      == {<<0, 0>>}
NoSelection == "none"            \* no environment has this name
Idle        == [pc |-> "idle", cmd |-> "none", env |-> Default, meta |-> NoVault]

ASSUME SelectionAssumption == NoSelection \notin Envs

Exists(e)  == vault[e] # NoVault
Records(e) == secrets[e] \ Absent          \* load_secrets_file
Opens(e)   == vault[e].sealed = secrets[e] /\ \A r \in Records(e) : r[1] = vault[e].keys

Goto(p, pc) == proc' = [proc EXCEPT ![p].pc = pc]
Finish(p)   == proc' = [proc EXCEPT ![p] = Idle]
Active(p)   == proc[p].pc # "idle"
Makes(cmd)  == cmd \in {"add", "remove"}

(* resolve_env_selection: --env or DOTLOCK_ENV, else what is persisted. *)
Resolved(explicit) ==
  IF explicit \in Envs THEN explicit ELSE IF selection \in Envs THEN selection ELSE Default

-----------------------------------------------------------------------------

Init ==
  /\ vault = [e \in Envs |-> NoVault] /\ secrets = [e \in Envs |-> Absent]
  /\ selection = NoSelection
  /\ proc = [p \in Procs |-> Idle]
  /\ count = [keys |-> 0, sets |-> 0, commands |-> 0]
  /\ kept = [e \in Envs |-> {}] /\ excused = {}

(* A command for e starts; `add` and `remove` beside another are excused. *)
Start(p, cmd, e, pc) ==
  /\ ~Active(p) /\ count.commands < MaxCommands
  /\ count' = [count EXCEPT !.commands = @ + 1]
  /\ proc' = [proc EXCEPT ![p] = [pc |-> pc, cmd |-> cmd, env |-> e, meta |-> vault[e]]]
  /\ excused' = excused \cup
       {f \in {e} : \E q \in Procs : Active(q) /\ proc[q].env = e
                                     /\ (Makes(cmd) \/ Makes(proc[q].cmd))}
  /\ UNCHANGED <<vault, secrets, selection, kept>>

(* Bug of the mutants: an environment that exists is made again. *)
StartAddAgain(p, e) ==
  /\ e = Default \/ Exists(Default)
  /\ Start(p, "add", e, "prompt")

(* `dl init` for the default environment, `dl env add` for another. *)
StartAdd(p, e) ==
  /\ e = Default \/ Exists(Default)
  /\ ~Exists(e)
  /\ Start(p, "add", e, "prompt")

Fresh(e) == [keys |-> count.keys + 1, epoch |-> 1, sealed |-> secrets[e]]

(* Bug of the mutants: the metadata come first, without a hash. *)
VaultFirst(p) ==
  /\ proc[p].pc = "prompt" /\ count.keys < MaxKeys
  /\ vault' = [vault EXCEPT ![proc[p].env] = [Fresh(proc[p].env) EXCEPT !.sealed = {}]]
  /\ count' = [count EXCEPT !.keys = @ + 1]
  /\ Goto(p, "late")
  /\ UNCHANGED <<secrets, selection, kept, excused>>

(* The password is chosen; then secrets.lock is written, if it is not there. *)
WriteSecrets(p) ==
  /\ proc[p].pc = "prompt"
  /\ secrets' = [secrets EXCEPT ![proc[p].env] = IF @ = Absent THEN {} ELSE @]
  /\ Goto(p, "hash")
  /\ UNCHANGED <<vault, selection, count, kept, excused>>

(* secrets.lock is hashed as it now is, and the metadata are sealed. *)
HashSecrets(p) ==
  /\ proc[p].pc = "hash" /\ count.keys < MaxKeys
  /\ secrets[proc[p].env] # Absent
  /\ proc' = [proc EXCEPT ![p].meta = Fresh(proc[p].env), ![p].pc = "save"]
  /\ count' = [count EXCEPT !.keys = @ + 1]
  /\ UNCHANGED <<vault, secrets, selection, kept, excused>>

SaveVault(p) ==
  /\ proc[p].pc = "save"
  /\ vault' = [vault EXCEPT ![proc[p].env] = proc[p].meta]
  /\ Finish(p)
  /\ UNCHANGED <<secrets, selection, count, kept, excused>>

StartRemove(p, e) ==
  /\ Exists(Default) /\ e # Default /\ Exists(e)
  /\ Start(p, "remove", e, "confirm")

Confirm(p) ==
  /\ proc[p].pc = "confirm"
  /\ Goto(p, "removing")
  /\ kept' = [kept EXCEPT ![proc[p].env] = {}]
  /\ UNCHANGED <<vault, secrets, selection, count, excused>>

(* remove_dir_all, in the order in which the directory lists its files. *)
RemoveVault(p) ==
  /\ proc[p].pc = "removing" /\ Exists(proc[p].env)
  /\ vault' = [vault EXCEPT ![proc[p].env] = NoVault]
  /\ UNCHANGED <<secrets, selection, proc, count, kept, excused>>

RemoveSecrets(p) ==
  /\ proc[p].pc = "removing" /\ secrets[proc[p].env] # Absent
  /\ secrets' = [secrets EXCEPT ![proc[p].env] = Absent]
  /\ UNCHANGED <<vault, selection, proc, count, kept, excused>>

ResetSelection(p) ==
  /\ proc[p].pc = "removing" /\ ~Exists(proc[p].env) /\ secrets[proc[p].env] = Absent
  /\ selection' = IF selection = proc[p].env THEN NoSelection ELSE selection
  /\ Finish(p)
  /\ UNCHANGED <<vault, secrets, count, kept, excused>>

StartUse(p, e) ==
  /\ Exists(Default) /\ Exists(e)
  /\ Start(p, "use", e, "select")

WriteSelection(p) ==
  /\ proc[p].pc = "select"
  /\ selection' = proc[p].env
  /\ Finish(p)
  /\ UNCHANGED <<vault, secrets, count, kept, excused>>

(* `dl set`: the environment is resolved, and its pair unlocked. *)
StartSet(p, explicit) ==
  LET e == Resolved(explicit)
  IN  Exists(e) /\ Opens(e) /\ Start(p, "set", e, "commit")

Target(p) == proc[p].env

(* lock_pair_and_refresh_metadata: newer metadata must be of the keys this
   command unlocked; older or equally old ones are taken for its own. *)
Refreshed(p) ==
  IF vault[Target(p)].epoch > proc[p].meta.epoch THEN vault[Target(p)] ELSE proc[p].meta

CommitSet(p) ==
  /\ proc[p].pc = "commit" /\ count.sets < MaxSets
  /\ Exists(Target(p)) /\ Refreshed(p).keys = proc[p].meta.keys
  /\ LET e   == Target(p)
         new == Records(e) \cup {<<proc[p].meta.keys, count.sets + 1>>}
     IN  /\ secrets' = [secrets EXCEPT ![e] = new]
         /\ vault' = [vault EXCEPT ![e] = [Refreshed(p) EXCEPT !.sealed = new, !.epoch = @ + 1]]
         /\ kept' = [kept EXCEPT ![e] = @ \cup {<<proc[p].meta.keys, count.sets + 1>>}]
  /\ count' = [count EXCEPT !.sets = @ + 1]
  /\ Finish(p)
  /\ UNCHANGED <<selection, excused>>

(* A command is killed, fails, or its user gives up. *)
Kill(p) ==
  /\ Active(p)
  /\ excused' = IF proc[p].pc = "removing" THEN excused \cup {proc[p].env} ELSE excused
  /\ Finish(p)
  /\ UNCHANGED <<vault, secrets, selection, count, kept>>

Next ==
  \E p \in Procs :
    \/ \E e \in Envs : StartAdd(p, e) \/ StartRemove(p, e) \/ StartUse(p, e)
    \/ \E explicit \in Envs \cup {NoSelection} : StartSet(p, explicit)
    \/ WriteSecrets(p) \/ HashSecrets(p) \/ SaveVault(p)
    \/ Confirm(p) \/ RemoveVault(p) \/ RemoveSecrets(p) \/ ResetSelection(p)
    \/ WriteSelection(p) \/ CommitSet(p) \/ Kill(p)

Spec == Init /\ [][Next]_vars

-----------------------------------------------------------------------------

Keys    == 1 .. MaxKeys
Record  == Keys \X (1 .. MaxSets)
Content == SUBSET Record \cup {Absent}

(* The files hold what some command can have written, and no two environments
   share their keys. *)
TypeOK ==
  /\ \A e \in Envs :
       /\ secrets[e] \in Content
       /\ vault[e] = NoVault \/ (vault[e].keys \in Keys /\ vault[e].sealed \in Content)
       /\ kept[e] \subseteq Record
  /\ \A e, f \in Envs : e # f /\ Exists(e) => vault[e].keys # vault[f].keys
  /\ selection \in Envs \cup {NoSelection}

(* project.rs: an environment that has a vault.toml opens, although its
   creation may have been killed anywhere and repeated, commands for other
   environments ran beside it, and the selection changed under commands that
   had resolved it.  Only while it is being removed it need not. *)
Removing(e)   == \E p \in Procs : proc[p].pc = "removing" /\ proc[p].env = e
ExistingOpens == \A e \in Envs \ excused : Exists(e) /\ ~Removing(e) => Opens(e)

(* What `dl set` reported is there, under the keys of its environment, until
   that is removed. *)
NothingLost ==
  \A e \in Envs \ excused : \A r \in kept[e] : r \in secrets[e] /\ r[1] = vault[e].keys

(* README.md:196 "`dl env remove` destroys every secret in that environment":
   one that is added afterwards opens, and has none of them.  The removal may
   have been killed, and vault.toml gone first. *)
AddedAnewOpens ==
  [][\A p \in Procs, e \in Envs : proc[p].env = e /\ SaveVault(p) => Opens(e)']_vars

(* env.rs:166 "falls back to `default` instead of erroring on a dangling
   name": between commands, the persisted selection names an environment that
   exists.  A removal killed before it resets the selection breaks this. *)
NeverDangling ==
  selection \in Envs /\ (\A p \in Procs : ~Active(p)) => Exists(selection)
=============================================================================
