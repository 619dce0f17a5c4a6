------------------------- MODULE EnvironmentsProofs -------------------------
(* Proofs about Environments, for any number of commands and environments. *)
EXTENDS Environments, TLAPS

USE DefaultAssumption, SelectionAssumption

-----------------------------------------------------------------------------
(* The inductive invariant.                                                  *)

Vaults  == [keys : Nat, epoch : Nat, sealed : SUBSET (Nat \X Nat)]
Proc ==
  [pc : {"idle", "prompt", "hash", "save", "confirm", "removing", "select", "commit"},
   cmd : {"none", "add", "remove", "use", "set"}, env : Envs, meta : Vaults]

Types ==
  /\ vault \in [Envs -> Vaults]
  /\ secrets \in [Envs -> SUBSET (Nat \X Nat)]
  /\ kept \in [Envs -> SUBSET (Nat \X Nat)]
  /\ selection \in Envs \cup {NoSelection}
  /\ proc \in [Procs -> Proc]
  /\ count \in [keys : Nat, sets : Nat, commands : Nat]

(* A command for e is under way. *)
Here(p, e) == Active(p) /\ proc[p].env = e

(* What the commands for e know of it while they run. *)
Stage(p, e) ==
  /\ proc[p].pc \in {"prompt", "hash", "save"} <=> proc[p].cmd = "add"
  /\ proc[p].pc \in {"confirm", "removing"} <=> proc[p].cmd = "remove"
  /\ proc[p].cmd = "add" => ~Exists(e) /\ Records(e) = {}
  /\ proc[p].pc = "save" => proc[p].meta.sealed = secrets[e] /\ proc[p].meta.keys > 0
  /\ proc[p].pc = "commit" => Exists(e) /\ vault[e].keys = proc[p].meta.keys

(* An environment that nobody is removing has a pair that opens, or nothing;
   what was kept is of a pair that nobody is removing. *)
FilesFit(e) ==
  /\ Exists(e) => vault[e].keys > 0
  /\ Exists(e) /\ ~Removing(e) => Opens(e)
  /\ ~Exists(e) /\ ~Removing(e) => Records(e) = {}
  /\ ~Exists(e) \/ Removing(e) => kept[e] = {}
  /\ \A r \in kept[e] : r \in secrets[e] /\ r[1] = vault[e].keys

Alone(e) ==
  \A p, q \in Procs : Here(p, e) /\ Here(q, e) /\ p # q => ~Makes(proc[p].cmd)

EnvInv(e) == Alone(e) /\ FilesFit(e) /\ \A p \in Procs : Here(p, e) => Stage(p, e)

IInv == Types /\ \A e \in Envs \ excused : EnvInv(e)

(* No vault, and no command, are of the types. *)
LEMMA NoVaultType == NoVault \in Vaults /\ Idle \in Proc
<1>1. NoVault \in Vaults
  BY DEF NoVault, Vaults
<1>2. QED
  BY <1>1 DEF Idle, Proc

(* There is no environment yet, and nobody is at work. *)
LEMMA InitIInv == Init => IInv
<1> SUFFICES ASSUME Init PROVE IInv
  OBVIOUS
<1>1. Types
  <2>1. Absent \in SUBSET (Nat \X Nat)
    BY DEF Absent
  <2>2. QED
    BY <2>1, NoVaultType DEF Init, Types
<1>2. ASSUME NEW e \in Envs PROVE EnvInv(e)
  <2>1. \A p \in Procs : ~Active(p)
    BY DEF Init, Active, Idle
  <2>2. ~Exists(e) /\ Records(e) = {} /\ kept[e] = {}
    BY DEF Init, Exists, Records, NoSelection
  <2>3. QED
    BY <2>1, <2>2 DEF EnvInv, Alone, FilesFit, Here
<1>3. QED
  BY <1>1, <1>2 DEF IInv

-----------------------------------------------------------------------------
(* Types.                                                                    *)

(* A command starts with the metadata it has read. *)
LEMMA StartTypes ==
  ASSUME Types, NEW p \in Procs, NEW e \in Envs,
         NEW cmd \in {"add", "remove", "use", "set"},
         NEW pc \in {"prompt", "confirm", "select", "commit"}, Start(p, cmd, e, pc)
  PROVE  Types'
<1>1. [pc |-> pc, cmd |-> cmd, env |-> e, meta |-> vault[e]] \in Proc
  BY DEF Types, Proc
<1>2. QED
  BY <1>1 DEF Types, Start

(* The environment a command resolves to is one. *)
LEMMA ResolvedIsOne ==
  ASSUME NEW explicit
  PROVE  Resolved(explicit) \in Envs
  BY DEF Resolved

(* A step leaves every variable in its set. *)
LEMMA TypesStep == Types /\ Next => Types'
<1> SUFFICES ASSUME Types, Next PROVE Types'
  OBVIOUS
<1> PICK p \in Procs :
      \/ \E e \in Envs : StartAdd(p, e) \/ StartRemove(p, e) \/ StartUse(p, e)
      \/ \E explicit \in Envs \cup {NoSelection} : StartSet(p, explicit)
      \/ WriteSecrets(p) \/ HashSecrets(p) \/ SaveVault(p)
      \/ Confirm(p) \/ RemoveVault(p) \/ RemoveSecrets(p) \/ ResetSelection(p)
      \/ WriteSelection(p) \/ CommitSet(p) \/ Kill(p)
  BY DEF Next
<1>0. proc[p] \in Proc /\ proc[p].env \in Envs /\ Idle \in Proc /\ NoVault \in Vaults
      /\ vault[proc[p].env] \in Vaults /\ secrets[proc[p].env] \in SUBSET (Nat \X Nat)
  BY NoVaultType DEF Types, Proc
<1>1. ASSUME NEW e \in Envs, StartAdd(p, e) \/ StartRemove(p, e) \/ StartUse(p, e)
      PROVE  Types'
  BY <1>1, StartTypes DEF StartAdd, StartRemove, StartUse
<1>2. ASSUME NEW explicit \in Envs \cup {NoSelection}, StartSet(p, explicit)
      PROVE  Types'
  BY <1>2, StartTypes, ResolvedIsOne DEF StartSet
<1>3. CASE WriteSecrets(p)
  <2>1. proc' = [proc EXCEPT ![p].pc = "hash"] /\ proc' \in [Procs -> Proc]
    BY <1>0, <1>3 DEF WriteSecrets, Goto, Types, Proc
  <2>2. secrets' \in [Envs -> SUBSET (Nat \X Nat)]
    BY <1>0, <1>3 DEF WriteSecrets, Types
  <2>3. QED
    BY <1>3, <2>1, <2>2 DEF WriteSecrets, Types
<1>4. CASE HashSecrets(p)
  <2>1. Fresh(proc[p].env) \in Vaults
    BY <1>0 DEF Fresh, Types, Vaults
  <2>2. proc' \in [Procs -> Proc]
    BY <1>0, <1>4, <2>1 DEF HashSecrets, Types, Proc
  <2>3. QED
    BY <1>4, <2>2 DEF HashSecrets, Types
<1>5. CASE SaveVault(p)
  BY <1>0, <1>5 DEF SaveVault, Finish, Types, Proc
<1>6. CASE Confirm(p)
  <2>1. proc' \in [Procs -> Proc]
    BY <1>0, <1>6 DEF Confirm, Goto, Types, Proc
  <2>2. QED
    BY <1>0, <1>6, <2>1 DEF Confirm, Types
<1>7. CASE RemoveVault(p)
  BY <1>0, <1>7 DEF RemoveVault, Types
<1>8. CASE RemoveSecrets(p)
  <2>1. Absent \in SUBSET (Nat \X Nat)
    BY DEF Absent
  <2>2. QED
    BY <1>0, <1>8, <2>1 DEF RemoveSecrets, Types
<1>9. CASE ResetSelection(p) \/ WriteSelection(p)
  BY <1>0, <1>9 DEF ResetSelection, WriteSelection, Finish, Types
<1>10. CASE CommitSet(p)
  <2> DEFINE e   == Target(p)
             new == Records(e) \cup {<<proc[p].meta.keys, count.sets + 1>>}
             one == [Refreshed(p) EXCEPT !.sealed = new, !.epoch = @ + 1]
  <2>1. Refreshed(p) \in Vaults /\ proc[p].meta.keys \in Nat /\ count.sets + 1 \in Nat
        /\ e \in Envs
    BY <1>0 DEF Refreshed, Target, Types, Proc, Vaults
  <2>2. new \in SUBSET (Nat \X Nat)
    BY <1>0, <2>1 DEF Records, Target
  <2>3. one \in Vaults
    <3>1. ASSUME NEW r \in Vaults, NEW x \in SUBSET (Nat \X Nat), NEW y \in Nat
          PROVE  [r EXCEPT !.sealed = x, !.epoch = y] \in Vaults
      BY <3>1 DEF Vaults
    <3>2. Refreshed(p).epoch + 1 \in Nat
      BY <2>1 DEF Vaults
    <3>3. one = [Refreshed(p) EXCEPT !.sealed = new, !.epoch = Refreshed(p).epoch + 1]
      OBVIOUS
    <3>4. QED
      <4> HIDE DEF one, new
      <4>1. QED
        BY <2>1, <2>2, <3>1, <3>2, <3>3
  <2>4. /\ secrets' = [secrets EXCEPT ![e] = new]
        /\ vault' = [vault EXCEPT ![e] = one]
        /\ kept' = [kept EXCEPT ![e] = @ \cup {<<proc[p].meta.keys, count.sets + 1>>}]
        /\ count' = [count EXCEPT !.sets = @ + 1]
        /\ proc' = [proc EXCEPT ![p] = Idle] /\ UNCHANGED selection
    BY <1>10 DEF CommitSet, Finish
  <2>5. kept[e] \in SUBSET (Nat \X Nat)
    BY <2>1 DEF Types
  <2>6. kept' \in [Envs -> SUBSET (Nat \X Nat)]
    BY <2>1, <2>4, <2>5 DEF Types
  <2>7. QED
    <3> HIDE DEF new, one, e
    <3>1. QED
      BY <1>0, <2>1, <2>2, <2>3, <2>4, <2>6 DEF Types
<1>11. CASE Kill(p)
  BY <1>0, <1>11 DEF Kill, Finish, Types
<1>12. QED
  BY <1>1, <1>2, <1>3, <1>4, <1>5, <1>6, <1>7, <1>8, <1>9, <1>10, <1>11

-----------------------------------------------------------------------------
(* Steps.                                                                    *)

(* Nothing changes for e when a command of another environment moves, or one
   for e ends that was not removing it. *)
LEMMA Untouched ==
  ASSUME NEW p \in Procs, NEW e \in Envs, EnvInv(e),
         vault'[e] = vault[e], secrets'[e] = secrets[e], kept'[e] = kept[e],
         \A q \in Procs \ {p} : proc'[q] = proc[q],
         ~Here(p, e)', ~(proc[p].pc = "removing" /\ proc[p].env = e)
  PROVE  EnvInv(e)'
<1>1. \A q \in Procs : Here(q, e)' => q # p /\ Here(q, e) /\ proc'[q] = proc[q]
  BY DEF Here, Active
<1>2. Removing(e)' <=> Removing(e)
  BY DEF Removing, Here, Active
<1>3. /\ Exists(e)' <=> Exists(e)
      /\ Records(e)' = Records(e)
      /\ Opens(e)' <=> Opens(e)
  BY DEF Exists, Records, Opens
<1>4. Alone(e)'
  BY <1>1 DEF EnvInv, Alone
<1>5. FilesFit(e)'
  BY <1>2, <1>3 DEF EnvInv, FilesFit
<1>6. ASSUME NEW q \in Procs, Here(q, e)' PROVE Stage(q, e)'
  <2>1. Stage(q, e) /\ proc'[q] = proc[q]
    BY <1>1, <1>6 DEF EnvInv
  <2>2. QED
    BY <1>3, <2>1 DEF Stage
<1>7. QED
  BY <1>4, <1>5, <1>6 DEF EnvInv

(* A command that makes or removes e is the only one for e, so what it leaves
   behind is for it alone to get right. *)
LEMMA Maker ==
  ASSUME NEW p \in Procs, NEW e \in Envs, EnvInv(e),
         Here(p, e), Makes(proc[p].cmd),
         \A q \in Procs \ {p} : proc'[q] = proc[q],
         Here(p, e)' => Stage(p, e)',
         Removing(e)' = (proc'[p].pc = "removing" /\ proc'[p].env = e) => FilesFit(e)'
  PROVE  EnvInv(e)'
<1>1. ASSUME NEW q \in Procs, q # p PROVE ~Here(q, e) /\ ~Here(q, e)'
  BY <1>1 DEF EnvInv, Alone, Here, Active
<1>2. Removing(e)' = (proc'[p].pc = "removing" /\ proc'[p].env = e)
  BY <1>1 DEF Removing, Here, Active
<1>3. QED
  BY <1>1, <1>2 DEF EnvInv, Alone

(* A command that starts for e, when none runs that makes or removes e, or it
   does neither and neither do the others. *)
LEMMA Starts ==
  ASSUME Types, NEW p \in Procs, NEW f \in Envs, NEW cmd, NEW pc,
         Start(p, cmd, f, pc), pc \notin {"idle", "removing"},
         NEW e \in Envs \ excused', EnvInv(e),
         e = f => /\ pc \in {"prompt", "hash", "save"} <=> cmd = "add"
                  /\ pc \in {"confirm", "removing"} <=> cmd = "remove"
                  /\ cmd = "add" => ~Exists(e)
                  /\ pc \in {"commit", "select"} => Exists(e)
                  /\ pc # "save"
  PROVE  EnvInv(e)'
<1>1. /\ proc' = [proc EXCEPT ![p] = [pc |-> pc, cmd |-> cmd, env |-> f, meta |-> vault[f]]]
      /\ ~Active(p) /\ UNCHANGED <<vault, secrets, selection, kept>>
      /\ excused' = excused \cup
           {g \in {f} : \E q \in Procs : Active(q) /\ proc[q].env = f
                                         /\ (Makes(cmd) \/ Makes(proc[q].cmd))}
  BY DEF Start
<1>2. /\ proc'[p] = [pc |-> pc, cmd |-> cmd, env |-> f, meta |-> vault[f]]
      /\ \A q \in Procs \ {p} : proc'[q] = proc[q]
  BY <1>1 DEF Types
<1>3. proc[p].pc = "idle"
  BY <1>1 DEF Active
<1>4. CASE e # f
  <2>1. ~Here(p, e)'
    BY <1>2, <1>4 DEF Here
  <2>2. QED
    BY <1>1, <1>2, <1>3, <2>1, Untouched
<1>5. CASE e = f
  <2>1. \A q \in Procs : Here(q, e) => ~Makes(cmd) /\ ~Makes(proc[q].cmd)
    BY <1>1, <1>5 DEF Here
  <2>2. Removing(e)' <=> Removing(e)
    BY <1>2, <1>3 DEF Removing
  <2>3. /\ Exists(e)' <=> Exists(e)
        /\ Records(e)' = Records(e)
        /\ Opens(e)' <=> Opens(e)
    BY <1>1 DEF Exists, Records, Opens
  <2>4. Alone(e)'
    <3>1. SUFFICES ASSUME NEW q \in Procs, NEW r \in Procs, Here(q, e)', Here(r, e)', q # r
                   PROVE  ~Makes(proc'[q].cmd)
      BY DEF Alone
    <3>2. CASE q = p
      <4>1. Here(r, e)
        BY <1>2, <3>1, <3>2 DEF Here, Active
      <4>2. QED
        BY <1>2, <2>1, <3>2, <4>1
    <3>3. CASE q # p
      <4>1. Here(q, e) /\ proc'[q] = proc[q]
        BY <1>2, <3>1, <3>3 DEF Here, Active
      <4>2. CASE r = p
        BY <2>1, <4>1
      <4>3. CASE r # p
        BY <1>2, <3>1, <4>1, <4>3 DEF EnvInv, Alone, Here, Active
      <4>4. QED
        BY <4>2, <4>3
    <3>4. QED
      BY <3>2, <3>3
  <2>5. FilesFit(e)'
    BY <1>1, <2>2, <2>3 DEF EnvInv, FilesFit
  <2>6. ASSUME NEW q \in Procs, Here(q, e)' PROVE Stage(q, e)'
    <3>1. CASE q = p
      <4>1. cmd = "add" => Records(e) = {}
        <5>1. SUFFICES ASSUME cmd = "add" PROVE ~Removing(e) /\ ~Exists(e)
          BY DEF EnvInv, FilesFit
        <5>2. \A r \in Procs : ~Here(r, e)
          BY <2>1, <5>1 DEF Makes
        <5>3. QED
          BY <1>5, <5>1, <5>2 DEF Removing, Here, Active
      <4>2. pc = "commit" => vault[e].keys = proc'[p].meta.keys
        BY <1>2, <1>5
      <4>3. QED
        BY <1>2, <1>5, <2>3, <3>1, <4>1, <4>2, <1>1 DEF Stage
    <3>2. CASE q # p
      <4>1. Here(q, e) /\ proc'[q] = proc[q]
        BY <1>2, <2>6, <3>2 DEF Here, Active
      <4>2. QED
        BY <1>1, <2>3, <4>1 DEF EnvInv, Stage
    <3>3. QED
      BY <3>1, <3>2
  <2>7. QED
    BY <2>4, <2>5, <2>6 DEF EnvInv
<1>6. QED
  BY <1>4, <1>5

(* Every step keeps what is known of an environment that is not excused. *)
LEMMA EnvStep ==
  ASSUME Types, Types', NEW e \in Envs \ excused', EnvInv(e), Next
  PROVE  EnvInv(e)'
<1> PICK p \in Procs :
      \/ \E f \in Envs : StartAdd(p, f) \/ StartRemove(p, f) \/ StartUse(p, f)
      \/ \E explicit \in Envs \cup {NoSelection} : StartSet(p, explicit)
      \/ WriteSecrets(p) \/ HashSecrets(p) \/ SaveVault(p)
      \/ Confirm(p) \/ RemoveVault(p) \/ RemoveSecrets(p) \/ ResetSelection(p)
      \/ WriteSelection(p) \/ CommitSet(p) \/ Kill(p)
  BY DEF Next
<1> DEFINE f == proc[p].env
<1>0. /\ proc[p] \in Proc /\ f \in Envs /\ proc \in [Procs -> Proc]
      /\ vault \in [Envs -> Vaults] /\ secrets \in [Envs -> SUBSET (Nat \X Nat)]
      /\ kept \in [Envs -> SUBSET (Nat \X Nat)]
  BY DEF Types, Proc
<1>a. Here(p, e) => Stage(p, e)
  BY DEF EnvInv
<1>b. Here(p, e) /\ Makes(proc[p].cmd) => (Removing(e) <=> proc[p].pc = "removing")
  BY DEF Removing, EnvInv, Alone, Here, Active
<1>1. ASSUME NEW g \in Envs, StartAdd(p, g) PROVE EnvInv(e)'
  BY <1>1, Starts DEF StartAdd
<1>2. ASSUME NEW g \in Envs, StartRemove(p, g) PROVE EnvInv(e)'
  BY <1>2, Starts DEF StartRemove
<1>3. ASSUME NEW g \in Envs, StartUse(p, g) PROVE EnvInv(e)'
  BY <1>3, Starts DEF StartUse
<1>4. ASSUME NEW explicit \in Envs \cup {NoSelection}, StartSet(p, explicit)
      PROVE  EnvInv(e)'
  <2>1. Resolved(explicit) \in Envs
    BY ResolvedIsOne
  <2>2. QED
    BY <1>4, <2>1, Starts DEF StartSet
<1>5. CASE WriteSecrets(p)
  <2>0. /\ proc[p].pc = "prompt" /\ proc' = [proc EXCEPT ![p].pc = "hash"]
        /\ secrets' = [secrets EXCEPT ![f] = IF @ = Absent THEN {} ELSE @]
        /\ UNCHANGED <<vault, selection, kept>>
    BY <1>5 DEF WriteSecrets, Goto
  <2>1. /\ proc'[p].pc = "hash" /\ proc'[p].env = f /\ proc'[p].cmd = proc[p].cmd
        /\ \A q \in Procs \ {p} : proc'[q] = proc[q]
    BY <1>0, <2>0 DEF Proc
  <2>2. CASE f # e
    <3>1. ~Here(p, e)' /\ secrets'[e] = secrets[e]
      BY <1>0, <2>0, <2>1, <2>2 DEF Here
    <3>2. QED
      BY <2>0, <2>1, <3>1, Untouched
  <2>3. CASE f = e
    <3>1. Here(p, e) /\ Stage(p, e) /\ Makes(proc[p].cmd)
      BY <1>a, <2>0, <2>3 DEF Here, Active, Stage, Makes
    <3>2. ~Exists(e)' /\ ~Exists(e) /\ Records(e)' = {}
      BY <1>0, <2>0, <2>3, <3>1 DEF Stage, Exists, Records
    <3>3. Stage(p, e)'
      BY <2>1, <3>1, <3>2, <2>0 DEF Stage
    <3>4. ASSUME Removing(e)' = (proc'[p].pc = "removing" /\ proc'[p].env = e)
          PROVE  FilesFit(e)'
      <4>1. ~Removing(e)' /\ kept[e] = {}
        <5>1. ~Removing(e)
          BY <1>b, <2>0, <3>1
        <5>2. QED
          BY <2>1, <3>2, <3>4, <5>1 DEF EnvInv, FilesFit
      <4>2. QED
        BY <2>0, <3>2, <4>1 DEF FilesFit
    <3>5. QED
      BY <2>1, <3>1, <3>3, <3>4, Maker
  <2>4. QED
    BY <2>2, <2>3
<1>6. CASE HashSecrets(p)
  <2>0. /\ proc[p].pc = "hash" /\ UNCHANGED <<vault, secrets, selection, kept>>
        /\ proc' = [proc EXCEPT ![p].meta = Fresh(f), ![p].pc = "save"]
    BY <1>6 DEF HashSecrets
  <2>1. /\ proc'[p].pc = "save" /\ proc'[p].env = f /\ proc'[p].cmd = proc[p].cmd
        /\ proc'[p].meta = Fresh(f)
        /\ \A q \in Procs \ {p} : proc'[q] = proc[q]
    BY <1>0, <2>0 DEF Proc
  <2>2. CASE f # e
    <3>1. ~Here(p, e)'
      BY <2>1, <2>2 DEF Here
    <3>2. QED
      BY <2>0, <2>1, <2>2, <3>1, Untouched
  <2>3. CASE f = e
    <3>1. Here(p, e) /\ Stage(p, e) /\ Makes(proc[p].cmd)
      BY <1>a, <2>0, <2>3 DEF Here, Active, Stage, Makes
    <3>2. ~Exists(e)' /\ ~Exists(e) /\ Records(e)' = {}
      BY <2>0, <3>1 DEF Stage, Exists, Records
    <3>3. Fresh(f).sealed = secrets[e] /\ Fresh(f).keys > 0
      BY <2>3 DEF Fresh, Types
    <3>4. Stage(p, e)'
      BY <2>0, <2>1, <3>1, <3>2, <3>3 DEF Stage
    <3>5. ASSUME Removing(e)' = (proc'[p].pc = "removing" /\ proc'[p].env = e)
          PROVE  FilesFit(e)'
      <4>1. ~Removing(e)' /\ kept[e] = {}
        <5>1. ~Removing(e)
          BY <1>b, <2>0, <3>1
        <5>2. QED
          BY <2>1, <3>2, <3>5, <5>1 DEF EnvInv, FilesFit
      <4>2. QED
        BY <2>0, <3>2, <4>1 DEF FilesFit
    <3>6. QED
      BY <2>1, <3>1, <3>4, <3>5, Maker
  <2>4. QED
    BY <2>2, <2>3
<1>7. CASE SaveVault(p)
  <2>0. /\ proc[p].pc = "save" /\ proc' = [proc EXCEPT ![p] = Idle]
        /\ vault' = [vault EXCEPT ![f] = proc[p].meta]
        /\ UNCHANGED <<secrets, selection, kept>>
    BY <1>7 DEF SaveVault, Finish
  <2>1. /\ proc'[p].pc = "idle" /\ ~Here(p, e)'
        /\ \A q \in Procs \ {p} : proc'[q] = proc[q]
    BY <1>0, <2>0 DEF Idle, Here, Active
  <2>2. CASE f # e
    <3>1. vault'[e] = vault[e]
      BY <1>0, <2>0, <2>2
    <3>2. QED
      BY <2>0, <2>1, <3>1, Untouched
  <2>3. CASE f = e
    <3>1. Here(p, e) /\ Stage(p, e) /\ Makes(proc[p].cmd)
      BY <1>a, <2>0, <2>3 DEF Here, Active, Stage, Makes
    <3>2. vault'[e] = proc[p].meta /\ proc[p].meta.keys > 0
          /\ proc[p].meta.sealed = secrets[e] /\ Records(e) = {} /\ ~Exists(e)
      BY <1>0, <2>0, <2>3, <3>1 DEF Stage
    <3>3. Exists(e)' /\ Opens(e)'
      <4>1. Records(e)' = {}
        BY <2>0, <3>2 DEF Records
      <4>2. Exists(e)'
        BY <3>2 DEF Exists, NoVault
      <4>3. QED
        BY <2>0, <3>2, <4>1, <4>2 DEF Opens
    <3>4. ASSUME Removing(e)' = (proc'[p].pc = "removing" /\ proc'[p].env = e)
          PROVE  FilesFit(e)'
      <4>1. ~Removing(e)' /\ kept[e] = {}
        <5>1. ~Removing(e)
          BY <1>b, <2>0, <3>1
        <5>2. QED
          BY <2>1, <3>2, <3>4, <5>1 DEF EnvInv, FilesFit
      <4>2. QED
        BY <2>0, <3>2, <3>3, <4>1 DEF FilesFit
    <3>5. QED
      BY <2>1, <3>1, <3>4, Maker
  <2>4. QED
    BY <2>2, <2>3
<1>8. CASE Confirm(p)
  <2>0. /\ proc[p].pc = "confirm" /\ proc' = [proc EXCEPT ![p].pc = "removing"]
        /\ kept' = [kept EXCEPT ![f] = {}]
        /\ UNCHANGED <<vault, secrets, selection>>
    BY <1>8 DEF Confirm, Goto
  <2>1. /\ proc'[p].pc = "removing" /\ proc'[p].env = f /\ proc'[p].cmd = proc[p].cmd
        /\ \A q \in Procs \ {p} : proc'[q] = proc[q]
    BY <1>0, <2>0 DEF Proc
  <2>2. CASE f # e
    <3>1. ~Here(p, e)' /\ kept'[e] = kept[e]
      BY <1>0, <2>0, <2>1, <2>2 DEF Here
    <3>2. QED
      BY <2>0, <2>1, <3>1, Untouched
  <2>3. CASE f = e
    <3>1. Here(p, e) /\ Stage(p, e) /\ Makes(proc[p].cmd)
      BY <1>a, <2>0, <2>3 DEF Here, Active, Stage, Makes
    <3>2. Stage(p, e)'
      BY <2>0, <2>1, <3>1 DEF Stage, Exists, Records
    <3>3. ASSUME Removing(e)' = (proc'[p].pc = "removing" /\ proc'[p].env = e)
          PROVE  FilesFit(e)'
      <4>1. Removing(e)' /\ kept'[e] = {}
        BY <1>0, <2>0, <2>1, <2>3, <3>3
      <4>2. QED
        BY <2>0, <4>1 DEF EnvInv, FilesFit, Exists
    <3>4. QED
      BY <2>1, <3>1, <3>2, <3>3, Maker
  <2>4. QED
    BY <2>2, <2>3
<1>9. CASE RemoveVault(p) \/ RemoveSecrets(p)
  <2>0. /\ proc[p].pc = "removing" /\ UNCHANGED <<proc, selection, kept>>
        /\ \A g \in Envs \ {f} : vault'[g] = vault[g] /\ secrets'[g] = secrets[g]
        /\ Exists(f)' => Exists(f) /\ vault'[f] = vault[f]
    BY <1>0, <1>9 DEF RemoveVault, RemoveSecrets, Exists
  <2>1. CASE f # e
    <3>1. ~Here(p, e)'
      BY <2>0, <2>1 DEF Here
    <3>2. QED
      BY <2>0, <2>1, <3>1, Untouched
  <2>2. CASE f = e
    <3>1. Here(p, e) /\ Stage(p, e) /\ Makes(proc[p].cmd)
      BY <1>a, <2>0, <2>2 DEF Here, Active, Stage, Makes
    <3>2. Stage(p, e)'
      BY <2>0, <3>1 DEF Stage
    <3>3. ASSUME Removing(e)' = (proc'[p].pc = "removing" /\ proc'[p].env = e)
          PROVE  FilesFit(e)'
      <4>1. Removing(e)' /\ Removing(e)
        BY <1>b, <2>0, <2>2, <3>1, <3>3
      <4>2. kept'[e] = {}
        BY <2>0, <4>1 DEF EnvInv, FilesFit
      <4>3. Exists(e)' => vault'[e].keys > 0
        BY <2>0, <2>2 DEF EnvInv, FilesFit
      <4>4. QED
        BY <4>1, <4>2, <4>3 DEF FilesFit
    <3>4. QED
      BY <2>0, <3>1, <3>2, <3>3, Maker
  <2>3. QED
    BY <2>1, <2>2
<1>10. CASE ResetSelection(p)
  <2>0. /\ proc[p].pc = "removing" /\ ~Exists(f) /\ secrets[f] = Absent
        /\ selection' = IF selection = f THEN NoSelection ELSE selection
        /\ proc' = [proc EXCEPT ![p] = Idle]
        /\ UNCHANGED <<vault, secrets, kept>>
    BY <1>10 DEF ResetSelection, Finish
  <2>1. /\ proc'[p].pc = "idle" /\ ~Here(p, e)'
        /\ \A q \in Procs \ {p} : proc'[q] = proc[q]
    BY <1>0, <2>0 DEF Idle, Here, Active
  <2>2. CASE f # e
    BY <2>0, <2>1, <2>2, Untouched
  <2>3. CASE f = e
    <3>1. Here(p, e) /\ Stage(p, e) /\ Makes(proc[p].cmd)
      BY <1>a, <2>0, <2>3 DEF Here, Active, Stage, Makes
    <3>2. ASSUME Removing(e)' = (proc'[p].pc = "removing" /\ proc'[p].env = e)
          PROVE  FilesFit(e)'
      <4>1. ~Removing(e)' /\ kept[e] = {}
        BY <1>b, <2>0, <2>1, <3>1, <3>2 DEF EnvInv, FilesFit
      <4>2. ~Exists(e)' /\ Records(e)' = {}
        BY <2>0, <2>3 DEF Exists, Records
      <4>3. QED
        BY <2>0, <4>1, <4>2 DEF FilesFit
    <3>3. QED
      BY <2>1, <3>1, <3>2, Maker
  <2>4. QED
    BY <2>2, <2>3
<1>11. CASE WriteSelection(p)
  <2>0. /\ proc[p].pc = "select" /\ proc' = [proc EXCEPT ![p] = Idle]
        /\ selection' = f /\ UNCHANGED <<vault, secrets, kept>>
    BY <1>11 DEF WriteSelection, Finish
  <2>1. /\ proc'[p].pc = "idle" /\ ~Here(p, e)'
        /\ \A q \in Procs \ {p} : proc'[q] = proc[q]
    BY <1>0, <2>0 DEF Idle, Here, Active
  <2>2. QED
    BY <2>0, <2>1, Untouched
<1>12. CASE Kill(p)
  <2>0. /\ proc' = [proc EXCEPT ![p] = Idle]
        /\ proc[p].pc = "removing" => f # e
        /\ UNCHANGED <<vault, secrets, selection, kept>>
    BY <1>12 DEF Kill, Finish
  <2>1. /\ ~Here(p, e)' /\ \A q \in Procs \ {p} : proc'[q] = proc[q]
    BY <1>0, <2>0 DEF Idle, Here, Active
  <2>2. QED
    BY <2>0, <2>1, Untouched
<1>13. CASE CommitSet(p)
  <2> DEFINE new == Records(f) \cup {<<proc[p].meta.keys, count.sets + 1>>}
             one == [Refreshed(p) EXCEPT !.sealed = new, !.epoch = @ + 1]
  <2>0. /\ proc[p].pc = "commit" /\ proc' = [proc EXCEPT ![p] = Idle]
        /\ Exists(f) /\ Refreshed(p).keys = proc[p].meta.keys
        /\ secrets' = [secrets EXCEPT ![f] = new]
        /\ vault' = [vault EXCEPT ![f] = one]
        /\ kept' = [kept EXCEPT ![f] = @ \cup {<<proc[p].meta.keys, count.sets + 1>>}]
        /\ UNCHANGED selection
    BY <1>13 DEF CommitSet, Finish, Target
  <2>1. /\ proc'[p].pc = "idle" /\ ~Here(p, e)'
        /\ \A q \in Procs \ {p} : proc'[q] = proc[q]
    BY <1>0, <2>0 DEF Idle, Here, Active
  <2>2. CASE f # e
    <3>1. vault'[e] = vault[e] /\ secrets'[e] = secrets[e] /\ kept'[e] = kept[e]
      BY <1>0, <2>0, <2>2
    <3>2. QED
      BY <2>0, <2>1, <3>1, Untouched
  <2>3. CASE f = e
    <3>1. Here(p, e) /\ Stage(p, e)
      BY <1>a, <2>0, <2>3 DEF Here, Active
    <3>2. \A q \in Procs : Here(q, e) => ~Makes(proc[q].cmd)
      BY <2>0, <3>1 DEF EnvInv, Alone, Stage, Makes
    <3>3. ~Removing(e)
      BY <3>2 DEF Removing, Here, Active, EnvInv, Stage, Makes
    <3>4. ~Removing(e)'
      BY <2>1, <3>3 DEF Removing
    <3>5. vault[e].keys = proc[p].meta.keys /\ vault[e].keys > 0 /\ Opens(e) /\ Exists(e)
      BY <2>0, <2>3, <3>1, <3>3 DEF Stage, EnvInv, FilesFit
    <3>6. one.keys = vault[e].keys /\ one.sealed = new
      <4>1. Refreshed(p) \in Vaults
        BY <1>0 DEF Refreshed, Target, Proc
      <4>2. one.keys = Refreshed(p).keys /\ one.sealed = new
        <5> HIDE DEF new
        <5>1. QED
          BY <4>1 DEF Vaults
      <4>3. QED
        BY <2>0, <3>5, <4>2
    <3> HIDE DEF one
    <3>7. vault'[e] = one /\ secrets'[e] = new
          /\ kept'[e] = kept[e] \cup {<<vault[e].keys, count.sets + 1>>}
      BY <1>0, <2>0, <2>3, <3>5
    <3>8. Exists(e)' /\ vault'[e].keys = vault[e].keys
      BY <3>5, <3>6, <3>7 DEF Exists, NoVault
    <3>9. \A r \in kept[e] : r \in Records(e)
      <4>1. SUFFICES ASSUME NEW r \in kept[e] PROVE r \notin Absent
        BY DEF EnvInv, FilesFit, Records
      <4>2. r[1] = vault[e].keys
        BY DEF EnvInv, FilesFit
      <4>3. QED
        BY <3>5, <4>2 DEF Absent
    <3>10. \A r \in kept'[e] : r \in secrets'[e] /\ r[1] = vault'[e].keys
      <4>1. SUFFICES ASSUME NEW r \in kept'[e] PROVE r \in new /\ r[1] = vault[e].keys
        BY <3>7, <3>8
      <4>2. CASE r \in kept[e]
        <5>1. r \in Records(e) /\ r[1] = vault[e].keys
          BY <3>9, <4>2 DEF EnvInv, FilesFit
        <5>2. QED
          BY <2>3, <5>1
      <4>3. CASE r = <<vault[e].keys, count.sets + 1>>
        BY <3>5, <4>3
      <4>4. QED
        BY <3>7, <4>2, <4>3
    <3>11. Opens(e)'
      <4>1. \A r \in new : r \in Records(e) \/ r[1] = vault[e].keys
        <5>1. SUFFICES ASSUME NEW r \in new, r \notin Records(e) PROVE r[1] = vault[e].keys
          OBVIOUS
        <5>2. r = <<proc[p].meta.keys, count.sets + 1>>
          BY <2>3, <5>1
        <5>3. QED
          BY <3>5, <5>2
      <4>2. \A r \in new : r[1] = vault[e].keys
        BY <3>5, <4>1 DEF Opens
      <4>3. QED
        <5> HIDE DEF new
        <5>1. QED
          BY <3>6, <3>7, <3>8, <4>2 DEF Opens, Records
    <3>12. FilesFit(e)'
      BY <2>0, <3>4, <3>5, <3>8, <3>10, <3>11 DEF FilesFit
    <3>13. ASSUME NEW q \in Procs, Here(q, e)' PROVE Stage(q, e)'
      <4>1. q # p /\ Here(q, e) /\ proc'[q] = proc[q] /\ Stage(q, e)
        BY <2>1, <3>13 DEF Here, Active, EnvInv
      <4>2. proc[q].cmd \notin {"add", "remove"}
        BY <3>2, <4>1 DEF Makes
      <4>3. QED
        BY <3>8, <4>1, <4>2 DEF Stage
    <3>14. Alone(e)'
      BY <2>1 DEF EnvInv, Alone, Here, Active
    <3>15. QED
      BY <3>12, <3>13, <3>14 DEF EnvInv
  <2>4. QED
    BY <2>2, <2>3
<1>14. QED
  BY <1>1, <1>2, <1>3, <1>4, <1>5, <1>6, <1>7, <1>8, <1>9, <1>10, <1>11, <1>12, <1>13

-----------------------------------------------------------------------------
(* The theorems.                                                             *)

(* IInv holds in every reachable state. *)
THEOREM Invariance == Spec => []IInv
<1>1. ASSUME IInv, [Next]_vars PROVE IInv'
  <2>1. CASE Next
    <3>1. Types'
      BY <1>1, <2>1, TypesStep DEF IInv
    <3>2. excused \subseteq excused'
      BY <2>1 DEF Next, StartAdd, StartRemove, StartUse, StartSet, Start, WriteSecrets,
                  HashSecrets, SaveVault, Confirm, RemoveVault, RemoveSecrets,
                  ResetSelection, WriteSelection, CommitSet, Kill
    <3>3. ASSUME NEW e \in Envs \ excused' PROVE EnvInv(e)'
      <4>1. EnvInv(e)
        BY <1>1, <3>2, <3>3 DEF IInv
      <4>2. QED
        BY <1>1, <2>1, <3>1, <4>1, EnvStep DEF IInv
    <3>4. QED
      BY <3>1, <3>3 DEF IInv
  <2>2. CASE UNCHANGED vars
    BY <1>1, <2>2 DEF vars, IInv, Types, EnvInv, Alone, FilesFit, Here, Active, Stage,
                      Removing, Exists, Records, Opens
  <2>3. QED
    BY <1>1, <2>1, <2>2
<1>2. QED
  BY InitIInv, <1>1, PTL DEF Spec

(* A pair that exists, and that nobody is removing, opens: creation may be
   killed anywhere, and repeated. *)
THEOREM PairsOpen == Spec => []ExistingOpens
<1>1. IInv => ExistingOpens
  BY DEF IInv, EnvInv, FilesFit, ExistingOpens
<1>2. QED
  BY Invariance, <1>1, PTL

(* What a set reported stays in its environment, under the keys of its pair. *)
THEOREM SetsAreKept == Spec => []NothingLost
<1>1. IInv => NothingLost
  BY DEF IInv, EnvInv, FilesFit, NothingLost
<1>2. QED
  BY Invariance, <1>1, PTL
=============================================================================
