------------------------------ MODULE Providers ------------------------------
(***************************************************************************)
(* What `dl run` does once the vault is open: it decrypts the records one  *)
(* after the other, asks an external provider for the value of a dynamic   *)
(* one, and starts its command with all of them, or fails.  A provider is  *)
(* a child process behind three pipes, with a time-out and a limit on what *)
(* it may say; dl opens its binary once, hashes what it has opened and     *)
(* compares the hash with the pinned one.  On Linux it executes the file   *)
(* it has opened, elsewhere whatever has its path by then.                 *)
(*                                                                         *)
(* Input and output are counted in units, of which a pipe holds PipeSize.  *)
(* A version stands for the bytes of a file, the pin names one, and a      *)
(* value is all that a version said.  What executes is what the file       *)
(* holds when it is executed: an interpreter that reads a script later     *)
(* than that is left out.  The provider is external; nothing is known of   *)
(* it but, when it is polite, that it reads its input before it does       *)
(* anything else, and leaves no process behind.                            *)
(***************************************************************************)
EXTENDS Naturals, Sequences

CONSTANTS
  PipeSize,          \* units a pipe holds
  Payload,           \* units of config and bootstrap secrets
  Limit,             \* MAX_PROVIDER_STDOUT and _STDERR
  MaxSaid,           \* bound: units a provider writes to one pipe
  Vaults             \* the sequences of records to run with

ASSUME PipeAssumption ==
  /\ PipeSize \in Nat \ {0} /\ Payload \in Nat /\ Limit \in Nat /\ MaxSaid \in Nat
ASSUME VaultsAssumption ==
  Vaults \subseteq Seq([kind : {"static", "dynamic"}, allowed : BOOLEAN,
                        boot : SUBSET Nat, pin : Nat])

VARIABLES
  records,           \* the records of secrets.lock, in order
  polite,            \* whether the provider is
  linux,             \* target_os
  installed,         \* the file in the pinned directory, 0 when there is none
  bytes,             \* bytes[f]: the version file f holds
  swapped,           \* history: the records whose binary was replaced or
                     \* rewritten where dl cannot see it
  at,                \* the record dl is at
  env,               \* env[i]: the value of record i, NoValue if it has none
  pc,                \* where dl is
  opened,            \* the file dl has open
  left,              \* units of input still to be written
  child,             \* the provider: state, version, whether it succeeded, and
                     \* whether its input is open
  stdin,             \* units in the pipe of its input
  said,              \* said[s]: units written to stdout, stderr
  pipe,              \* pipe[s]: units of these nobody has read
  orphan             \* a process the provider left behind has its pipes open

providerVars == <<records, polite, linux, installed, bytes, swapped, at, env, pc, opened, left, child, stdin,
          said, pipe, orphan>>
outside == <<records, polite, linux>>
files   == <<installed, bytes, swapped>>

Streams == {"out", "err"}
Silent  == [s \in Streams |-> 0]
NoValue == [version |-> 0, units |-> 0]
Plain   == [version |-> 0, units |-> 1]
NoChild == [state |-> "none", version |-> 0, ok |-> FALSE, reads |-> FALSE]

Record == records[at]
Ended  == pc \in {"started", "failed"}

(* read_limited has read what is not in the pipe any more, and drops what is
   beyond the limit. *)
Read(s)      == said[s] - pipe[s]
Kept(s)      == IF Read(s) > Limit THEN Limit ELSE Read(s)
Truncated(s) == Read(s) > Limit

Alive     == child.state = "running" \/ orphan
Listening == (child.state = "running" /\ child.reads) \/ orphan
AtEnd(s)  == pipe[s] = 0 /\ ~Alive

-----------------------------------------------------------------------------

ProviderInit ==
  /\ records \in Vaults /\ polite \in BOOLEAN /\ linux \in BOOLEAN
  /\ installed \in 0 .. 1 /\ bytes = [f \in 1 .. 2 |-> f] /\ swapped = {}
  /\ at = 1 /\ env = [i \in 1 .. Len(records) |-> NoValue]
  /\ pc = "next" /\ opened = 0 /\ left = 0 /\ child = NoChild /\ stdin = 0
  /\ said = Silent /\ pipe = Silent /\ orphan = FALSE

ChildIdle == UNCHANGED <<files, opened, left, child, stdin, said, pipe, orphan>>
Fail == pc' = "failed" /\ UNCHANGED <<at, env>>

DlIdle == UNCHANGED <<outside, at, env, pc, opened, left, child, stdin, said, pipe, orphan>>

(* A new version is renamed over the file.  By its path it can still come
   between the comparison and the execution. *)
Upgrade ==
  /\ installed = 1 /\ installed' = 2
  /\ swapped' = IF ~linux /\ pc \in {"hash", "spawn"} THEN swapped \cup {at} ELSE swapped
  /\ DlIdle /\ UNCHANGED bytes

(* A new version is written into the file, which dl may have open. *)
Overwrite ==
  /\ installed # 0 /\ bytes[installed] # 3
  /\ bytes' = [bytes EXCEPT ![installed] = 3]
  /\ swapped' = IF pc = "spawn" /\ opened = installed THEN swapped \cup {at} ELSE swapped
  /\ DlIdle /\ UNCHANGED installed

(* secret_value_for_runtime of a static record: what this identity may not
   read is left out of the environment. *)
Static ==
  /\ pc = "next" /\ at <= Len(records) /\ Record.kind = "static"
  /\ env' = [env EXCEPT ![at] = IF Record.allowed THEN Plain ELSE NoValue]
  /\ at' = at + 1
  /\ ChildIdle /\ UNCHANGED <<outside, pc>>

(* ... and of a dynamic one: its metadata are secret too, its bootstrap
   secrets have to be static, there, and readable. *)
MayResolve ==
  Record.allowed /\ \A b \in Record.boot :
    b \in 1 .. Len(records) /\ records[b].kind = "static" /\ records[b].allowed

Dynamic ==
  /\ pc = "next" /\ at <= Len(records) /\ Record.kind = "dynamic"
  /\ \/ MayResolve /\ pc' = "open" /\ UNCHANGED <<at, env>>
     \/ ~MayResolve /\ Fail
  /\ ChildIdle /\ UNCHANGED outside

Open ==
  /\ pc = "open"
  /\ \/ installed # 0 /\ pc' = "hash" /\ UNCHANGED <<at, env>>
     \/ installed = 0 /\ Fail
  /\ opened' = installed
  /\ UNCHANGED <<outside, files, left, child, stdin, said, pipe, orphan>>

Compare ==
  /\ pc = "hash"
  /\ \/ Record.pin \in {0, bytes[opened]} /\ pc' = "spawn" /\ UNCHANGED <<at, env>>
     \/ Record.pin \notin {0, bytes[opened]} /\ Fail
  /\ ChildIdle /\ UNCHANGED outside

Running(version) == [state |-> "running", version |-> version, ok |-> FALSE, reads |-> TRUE]

(* Bug of the mutants: the file is executed by its path on Linux too. *)
SpawnByPath ==
  /\ pc = "spawn"
  /\ child' = Running(bytes[installed]) /\ left' = Payload /\ pc' = "write"
  /\ stdin' = 0 /\ said' = Silent /\ pipe' = Silent /\ orphan' = FALSE
  /\ UNCHANGED <<outside, files, at, env, opened>>

Executed == IF linux THEN opened ELSE installed

Spawn ==
  /\ pc = "spawn"
  /\ child' = Running(bytes[Executed]) /\ left' = Payload /\ pc' = "write"
  /\ stdin' = 0 /\ said' = Silent /\ pipe' = Silent /\ orphan' = FALSE
  /\ UNCHANGED <<outside, files, at, env, opened>>

(* write_all: before the readers run, and before the clock. *)
WriteInput ==
  /\ pc = "write" /\ left > 0
  /\ \/ /\ Listening /\ stdin < PipeSize
        /\ left' = left - 1 /\ stdin' = stdin + 1
        /\ UNCHANGED <<at, env, pc>>
     \/ ~Listening /\ Fail /\ UNCHANGED <<left, stdin>>
  /\ UNCHANGED <<outside, files, opened, child, said, pipe, orphan>>

InputWritten ==
  /\ pc = "write" /\ left = 0
  /\ pc' = "poll"
  /\ ChildIdle /\ UNCHANGED <<outside, at, env>>

(* The reader threads, from when the input is written. *)
ReadOutput(s) ==
  /\ pc \in {"poll", "join", "killed"} /\ pipe[s] > 0
  /\ pipe' = [pipe EXCEPT ![s] = @ - 1]
  /\ UNCHANGED <<outside, files, at, env, pc, opened, left, child, stdin, said, orphan>>

SeeExit ==
  /\ pc = "poll" /\ child.state = "exited"
  /\ pc' = "join"
  /\ ChildIdle /\ UNCHANGED <<outside, at, env>>

(* Bug of the mutants: the time is over, and the provider is waited for. *)
TimeOutUnkilled ==
  /\ pc = "poll"
  /\ pc' = "killed"
  /\ ChildIdle /\ UNCHANGED <<outside, at, env>>

(* Bug of the mutants: the time is over, and nothing is done about it. *)
JoinNone ==
  /\ pc = "killed" \/ pc = "poll"
  /\ Fail
  /\ ChildIdle /\ UNCHANGED outside

TimeOutProvider ==
  /\ pc = "poll"
  /\ pc' = "killed"
  /\ child' = IF child.state = "running" THEN [child EXCEPT !.state = "exited"] ELSE child
  /\ UNCHANGED <<outside, files, at, env, opened, left, stdin, said, pipe, orphan>>

(* Bug of the mutants: what was read by the time it ended is the value. *)
JoinEarly ==
  /\ pc = "join"
  /\ \/ /\ ~Truncated("out") /\ ~Truncated("err") /\ child.ok
        /\ env' = [env EXCEPT ![at] = [version |-> child.version, units |-> Kept("out")]]
        /\ at' = at + 1 /\ pc' = "next"
     \/ /\ Truncated("out") \/ Truncated("err") \/ ~child.ok
        /\ Fail
  /\ ChildIdle /\ UNCHANGED outside

(* Both readers have come to the end: of an orphan of the provider too. *)
Join ==
  /\ pc = "join" /\ \A s \in Streams : AtEnd(s)
  /\ \/ /\ ~Truncated("out") /\ ~Truncated("err") /\ child.ok
        /\ env' = [env EXCEPT ![at] = [version |-> child.version, units |-> Kept("out")]]
        /\ at' = at + 1 /\ pc' = "next"
     \/ /\ Truncated("out") \/ Truncated("err") \/ ~child.ok
        /\ Fail
  /\ ChildIdle /\ UNCHANGED outside

JoinKilled ==
  /\ pc = "killed" /\ child.state = "exited" /\ \A s \in Streams : AtEnd(s)
  /\ Fail
  /\ ChildIdle /\ UNCHANGED outside

(* The command is started when no record is left. *)
StartCommand ==
  /\ pc = "next" /\ at > Len(records)
  /\ pc' = "started"
  /\ ChildIdle /\ UNCHANGED <<outside, at, env>>

Resolve ==
  \/ Static \/ Dynamic \/ Open \/ Compare \/ Spawn \/ WriteInput \/ InputWritten
  \/ SeeExit \/ TimeOutProvider \/ Join \/ JoinKilled \/ StartCommand

-----------------------------------------------------------------------------
(* The provider.                                                             *)

HasRead == left = 0 /\ stdin = 0

ChildReads ==
  /\ child.state = "running" /\ child.reads /\ stdin > 0
  /\ stdin' = stdin - 1
  /\ UNCHANGED <<outside, files, at, env, pc, opened, left, child, said, pipe, orphan>>

ChildCloses ==
  /\ child.state = "running" /\ child.reads /\ (polite => HasRead)
  /\ child' = [child EXCEPT !.reads = FALSE]
  /\ UNCHANGED <<outside, files, at, env, pc, opened, left, stdin, said, pipe, orphan>>

ChildWrites(s) ==
  /\ child.state = "running" /\ (polite => HasRead)
  /\ said[s] < MaxSaid /\ pipe[s] < PipeSize
  /\ said' = [said EXCEPT ![s] = @ + 1] /\ pipe' = [pipe EXCEPT ![s] = @ + 1]
  /\ UNCHANGED <<outside, files, at, env, pc, opened, left, child, stdin, orphan>>

ChildExits(ok) ==
  /\ child.state = "running" /\ (polite => HasRead)
  /\ child' = [child EXCEPT !.state = "exited", !.ok = ok]
  /\ orphan' \in {FALSE, ~polite}
  /\ UNCHANGED <<outside, files, at, env, pc, opened, left, stdin, said, pipe>>

OrphanExits ==
  /\ orphan /\ orphan' = FALSE
  /\ UNCHANGED <<outside, files, at, env, pc, opened, left, child, stdin, said, pipe>>

Over == Ended /\ UNCHANGED providerVars

ProviderNext ==
  \/ Resolve \/ Upgrade \/ Overwrite \/ ChildReads \/ ChildCloses \/ OrphanExits \/ Over
  \/ \E s \in Streams : ReadOutput(s) \/ ChildWrites(s)
  \/ \E ok \in BOOLEAN : ChildExits(ok)

ProviderSpec == ProviderInit /\ [][ProviderNext]_providerVars

(* dl and its reader threads go on, time passes, and a polite provider reads
   its input.  It need not do anything else. *)
FairProviderSpec ==
  /\ ProviderSpec /\ WF_providerVars(Resolve)
  /\ \A s \in Streams : WF_providerVars(ReadOutput(s))
  /\ WF_providerVars(polite /\ ChildReads)

-----------------------------------------------------------------------------

ProviderTypeOK ==
  /\ at \in 1 .. Len(records) + 1 /\ DOMAIN env = 1 .. Len(records)
  /\ stdin \in 0 .. PipeSize /\ left \in 0 .. Payload
  /\ \A s \in Streams : said[s] \in 0 .. MaxSaid /\ pipe[s] \in 0 .. said[s]
  /\ pc = "join" => child.state = "exited"
  /\ opened # 0 => opened <= installed
  /\ \A f \in 1 .. 2 : bytes[f] \in {f, 3}

(* runtime/mod.rs: the command starts with a value for every record its user
   may read, and with none of the others; providers/mod.rs:248: the value of
   a dynamic one is all that its provider said, none of it cut off, and none
   of it still in the pipe. *)
CommandHasAll ==
  pc = "started" => \A i \in DOMAIN env : (env[i] # NoValue) = records[i].allowed
ValueIsWhole ==
  pc = "next" /\ at > 1 /\ records[at - 1].kind = "dynamic" =>
    child.ok /\ env[at - 1].units = said["out"]

(* A value of a version that is not the pinned one. *)
Unpinned(i) ==
  records[i].kind = "dynamic" /\ env[i] # NoValue /\ records[i].pin \notin {0, env[i].version}

(* providers/mod.rs:162 "execute the exact file that was hashed": a provider
   that is replaced or rewritten at any time gives no value, except between
   the comparison and the execution: on Linux when the opened file itself is
   rewritten there, elsewhere (:164 "accepting the residual path-swap
   window") when another one gets its path after dl opened it, too. *)
OnlyThePinned == \A i \in DOMAIN env : Unpinned(i) => i \in swapped

(* providers/mod.rs:38 "the hashed bytes are the executed bytes", on Linux:
   fails, the opened file can be rewritten. *)
HashedIsExecuted == linux => \A i \in DOMAIN env : ~Unpinned(i)

(* Whenever a run is over, no provider of it is running, except one that
   closed its input unread and was not waited for. *)
NoneLeftRunning == Ended /\ left = 0 => child.state # "running"

(* README.md:693 "Timeout for dynamic provider resolution": a run ends when
   its providers read what they are given, and leave nobody behind. *)
PoliteRunEnds == polite ~> Ended

(* README.md:693 As PoliteRunEnds, with any provider. *)
EveryRunEnds == <>Ended

(* README.md:439 "With `--allow`, the recipient can decrypt only the listed
   secrets": a run that can have every value its user may read starts. *)
LimitedRunStarts ==
  pc = "failed" => \E i \in DOMAIN records : records[i].kind = "dynamic" /\ records[i].allowed
=============================================================================
