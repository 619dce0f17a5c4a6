------------------------------ MODULE AuditLog ------------------------------
(***************************************************************************)
(* The audit log of one vault: an append-only, hash-chained JSONL file,    *)
(* its gzipped predecessors, and a high-water mark (entry count and head). *)
(*                                                                         *)
(* Processes append entries under a lock file, rotate the current file     *)
(* (an append does it under the lock, `dl audit rotate` without), and      *)
(* verify the log (without).  An append may find the disk full, or die, at *)
(* any step; a write may leave half a line.                                *)
(*                                                                         *)
(*   - an entry is its number and the number of its predecessor: a hash    *)
(*     over its content and the predecessor's hash determines both;        *)
(*   - a line that does not parse is Junk; text written behind a line that *)
(*     was not ended with a newline makes one line of the two, and Junk;   *)
(*   - a file is opened once and written through the descriptor, which     *)
(*     follows a rename and outlives an unlink;                            *)
(*   - signatures are left out: nothing here depends on them but the       *)
(*     strictness of the verdict.                                          *)
(***************************************************************************)
EXTENDS Integers, Sequences, SequencesExt

CONSTANTS
  Procs,             \* the `dl` processes
  Nobody,            \* the lock file does not exist
  Dead,              \* the lock file of a process that is gone
  Can,               \* Can[p]: the jobs of p
  MayTear,           \* a write may be cut short
  MaxAppends,        \* bound: appends started
  MaxSeconds,        \* bound: seconds of the clock
  MaxCrashes         \* bound: processes that die

Jobs    == {"append", "rotate", "verify"}
Seconds == 1 .. MaxSeconds

ASSUME HolderAssumption == Nobody \notin Procs /\ Dead \notin Procs /\ Dead # Nobody
ASSUME JobsAssumption == Can \in [Procs -> SUBSET Jobs]
ASSUME TearAssumption == MayTear \in BOOLEAN
ASSUME BoundsAssumption ==
  MaxAppends \in Nat /\ MaxSeconds \in Nat \ {0} /\ MaxCrashes \in Nat

VARIABLES
  current,           \* audit.log
  plain,             \* plain[s]: audit.log.<s>, rotated and not yet gzipped
  gz,                \* gz[s]: audit.log.<s>.gz
  mark,              \* audit.hwm: how many entries there are, and the last
  lock,              \* whose the lock file is: a process, Dead or Nobody
  pc,                \* pc[p]: what p does next
  entry,             \* entry[p]: the number of the entry p appends
  seen,              \* seen[p]: the log as p read it
  fd,                \* fd[p]: the file p has open
  stamp,             \* stamp[p]: the second p stamped on a rotated file
  back,              \* back[p]: where p goes on after gzip
  verdict,           \* verdict[p]: what `dl audit verify` has just told p
  now,               \* the clock, in seconds
  minted, crashes,   \* bounded counters
  returned,          \* history: the entries whose append returned Ok, in order
  known,             \* history: returned, when p read the log to verify it
  disturbed          \* history: a write or gzip was cut short, or a manual
                     \* rotation met an append or another of its second

files   == <<current, plain, gz>>
mine    == <<entry, seen, fd, stamp, back>>
bounds  == <<now, minted, crashes>>
history == <<returned, known, disturbed>>
vars    == <<files, mark, lock, pc, mine, verdict, bounds, history>>

Junk      == [id |-> 0, prev |-> 0]
NoFile    == [lines |-> <<>>, ended |-> FALSE]
EmptyFile == [lines |-> <<>>, ended |-> TRUE]
PartialGz == [lines |-> <<Junk, Junk>>, ended |-> TRUE]   \* gzip -cd fails on it
NoMark    == [count |-> 0, head |-> 0]                    \* ZERO_HASH is 0
None      == 0
Current   == 0                                            \* values of fd[p]
Unlinked  == -1

(* Parsing drops a malformed last line and refuses any other. *)
Parses(f)  == \A i \in 1 .. Len(f.lines) - 1 : f.lines[i] # Junk
Entries(f) ==
  IF f.lines # <<>> /\ Last(f.lines) = Junk THEN Front(f.lines) ELSE f.lines

(* The files in the order of their names, the current one last.  (The
   seconds of the Unix epoch have ten digits, so names sort like numbers.) *)
AllParse == /\ Parses(current)
            /\ \A s \in Seconds : Parses(plain[s]) /\ Parses(gz[s])
AllEntries ==
  FlattenSeq([s \in Seconds |-> Entries(plain[s]) \o Entries(gz[s])]) \o Entries(current)

HeadOf(es) == IF es = <<>> THEN 0 ELSE es[Len(es)].id

(* verify_entries and verify_high_water_mark *)
Chained(es)     == \A i \in 1 .. Len(es) :
                     es[i].prev = IF i = 1 THEN 0 ELSE es[i - 1].id
Reaches(es, m)  == Len(es) >= m.count /\ (m.count > 0 => es[m.count].id = m.head)
Verifies(es, m) == Chained(es) /\ Reaches(es, m)

(* Text goes behind the last newline, or behind whatever is there. *)
Put(f, line) ==
  [lines |-> IF f.ended THEN Append(f.lines, line)
                        ELSE [f.lines EXCEPT ![Len(f.lines)] = Junk],
   ended |-> FALSE]
EndLine(f) == [f EXCEPT !.ended = TRUE]

(* The file behind the descriptor of p, and the effect of a write to it that
   leaves it with `content`.  What is written to an unlinked file is lost. *)
Opened(p) == CASE fd[p] = Current    -> current
               [] fd[p] \in Seconds -> plain[fd[p]]
               [] OTHER              -> EmptyFile

Written(p, content) ==
  /\ current' = IF fd[p] = Current THEN content ELSE current
  /\ plain' = IF fd[p] \in Seconds THEN [plain EXCEPT ![fd[p]] = content] ELSE plain
  /\ UNCHANGED gz

Init ==
  /\ current = NoFile
  /\ plain = [s \in Seconds |-> NoFile] /\ gz = [s \in Seconds |-> NoFile]
  /\ mark = NoMark /\ lock = Nobody
  /\ pc = [p \in Procs |-> "idle"]
  /\ entry = [p \in Procs |-> None]
  /\ seen = [p \in Procs |-> <<>>]
  /\ fd = [p \in Procs |-> Unlinked]
  /\ stamp = [p \in Procs |-> None]
  /\ back = [p \in Procs |-> "idle"]
  /\ verdict = [p \in Procs |-> "none"]
  /\ now = 1 /\ minted = 0 /\ crashes = 0
  /\ returned = <<>> /\ known = [p \in Procs |-> <<>>] /\ disturbed = FALSE

Goto(p, label) == pc' = [pc EXCEPT ![p] = label]

Forget(p) ==
  /\ Goto(p, "idle")
  /\ entry' = [entry EXCEPT ![p] = None]
  /\ fd' = [fd EXCEPT ![p] = Unlinked]
  /\ stamp' = [stamp EXCEPT ![p] = None]
  /\ back' = [back EXCEPT ![p] = "idle"]

(* The job returns, with or without an error; AuditLock is dropped. *)
End(p) ==
  /\ Forget(p)
  /\ seen' = [seen EXCEPT ![p] = <<>>]
  /\ lock' = IF lock = p THEN Nobody ELSE lock

-----------------------------------------------------------------------------
(* append_entry *)

StartAppend(p) ==
  /\ pc[p] = "idle" /\ "append" \in Can[p] /\ minted < MaxAppends
  /\ minted' = minted + 1
  /\ entry' = [entry EXCEPT ![p] = minted']
  /\ verdict' = [verdict EXCEPT ![p] = "none"]
  /\ Goto(p, "lock")
  /\ UNCHANGED <<files, mark, lock, seen, fd, stamp, back, now, crashes, history>>

(* A rotation that nobody does for an append is under way. *)
RotatesBeside == \E p \in Procs : pc[p] \in {"gzip", "compress", "unlink"} /\ lock # p

(* Bug of the mutants: an existing lock file is opened as well. *)
AcquireAnyLock(p) ==
  /\ pc[p] = "lock"
  /\ lock' = p
  /\ Goto(p, "rotate")
  /\ UNCHANGED <<files, mark, mine, verdict, bounds, history>>

(* The lock file is created if it does not exist. *)
AcquireLock(p) ==
  /\ pc[p] = "lock" /\ lock = Nobody
  /\ lock' = p
  /\ disturbed' = (disturbed \/ RotatesBeside)
  /\ Goto(p, "rotate")
  /\ UNCHANGED <<files, mark, mine, verdict, bounds, returned, known>>

(* The time cannot be written into it: the append fails and the file stays. *)
AcquireFail(p) ==
  /\ pc[p] = "lock" /\ lock = Nobody /\ MayTear
  /\ lock' = Dead
  /\ seen' = [seen EXCEPT ![p] = <<>>]
  /\ Forget(p)
  /\ UNCHANGED <<files, mark, verdict, bounds, history>>

(* Bug of the mutants: the lock is waited for without limit. *)
NeverTimeOut(p) == pc[p] = "lock" /\ lock = p /\ End(p) /\ UNCHANGED <<files, mark, verdict, bounds, history>>

(* It existed for ten seconds, whoever made it. *)
TimeOut(p) ==
  /\ pc[p] = "lock" /\ lock # Nobody
  /\ End(p)
  /\ UNCHANGED <<files, mark, verdict, bounds, history>>

(* Bug of the mutants: every rotated file has the same name. *)
RenameToOne(p, next) ==
  /\ plain' = [plain EXCEPT ![1] = current]
  /\ current' = NoFile
  /\ fd' = [q \in Procs |-> IF fd[q] = Current THEN 1 ELSE fd[q]]
  /\ stamp' = [stamp EXCEPT ![p] = 1]
  /\ back' = [back EXCEPT ![p] = next]
  /\ verdict' = [verdict EXCEPT ![p] = "none"]
  /\ Goto(p, "gzip")
  /\ UNCHANGED <<gz, mark, lock, entry, seen, bounds>>

(* rotate_current_log_at: the file gets the second as its extension, over a
   file of that name, and takes the descriptors along. *)
Rename(p, next) ==
  /\ plain' = [plain EXCEPT ![now] = current]
  /\ current' = NoFile
  /\ fd' = [q \in Procs |-> IF fd[q] = Current THEN now
                            ELSE IF fd[q] = now THEN Unlinked ELSE fd[q]]
  /\ stamp' = [stamp EXCEPT ![p] = now]
  /\ back' = [back EXCEPT ![p] = next]
  /\ verdict' = [verdict EXCEPT ![p] = "none"]
  /\ Goto(p, "gzip")
  /\ UNCHANGED <<gz, mark, lock, entry, seen, bounds>>

(* rotate_if_needed: the file is 10 MiB big or 90 days old, or not.  Either
   takes longer than the second in which another file was rotated. *)
RotateIfNeeded(p) ==
  /\ pc[p] = "rotate"
  /\ \/ /\ current # NoFile /\ plain[now] = NoFile /\ gz[now] = NoFile
        /\ Rename(p, "read")
        /\ UNCHANGED history
     \/ /\ Goto(p, "read")
        /\ UNCHANGED <<files, mark, lock, mine, verdict, bounds, history>>

(* dl audit rotate takes no lock, and has one name per second. *)
RotateNow(p) ==
  /\ pc[p] = "idle" /\ "rotate" \in Can[p] /\ current # NoFile
  /\ Rename(p, "idle")
  /\ disturbed' = (disturbed \/ lock \in Procs \/ plain[now] # NoFile \/ gz[now] # NoFile)
  /\ UNCHANGED <<returned, known>>

(* gzip -f starts over an archive of that name ... *)
GzipStart(p) ==
  /\ pc[p] = "gzip" /\ plain[stamp[p]] # NoFile
  /\ gz' = [gz EXCEPT ![stamp[p]] = PartialGz]
  /\ Goto(p, "compress")
  /\ UNCHANGED <<current, plain, mark, lock, mine, verdict, bounds, history>>

(* ... or cannot: it is not installed, or finds no file. *)
GzipFail(p) ==
  /\ pc[p] = "gzip"
  /\ End(p)
  /\ UNCHANGED <<files, mark, verdict, bounds, history>>

(* The archive is complete ... *)
GzipFinish(p) ==
  /\ pc[p] = "compress"
  /\ gz' = [gz EXCEPT ![stamp[p]] = plain[stamp[p]]]
  /\ Goto(p, "unlink")
  /\ UNCHANGED <<current, plain, mark, lock, mine, verdict, bounds, history>>

(* ... and the file goes. *)
GzipUnlink(p) ==
  /\ pc[p] = "unlink"
  /\ plain' = [plain EXCEPT ![stamp[p]] = NoFile]
  /\ fd' = [q \in Procs |-> IF fd[q] = stamp[p] THEN Unlinked ELSE fd[q]]
  /\ stamp' = [stamp EXCEPT ![p] = None]
  /\ back' = [back EXCEPT ![p] = "idle"]
  /\ Goto(p, back[p])
  /\ UNCHANGED <<current, gz, mark, lock, entry, seen, verdict, bounds, history>>

(* Bug of the mutants: only the current file is read. *)
ReadCurrent(p) ==
  /\ pc[p] = "read"
  /\ IF ~Parses(current) \/ mark.count > Len(Entries(current)) + 1
     THEN End(p)
     ELSE /\ seen' = [seen EXCEPT ![p] = Entries(current)]
          /\ Goto(p, "open")
          /\ UNCHANGED <<lock, entry, fd, stamp, back>>
  /\ UNCHANGED <<files, mark, verdict, bounds, history>>

(* Every file is read; a mark that is more than one entry ahead is refused. *)
Read(p) ==
  /\ pc[p] = "read"
  /\ IF ~AllParse \/ mark.count > Len(AllEntries) + 1
     THEN End(p)
     ELSE /\ seen' = [seen EXCEPT ![p] = AllEntries]
          /\ Goto(p, "open")
          /\ UNCHANGED <<lock, entry, fd, stamp, back>>
  /\ UNCHANGED <<files, mark, verdict, bounds, history>>

Open(p) ==
  /\ pc[p] = "open"
  /\ fd' = [fd EXCEPT ![p] = Current]
  /\ current' = IF current = NoFile THEN EmptyFile ELSE current
  /\ Goto(p, "write")
  /\ UNCHANGED <<plain, gz, mark, lock, entry, seen, stamp, back, verdict,
                 bounds, history>>

(* writeln! writes the line ... *)
WriteLine(p) ==
  /\ pc[p] = "write"
  /\ Written(p, Put(Opened(p), [id |-> entry[p], prev |-> HeadOf(seen[p])]))
  /\ Goto(p, "newline")
  /\ UNCHANGED <<mark, lock, mine, verdict, bounds, history>>

(* ... or a part of it, and the append fails ... *)
TearLine(p) ==
  /\ pc[p] = "write" /\ MayTear
  /\ Written(p, Put(Opened(p), Junk))
  /\ disturbed' = TRUE
  /\ End(p)
  /\ UNCHANGED <<mark, verdict, bounds, returned, known>>

(* ... and then the newline. *)
WriteNewline(p) ==
  /\ pc[p] = "newline"
  /\ Written(p, EndLine(Opened(p)))
  /\ Goto(p, "mark")
  /\ UNCHANGED <<mark, lock, mine, verdict, bounds, history>>

(* store_high_water_mark; the append returns Ok. *)
StoreMark(p) ==
  /\ pc[p] = "mark"
  /\ mark' = [count |-> Len(seen[p]) + 1, head |-> entry[p]]
  /\ returned' = Append(returned, entry[p])
  /\ End(p)
  /\ UNCHANGED <<files, verdict, bounds, known, disturbed>>

(* The file cannot be opened, the newline not written, the file not synced
   or the mark not stored. *)
AppendFail(p) ==
  /\ pc[p] \in {"open", "newline", "mark"}
  /\ pc[p] = "newline" => MayTear
  /\ disturbed' = (disturbed \/ pc[p] = "newline")
  /\ End(p)
  /\ UNCHANGED <<files, mark, verdict, bounds, returned, known>>

-----------------------------------------------------------------------------
(* verify_log *)

VerifyRead(p) ==
  /\ pc[p] = "idle" /\ "verify" \in Can[p]
  /\ known' = [known EXCEPT ![p] = returned]
  /\ IF AllParse
     THEN /\ seen' = [seen EXCEPT ![p] = AllEntries]
          /\ verdict' = [verdict EXCEPT ![p] = "none"]
          /\ Goto(p, "verify")
     ELSE /\ verdict' = [verdict EXCEPT ![p] = "bad"]
          /\ UNCHANGED <<pc, seen>>
  /\ UNCHANGED <<files, mark, lock, entry, fd, stamp, back, bounds, returned, disturbed>>

(* The mark is read after the entries. *)
VerifyMark(p) ==
  /\ pc[p] = "verify"
  /\ verdict' = [verdict EXCEPT ![p] = IF Verifies(seen[p], mark) THEN "ok" ELSE "bad"]
  /\ Goto(p, "idle")
  /\ UNCHANGED <<files, mark, lock, mine, bounds, history>>

-----------------------------------------------------------------------------
(* The process dies and its gzip with it.  Its lock file stays. *)
Crash(p) ==
  /\ pc[p] # "idle" /\ crashes < MaxCrashes
  /\ crashes' = crashes + 1
  /\ pc[p] = "newline" => MayTear
  /\ disturbed' = (disturbed \/ pc[p] \in {"newline", "compress", "unlink"})
  /\ lock' = IF lock = p THEN Dead ELSE lock
  /\ seen' = [seen EXCEPT ![p] = <<>>]
  /\ Forget(p)
  /\ UNCHANGED <<files, mark, verdict, now, minted, returned, known>>

(* Somebody removes the file that the time-out names. *)
ClearLock ==
  /\ lock = Dead
  /\ lock' = Nobody
  /\ UNCHANGED <<files, mark, pc, mine, verdict, bounds, history>>

Tick ==
  /\ now < MaxSeconds
  /\ now' = now + 1
  /\ UNCHANGED <<files, mark, lock, pc, mine, verdict, minted, crashes, history>>

Step(p) ==
  \/ AcquireLock(p) \/ AcquireFail(p) \/ TimeOut(p) \/ RotateIfNeeded(p)
  \/ GzipStart(p) \/ GzipFail(p) \/ GzipFinish(p) \/ GzipUnlink(p)
  \/ Read(p) \/ Open(p) \/ WriteLine(p) \/ TearLine(p) \/ WriteNewline(p)
  \/ StoreMark(p) \/ AppendFail(p) \/ VerifyMark(p)

Next ==
  \/ \E p \in Procs :
       StartAppend(p) \/ RotateNow(p) \/ VerifyRead(p) \/ Step(p) \/ Crash(p)
  \/ ClearLock
  \/ Tick

Spec == Init /\ [][Next]_vars

(* A process that runs is scheduled: it does not stop between two steps. *)
Fairness == \A p \in Procs : WF_vars(Step(p))
FairSpec == Spec /\ Fairness

-----------------------------------------------------------------------------
(* Properties *)

Line     == [id : 0 .. MaxAppends, prev : 0 .. MaxAppends]
File     == [lines : Seq(Line), ended : BOOLEAN]
Holding  == {"rotate", "gzip", "compress", "unlink", "read", "open", "write",
             "newline", "mark"}

(* The variables have their types, and the process that made the lock file
   is one that is between acquiring it and dropping it. *)
TypeOK ==
  /\ current \in File
  /\ plain \in [Seconds -> File] /\ gz \in [Seconds -> File]
  /\ mark \in [count : 0 .. 2 * MaxAppends, head : 0 .. MaxAppends]
  /\ lock \in Procs \cup {Nobody, Dead}
  /\ pc \in [Procs -> Holding \cup {"idle", "lock", "verify"}]
  /\ entry \in [Procs -> 0 .. MaxAppends]
  /\ seen \in [Procs -> Seq(Line)]
  /\ fd \in [Procs -> {Unlinked, Current} \cup Seconds]
  /\ stamp \in [Procs -> {None} \cup Seconds]
  /\ back \in [Procs -> {"idle", "read"}]
  /\ verdict \in [Procs -> {"none", "ok", "bad"}]
  /\ now \in Seconds /\ minted \in 0 .. MaxAppends /\ crashes \in 0 .. MaxCrashes
  /\ returned \in Seq(1 .. MaxAppends)
  /\ known \in [Procs -> Seq(1 .. MaxAppends)]
  /\ disturbed \in BOOLEAN
  /\ lock \in Procs => pc[lock] \in Holding

Gzipping == \E p \in Procs : pc[p] \in {"compress", "unlink"}

(* If no line and no gzip was cut short and no manual rotation met an append,
   the log verifies against its mark, whoever died or failed between any two
   steps of an append or a rotation (append_entry, rotate_if_needed,
   verify_entries). *)
IntactLogVerifies == ~disturbed /\ ~Gzipping => AllParse /\ Verifies(AllEntries, mark)

(* s is left when some elements of t are dropped: it can be found in t, in its
   order. *)
SubsequenceOf(s, t) ==
  \E at \in [DOMAIN s -> DOMAIN t] :
    /\ \A i \in DOMAIN s : s[i] = t[at[i]]
    /\ \A i, j \in DOMAIN s : i < j => at[i] < at[j]

(* What an ok of `dl audit verify` is about: each append that had returned Ok
   before it read the log is in what it read, in that order. *)
Complete(p) == SubsequenceOf(known[p], [i \in DOMAIN seen[p] |-> seen[p][i].id])

(* Under the same condition an ok means that no entry is missing, whoever
   appends, rotates, fails or dies meanwhile (append_entry, verify_log). *)
IntactOkIsComplete ==
  ~disturbed => \A p \in Procs : verdict[p] = "ok" => Complete(p)

(* The log as its readers see it when a gzip under way is ignored. *)
History ==
  FlattenSeq([s \in Seconds |->
                IF plain[s] # NoFile THEN Entries(plain[s]) ELSE Entries(gz[s])])
    \o Entries(current)

(* The log only grows at its end: no step of an append or of a rotation
   drops, repeats or reorders an entry, as long as nothing is disturbed. *)
OnlyGrows == [][~disturbed' => IsPrefix(History, History')]_vars

(* An append ends, with the entry written or with an error, even if the lock
   file belongs to a process that died (AuditLock::acquire). *)
EveryAppendEnds == \A p \in Procs : pc[p] = "lock" ~> pc[p] = "idle"

(* "so one torn line can never make the whole log (and further appends, which
   need `read_all_entries`) unreadable" (log.rs:237-239). *)
AlwaysReadable == ~Gzipping => AllParse

(* "so deleting the last N entries is detected even though each remaining
   line still chains correctly" (README.md:569): an ok means that no entry is
   missing. *)
OkMeansComplete == \A p \in Procs : verdict[p] = "ok" => Complete(p)

(* "truncation is tampering" (verify.rs:112): `dl audit verify` does not
   report a log that nothing was cut from. *)
BadMeansDisturbed == \A p \in Procs : verdict[p] = "bad" => disturbed
=============================================================================
