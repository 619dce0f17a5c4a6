------------------------------ MODULE RunProofs ------------------------------
(* Proofs about what `dl run` does before its command starts: the pull
   (GitSync), for any number of commands, commits and pushes; the unlock from
   the session cache (SessionCache), for any commands, times-to-live and cap;
   the providers (Providers), for any vault, provider, pipe and limit. *)
EXTENDS GitSync, SessionCache, Providers, TLAPS

USE NobodyAssumption, MaxMadeAssumption

-----------------------------------------------------------------------------
(* Prefixes of histories.                                                    *)

Histories == Seq(Nat)

(* A prefix is a shorter history with the same commits. *)
LEMMA PrefixElements ==
  ASSUME NEW s \in Histories, NEW t \in Histories
  PROVE  IsPrefix(s, t) <=> Len(s) <= Len(t) /\ \A i \in 1 .. Len(s) : s[i] = t[i]
<1>1. CASE Len(s) <= Len(t)
  <2>1. SubSeq(s, 1, Len(s)) = [i \in 1 .. Len(s) |-> s[i]]
    BY DEF Histories
  <2>2. SubSeq(t, 1, Len(s)) = [i \in 1 .. Len(s) |-> t[i]]
    BY <1>1 DEF Histories
  <2>3. QED
    BY <1>1, <2>1, <2>2 DEF IsPrefix
<1>2. CASE ~(Len(s) <= Len(t))
  BY <1>2 DEF IsPrefix
<1>3. QED
  BY <1>1, <1>2

(* A history is a prefix of itself. *)
LEMMA SameHistory ==
  ASSUME NEW s \in Histories, NEW t \in Histories, Len(s) = Len(t),
         \A i \in 1 .. Len(s) : s[i] = t[i]
  PROVE  s = t
  BY DEF Histories

(* The empty history is a prefix of every other. *)
LEMMA NothingIsPrefix ==
  ASSUME NEW s \in Histories
  PROVE  <<>> \in Histories /\ IsPrefix(<<>>, s)
<1>1. <<>> \in Histories /\ Len(<<>>) = 0 /\ Len(s) \in Nat
  BY DEF Histories
<1>2. QED
  BY <1>1, PrefixElements

(* Every history extends itself. *)
LEMMA PrefixOfItself ==
  ASSUME NEW s \in Histories
  PROVE  IsPrefix(s, s)
  BY PrefixElements DEF Histories

(* Extending is transitive. *)
LEMMA PrefixOfPrefix ==
  ASSUME NEW s \in Histories, NEW t \in Histories, NEW u \in Histories,
         IsPrefix(s, t), IsPrefix(t, u)
  PROVE  /\ IsPrefix(s, u)
         /\ IsStrictPrefix(s, t) \/ IsStrictPrefix(t, u) => IsStrictPrefix(s, u)
<1>1. IsPrefix(s, u)
  BY PrefixElements DEF Histories
<1>2. s = u => Len(s) = Len(t) /\ t = u
  <2>1. Len(s) \in Nat /\ Len(t) \in Nat /\ Len(u) \in Nat
    BY DEF Histories
  <2>2. Len(s) <= Len(t) /\ Len(t) <= Len(u)
    BY PrefixElements
  <2>3. s = u => Len(t) = Len(u)
    BY <2>1, <2>2
  <2>4. QED
    BY <2>3, PrefixElements, SameHistory
<1>3. QED
  BY <1>1, <1>2 DEF IsStrictPrefix

(* A history with a commit more extends the one without. *)
LEMMA PrefixOfLonger ==
  ASSUME NEW s \in Histories, NEW x \in Nat
  PROVE  Append(s, x) \in Histories /\ IsStrictPrefix(s, Append(s, x))
<1>1. Append(s, x) \in Histories /\ Len(Append(s, x)) = Len(s) + 1 /\ Len(s) \in Nat
  BY DEF Histories
<1>2. \A i \in 1 .. Len(s) : s[i] = Append(s, x)[i]
  BY DEF Histories
<1>3. IsPrefix(s, Append(s, x))
  <2>1. Len(s) <= Len(Append(s, x))
    BY <1>1
  <2>2. QED
    BY <1>1, <1>2, <2>1, PrefixElements
<1>4. s # Append(s, x)
  BY <1>1
<1>5. QED
  BY <1>1, <1>3, <1>4 DEF IsStrictPrefix

-----------------------------------------------------------------------------
(* The inductive invariant.                                                  *)

ProcType ==
  [pc : {"idle", "pulling", "fetching", "unlock", "verify", "running", "alarm",
         "syncing", "forward", "synced"},
   cmd : {"none", "run", "sync"},
   child : {"none", "fetch", "pull", "merge", "checkout", "ok", "failed"},
   fetched : Histories,
   told : {"nothing", "pulled", "local", "up to date", "ahead", "fast-forwarded"},
   vault : Nat]

Types ==
  /\ {remote, tracking, head} \subseteq Histories
  /\ work \in [secrets : Nat, vault : Nat]
  /\ merge \in [by : Procs \cup {Nobody}, pc : {"none", "secrets", "vault", "branch"},
                target : Histories]
  /\ proc \in [Procs -> ProcType]
  /\ made \in Nat /\ written \in 0 .. made /\ beside \in BOOLEAN

(* Numbers are given once: what a command wrote, and the user did not commit,
   is in no history. *)
Known(s, m, w) == Len(s) > 0 /\ \A i \in 1 .. Len(s) : s[i] \in (1 .. m) \ {w}
NumbersInv ==
  /\ Known(remote, made, written) /\ Known(tracking, made, written)
  /\ Known(head, made, written)
  /\ merge.pc # "none" => Known(merge.target, made, written)
  /\ \A p \in Procs : proc[p].fetched = <<>> \/ Known(proc[p].fetched, made, written)
  /\ work.secrets \in 1 .. made /\ work.vault \in 1 .. made

(* A checkout runs for the command that started it, from our head to a later
   one, and nobody moves the head meanwhile. *)
ChildInv(p) ==
  /\ merge.by = p <=> proc[p].child = "checkout"
  /\ merge.by = p => merge.target = proc[p].fetched
  /\ proc[p].child \in {"merge", "checkout"} => proc[p].fetched # <<>>
  /\ proc[p].pc \in {"idle", "unlock", "verify", "running", "alarm"} =>
       proc[p].child = "none"
  /\ proc[p].child \in {"pull", "merge", "checkout"} =>
       proc[p].pc \in {"pulling", "forward"}

MergeInv ==
  /\ Merging <=> merge.pc # "none"
  /\ merge.pc # "none" => IsStrictPrefix(head, merge.target)
  /\ \A p \in Procs : ChildInv(p)

(* What a command fetched is in the remote's history as we know it, and in our
   own once its pull has ended well. *)
SeenInv(p) ==
  /\ IsPrefix(proc[p].fetched, tracking)
  /\ proc[p].child = "fetch" => proc[p].pc \in {"fetching", "syncing"}
  /\ proc[p].pc \in {"pulling", "forward"} /\ proc[p].child = "ok" =>
       IsPrefix(proc[p].fetched, head)
  /\ proc[p].told = "pulled" =>
       /\ proc[p].pc \in {"unlock", "verify", "running", "alarm"}
       /\ IsPrefix(proc[p].fetched, head)
  /\ proc[p].pc = "synced" =>
       /\ proc[p].child = "ok"
       /\ IsPrefix(proc[p].fetched, head)
       /\ proc[p].told = "ahead" => IsStrictPrefix(proc[p].fetched, head)

FetchInv == IsPrefix(tracking, remote) /\ \A p \in Procs : SeenInv(p)

(* As long as nobody was beside a merge, only the checkout makes the two files
   differ, and it meets neither local work nor a reader. *)
WorkInv ==
  ~beside =>
    /\ merge.pc # "vault" => Whole
    /\ merge.pc = "vault" => work.secrets = Last(merge.target)
    /\ written # 0 => ~Merging
    /\ \A p \in Procs : proc[p].pc = "verify" =>
         work.secrets = proc[p].vault /\ merge.pc \in {"none", "secrets"}

IInv ==
  /\ Types /\ NumbersInv /\ MergeInv /\ FetchInv /\ WorkInv
  /\ LocalWorkKept /\ NoHalfPair

(* A command that has not started is of the type of commands. *)
LEMMA IdleType == Idle \in ProcType
<1>1. <<>> \in Histories
  BY DEF Histories
<1>2. QED
  BY <1>1 DEF Idle, ProcType

(* A clone that is level with its remote, and nobody at work. *)
LEMMA InitIInv == Init => IInv
<1> SUFFICES ASSUME Init PROVE IInv
  OBVIOUS
<1>1. <<1>> \in Histories /\ <<>> \in Histories /\ Len(<<1>>) = 1
  BY DEF Histories
<1>2. Types
  <2>1. NoMerge \in [by : Procs \cup {Nobody},
          pc : {"none", "secrets", "vault", "branch"}, target : Histories]
    BY <1>1 DEF NoMerge
  <2>2. proc \in [Procs -> ProcType]
    BY IdleType DEF Init
  <2>3. work \in [secrets : Nat, vault : Nat] /\ written \in 0 .. made
    BY DEF Init, Both
  <2>4. QED
    BY <1>1, <2>1, <2>2, <2>3 DEF Init, Types
<1>3. NumbersInv /\ MergeInv /\ WorkInv
  BY <1>1 DEF Init, NumbersInv, Known, MergeInv, ChildInv, WorkInv, Merging, NoMerge,
              Idle, Both, Whole
<1>4. FetchInv
  <2>1. IsPrefix(<<>>, <<1>>)
    BY <1>1, PrefixElements
  <2>2. QED
    BY <1>1, <2>1, PrefixOfItself DEF Init, FetchInv, SeenInv, Idle
<1>5. LocalWorkKept /\ NoHalfPair
  BY DEF Init, LocalWorkKept, NoHalfPair, Idle
<1>6. QED
  BY <1>2, <1>3, <1>4, <1>5 DEF IInv

(* The steps of a command and its child. *)
Step(p) ==
  \/ FetchAnswers(p) \/ ChildFails(p) \/ StartMerge(p)
  \/ (\E autoFetch \in BOOLEAN : StartRun(p, autoFetch)) \/ StartSync(p) \/ Dl(p)
  \/ Classify(p) \/ Forwarded(p) \/ Done(p)

(* What p has become, and that the others are what they were. *)
LEMMA OneMoves ==
  ASSUME Types, NEW p \in Procs, Step(p)
  PROVE  /\ proc' = [proc EXCEPT ![p] = proc'[p]] /\ proc'[p] \in ProcType
         /\ merge' \in [by : Procs \cup {Nobody}, pc : {"none", "secrets", "vault", "branch"},
                        target : Histories]
<1> USE DEF Types
<1>0. proc[p] \in ProcType
  OBVIOUS
<1>1. CASE FetchAnswers(p)
  BY <1>0, <1>1 DEF FetchAnswers, Fetched, ProcType
<1>2. CASE ChildFails(p)
  BY <1>0, <1>2 DEF ChildFails, Ends, ProcType
<1>3. CASE StartMerge(p)
  <2>1. merge' = merge \/ merge' = [by |-> p, pc |-> "secrets", target |-> proc[p].fetched]
    BY <1>3 DEF StartMerge
  <2>2. Ends(p, "ok") \/ Ends(p, "failed") \/ Ends(p, "checkout")
    BY <1>3 DEF StartMerge
  <2>3. PICK x \in {"ok", "failed", "checkout"} : proc' = [proc EXCEPT ![p].child = x]
    BY <2>2 DEF Ends
  <2>4. merge' \in [by : Procs \cup {Nobody}, pc : {"none", "secrets", "vault", "branch"},
                    target : Histories]
    <3>1. proc[p].fetched \in Histories
      BY <1>0 DEF ProcType
    <3>2. QED
      BY <2>1, <3>1
  <2>5. QED
    BY <1>0, <2>3, <2>4 DEF ProcType
<1>4. ASSUME NEW autoFetch \in BOOLEAN, StartRun(p, autoFetch)
      PROVE  proc' = [proc EXCEPT ![p] = proc'[p]] /\ proc'[p] \in ProcType /\ merge' = merge
  <2>1. PICK x \in {"pulling", "unlock"}, y \in {"pull", "none"} :
          proc' = [proc EXCEPT ![p] = [Idle EXCEPT !.cmd = "run", !.pc = x, !.child = y]]
    BY <1>4 DEF StartRun
  <2>2. [Idle EXCEPT !.cmd = "run", !.pc = x, !.child = y] \in ProcType
    BY IdleType DEF ProcType
  <2>3. QED
    BY <1>4, <2>1, <2>2 DEF StartRun
<1>5. CASE StartSync(p)
  <2>1. [Idle EXCEPT !.cmd = "sync", !.pc = "syncing", !.child = "fetch"] \in ProcType
    BY IdleType DEF ProcType
  <2>2. QED
    BY <1>5, <2>1 DEF StartSync
<1>6. CASE PullEnded(p)
  BY <1>0, <1>6 DEF PullEnded, ProcType
<1>7. CASE TimeOut(p)
  BY <1>0, <1>7 DEF TimeOut, ProcType
<1>8. CASE FetchEnded(p)
  BY <1>0, <1>8 DEF FetchEnded, ProcType
<1>9. CASE LoadVault(p)
  BY <1>0, <1>9 DEF LoadVault, ProcType
<1>10. CASE Verify(p)
  BY <1>0, <1>10 DEF Verify, ProcType
<1>11. CASE Classify(p)
  <2> DEFINE state == Classified(head, tracking)
  <2>1. state \in {"up to date", "behind", "ahead", "diverged"}
    BY DEF Classified
  <2>2. CASE state = "behind"
    BY <1>0, <1>11, <2>2 DEF Classify, ProcType
  <2>3. CASE state = "diverged"
    BY <1>11, <2>3, IdleType DEF Classify
  <2>4. CASE state \in {"up to date", "ahead"}
    <3>1. proc' = [proc EXCEPT ![p] = [@ EXCEPT !.pc = "synced", !.told = state]]
      BY <1>11, <2>4 DEF Classify
    <3>2. merge' = merge
      BY <1>11 DEF Classify
    <3>3. QED
      <4> HIDE DEF state
      <4>1. [proc[p] EXCEPT !.pc = "synced", !.told = state] \in ProcType
        BY <1>0, <2>4 DEF ProcType
      <4>2. QED
        BY <3>1, <3>2, <4>1
  <2>5. QED
    BY <2>1, <2>2, <2>3, <2>4
<1>12. CASE Forwarded(p)
  BY <1>0, <1>12 DEF Forwarded, ProcType
<1>13. CASE Done(p)
  BY <1>13, IdleType DEF Done, Finish
<1>14. QED
  BY <1>1, <1>2, <1>3, <1>4, <1>5, <1>6, <1>7, <1>8, <1>9, <1>10, <1>11, <1>12, <1>13
     DEF Step, Dl

(* The checkout writes a commit of its target. *)
LEMMA TargetType ==
  ASSUME Types, NumbersInv, merge.pc # "none"
  PROVE  Last(merge.target) \in (1 .. made) \ {written}
<1>1. merge.target \in Histories /\ Len(merge.target) \in Nat
  BY DEF Types, Histories
<1>2. Known(merge.target, made, written)
  BY DEF NumbersInv
<1>3. QED
  BY <1>1, <1>2 DEF Known, Last

(* A step leaves every variable in its set. *)
LEMMA TypesStep ==
  ASSUME Types, NumbersInv, MergeInv, Next
  PROVE  Types'
<1> USE DEF Types
<1>1. ASSUME NEW p \in Procs, Step(p) PROVE Types'
  <2>0. proc[p] \in ProcType
    OBVIOUS
  <2>1. proc' \in [Procs -> ProcType]
        /\ merge' \in [by : Procs \cup {Nobody}, pc : {"none", "secrets", "vault", "branch"},
                       target : Histories]
    BY <1>1, OneMoves
  <2>2. UNCHANGED <<remote, head, work, made, written>> /\ tracking' \in {tracking, remote}
    BY <1>1 DEF Step, FetchAnswers, Fetched, ChildFails, Ends, StartMerge, StartRun,
                StartSync, Dl, PullEnded, TimeOut, FetchEnded, LoadVault, Verify,
                Classify, Forwarded, Done
  <2>3. beside' \in BOOLEAN
    BY <1>1 DEF Step, FetchAnswers, Fetched, ChildFails, Ends, StartMerge, StartRun,
                StartSync, Dl, PullEnded, TimeOut, FetchEnded, LoadVault, Verify,
                Classify, Forwarded, Done
  <2>4. QED
    BY <2>1, <2>2, <2>3
<1>2. CASE Teammate
  BY <1>2, PrefixOfLonger DEF Teammate
<1>3. CASE UserCommits
  BY <1>3, PrefixOfLonger DEF UserCommits
<1>4. CASE UserPushes
  BY <1>4 DEF UserPushes
<1>5. CASE Set
  BY <1>5 DEF Set, Both, Merging, Reading
<1>6. CASE CheckoutSecrets \/ CheckoutVault
  <2>1. work' \in [secrets : Nat, vault : Nat]
    BY <1>6, TargetType DEF CheckoutSecrets, CheckoutVault
  <2>2. merge' \in [by : Procs \cup {Nobody}, pc : {"none", "secrets", "vault", "branch"},
                   target : Histories]
    BY <1>6 DEF CheckoutSecrets, CheckoutVault
  <2>3. beside' \in BOOLEAN
    BY <1>6 DEF CheckoutSecrets, CheckoutVault, Reading
  <2>4. QED
    BY <1>6, <2>1, <2>2, <2>3 DEF CheckoutSecrets, CheckoutVault
<1>7. CASE MoveBranch
  <2>1. proc' \in [Procs -> ProcType]
    <3>1. CASE proc' = proc
      BY <3>1
    <3>2. CASE merge.by \in Procs /\ proc' = [proc EXCEPT ![merge.by].child = "ok"]
      <4>1. proc[merge.by] \in ProcType
        BY <3>2
      <4>2. [proc[merge.by] EXCEPT !.child = "ok"] \in ProcType
        BY <4>1 DEF ProcType
      <4>3. QED
        BY <3>2, <4>2
    <3>3. QED
      BY <1>7, <3>1, <3>2 DEF MoveBranch
  <2>2. NoMerge \in [by : Procs \cup {Nobody}, pc : {"none", "secrets", "vault", "branch"},
                     target : Histories]
    BY DEF NoMerge, Histories
  <2>3. QED
    BY <1>7, <2>1, <2>2 DEF MoveBranch
<1>8. QED
  BY <1>1, <1>2, <1>3, <1>4, <1>5, <1>6, <1>7 DEF Next, Step

(* A longer history is of known commits, and a new number is in none. *)
LEMMA KnownGrows ==
  ASSUME NEW s \in Histories, NEW m \in Nat, NEW w \in Nat, Known(s, m, w)
  PROVE  /\ Known(s, m + 1, w) /\ Known(s, m + 1, m + 1) /\ Known(s, m, 0)
         /\ \A x \in (1 .. m) : x # w => Known(Append(s, x), m, w)
         /\ Known(Append(s, m + 1), m + 1, 0)
         /\ w <= m => Known(Append(s, m + 1), m + 1, w)
<1>1. Len(s) \in Nat /\ \A i \in 1 .. Len(s) : s[i] \in 1 .. m /\ s[i] # w /\ s[i] # 0
  BY DEF Histories, Known
<1>2. Known(s, m + 1, w) /\ Known(s, m + 1, m + 1) /\ Known(s, m, 0)
  BY <1>1 DEF Known
<1>3. ASSUME NEW x \in Nat
      PROVE  /\ Len(Append(s, x)) = Len(s) + 1
             /\ \A i \in 1 .. Len(s) + 1 :
                  Append(s, x)[i] = IF i = Len(s) + 1 THEN x ELSE s[i]
  BY DEF Histories
<1>4. ASSUME NEW x \in 1 .. m, x # w PROVE Known(Append(s, x), m, w)
  BY <1>1, <1>3, <1>4 DEF Known
<1>5. Known(Append(s, m + 1), m + 1, 0) /\ (w <= m => Known(Append(s, m + 1), m + 1, w))
  BY <1>1, <1>3 DEF Known
<1>6. QED
  BY <1>2, <1>4, <1>5

(* A step numbers no two commits alike and puts local work in no history. *)
LEMMA NumbersStep ==
  ASSUME Types, NumbersInv, MergeInv, Next
  PROVE  NumbersInv'
<1>0. /\ remote \in Histories /\ tracking \in Histories /\ head \in Histories
      /\ merge.target \in Histories /\ made \in Nat /\ written \in 0 .. made
      /\ \A p \in Procs : proc[p].fetched \in Histories /\ proc[p] \in ProcType
      /\ proc \in [Procs -> ProcType]
  BY DEF Types, ProcType
<1>1. ASSUME NEW p \in Procs, Step(p) PROVE NumbersInv'
  <2>1. UNCHANGED <<remote, head, work, made, written>> /\ tracking' \in {tracking, remote}
    BY <1>1 DEF Step, FetchAnswers, Fetched, ChildFails, Ends, StartMerge, StartRun,
                StartSync, Dl, PullEnded, TimeOut, FetchEnded, LoadVault, Verify,
                Classify, Forwarded, Done
  <2>2. proc'[p].fetched \in {proc[p].fetched, remote, <<>>}
    <3>1. CASE FetchAnswers(p)
      BY <1>0, <3>1 DEF FetchAnswers, Fetched, ProcType
    <3>2. CASE ChildFails(p)
      BY <1>0, <3>2 DEF ChildFails, Ends, ProcType
    <3>3. CASE StartMerge(p)
      <4>1. Ends(p, "ok") \/ Ends(p, "failed") \/ Ends(p, "checkout")
        BY <3>3 DEF StartMerge
      <4>2. PICK x : proc' = [proc EXCEPT ![p].child = x]
        BY <4>1 DEF Ends
      <4>3. QED
        BY <1>0, <4>2 DEF ProcType
    <3>4. CASE PullEnded(p)
      BY <1>0, <3>4 DEF PullEnded, ProcType
    <3>5. CASE TimeOut(p)
      BY <1>0, <3>5 DEF TimeOut, ProcType
    <3>6. CASE FetchEnded(p)
      BY <1>0, <3>6 DEF FetchEnded, ProcType
    <3>7. CASE LoadVault(p)
      BY <1>0, <3>7 DEF LoadVault, ProcType
    <3>8. CASE Verify(p)
      BY <1>0, <3>8 DEF Verify, ProcType
    <3>9. CASE Forwarded(p)
      BY <1>0, <3>9 DEF Forwarded, ProcType
    <3>10. CASE Classify(p)
      <4> DEFINE state == Classified(head, tracking)
      <4>1. CASE state = "behind"
        BY <1>0, <3>10, <4>1 DEF Classify, ProcType
      <4>2. CASE state = "diverged"
        BY <1>0, <3>10, <4>2 DEF Classify, Idle
      <4>3. CASE state \in {"up to date", "ahead"}
        <5>1. proc' = [proc EXCEPT ![p] = [@ EXCEPT !.pc = "synced", !.told = state]]
          BY <3>10, <4>3 DEF Classify
        <5>2. QED
          <6> HIDE DEF state
          <6>1. QED
            BY <1>0, <5>1 DEF ProcType
      <4>4. QED
        BY <4>1, <4>2, <4>3 DEF Classified
    <3>11. ASSUME NEW autoFetch \in BOOLEAN, StartRun(p, autoFetch)
           PROVE  proc'[p].fetched = <<>>
      BY <1>0, <3>11 DEF StartRun, Idle
    <3>12. CASE StartSync(p)
      BY <1>0, <3>12 DEF StartSync, Idle
    <3>13. CASE Done(p)
      BY <1>0, <3>13 DEF Done, Finish, Idle
    <3>14. QED
      BY <1>1, <3>1, <3>2, <3>3, <3>4, <3>5, <3>6, <3>7, <3>8, <3>9, <3>10, <3>11,
         <3>12, <3>13 DEF Step, Dl
  <2>3. \/ merge'.pc = "none"
        \/ merge'.target = merge.target /\ merge.pc # "none"
        \/ merge'.target = proc[p].fetched /\ proc[p].child = "merge"
    <3>1. merge' \in {merge, [merge EXCEPT !.by = Nobody]} \/ StartMerge(p)
      BY <1>1 DEF Step, FetchAnswers, Fetched, ChildFails, Ends, StartRun,
                  StartSync, Dl, PullEnded, TimeOut, FetchEnded, LoadVault, Verify,
                  Classify, Forwarded, Done
    <3>2. CASE StartMerge(p)
      BY <3>2 DEF StartMerge
    <3>3. CASE merge' \in {merge, [merge EXCEPT !.by = Nobody]}
      BY <3>3 DEF Types
    <3>4. QED
      BY <3>1, <3>2, <3>3
  <2>4. merge'.pc # "none" => Known(merge'.target, made, written)
    BY <2>3 DEF NumbersInv, MergeInv, ChildInv
  <2>5. \A q \in Procs : proc'[q].fetched = <<>> \/ Known(proc'[q].fetched, made, written)
    <3>1. Known(remote, made, written)
      BY DEF NumbersInv
    <3>2. ASSUME NEW q \in Procs, q # p PROVE proc'[q] = proc[q]
      BY <1>0, <1>1, <3>2, OneMoves
    <3>3. QED
      BY <2>2, <3>1, <3>2 DEF NumbersInv
  <2>6. QED
    BY <2>1, <2>4, <2>5 DEF NumbersInv
<1>2. CASE Teammate
  <2>1. made' = made + 1 /\ UNCHANGED <<tracking, head, work, merge, proc, written>>
        /\ remote' = Append(remote, made + 1)
    BY <1>2 DEF Teammate
  <2>2. QED
    BY <1>0, <2>1, KnownGrows DEF NumbersInv
<1>3. CASE UserCommits
  <2>1. written' = 0 /\ UNCHANGED <<remote, tracking, work, merge, proc, made>>
        /\ head' = Append(head, work.vault)
    BY <1>3 DEF UserCommits
  <2>2. Known(head, made, 0) /\ work.vault \in 1 .. made
    BY <1>0, KnownGrows DEF NumbersInv
  <2>3. Known(head', made, 0)
    BY <1>0, <2>1, <2>2, KnownGrows
  <2>4. QED
    BY <1>0, <2>1, <2>3, KnownGrows DEF NumbersInv
<1>4. CASE UserPushes
  BY <1>4 DEF UserPushes, NumbersInv
<1>5. CASE Set
  <2>1. made' = made + 1 /\ written' = made' /\ UNCHANGED <<remote, tracking, head, merge, proc>>
        /\ work' = [secrets |-> made', vault |-> made']
    BY <1>5 DEF Set, Both
  <2>2. work'.secrets \in 1 .. made' /\ work'.vault \in 1 .. made'
    BY <1>0, <2>1
  <2>3. QED
    BY <1>0, <2>1, <2>2, KnownGrows DEF NumbersInv
<1>6. CASE CheckoutSecrets \/ CheckoutVault
  <2>1. UNCHANGED <<remote, tracking, head, proc, made, written>>
        /\ merge'.target = merge.target /\ merge.pc # "none"
    BY <1>6 DEF CheckoutSecrets, CheckoutVault, Types
  <2>2. work'.secrets \in 1 .. made /\ work'.vault \in 1 .. made
    BY <1>6, <2>1, TargetType DEF CheckoutSecrets, CheckoutVault, NumbersInv, Types
  <2>3. QED
    BY <2>1, <2>2 DEF NumbersInv
<1>7. CASE MoveBranch
  <2>1. UNCHANGED <<remote, tracking, work, made, written>> /\ head' = merge.target
        /\ merge'.pc = "none" /\ merge.pc # "none"
    BY <1>7 DEF MoveBranch, NoMerge
  <2>2. \A p \in Procs : proc'[p].fetched = proc[p].fetched
    BY <1>0, <1>7 DEF MoveBranch, ProcType
  <2>3. QED
    BY <2>1, <2>2 DEF NumbersInv
<1>8. QED
  BY <1>1, <1>2, <1>3, <1>4, <1>5, <1>6, <1>7 DEF Next, Step

(* Histories only grow, the branch of this clone too. *)
LEMMA HistoriesGrow ==
  ASSUME Types, NumbersInv, MergeInv, FetchInv, Next
  PROVE  /\ IsPrefix(remote, remote') /\ IsPrefix(tracking, tracking')
         /\ IsPrefix(tracking', remote') /\ IsPrefix(head, head')
<1>0. /\ remote \in Histories /\ tracking \in Histories /\ head \in Histories
      /\ IsPrefix(remote, remote) /\ IsPrefix(tracking, tracking) /\ IsPrefix(head, head)
      /\ IsPrefix(tracking, remote)
  BY PrefixOfItself DEF Types, FetchInv
<1>1. ASSUME NEW p \in Procs, Step(p)
      PROVE  UNCHANGED <<remote, head>> /\ tracking' \in {tracking, remote}
  BY <1>1 DEF Step, FetchAnswers, Fetched, ChildFails, Ends, StartMerge, StartRun,
              StartSync, Dl, PullEnded, TimeOut, FetchEnded, LoadVault, Verify,
              Classify, Forwarded, Done
<1>2. CASE Teammate
  <2>1. made \in Nat
    BY DEF Types
  <2>2. PICK x \in Nat : remote' = Append(remote, x) /\ UNCHANGED <<tracking, head>>
    BY <1>2, <2>1 DEF Teammate
  <2>3. IsPrefix(remote, remote') /\ remote' \in Histories
    BY <1>0, <2>2, PrefixOfLonger DEF IsStrictPrefix
  <2>4. QED
    BY <1>0, <2>2, <2>3, PrefixOfPrefix
<1>3. CASE UserCommits
  <2>1. PICK x \in Nat : head' = Append(head, x) /\ UNCHANGED <<remote, tracking>>
    BY <1>3 DEF UserCommits, Types
  <2>2. QED
    BY <1>0, <2>1, PrefixOfLonger DEF IsStrictPrefix
<1>4. CASE UserPushes
  <2>1. IsPrefix(remote, head)
    BY <1>4 DEF UserPushes, IsStrictPrefix
  <2>2. IsPrefix(tracking, head)
    BY <1>0, <2>1, PrefixOfPrefix
  <2>3. QED
    BY <1>0, <1>4, <2>1, <2>2 DEF UserPushes
<1>5. CASE Set \/ CheckoutSecrets \/ CheckoutVault
  BY <1>0, <1>5 DEF Set, CheckoutSecrets, CheckoutVault
<1>6. CASE MoveBranch
  <2>1. IsPrefix(head, merge.target)
    BY <1>6 DEF MoveBranch, MergeInv, IsStrictPrefix
  <2>2. QED
    BY <1>0, <1>6, <2>1 DEF MoveBranch
<1>7. QED
  BY <1>0, <1>1, <1>2, <1>3, <1>4, <1>5, <1>6 DEF Next, Step

(* What a command's step may do to a checkout: start its own, or leave it. *)
LEMMA MergeMoves ==
  ASSUME Types, NEW p \in Procs, Step(p)
  PROVE  \/ merge' = merge
         \/ merge.by = p /\ merge' = [merge EXCEPT !.by = Nobody] /\ TimeOut(p)
         \/ /\ StartMerge(p) /\ MayFastForward(p) /\ proc[p].child = "merge"
            /\ merge' = [by |-> p, pc |-> "secrets", target |-> proc[p].fetched]
            /\ proc' = [proc EXCEPT ![p].child = "checkout"]
<1>1. CASE StartMerge(p)
  BY <1>1 DEF StartMerge, Ends
<1>2. CASE TimeOut(p)
  BY <1>2 DEF TimeOut
<1>3. QED
  BY <1>1, <1>2 DEF Step, FetchAnswers, Fetched, ChildFails, Ends, StartRun, StartSync, Dl,
       PullEnded, FetchEnded, LoadVault, Verify, Classify, Forwarded, Done

(* A checkout goes on from the head of this clone. *)
LEMMA MergeStep ==
  ASSUME Types, NumbersInv, MergeInv, Next
  PROVE  MergeInv'
<1>0. /\ head \in Histories /\ merge.target \in Histories
      /\ proc \in [Procs -> ProcType] /\ \A p \in Procs : proc[p] \in ProcType
      /\ merge \in [by : Procs \cup {Nobody}, pc : {"none", "secrets", "vault", "branch"},
                    target : Histories]
  BY DEF Types
<1>1. ASSUME NEW p \in Procs, Step(p) PROVE MergeInv'
  <2>0. proc[p] \in ProcType /\ ChildInv(p) /\ head' = head
    BY <1>0, <1>1 DEF MergeInv, Step, FetchAnswers, Fetched, ChildFails, Ends, StartMerge,
                StartRun, StartSync, Dl, PullEnded, TimeOut, FetchEnded, LoadVault, Verify,
                Classify, Forwarded, Done
  <2>1. \/ merge' = merge
        \/ merge.by = p /\ merge' = [merge EXCEPT !.by = Nobody] /\ TimeOut(p)
        \/ /\ StartMerge(p) /\ MayFastForward(p) /\ proc[p].child = "merge"
           /\ merge' = [by |-> p, pc |-> "secrets", target |-> proc[p].fetched]
           /\ proc' = [proc EXCEPT ![p].child = "checkout"]
    BY <1>1, MergeMoves
  <2>2. /\ Merging' <=> merge'.pc # "none"
        /\ merge'.pc # "none" => IsStrictPrefix(head', merge'.target)
    <3>1. CASE merge' = merge
      BY <2>0, <3>1 DEF MergeInv, Merging
    <3>2. CASE merge.by = p /\ merge' = [merge EXCEPT !.by = Nobody]
      <4>1. merge.by # Nobody
        BY <3>2
      <4>2. merge.pc # "none" /\ merge'.pc = merge.pc /\ merge'.target = merge.target
        BY <1>0, <3>2, <4>1 DEF MergeInv, Merging, NoMerge
      <4>3. QED
        BY <2>0, <4>2 DEF MergeInv, Merging, NoMerge
    <3>3. CASE /\ MayFastForward(p)
               /\ merge' = [by |-> p, pc |-> "secrets", target |-> proc[p].fetched]
      BY <2>0, <3>3 DEF MayFastForward, Behind, Merging, NoMerge
    <3>4. QED
      BY <2>1, <3>1, <3>2, <3>3
  <2>3. ASSUME NEW q \in Procs, q # p PROVE ChildInv(q)'
    <3>1. proc'[q] = proc[q] /\ ChildInv(q)
      BY <1>0, <1>1, <2>3, OneMoves DEF MergeInv
    <3>2. merge'.by = q <=> merge.by = q
      BY <1>0, <2>1, <2>3 DEF MayFastForward, Merging, NoMerge
    <3>3. merge'.by = q => merge'.target = merge.target
      BY <1>0, <2>1, <2>3
    <3>4. QED
      BY <3>1, <3>2, <3>3 DEF ChildInv
  <2>4. ChildInv(p)'
    <3>1. CASE FetchAnswers(p)
      <4>1. merge' = merge /\ proc[p].child \in {"fetch", "pull"}
        BY <3>1 DEF FetchAnswers, Fetched
      <4>2. PICK x \in {"merge", "ok"} :
              /\ proc' = [proc EXCEPT ![p].child = x, ![p].fetched = remote]
              /\ x = "merge" => proc[p].child = "pull"
        BY <3>1 DEF FetchAnswers, Fetched
      <4>3. remote # <<>>
        BY DEF NumbersInv, Known
      <4>4. proc'[p].child = x /\ proc'[p].fetched = remote /\ proc'[p].pc = proc[p].pc
        BY <1>0, <4>2 DEF ProcType
      <4>5. QED
        BY <2>0, <4>1, <4>2, <4>3, <4>4 DEF ChildInv
    <3>2. CASE ChildFails(p)
      BY ZenonT(40), <1>0, <2>0, <3>2 DEF ChildFails, Ends, ProcType, ChildInv
    <3>3. CASE StartMerge(p)
      <4>1. CASE merge' = merge /\ (Ends(p, "ok") \/ Ends(p, "failed"))
        <5>1. PICK x \in {"ok", "failed"} : proc' = [proc EXCEPT ![p].child = x]
          BY <4>1 DEF Ends
        <5>2. proc[p].child = "merge"
          BY <3>3 DEF StartMerge
        <5>3. QED
          BY <1>0, <2>0, <4>1, <5>1, <5>2 DEF ProcType, ChildInv
      <4>2. CASE /\ merge' = [by |-> p, pc |-> "secrets", target |-> proc[p].fetched]
                 /\ Ends(p, "checkout")
        <5>1. proc[p].child = "merge"
          BY <3>3 DEF StartMerge
        <5>2. QED
          BY <1>0, <2>0, <4>2, <5>1 DEF Ends, ProcType, ChildInv
      <4>3. QED
        BY <3>3, <4>1, <4>2 DEF StartMerge
    <3>4. ASSUME NEW autoFetch \in BOOLEAN, StartRun(p, autoFetch) PROVE ChildInv(p)'
      BY <1>0, <2>0, <3>4 DEF StartRun, Idle, ChildInv
    <3>5. CASE StartSync(p)
      BY ZenonT(40), <1>0, <2>0, <3>5 DEF StartSync, Idle, ChildInv, ProcType
    <3>6. CASE PullEnded(p)
      BY ZenonT(40), <1>0, <2>0, <3>6 DEF PullEnded, ProcType, ChildInv
    <3>7. CASE TimeOut(p)
      BY ZenonT(40), <1>0, <2>0, <3>7 DEF TimeOut, ProcType, ChildInv
    <3>8. CASE FetchEnded(p)
      BY <1>0, <2>0, <3>8 DEF FetchEnded, ProcType, ChildInv
    <3>9. CASE LoadVault(p)
      BY <1>0, <2>0, <3>9 DEF LoadVault, ProcType, ChildInv
    <3>10. CASE Verify(p)
      BY <1>0, <2>0, <3>10 DEF Verify, ProcType, ChildInv
    <3>11. CASE Classify(p)
      <4> DEFINE state == Classified(head, tracking)
      <4>0. merge' = merge /\ proc[p].pc = "syncing" /\ proc[p].child = "ok"
        BY <3>11 DEF Classify
      <4>1. CASE state = "behind"
        BY <1>0, <2>0, <3>11, <4>1 DEF Classify, ProcType, ChildInv
      <4>2. CASE state = "diverged"
        BY <1>0, <2>0, <3>11, <4>2 DEF Classify, Idle, ChildInv
      <4>3. CASE state \in {"up to date", "ahead"}
        <5>1. proc' = [proc EXCEPT ![p] = [@ EXCEPT !.pc = "synced", !.told = state]]
          BY <3>11, <4>3 DEF Classify
        <5>2. QED
          <6> HIDE DEF state
          <6>1. QED
            BY ZenonT(40), <1>0, <2>0, <4>0, <5>1 DEF ProcType, ChildInv
      <4>4. QED
        BY <4>1, <4>2, <4>3 DEF Classified
    <3>12. CASE Forwarded(p)
      BY ZenonT(40), <1>0, <2>0, <3>12 DEF Forwarded, ProcType, ChildInv
    <3>13. CASE Done(p)
      BY <1>0, <2>0, <3>13 DEF Done, Finish, Idle, ChildInv
    <3>14. QED
      BY <1>1, <3>1, <3>2, <3>3, <3>4, <3>5, <3>6, <3>7, <3>8, <3>9, <3>10, <3>11,
         <3>12, <3>13 DEF Step, Dl
  <2>5. QED
    BY <2>2, <2>3, <2>4 DEF MergeInv
<1>2. CASE Teammate \/ UserPushes \/ Set
  <2>1. UNCHANGED <<head, merge, proc>>
    BY <1>2 DEF Teammate, UserPushes, Set
  <2>2. QED
    BY <2>1 DEF MergeInv, Merging, ChildInv
<1>3. CASE UserCommits
  BY <1>3 DEF UserCommits, MergeInv, Merging, ChildInv
<1>4. CASE CheckoutSecrets \/ CheckoutVault
  <2>1. UNCHANGED <<head, proc>> /\ merge'.pc # "none" /\ merge.pc # "none"
        /\ merge'.by = merge.by /\ merge'.target = merge.target
    BY <1>0, <1>4 DEF CheckoutSecrets, CheckoutVault
  <2>2. QED
    BY <2>1 DEF MergeInv, Merging, ChildInv, NoMerge
<1>5. CASE MoveBranch
  <2>1. merge' = NoMerge /\ merge.pc = "branch"
        /\ proc' = IF merge.by = Nobody THEN proc ELSE [proc EXCEPT ![merge.by].child = "ok"]
    BY <1>5 DEF MoveBranch
  <2>2. ASSUME NEW q \in Procs PROVE ChildInv(q)'
    <3>1. ChildInv(q)
      BY DEF MergeInv
    <3>2. CASE merge.by = q
      <4>1. proc' = [proc EXCEPT ![q].child = "ok"] /\ proc[q] \in ProcType
        BY <1>0, <2>1, <3>2
      <4>2. proc'[q].child = "ok" /\ proc'[q].pc = proc[q].pc
        BY <1>0, <4>1 DEF ProcType
      <4>3. merge'.by # q /\ proc[q].pc \in {"pulling", "forward"}
        BY <2>1, <3>1, <3>2 DEF ChildInv, NoMerge
      <4>4. QED
        BY <4>2, <4>3 DEF ChildInv
    <3>3. CASE merge.by # q
      BY <1>0, <2>1, <3>1, <3>3 DEF ChildInv, NoMerge
    <3>4. QED
      BY <3>2, <3>3
  <2>3. QED
    BY <2>1, <2>2 DEF MergeInv, Merging, NoMerge
<1>6. QED
  BY <1>1, <1>2, <1>3, <1>4, <1>5 DEF Next, Step

(* What a command has seen stays true while the histories grow. *)
LEMMA SeenStays ==
  ASSUME Types, Types', NEW p \in Procs, SeenInv(p), proc'[p] = proc[p],
         IsPrefix(tracking, tracking'), IsPrefix(head, head')
  PROVE  SeenInv(p)'
<1>1. /\ proc[p].fetched \in Histories /\ tracking \in Histories /\ tracking' \in Histories
      /\ head \in Histories /\ head' \in Histories
  BY DEF Types, ProcType
<1>2. IsPrefix(proc[p].fetched, tracking')
  BY <1>1, PrefixOfPrefix DEF SeenInv
<1>3. /\ IsPrefix(proc[p].fetched, head) => IsPrefix(proc[p].fetched, head')
      /\ IsStrictPrefix(proc[p].fetched, head) => IsStrictPrefix(proc[p].fetched, head')
  BY <1>1, PrefixOfPrefix DEF IsStrictPrefix
<1>4. QED
  BY <1>2, <1>3 DEF SeenInv

(* What has been fetched is of the remote, and what is seen stays true. *)
LEMMA FetchStep ==
  ASSUME Types, Types', NumbersInv, MergeInv, FetchInv, Next
  PROVE  FetchInv'
<1>0. /\ remote \in Histories /\ tracking \in Histories /\ head \in Histories
      /\ tracking' \in Histories /\ head' \in Histories
      /\ proc \in [Procs -> ProcType] /\ \A p \in Procs : proc[p] \in ProcType
      /\ \A p \in Procs : proc[p].fetched \in Histories
  BY DEF Types, ProcType
<1>1. /\ IsPrefix(tracking, tracking') /\ IsPrefix(tracking', remote')
      /\ IsPrefix(head, head')
  BY HistoriesGrow
<1>2. ASSUME NEW p \in Procs, Step(p) PROVE FetchInv'
  <2>0. proc[p] \in ProcType /\ SeenInv(p) /\ ChildInv(p)
    BY <1>0 DEF FetchInv, MergeInv
  <2>1. ASSUME NEW q \in Procs, q # p PROVE SeenInv(q)'
    <3>1. proc'[q] = proc[q] /\ SeenInv(q)
      BY <1>0, <1>2, <2>1, OneMoves DEF FetchInv
    <3>2. QED
      BY <1>1, <3>1, SeenStays
  <2>2. SeenInv(p)'
    <3>1. CASE FetchAnswers(p)
      <4>1. PICK x \in {"merge", "ok"} :
              /\ proc' = [proc EXCEPT ![p].child = x, ![p].fetched = remote]
              /\ x = "ok" => proc[p].child = "fetch"
        BY <3>1 DEF FetchAnswers, Fetched
      <4>2. /\ proc'[p].child = x /\ proc'[p].fetched = remote
            /\ proc'[p].pc = proc[p].pc /\ proc'[p].told = proc[p].told
            /\ tracking' = remote /\ head' = head
        <5>1. tracking' = remote /\ head' = head
          BY <3>1 DEF FetchAnswers, Fetched
        <5>2. QED
          BY <1>0, <4>1, <5>1 DEF ProcType
      <4>3. proc[p].pc \in {"pulling", "forward", "fetching", "syncing"}
        BY <2>0, <3>1 DEF FetchAnswers, SeenInv, ChildInv
      <4>4. IsPrefix(remote, remote)
        BY <1>0, PrefixOfItself
      <4>5. QED
        BY <2>0, <4>1, <4>2, <4>3, <4>4 DEF SeenInv
    <3>2. CASE ChildFails(p)
      <4>1. UNCHANGED <<tracking, head>> /\ proc' = [proc EXCEPT ![p].child = "failed"]
            /\ proc[p].child \in {"fetch", "pull"}
        BY <3>2 DEF ChildFails, Ends
      <4>2. /\ proc'[p].child = "failed" /\ proc'[p].fetched = proc[p].fetched
            /\ proc'[p].pc = proc[p].pc /\ proc'[p].told = proc[p].told
        BY <1>0, <4>1 DEF ProcType
      <4>3. QED
        BY <2>0, <4>1, <4>2 DEF SeenInv
    <3>3. CASE StartMerge(p)
      <4>1. PICK x \in {"ok", "failed", "checkout"} :
              /\ proc' = [proc EXCEPT ![p].child = x]
              /\ x = "ok" => IsPrefix(proc[p].fetched, head)
              /\ proc[p].child = "merge" /\ UNCHANGED <<tracking, head>>
        BY <3>3 DEF StartMerge, Ends
      <4>2. /\ proc'[p].child = x /\ proc'[p].fetched = proc[p].fetched
            /\ proc'[p].pc = proc[p].pc /\ proc'[p].told = proc[p].told
        BY <1>0, <4>1 DEF ProcType
      <4>3. QED
        BY <2>0, <4>1, <4>2 DEF SeenInv
    <3>4. ASSUME NEW autoFetch \in BOOLEAN, StartRun(p, autoFetch) PROVE SeenInv(p)'
      <4>1. /\ proc'[p].fetched = <<>> /\ proc'[p].pc \in {"pulling", "unlock"}
            /\ proc'[p].child \in {"pull", "none"} /\ proc'[p].told = "nothing"
        BY <1>0, <3>4 DEF StartRun, Idle
      <4>2. <<>> \in Histories /\ IsPrefix(<<>>, tracking')
        BY <1>0, NothingIsPrefix
      <4>3. QED
        BY <4>1, <4>2 DEF SeenInv
    <3>5. CASE StartSync(p)
      <4>1. /\ proc'[p].fetched = <<>> /\ proc'[p].pc = "syncing"
            /\ proc'[p].child = "fetch" /\ proc'[p].told = "nothing"
        BY <1>0, <3>5 DEF StartSync, Idle
      <4>2. <<>> \in Histories /\ IsPrefix(<<>>, tracking')
        BY <1>0, NothingIsPrefix
      <4>3. QED
        BY <4>1, <4>2 DEF SeenInv
    <3>6. CASE PullEnded(p)
      BY ZenonT(40), <1>0, <2>0, <3>6 DEF PullEnded, ProcType, SeenInv
    <3>7. CASE TimeOut(p)
      BY <1>0, <2>0, <3>7 DEF TimeOut, ProcType, SeenInv
    <3>8. CASE FetchEnded(p)
      BY <1>0, <2>0, <3>8 DEF FetchEnded, ProcType, SeenInv
    <3>9. CASE LoadVault(p)
      BY ZenonT(40), <1>0, <2>0, <3>9 DEF LoadVault, ProcType, SeenInv, ChildInv
    <3>10. CASE Verify(p)
      BY ZenonT(40), <1>0, <2>0, <3>10 DEF Verify, ProcType, SeenInv, ChildInv
    <3>11. CASE Classify(p)
      <4> DEFINE state == Classified(head, tracking)
      <4>0. /\ proc[p].pc = "syncing" /\ proc[p].child = "ok"
            /\ UNCHANGED <<tracking, head>>
        BY <3>11 DEF Classify
      <4>1. CASE state = "behind"
        <5>1. proc' = [proc EXCEPT ![p] = [@ EXCEPT !.pc = "forward", !.child = "pull"]]
          BY <3>11, <4>1 DEF Classify
        <5>2. QED
          BY ZenonT(40), <1>0, <2>0, <4>0, <5>1 DEF ProcType, SeenInv
      <4>2. CASE state = "diverged"
        <5>1. proc'[p] = Idle
          BY <1>0, <3>11, <4>2 DEF Classify
        <5>2. <<>> \in Histories /\ IsPrefix(<<>>, tracking')
          BY <1>0, NothingIsPrefix
        <5>3. QED
          BY <5>1, <5>2 DEF SeenInv, Idle
      <4>3. CASE state \in {"up to date", "ahead"}
        <5>1. proc' = [proc EXCEPT ![p] = [@ EXCEPT !.pc = "synced", !.told = state]]
          BY <3>11, <4>3 DEF Classify
        <5>2. /\ state = "up to date" => head = tracking
              /\ state = "ahead" => IsStrictPrefix(tracking, head)
          BY DEF Classified, Behind
        <5>3. /\ IsPrefix(proc[p].fetched, head)
              /\ state = "ahead" => IsStrictPrefix(proc[p].fetched, head)
          <6>1. IsPrefix(proc[p].fetched, tracking)
            BY <2>0 DEF SeenInv
          <6>2. CASE state = "up to date"
            BY <5>2, <6>1, <6>2
          <6>3. CASE state = "ahead"
            <7>1. IsStrictPrefix(tracking, head) /\ IsPrefix(tracking, head)
              BY <5>2, <6>3 DEF IsStrictPrefix
            <7>2. IsStrictPrefix(proc[p].fetched, head)
              BY <1>0, <6>1, <7>1, PrefixOfPrefix
            <7>3. QED
              BY <6>3, <7>2 DEF IsStrictPrefix
          <6>4. QED
            BY <4>3, <6>2, <6>3
        <5>4. QED
          <6> HIDE DEF state
          <6>1. /\ proc'[p].pc = "synced" /\ proc'[p].told = state
                /\ proc'[p].child = "ok" /\ proc'[p].fetched = proc[p].fetched
            BY <1>0, <2>0, <4>0, <5>1 DEF ProcType
          <6>2. QED
            BY <2>0, <4>0, <4>3, <5>3, <6>1 DEF SeenInv
      <4>4. QED
        BY <4>1, <4>2, <4>3 DEF Classified
    <3>12. CASE Forwarded(p)
      BY <1>0, <2>0, <3>12 DEF Forwarded, ProcType, SeenInv
    <3>13. CASE Done(p)
      <4>1. proc'[p] = Idle
        BY <1>0, <3>13 DEF Done, Finish
      <4>2. <<>> \in Histories /\ IsPrefix(<<>>, tracking')
        BY <1>0, NothingIsPrefix
      <4>3. QED
        BY <4>1, <4>2 DEF SeenInv, Idle
    <3>14. QED
      BY <1>2, <3>1, <3>2, <3>3, <3>4, <3>5, <3>6, <3>7, <3>8, <3>9, <3>10, <3>11,
         <3>12, <3>13 DEF Step, Dl
  <2>3. QED
    BY <1>1, <2>1, <2>2 DEF FetchInv
<1>3. CASE proc' = proc
  <2>1. \A p \in Procs : SeenInv(p)'
    BY <1>1, <1>3, SeenStays DEF FetchInv
  <2>2. QED
    BY <1>1, <2>1 DEF FetchInv
<1>4. CASE MoveBranch /\ merge.by \in Procs
  <2>1. /\ proc' = [proc EXCEPT ![merge.by].child = "ok"] /\ head' = merge.target
        /\ tracking' = tracking
    BY <1>4 DEF MoveBranch
  <2>2. ASSUME NEW q \in Procs, q # merge.by PROVE SeenInv(q)'
    <3>1. proc'[q] = proc[q] /\ SeenInv(q)
      BY <1>0, <2>1, <2>2 DEF FetchInv
    <3>2. QED
      BY <1>1, <3>1, SeenStays
  <2>3. ASSUME NEW q \in Procs, q = merge.by PROVE SeenInv(q)'
    <3>1. /\ proc'[q].child = "ok" /\ proc'[q].pc = proc[q].pc
          /\ proc'[q].fetched = proc[q].fetched /\ proc'[q].told = proc[q].told
      <4>1. proc[q] \in ProcType /\ proc' = [proc EXCEPT ![q].child = "ok"]
        BY <1>0, <2>1, <2>3
      <4>2. QED
        BY <1>0, <4>1 DEF ProcType
    <3>2. proc[q].pc \in {"pulling", "forward"} /\ head' = proc[q].fetched
      BY <2>1, <2>3 DEF MergeInv, ChildInv
    <3>3. IsPrefix(proc[q].fetched, head') /\ SeenInv(q)
      BY <1>0, <3>2, PrefixOfItself DEF FetchInv
    <3>4. QED
      BY <2>1, <3>1, <3>2, <3>3 DEF SeenInv
  <2>4. QED
    BY <1>1, <2>2, <2>3 DEF FetchInv
<1>5. CASE MoveBranch /\ merge.by \notin Procs
  <2>1. merge.by = Nobody
    BY <1>5 DEF Types
  <2>2. QED
    BY <1>3, <1>5, <2>1 DEF MoveBranch
<1>6. QED
  BY <1>2, <1>3, <1>4, <1>5 DEF Next, Step, Teammate, UserCommits, UserPushes, Set,
     CheckoutSecrets, CheckoutVault

(* Where a command's step takes it, as far as its reading of the pair goes. *)
LEMMA ReaderMoves ==
  ASSUME Types, NEW p \in Procs, Step(p)
  PROVE  \/ proc'[p].pc \notin {"verify", "alarm"}
         \/ proc'[p].pc = proc[p].pc /\ proc'[p].vault = proc[p].vault
         \/ LoadVault(p) /\ proc'[p].pc = "verify" /\ proc'[p].vault = work.vault
         \/ Verify(p) /\ proc'[p].pc = "alarm" /\ work.secrets # proc[p].vault
<1>0. proc \in [Procs -> ProcType] /\ proc[p] \in ProcType
  BY DEF Types
<1>1. ASSUME NEW x, proc' = [proc EXCEPT ![p].child = x]
      PROVE  proc'[p].pc = proc[p].pc /\ proc'[p].vault = proc[p].vault
  BY <1>0, <1>1 DEF ProcType
<1>2. CASE FetchAnswers(p)
  <2>1. PICK x, y : proc' = [proc EXCEPT ![p].child = x, ![p].fetched = y]
    BY <1>2 DEF FetchAnswers, Fetched
  <2>2. QED
    BY <1>0, <2>1 DEF ProcType
<1>3. CASE ChildFails(p)
  BY <1>1, <1>3 DEF ChildFails, Ends
<1>4. CASE StartMerge(p)
  BY <1>1, <1>4 DEF StartMerge, Ends
<1>5. ASSUME NEW autoFetch \in BOOLEAN, StartRun(p, autoFetch)
      PROVE  proc'[p].pc \in {"pulling", "unlock"}
  BY <1>0, <1>5 DEF StartRun, Idle
<1>6. CASE StartSync(p)
  BY <1>0, <1>6 DEF StartSync, Idle
<1>7. CASE PullEnded(p)
  BY <1>0, <1>7 DEF PullEnded, ProcType
<1>8. CASE TimeOut(p)
  BY <1>1, <1>8 DEF TimeOut
<1>9. CASE FetchEnded(p)
  BY <1>0, <1>9 DEF FetchEnded, ProcType
<1>10. CASE LoadVault(p)
  BY <1>0, <1>10 DEF LoadVault, ProcType
<1>11. CASE Verify(p)
  <2>1. CASE work.secrets = proc[p].vault
    BY <1>0, <1>11, <2>1 DEF Verify, ProcType
  <2>2. CASE work.secrets # proc[p].vault
    BY <1>0, <1>11, <2>2 DEF Verify, ProcType
  <2>3. QED
    BY <2>1, <2>2
<1>12. CASE Classify(p)
  <2> DEFINE state == Classified(head, tracking)
  <2>1. CASE state = "behind"
    BY <1>0, <1>12, <2>1 DEF Classify, ProcType
  <2>2. CASE state = "diverged"
    BY <1>0, <1>12, <2>2 DEF Classify, Idle
  <2>3. CASE state \in {"up to date", "ahead"}
    <3>1. proc' = [proc EXCEPT ![p] = [@ EXCEPT !.pc = "synced", !.told = state]]
      BY <1>12, <2>3 DEF Classify
    <3>2. QED
      <4> HIDE DEF state
      <4>1. QED
        BY <1>0, <3>1 DEF ProcType
  <2>4. QED
    BY <2>1, <2>2, <2>3 DEF Classified
<1>13. CASE Forwarded(p)
  BY <1>0, <1>13 DEF Forwarded, ProcType
<1>14. CASE Done(p)
  BY <1>0, <1>14 DEF Done, Finish, Idle
<1>15. QED
  BY <1>2, <1>3, <1>4, <1>5, <1>6, <1>7, <1>8, <1>9, <1>10, <1>11, <1>12, <1>13, <1>14
     DEF Step, Dl

(* A merge writes what no command wrote, and no command reads what it has half
   written, unless beside says so. *)
LEMMA WorkStep ==
  ASSUME IInv, Next
  PROVE  WorkInv' /\ LocalWorkKept' /\ NoHalfPair'
<1>0. /\ proc \in [Procs -> ProcType]
      /\ merge \in [by : Procs \cup {Nobody}, pc : {"none", "secrets", "vault", "branch"},
                    target : Histories]
      /\ work \in [secrets : Nat, vault : Nat] /\ head \in Histories
      /\ beside \in BOOLEAN /\ (Merging <=> merge.pc # "none")
  BY DEF IInv, Types, MergeInv
<1>1. ASSUME ~beside
      PROVE  /\ merge.pc # "vault" => Whole
             /\ merge.pc = "vault" => work.secrets = Last(merge.target)
             /\ written # 0 => ~Merging /\ work = Both(written)
             /\ \A p \in Procs :
                  /\ proc[p].pc = "verify" =>
                       work.secrets = proc[p].vault /\ merge.pc \in {"none", "secrets"}
                  /\ proc[p].pc # "alarm"
  BY <1>1 DEF IInv, WorkInv, LocalWorkKept, NoHalfPair
<1>2. SUFFICES ASSUME ~beside, ~beside'
               PROVE  /\ merge'.pc # "vault" => Whole'
                      /\ merge'.pc = "vault" => work'.secrets = Last(merge'.target)
                      /\ written' # 0 => ~Merging' /\ work' = Both(written)'
                      /\ \A p \in Procs :
                           /\ proc'[p].pc = "verify" =>
                                work'.secrets = proc'[p].vault /\ merge'.pc \in {"none", "secrets"}
                           /\ proc'[p].pc # "alarm"
  <2>1. beside => beside'
    BY DEF Next, Teammate, UserCommits, UserPushes, Set, CheckoutSecrets, CheckoutVault,
           MoveBranch, FetchAnswers, Fetched, ChildFails, Ends, StartMerge,
           StartRun, StartSync, Dl, PullEnded, TimeOut, FetchEnded, LoadVault, Verify,
           Classify, Forwarded, Done
  <2>2. QED
    BY <2>1 DEF WorkInv, LocalWorkKept, NoHalfPair
<1>3. ASSUME NEW p \in Procs, Step(p)
      PROVE  /\ merge'.pc # "vault" => Whole'
             /\ merge'.pc = "vault" => work'.secrets = Last(merge'.target)
             /\ written' # 0 => ~Merging' /\ work' = Both(written)'
             /\ \A q \in Procs :
                  /\ proc'[q].pc = "verify" =>
                       work'.secrets = proc'[q].vault /\ merge'.pc \in {"none", "secrets"}
                  /\ proc'[q].pc # "alarm"
  <2>0. UNCHANGED <<work, written, head>> /\ Types
    BY <1>3 DEF IInv, Step, FetchAnswers, Fetched, ChildFails, Ends, StartMerge,
                StartRun, StartSync, Dl, PullEnded, TimeOut, FetchEnded, LoadVault, Verify,
                Classify, Forwarded, Done
  <2>1. \/ /\ merge'.pc = merge.pc /\ merge'.target = merge.target
           /\ Merging' => Merging
        \/ /\ MayFastForward(p) /\ merge'.pc = "secrets"
    <3>1. CASE merge' = merge
      BY <3>1 DEF Merging
    <3>2. CASE merge.by = p /\ merge' = [merge EXCEPT !.by = Nobody]
      BY <1>0, <3>2 DEF Merging, NoMerge
    <3>3. CASE MayFastForward(p)
               /\ merge' = [by |-> p, pc |-> "secrets", target |-> proc[p].fetched]
      BY <3>3
    <3>4. QED
      BY <1>3, <2>0, <3>1, <3>2, <3>3, MergeMoves
  <2>2. MayFastForward(p) => merge.pc = "none" /\ written = 0
    <3>1. SUFFICES ASSUME MayFastForward(p), written # 0 PROVE FALSE
      BY <1>0 DEF MayFastForward
    <3>2. work = Both(Last(head)) /\ work = Both(written)
      BY <1>1, <1>2, <3>1 DEF MayFastForward, Clean
    <3>3. Last(head) = written
      BY <3>2 DEF Both
    <3>4. Len(head) \in Nat /\ Known(head, made, written)
      BY <1>0 DEF Histories, IInv, NumbersInv
    <3>5. QED
      BY <3>3, <3>4 DEF Known, Last
  <2>3. ASSUME NEW q \in Procs
        PROVE  /\ proc'[q].pc = "verify" =>
                    work'.secrets = proc'[q].vault /\ merge'.pc \in {"none", "secrets"}
               /\ proc'[q].pc # "alarm"
    <3>1. CASE proc'[q].pc = proc[q].pc /\ proc'[q].vault = proc[q].vault
      BY <1>1, <1>2, <2>0, <2>1, <3>1
    <3>2. CASE q = p /\ LoadVault(p) /\ proc'[p].pc = "verify" /\ proc'[p].vault = work.vault
      <4>1. proc[p].pc = "unlock" /\ ~(Merging /\ merge.by # p) /\ merge' = merge
        BY <1>2, <3>2 DEF LoadVault
      <4>2. merge.by # p
        BY <4>1 DEF IInv, MergeInv, ChildInv
      <4>3. merge.pc = "none"
        BY <1>0, <4>1, <4>2
      <4>4. work.secrets = work.vault
        BY <1>1, <1>2, <4>3 DEF Whole
      <4>5. QED
        BY <2>0, <3>2, <4>1, <4>3, <4>4
    <3>3. CASE q = p /\ Verify(p) /\ proc'[p].pc = "alarm" /\ work.secrets # proc[p].vault
      <4>1. proc[p].pc = "verify"
        BY <3>3 DEF Verify
      <4>2. QED
        BY <1>1, <1>2, <3>3, <4>1
    <3>4. CASE q = p
      BY <1>3, <2>0, <3>1, <3>2, <3>3, <3>4, ReaderMoves
    <3>5. CASE q # p
      <4>1. proc'[q] = proc[q]
        BY <1>0, <1>3, <2>0, <3>5, OneMoves
      <4>2. QED
        BY <3>1, <4>1
    <3>6. QED
      BY <3>4, <3>5
  <2>4. /\ merge'.pc # "vault" => Whole'
        /\ merge'.pc = "vault" => work'.secrets = Last(merge'.target)
    BY <1>1, <1>2, <2>0, <2>1, <2>2 DEF Whole
  <2>5. written' # 0 => ~Merging' /\ work' = Both(written)'
    BY <1>1, <1>2, <2>0, <2>1, <2>2 DEF Both
  <2>6. QED
    BY <2>3, <2>4, <2>5
<1>4. CASE Teammate \/ UserPushes
  <2>1. UNCHANGED <<work, merge, proc, written>>
    BY <1>4 DEF Teammate, UserPushes
  <2>2. QED
    BY <1>1, <1>2, <2>1 DEF Whole, Merging, Both
<1>5. CASE UserCommits
  BY <1>1, <1>2, <1>5 DEF UserCommits, Whole, Merging, Both
<1>6. CASE Set
  <2>1. ~Merging /\ ~Reading /\ UNCHANGED <<merge, proc>> /\ work' = Both(made')
        /\ written' = made'
    BY <1>2, <1>6 DEF Set
  <2>2. merge'.pc = "none" /\ ~Merging'
    BY <1>0, <2>1 DEF Merging
  <2>3. \A p \in Procs : proc'[p].pc \notin {"verify", "alarm"}
    BY <1>1, <1>2, <2>1 DEF Reading
  <2>4. Whole' /\ work' = Both(written)'
    BY <2>1 DEF Whole, Both
  <2>5. QED
    BY <2>2, <2>3, <2>4
<1>7. CASE CheckoutSecrets
  <2>1. /\ merge.pc = "secrets" /\ ~Reading /\ UNCHANGED <<proc, written>>
        /\ work' = [work EXCEPT !.secrets = Last(merge.target)]
        /\ merge' = [merge EXCEPT !.pc = "vault"]
    BY <1>2, <1>7 DEF CheckoutSecrets
  <2>2. merge'.pc = "vault" /\ merge'.target = merge.target /\ written = 0
    BY <1>0, <1>1, <1>2, <2>1
  <2>3. work'.secrets = Last(merge'.target)
    BY <1>0, <2>1, <2>2
  <2>4. \A p \in Procs : proc'[p].pc \notin {"verify", "alarm"}
    BY <1>1, <1>2, <2>1 DEF Reading
  <2>5. QED
    BY <2>1, <2>2, <2>3, <2>4
<1>8. CASE CheckoutVault
  <2>1. /\ merge.pc = "vault" /\ UNCHANGED <<proc, written>>
        /\ work' = [work EXCEPT !.vault = Last(merge.target)]
        /\ merge' = [merge EXCEPT !.pc = "branch"]
    BY <1>8 DEF CheckoutVault
  <2>2. merge'.pc = "branch" /\ written = 0 /\ work.secrets = Last(merge.target)
    BY <1>0, <1>1, <1>2, <2>1
  <2>3. Whole'
    BY <1>0, <2>1, <2>2 DEF Whole
  <2>4. \A p \in Procs : proc'[p].pc \notin {"verify", "alarm"}
    BY <1>1, <1>2, <2>1
  <2>5. QED
    BY <2>1, <2>2, <2>3, <2>4
<1>9. CASE MoveBranch
  <2>1. merge.pc = "branch" /\ merge' = NoMerge /\ UNCHANGED <<work, written>>
    BY <1>9 DEF MoveBranch
  <2>2. merge'.pc = "none" /\ ~Merging' /\ written = 0 /\ Whole
    BY <1>0, <1>1, <1>2, <2>1 DEF Merging, NoMerge
  <2>3. ASSUME NEW p \in Procs PROVE proc'[p].pc = proc[p].pc
    <3>1. proc[p] \in ProcType
      BY <1>0
    <3>2. QED
      BY <1>0, <1>9, <3>1 DEF MoveBranch, ProcType
  <2>4. \A p \in Procs : proc'[p].pc \notin {"verify", "alarm"}
    BY <1>1, <1>2, <2>1, <2>3
  <2>5. QED
    BY <2>1, <2>2, <2>4 DEF Whole
<1>10. QED
  BY <1>3, <1>4, <1>5, <1>6, <1>7, <1>8, <1>9 DEF Next, Step

-----------------------------------------------------------------------------
(* The theorems.                                                             *)

(* IInv holds in every reachable state. *)
THEOREM Invariance == Spec => []IInv
<1>1. ASSUME IInv, [Next]_vars PROVE IInv'
  <2>1. CASE Next
    <3>1. Types' /\ NumbersInv' /\ MergeInv'
      BY <1>1, <2>1, TypesStep, NumbersStep, MergeStep DEF IInv
    <3>2. FetchInv'
      BY <1>1, <2>1, <3>1, FetchStep DEF IInv
    <3>3. QED
      BY <1>1, <2>1, <3>1, <3>2, WorkStep DEF IInv
  <2>2. CASE UNCHANGED vars
    <3>1. Types' /\ NumbersInv' /\ MergeInv'
      BY <1>1, <2>2 DEF vars, IInv, Types, NumbersInv, MergeInv, ChildInv, Merging
    <3>2. FetchInv' /\ WorkInv' /\ LocalWorkKept' /\ NoHalfPair'
      BY <1>1, <2>2 DEF vars, IInv, FetchInv, SeenInv, WorkInv, Whole, Merging,
         LocalWorkKept, NoHalfPair
    <3>3. QED
      BY <3>1, <3>2 DEF IInv
  <2>3. QED
    BY <1>1, <2>1, <2>2
<1>2. QED
  BY InitIInv, <1>1, PTL DEF Spec

(* Commits and local writes are numbered up to the bound, so every reachable
   state is well typed. *)
THEOREM GitTypeCorrect == Spec => []TypeOK
<1> DEFINE Bounded == made <= MaxMade
<1>1. Init => Bounded
  BY DEF Init
<1>2. IInv /\ Bounded /\ [Next]_vars => Bounded'
  <2> SUFFICES ASSUME IInv, Bounded, [Next]_vars PROVE Bounded'
    OBVIOUS
  <2>1. CASE Teammate \/ Set
    BY <2>1 DEF Teammate, Set, IInv, Types
  <2>2. ASSUME NEW p \in Procs, Step(p) PROVE made' = made
    BY <2>2 DEF Step, FetchAnswers, Fetched, ChildFails, Ends, StartMerge, StartRun,
                StartSync, Dl, PullEnded, TimeOut, FetchEnded, LoadVault, Verify,
                Classify, Forwarded, Done
  <2>3. CASE UserCommits \/ UserPushes \/ CheckoutSecrets \/ CheckoutVault \/ MoveBranch
    BY <2>3 DEF UserCommits, UserPushes, CheckoutSecrets, CheckoutVault, MoveBranch
  <2>4. CASE UNCHANGED vars
    BY <2>4 DEF vars
  <2>5. QED
    BY <2>1, <2>2, <2>3, <2>4 DEF Next, Step
<1>3. IInv /\ Bounded => TypeOK
  <2> SUFFICES ASSUME IInv, Bounded PROVE TypeOK
    OBVIOUS
  <2>1. ASSUME NEW s \in Histories, Known(s, made, written) PROVE s \in Seq(Numbers)
    <3>1. Len(s) \in Nat /\ s = [i \in 1 .. Len(s) |-> s[i]]
      BY DEF Histories
    <3>2. \A i \in 1 .. Len(s) : s[i] \in Numbers
      BY <2>1, MaxMadeAssumption DEF Known, Numbers, IInv, Types
    <3>3. QED
      BY <3>1, <3>2
  <2>2. {remote, tracking, head} \subseteq Seq(Numbers)
    BY <2>1 DEF IInv, Types, NumbersInv
  <2>3. work \in [secrets : Numbers, vault : Numbers]
    BY MaxMadeAssumption DEF IInv, Types, NumbersInv, Numbers
  <2>4. \A p \in Procs : merge.by = p <=> proc[p].child = "checkout"
    BY DEF IInv, MergeInv, ChildInv
  <2>5. QED
    BY <2>2, <2>3, <2>4 DEF IInv, Types, TypeOK
<1>4. QED
  BY Invariance, <1>1, <1>2, <1>3, PTL DEF Spec

(* What a command wrote, and nobody has committed, stays in both files unless
   it was written beside a checkout. *)
THEOREM LocalWork == Spec => []LocalWorkKept
<1>1. IInv => LocalWorkKept
  BY DEF IInv
<1>2. QED
  BY Invariance, <1>1, PTL

(* `dl sync` says of the branch only what is so when it says it, and for as
   long as it is saying it. *)
THEOREM TruthfulSync == Spec => []SyncTellsTheTruth
<1>1. IInv => SyncTellsTheTruth
  <2>1. SUFFICES ASSUME FetchInv, NEW p \in Procs, proc[p].pc = "synced"
                 PROVE  IF proc[p].told = "ahead" THEN IsStrictPrefix(proc[p].fetched, head)
                                                 ELSE IsPrefix(proc[p].fetched, head)
    BY DEF IInv, SyncTellsTheTruth
  <2>2. QED
    BY <2>1 DEF FetchInv, SeenInv
<1>2. QED
  BY Invariance, <1>1, PTL

(* An alarm about a pair that only dl and git wrote is one of a reader beside a
   checkout that was not its own. *)
THEOREM WholePair == Spec => []NoHalfPair
<1>1. IInv => NoHalfPair
  BY DEF IInv
<1>2. QED
  BY Invariance, <1>1, PTL

(* A run that has pulled is not behind what the remote had. *)
THEOREM CurrentRun == Spec => []RunIsCurrent
<1>1. IInv => RunIsCurrent
  BY DEF IInv, FetchInv, SeenInv, RunIsCurrent
<1>2. QED
  BY Invariance, <1>1, PTL

(* The branch of this clone only grows: no command of dl drops a commit. *)
THEOREM BranchOnlyGrows == Spec => BranchGrows
<1>1. ASSUME IInv, [Next]_vars PROVE [IsPrefix(head, head')]_vars
  <2>1. CASE Next
    BY <1>1, <2>1, HistoriesGrow DEF IInv
  <2>2. QED
    BY <1>1, <2>1
<1>2. QED
  BY Invariance, <1>1, PTL DEF Spec, BranchGrows

-----------------------------------------------------------------------------
(* The session cache.                                                        *)

USE SharedOptInAssumption, TtlAssumption, BoundAssumption
    DEF NoEntry, Torn, NoCommand, GoOn, EndCommand, ended

(* The steps of one command. *)
CacheStep(p) ==
  \/ \E cmd \in Commands, ttl \in Ttls : Start(p, cmd, ttl)
  \/ ReadEntry(p) \/ Judge(p) \/ VerifyKey(p) \/ Prove(p) \/ Prepare(p)
  \/ WriteWrapKey(p) \/ WriteEntry(p) \/ Commit(p) \/ Forget(p) \/ Kill(p)

Cached    == [kind : {"key"}, key : Nat, until : Nat, wrap : Nat, ttl : Nat]
EntryType == [kind : {"none", "torn"}] \cup Cached
UnlockType  ==
  [pc : {"idle", "read", "judge", "verify", "prove", "wrap", "newwrap", "write",
         "commit", "forget"},
   cmd : Commands \cup {"none"}, ttl : Nat, shared : BOOLEAN, opens : Nat,
   key : Nat, seen : EntryType, wrap : Nat, until : Nat]

CacheTypes ==
  /\ clock \in Nat /\ vault \in [key : Nat, shared : BOOLEAN, readable : BOOLEAN]
  /\ wrapKey \in Nat /\ wrapsMade \in Nat /\ closed \in BOOLEAN
  /\ late \subseteq Unlocks
  /\ entry \in EntryType /\ unlock \in [Unlocks -> UnlockType]

(* No file, a torn one, and a command that has not started are of these types. *)
LEMMA EmptyTypes ==
  /\ NoEntry \in EntryType /\ Torn \in EntryType
  /\ NoCommand \in UnlockType
  BY DEF EntryType, UnlockType

(* The initial states are of these types. *)
LEMMA InitCacheTypes == SessionInit => CacheTypes
<1> SUFFICES ASSUME SessionInit PROVE CacheTypes
  OBVIOUS
<1>1. unlock \in [Unlocks -> UnlockType] /\ entry \in EntryType
  <2> HIDE DEF NoCommand, NoEntry
  <2>1. QED
    BY EmptyTypes DEF SessionInit
<1>2. vault \in [key : Nat, shared : BOOLEAN, readable : BOOLEAN]
  BY DEF SessionInit
<1>3. QED
  BY <1>1, <1>2 DEF SessionInit, CacheTypes

(* What p has become, and that the others are what they were. *)
LEMMA OneCommandMoves ==
  ASSUME CacheTypes, NEW p \in Unlocks, CacheStep(p)
  PROVE  /\ unlock' = [unlock EXCEPT ![p] = unlock'[p]] /\ unlock'[p] \in UnlockType
         /\ entry' \in EntryType
<1> USE DEF CacheTypes
<1>0. unlock[p] \in UnlockType
  OBVIOUS
<1>1. ASSUME NEW cmd \in Commands, NEW ttl \in Ttls, Start(p, cmd, ttl)
      PROVE  /\ unlock' = [unlock EXCEPT ![p] = unlock'[p]] /\ unlock'[p] \in UnlockType
             /\ entry' \in EntryType
  BY <1>1 DEF Start, EntryType, UnlockType
<1>2. CASE ReadEntry(p)
  BY <1>2 DEF ReadEntry, Shred, EntryType, UnlockType
<1>3. CASE Judge(p)
  BY <1>3 DEF Judge, Shred, Serves, EntryType, UnlockType
<1>4. CASE VerifyKey(p)
  <2>1. CASE unlock' = [unlock EXCEPT ![p].pc = "wrap"] /\ UNCHANGED entry
    BY <2>1 DEF UnlockType
  <2>2. CASE unlock' = [unlock EXCEPT ![p] = NoCommand] /\ entry' \in {entry, NoEntry}
    BY <2>2, EmptyTypes
  <2>3. QED
    BY <1>4, <2>1, <2>2 DEF VerifyKey, Invalidate, Shred
<1>5. CASE Prove(p)
  <2>1. /\ unlock' = [unlock EXCEPT ![p].pc = "wrap", ![p].key = unlock[p].opens]
        /\ UNCHANGED entry
    BY <1>5 DEF Prove
  <2>2. QED
    BY <1>0, <2>1 DEF UnlockType
<1>6. CASE Prepare(p)
  <2>1. CASE After(p) /\ entry' \in {entry, NoEntry}
    <3>1. entry' \in EntryType
      BY <2>1, EmptyTypes
    <3>2. QED
      BY <1>0, <2>1, <3>1, EmptyTypes DEF After, UnlockType
  <2>2. ASSUME NEW w \in Nat, NEW x \in {"newwrap", "write"},
               unlock' = [unlock EXCEPT ![p] =
                 [[unlock[p] EXCEPT !.until = clock + Ttl(unlock[p].ttl)]
                    EXCEPT !.pc = x, !.wrap = w]],
               UNCHANGED entry
        PROVE  /\ unlock' = [unlock EXCEPT ![p] = unlock'[p]] /\ unlock'[p] \in UnlockType
               /\ entry' \in EntryType
    <3>1. clock + Ttl(unlock[p].ttl) \in Nat
      BY <1>0 DEF Ttl, UnlockType
    <3>2. QED
      BY <1>0, <2>2, <3>1 DEF UnlockType
  <2>3. CASE Off(p)
    BY <1>6, <2>1, <2>3 DEF Prepare, Shred
  <2>4. CASE ~Off(p) /\ wrapKey = 0
    <3>1. wrapsMade + 1 \in Nat
      OBVIOUS
    <3>2. QED
      BY <1>6, <2>2, <2>4, <3>1 DEF Prepare
  <2>5. CASE ~Off(p) /\ wrapKey # 0
    BY <1>6, <2>2, <2>5 DEF Prepare
  <2>6. QED
    BY <2>3, <2>4, <2>5
<1>7. CASE WriteWrapKey(p)
  BY <1>7 DEF WriteWrapKey, UnlockType
<1>8. CASE WriteEntry(p)
  BY <1>8 DEF WriteEntry, After, EntryType, Cached, UnlockType
<1>9. CASE Commit(p)
  <2>1. CASE unlock' = [unlock EXCEPT ![p].pc = "forget"]
    BY <1>0, <1>9, <2>1 DEF Commit, UnlockType
  <2>2. CASE unlock' = [unlock EXCEPT ![p] = NoCommand]
    BY <1>9, <2>2, EmptyTypes DEF Commit
  <2>3. QED
    BY <1>9, <2>1, <2>2 DEF Commit
<1>10. CASE Forget(p)
  BY <1>10 DEF Forget, Invalidate, Shred, EntryType, UnlockType
<1>11. CASE Kill(p)
  BY <1>11 DEF Kill, EntryType, UnlockType
<1>12. QED
  BY <1>1, <1>2, <1>3, <1>4, <1>5, <1>6, <1>7, <1>8, <1>9, <1>10, <1>11 DEF CacheStep

(* A step leaves every variable in its set. *)
LEMMA CacheTypesStep ==
  ASSUME CacheTypes, SessionNext
  PROVE  CacheTypes'
<1> USE DEF CacheTypes
<1>1. ASSUME NEW p \in Unlocks, CacheStep(p) PROVE CacheTypes'
  <2>1. unlock' \in [Unlocks -> UnlockType] /\ entry' \in EntryType
    BY <1>1, OneCommandMoves
  <2>2. unlock[p] \in UnlockType
    OBVIOUS
  <2>3. vault' \in [key : Nat, shared : BOOLEAN, readable : BOOLEAN]
    <3>1. CASE Commit(p)
      <4>1. /\ unlock[p].opens \in Nat /\ unlock[p].opens + 1 \in Nat
            /\ unlock[p].shared \in BOOLEAN
        BY <2>2 DEF UnlockType
      <4>2. CASE vault' = [key |-> unlock[p].opens + 1, shared |-> unlock[p].shared,
                           readable |-> TRUE]
        BY <4>1, <4>2
      <4>3. CASE vault' = [key |-> unlock[p].opens, shared |-> TRUE, readable |-> TRUE]
        BY <4>1, <4>3
      <4>4. QED
        BY <3>1, <4>2, <4>3 DEF Commit
    <3>2. CASE ~Commit(p)
      BY <1>1, <3>2 DEF CacheStep, Start, ReadEntry, Judge, VerifyKey, Prove, Prepare,
                        WriteWrapKey, WriteEntry, Forget, Kill
    <3>3. QED
      BY <3>1, <3>2
  <2>4. wrapKey' \in Nat /\ wrapsMade' \in Nat
    <3>1. CASE WriteWrapKey(p)
      BY <2>2, <3>1 DEF WriteWrapKey, UnlockType
    <3>2. CASE Prepare(p)
      BY <3>2 DEF Prepare
    <3>3. CASE ~WriteWrapKey(p) /\ ~Prepare(p)
      BY <1>1, <3>3 DEF CacheStep, Start, ReadEntry, Judge, VerifyKey, Prove,
                        WriteEntry, Commit, Forget, Kill
    <3>4. QED
      BY <3>1, <3>2, <3>3
  <2>5. closed' \in BOOLEAN /\ late' \subseteq Unlocks /\ clock' \in Nat
    BY <1>1 DEF CacheStep, Start, ReadEntry, Judge, VerifyKey, Prove, Prepare,
                Invalidate, Shred, Closed, WriteWrapKey, WriteEntry, Commit, Forget, Kill
  <2>6. QED
    BY <2>1, <2>3, <2>4, <2>5
<1>2. CASE Tick
  BY <1>2 DEF Tick
<1>3. CASE Conflict
  BY <1>3 DEF Conflict
<1>4. QED
  BY <1>1, <1>2, <1>3 DEF SessionNext, CacheStep

(* A closed session has no cache file, and but for the late commands nobody
   who may yet write one. *)
SessionInv ==
  closed => entry = NoEntry /\ \A q \in Unlocks : Carries(q) => q \in late

(* The others go on as they were. *)
LEMMA OthersCarry ==
  ASSUME CacheTypes, NEW p \in Unlocks, CacheStep(p), NEW q \in Unlocks \ {p}
  PROVE  Carries(q)' = Carries(q)
  BY OneCommandMoves DEF CacheTypes, Carries

(* A command that ends the session calls the others late; one that goes on
   without the cache proves a credential. *)
LEMMA SessionStep ==
  ASSUME CacheTypes, SessionInv, NEW p \in Unlocks, CacheStep(p)
  PROVE  SessionInv'
<1> DEFINE Others == \A q \in Unlocks \ {p} : Carries(q) => q \in late'
<1>0. unlock[p] \in UnlockType /\ unlock \in [Unlocks -> UnlockType]
  BY DEF CacheTypes
<1>1. closed' => entry' = NoEntry /\ Others /\ (Carries(p)' => p \in late')
  <2> USE DEF SessionInv, Carries
  <2>1. ASSUME NEW cmd \in Commands, NEW ttl \in Ttls, Start(p, cmd, ttl)
        PROVE  closed' => entry' = NoEntry /\ Others /\ ~Carries(p)'
    <3>1. ~Carries(p)'
      BY <1>0, <2>1 DEF Start, Commands
    <3>2. UNCHANGED <<entry, closed>> /\ late' = late \ {p}
      BY <2>1 DEF Start
    <3>3. QED
      BY <3>1, <3>2
  <2>2. ASSUME Shred(p), ~Carries(p)'
        PROVE  closed' => entry' = NoEntry /\ Others /\ ~Carries(p)'
    BY <2>2 DEF Shred, Closed
  <2>3. ASSUME UNCHANGED <<entry, ended>>, Carries(p)' => Carries(p) \/ ~closed
        PROVE  closed' => entry' = NoEntry /\ Others /\ (Carries(p)' => p \in late')
    BY <2>3
  <2>4. CASE ReadEntry(p)
    <3>1. CASE Off(p)
      <4>1. Shred(p) /\ unlock'[p].pc = "prove"
        BY <1>0, <2>4, <3>1 DEF ReadEntry, UnlockType
      <4>2. QED
        BY <2>2, <4>1
    <3>2. CASE ~Off(p)
      <4>1. /\ UNCHANGED <<entry, ended>>
            /\ unlock'[p].pc = "prove" \/ entry # NoEntry
        BY <1>0, <2>4, <3>2 DEF ReadEntry, UnlockType
      <4>2. closed => unlock'[p].pc = "prove"
        BY <4>1
      <4>3. QED
        BY <2>3, <4>1, <4>2
    <3>3. QED
      BY <3>1, <3>2
  <2>5. CASE Judge(p)
    <3>1. CASE Serves(unlock[p].seen)
      BY <1>0, <2>3, <2>5, <3>1 DEF Judge, Serves
    <3>2. CASE ~Serves(unlock[p].seen)
      <4>1. Shred(p) /\ unlock'[p].pc = "prove"
        BY <1>0, <2>5, <3>2 DEF Judge, UnlockType
      <4>2. QED
        BY <2>2, <4>1
    <3>3. QED
      BY <3>1, <3>2
  <2>6. CASE VerifyKey(p)
    <3>1. CASE unlock[p].key = unlock[p].opens
      BY <1>0, <2>3, <2>6, <3>1 DEF VerifyKey, GoOn
    <3>2. CASE unlock[p].key # unlock[p].opens
      <4>1. ~Carries(p)' /\ Invalidate(p)
        BY <1>0, <2>6, <3>2 DEF VerifyKey, EndCommand
      <4>2. QED
        BY <2>2, <2>3, <4>1 DEF Invalidate
    <3>3. QED
      BY <3>1, <3>2
  <2>7. CASE Prove(p)
    BY <2>7 DEF Prove
  <2>8. CASE Prepare(p)
    <3>1. CASE Off(p)
      <4>1. Shred(p) /\ After(p)
        BY <2>8, <3>1 DEF Prepare
      <4>2. unlock'[p].pc \in {"idle", "commit"}
        BY <1>0, <4>1 DEF After
      <4>3. QED
        BY <2>2, <4>1, <4>2
    <3>2. CASE ~Off(p)
      BY <2>3, <2>8, <3>2 DEF Prepare
    <3>3. QED
      BY <3>1, <3>2
  <2>9. CASE WriteWrapKey(p)
    BY <1>0, <2>3, <2>9 DEF WriteWrapKey, GoOn
  <2>10. CASE WriteEntry(p)
    BY <2>10 DEF WriteEntry
  <2>11. CASE Commit(p)
    <3>1. unlock'[p].pc \in {"idle", "forget"}
      BY <1>0, <2>11 DEF Commit, UnlockType
    <3>2. QED
      BY <2>3, <2>11, <3>1 DEF Commit
  <2>12. CASE Forget(p)
    <3>1. ~Carries(p)' /\ Invalidate(p)
      BY <1>0, <2>12 DEF Forget, EndCommand
    <3>2. QED
      BY <2>2, <2>3, <3>1 DEF Invalidate
  <2>13. CASE Kill(p)
    <3>1. ~Carries(p)'
      BY <1>0, <2>13 DEF Kill, EndCommand
    <3>2. closed => entry' = NoEntry
      BY <2>13 DEF Kill
    <3>3. QED
      BY <2>13, <3>1, <3>2 DEF Kill
  <2>14. QED
    BY <2>1, <2>4, <2>5, <2>6, <2>7, <2>8, <2>9, <2>10, <2>11, <2>12, <2>13 DEF CacheStep
<1>2. \A q \in Unlocks \ {p} : Carries(q)' = Carries(q)
  BY OthersCarry
<1>3. QED
  BY <1>1, <1>2 DEF SessionInv

(* What is written in a file ends no later than its writer's time-to-live. *)
TtlInv ==
  /\ entry.kind = "key" => entry.until <= clock + entry.ttl
  /\ \A p \in Unlocks :
       /\ unlock[p].pc = "write" \/ unlock[p].pc = "newwrap" =>
            unlock[p].until <= clock + unlock[p].ttl
       /\ unlock[p].seen.kind = "key" => unlock[p].seen.until <= clock + unlock[p].seen.ttl
       /\ unlock[p].pc = "verify" => unlock[p].seen.ttl > 0

(* No entry lives longer than its time-to-live, so one of zero seconds is over
   when it is written. *)
LEMMA TtlStep ==
  ASSUME CacheTypes, TtlInv, NEW p \in Unlocks, CacheStep(p)
  PROVE  TtlInv'
<1> DEFINE Mine == /\ unlock'[p].pc = "write" \/ unlock'[p].pc = "newwrap" =>
                        unlock'[p].until <= clock + unlock'[p].ttl
                   /\ unlock'[p].seen.kind = "key" =>
                        unlock'[p].seen.until <= clock + unlock'[p].seen.ttl
                   /\ unlock'[p].pc = "verify" => unlock'[p].seen.ttl > 0
                   /\ entry'.kind = "key" => entry'.until <= clock + entry'.ttl
<1>0. unlock[p] \in UnlockType /\ unlock \in [Unlocks -> UnlockType] /\ clock \in Nat
  BY DEF CacheTypes
<1>1. UNCHANGED clock
  BY DEF CacheStep, Start, ReadEntry, Judge, VerifyKey, Prove, Prepare,
         WriteWrapKey, WriteEntry, Commit, Forget, Kill
<1>2. Mine
  <2> USE DEF TtlInv
  <2>1. ASSUME NEW cmd \in Commands, NEW ttl \in Ttls, Start(p, cmd, ttl)
        PROVE  Mine
    BY <1>0, <2>1 DEF Start, Commands
  <2>2. CASE ReadEntry(p)
    BY <1>0, <2>2 DEF ReadEntry, Shred, UnlockType
  <2>3. CASE Judge(p)
    BY <1>0, <2>3 DEF Judge, Shred, Serves, Expired, UnlockType, EntryType, Cached
  <2>4. CASE VerifyKey(p)
    BY <1>0, <2>4 DEF VerifyKey, Invalidate, Shred, UnlockType
  <2>5. CASE Prove(p)
    BY <1>0, <2>5 DEF Prove, UnlockType
  <2>6. CASE Prepare(p)
    <3>1. CASE Off(p)
      <4>1. unlock'[p].pc \in {"idle", "commit"} /\ unlock'[p].seen.kind = "none"
        <5>1. After(p)
          BY <2>6, <3>1 DEF Prepare
        <5>2. CASE unlock[p].cmd = "get"
          BY <1>0, <5>1, <5>2 DEF After
        <5>3. CASE unlock[p].cmd # "get"
          <6>1. unlock'[p] = [NoCommand EXCEPT !.pc = "commit", !.cmd = unlock[p].cmd,
                               !.shared = unlock[p].shared, !.opens = unlock[p].opens]
            BY <1>0, <5>1, <5>3 DEF After
          <6>2. QED
            BY <6>1
        <5>4. QED
          BY <5>2, <5>3
      <4>2. entry' \in {entry, NoEntry}
        BY <2>6, <3>1 DEF Prepare, Shred
      <4>3. QED
        BY <1>0, <4>1, <4>2
    <3>2. CASE ~Off(p)
      <4>1. /\ unlock'[p].until = clock + Ttl(unlock[p].ttl)
            /\ unlock'[p].ttl = unlock[p].ttl /\ unlock'[p].seen = unlock[p].seen
            /\ unlock'[p].pc # "verify" /\ entry' = entry
        <5>1. PICK x \in {"newwrap", "write"}, w \in {wrapKey, wrapsMade + 1} :
                unlock' = [unlock EXCEPT ![p] =
                  [[unlock[p] EXCEPT !.until = clock + Ttl(unlock[p].ttl)]
                     EXCEPT !.pc = x, !.wrap = w]]
          BY <2>6, <3>2 DEF Prepare
        <5>2. UNCHANGED entry
          BY <2>6, <3>2 DEF Prepare
        <5>3. QED
          BY <1>0, <5>1, <5>2 DEF UnlockType
      <4>2. /\ Ttl(unlock[p].ttl) <= unlock[p].ttl
            /\ Ttl(unlock[p].ttl) \in Nat /\ unlock[p].ttl \in Nat
        BY <1>0 DEF Ttl, UnlockType
      <4>3. QED
        BY <1>0, <4>1, <4>2
    <3>3. QED
      BY <3>1, <3>2
  <2>7. CASE WriteWrapKey(p)
    BY <1>0, <2>7 DEF WriteWrapKey, UnlockType
  <2>8. CASE WriteEntry(p)
    <3>1. entry'.kind = "key" => entry'.until <= clock + entry'.ttl
      BY <1>0, <2>8 DEF WriteEntry
    <3>2. QED
      BY <1>0, <2>8, <3>1 DEF WriteEntry, After, UnlockType
  <2>9. CASE Commit(p)
    BY <1>0, <2>9 DEF Commit, UnlockType
  <2>10. CASE Forget(p) \/ Kill(p)
    BY <1>0, <2>10 DEF Forget, Kill, Invalidate, Shred
  <2>11. QED
    BY <2>1, <2>2, <2>3, <2>4, <2>5, <2>6, <2>7, <2>8, <2>9, <2>10 DEF CacheStep
<1>3. QED
  BY <1>0, <1>1, <1>2, OneCommandMoves DEF TtlInv

CacheInv == CacheTypes /\ SessionInv /\ TtlInv

(* CacheInv holds in every reachable state. *)
THEOREM CacheInvariance == SessionSpec => []CacheInv
<1>1. SessionInit => CacheInv
  <2>1. SessionInit => SessionInv /\ TtlInv
    BY DEF SessionInit, SessionInv, Carries, TtlInv
  <2>2. QED
    BY <2>1, InitCacheTypes DEF CacheInv
<1>2. CacheInv /\ [SessionNext]_sessionVars => CacheInv'
  <2> SUFFICES ASSUME CacheInv, [SessionNext]_sessionVars
               PROVE  CacheInv'
    OBVIOUS
  <2>1. ASSUME NEW p \in Unlocks, CacheStep(p) PROVE CacheInv'
    BY <2>1, SessionStep, TtlStep, CacheTypesStep DEF CacheInv, SessionNext, CacheStep
  <2>2. CASE Tick
    <3>1. SessionInv'
      BY <2>2 DEF Tick, CacheInv, SessionInv, Carries
    <3>2. TtlInv'
      BY <2>2 DEF Tick, CacheInv, TtlInv, CacheTypes, EntryType, Cached, UnlockType
    <3>3. QED
      BY <2>2, <3>1, <3>2, CacheTypesStep DEF CacheInv, SessionNext
  <2>3. CASE Conflict
    <3>1. SessionInv' /\ TtlInv'
      BY <2>3 DEF Conflict, CacheInv, SessionInv, Carries, TtlInv
    <3>2. QED
      BY <2>3, <3>1, CacheTypesStep DEF CacheInv, SessionNext
  <2>4. CASE UNCHANGED sessionVars
    BY <2>4 DEF sessionVars, CacheInv, CacheTypes, SessionInv, Carries, TtlInv
  <2>5. QED
    BY <2>1, <2>2, <2>3, <2>4 DEF SessionNext, CacheStep
<1>3. QED
  BY <1>1, <1>2, PTL DEF SessionSpec

(* Once a lock, a rotation, an alarm or shared mode has ended the session,
   whatever commands are under way, nobody is served from the cache before
   somebody has proved a credential or one of these commands has written it
   again; and of the commands only these may go on with the key. *)
THEOREM SessionEnds == SessionSpec => []LockEndsSession
<1>1. CacheInv => LockEndsSession
  BY DEF CacheInv, SessionInv, LockEndsSession, Serves, Carries
<1>2. QED
  BY <1>1, CacheInvariance, PTL

(* With a time-to-live of zero nobody is served. *)
THEOREM ZeroIsOff == SessionSpec => []ZeroTurnsItOff
<1>1. CacheInv => ZeroTurnsItOff
  BY DEF CacheInv, TtlInv, ZeroTurnsItOff
<1>2. QED
  BY <1>1, CacheInvariance, PTL

-----------------------------------------------------------------------------
(* The providers.                                                            *)

USE PipeAssumption, VaultsAssumption
    DEF outside, files, Streams, Silent, NoValue, Plain, NoChild, ChildIdle, Fail

RecordType == [kind : {"static", "dynamic"}, allowed : BOOLEAN,
               boot : SUBSET Nat, pin : Nat]

ChildType == [state : {"none", "running", "exited"}, version : Nat,
              ok : BOOLEAN, reads : BOOLEAN]

(* What every variable is, and that nothing is read that was not written. *)
ProviderTypes ==
  /\ records \in Seq(RecordType) /\ polite \in BOOLEAN /\ linux \in BOOLEAN
  /\ installed \in 0 .. 2 /\ opened \in 0 .. 2 /\ opened <= installed
  /\ bytes \in [1 .. 2 -> Nat] /\ \A f \in 1 .. 2 : bytes[f] \in {f, 3}
  /\ at \in 1 .. Len(records) + 1
  /\ env \in [1 .. Len(records) -> [version : Nat, units : Nat]]
  /\ pc \in {"next", "open", "hash", "spawn", "write", "poll", "join", "killed",
             "started", "failed"}
  /\ left \in 0 .. Payload /\ stdin \in 0 .. PipeSize
  /\ child \in ChildType
  /\ said \in [Streams -> 0 .. MaxSaid] /\ pipe \in [Streams -> Nat]
  /\ \A s \in Streams : pipe[s] <= said[s]
  /\ orphan \in BOOLEAN

(* Unless its binary was swapped, the record dl is at has a pin that fits the
   file that is compared, opened and executed, and the version that runs. *)
PinInv ==
  /\ pc \in {"open", "hash", "spawn", "write", "poll", "join", "killed"} =>
       at <= Len(records)
  /\ pc \in {"hash", "spawn", "write", "poll", "join", "killed"} => opened # 0
  /\ pc \in {"hash", "spawn"} /\ ~linux /\ at \notin swapped => opened = installed
  /\ pc = "spawn" /\ at \notin swapped => Record.pin \in {0, bytes[opened]}
  /\ pc \in {"write", "poll", "join", "killed"} /\ at \notin swapped =>
       Record.pin \in {0, child.version}
  /\ pc \in {"write", "poll", "join", "killed"} =>
       child.version # 0 /\ child.state # "none"

(* Between two providers nobody writes to the pipes any more. *)
QuietInv ==
  /\ pc \in {"next", "open", "hash", "spawn", "started"} =>
       child.state # "running" /\ ~orphan
  /\ pc = "join" => child.state = "exited"

(* The records dl has been at have a value if they may, the others have none;
   the one it is at may, and comes from a version there is. *)
ValuesInv ==
  /\ \A i \in 1 .. Len(records) :
       /\ i < at => (env[i] # NoValue) = records[i].allowed
       /\ i >= at => env[i] = NoValue
  /\ pc \in {"open", "hash", "spawn", "write", "poll", "join", "killed"} =>
       Record.allowed
  /\ pc = "started" => at = Len(records) + 1

ProviderInv ==
  /\ ProviderTypes /\ PinInv /\ QuietInv /\ ValuesInv
  /\ OnlyThePinned /\ ValueIsWhole /\ NoneLeftRunning

(* A vault was read, and nothing has been asked for. *)
LEMMA InitProviderInv ==
  ASSUME ProviderInit
  PROVE  ProviderInv
<1>1. records \in Seq(RecordType)
  BY DEF ProviderInit, RecordType
<1>2. Len(records) \in Nat
  BY <1>1
<1>3. env \in [1 .. Len(records) -> [version : Nat, units : Nat]]
  BY <1>2 DEF ProviderInit
<1>4. ProviderTypes
  <2>1. installed \in 0 .. 2 /\ 0 <= installed
    BY DEF ProviderInit
  <2>7. bytes \in [1 .. 2 -> Nat] /\ \A f \in 1 .. 2 : bytes[f] \in {f, 3}
    BY DEF ProviderInit
  <2>2. at \in 1 .. Len(records) + 1
    BY <1>2 DEF ProviderInit
  <2>3. said \in [Streams -> 0 .. MaxSaid] /\ pipe \in [Streams -> Nat]
        /\ \A s \in Streams : pipe[s] <= said[s]
    BY DEF ProviderInit
  <2>4. child \in ChildType
    BY DEF ProviderInit, ChildType
  <2>5. left \in 0 .. Payload /\ stdin \in 0 .. PipeSize
    BY DEF ProviderInit
  <2>6. polite \in BOOLEAN /\ linux \in BOOLEAN /\ orphan \in BOOLEAN
    BY Zenon DEF ProviderInit
  <2>8. opened \in 0 .. 2 /\ opened <= installed /\ pc = "next"
    BY <2>1 DEF ProviderInit
  <2>9. QED
    BY <1>1, <1>3, <2>1, <2>2, <2>3, <2>4, <2>5, <2>6, <2>7, <2>8 DEF ProviderTypes
<1>5. PinInv /\ QuietInv /\ ValueIsWhole /\ NoneLeftRunning
  BY DEF ProviderInit, PinInv, QuietInv, ValueIsWhole, NoneLeftRunning, Ended
<1>6. OnlyThePinned
  BY DEF ProviderInit, OnlyThePinned, Unpinned
<1>7. ValuesInv
  BY <1>2 DEF ProviderInit, ValuesInv
<1>8. QED
  BY <1>4, <1>5, <1>6, <1>7 DEF ProviderInv

(* A step leaves every variable in its set. *)
LEMMA ProviderTypesStep ==
  ASSUME ProviderTypes, PinInv, ProviderNext
  PROVE  ProviderTypes'
<1> USE DEF ProviderTypes, PinInv
<1>0. Len(records) \in Nat /\ (at <= Len(records) => Record \in RecordType)
  BY DEF Record
<1>1. CASE Static
  BY <1>0, <1>1 DEF Static
<1>2. CASE Dynamic
  BY <1>2 DEF Dynamic
<1>3. CASE Open
  BY <1>3 DEF Open
<1>4. CASE Compare
  BY <1>4 DEF Compare
<1>5. CASE Spawn
  <2>1. child' = Running(bytes[Executed]) /\ Running(bytes[Executed]) \in ChildType
    BY <1>5 DEF Spawn, Executed, Running, ChildType
  <2>2. said' \in [Streams -> 0 .. MaxSaid] /\ pipe' \in [Streams -> Nat]
        /\ \A s \in Streams : pipe'[s] <= said'[s]
    BY <1>5 DEF Spawn
  <2>3. left' \in 0 .. Payload /\ stdin' \in 0 .. PipeSize
    BY <1>5 DEF Spawn
  <2>4. QED
    BY <1>5, <2>1, <2>2, <2>3 DEF Spawn
<1>6. CASE WriteInput
  <2>1. left' \in 0 .. Payload /\ stdin' \in 0 .. PipeSize
    BY SMTT(30), <1>6 DEF WriteInput
  <2>2. pc' \in {"write", "failed"} /\ UNCHANGED <<at, env>>
    BY <1>6 DEF WriteInput
  <2>3. QED
    BY <1>6, <2>1, <2>2 DEF WriteInput
<1>7. CASE InputWritten \/ SeeExit \/ StartCommand \/ JoinKilled
  BY <1>7 DEF InputWritten, SeeExit, StartCommand, JoinKilled
<1>8. CASE TimeOutProvider
  <2>1. child' \in ChildType
    BY <1>8 DEF TimeOutProvider, ChildType
  <2>2. QED
    BY <1>8, <2>1 DEF TimeOutProvider
<1>9. CASE Join
  <2>1. [version |-> child.version, units |-> Kept("out")] \in [version : Nat, units : Nat]
    BY DEF Kept, Read, ChildType
  <2>2. env' \in [1 .. Len(records) -> [version : Nat, units : Nat]]
    BY <1>9, <2>1 DEF Join
  <2>3. at' \in 1 .. Len(records) + 1 /\ pc' \in {"next", "failed"}
    BY <1>0, <1>9 DEF Join
  <2>4. QED
    BY <1>9, <2>2, <2>3 DEF Join
<1>10. CASE Upgrade \/ Overwrite
  <2>1. installed' \in 0 .. 2 /\ opened' = opened /\ opened <= installed'
    BY <1>10 DEF Upgrade, Overwrite, DlIdle
  <2>2. bytes' \in [1 .. 2 -> Nat] /\ \A f \in 1 .. 2 : bytes'[f] \in {f, 3}
    BY <1>10 DEF Upgrade, Overwrite
  <2>3. DlIdle
    BY <1>10 DEF Upgrade, Overwrite
  <2>4. QED
    BY <2>1, <2>2, <2>3 DEF DlIdle
<1>11. CASE ChildReads
  BY <1>11 DEF ChildReads
<1>12. CASE ChildCloses
  <2>1. child' \in ChildType
    BY <1>12 DEF ChildCloses, ChildType
  <2>2. QED
    BY <1>12, <2>1 DEF ChildCloses
<1>13. CASE OrphanExits \/ Over
  BY <1>13 DEF OrphanExits, Over, providerVars
<1>14. ASSUME NEW s \in Streams, ReadOutput(s) PROVE ProviderTypes'
  BY <1>14 DEF ReadOutput
<1>15. ASSUME NEW s \in Streams, ChildWrites(s) PROVE ProviderTypes'
  BY SMTT(30), <1>15 DEF ChildWrites
<1>16. ASSUME NEW ok \in BOOLEAN, ChildExits(ok) PROVE ProviderTypes'
  <2>1. child' \in ChildType
    BY <1>16 DEF ChildExits, ChildType
  <2>2. QED
    BY <1>16, <2>1 DEF ChildExits
<1>17. QED
  BY <1>1, <1>2, <1>3, <1>4, <1>5, <1>6, <1>7, <1>8, <1>9, <1>10, <1>11, <1>12,
     <1>13, <1>14, <1>15, <1>16 DEF ProviderNext, Resolve

(* Unless it was swapped, only a version that was compared with the pin runs
   and gives a value. *)
LEMMA PinStep ==
  ASSUME ProviderTypes, PinInv, OnlyThePinned, ProviderNext
  PROVE  PinInv' /\ OnlyThePinned'
<1> USE DEF ProviderTypes, PinInv, OnlyThePinned, Unpinned, Record, ChildType
<1>1. CASE Static
  BY <1>1 DEF Static
<1>2. CASE Dynamic \/ Open \/ Compare
  BY <1>2 DEF Dynamic, Open, Compare
<1>3. CASE Spawn
  BY <1>3 DEF Spawn, Executed, Running
<1>4. CASE WriteInput \/ InputWritten \/ SeeExit \/ StartCommand \/ JoinKilled
  <2>1. CASE WriteInput
    BY <2>1 DEF WriteInput
  <2>2. CASE InputWritten
    BY <2>2 DEF InputWritten
  <2>3. CASE SeeExit
    BY <2>3 DEF SeeExit
  <2>4. CASE StartCommand
    BY <2>4 DEF StartCommand
  <2>5. CASE JoinKilled
    BY <2>5 DEF JoinKilled
  <2>6. QED
    BY <1>4, <2>1, <2>2, <2>3, <2>4, <2>5
<1>5. CASE TimeOutProvider
  BY <1>5 DEF TimeOutProvider
<1>6. CASE Join
  <2>1. PinInv'
    BY <1>6 DEF Join
  <2>2. at \notin swapped => Record.pin \in {0, child.version}
    BY <1>6 DEF Join
  <2>3. \A i \in DOMAIN env :
          \/ env'[i] = env[i]
          \/ i = at /\ env'[i].version = child.version
    BY <1>6 DEF Join
  <2>4. DOMAIN env' = DOMAIN env /\ UNCHANGED <<records, swapped>>
    BY <1>6 DEF Join
  <2>5. ASSUME NEW i \in DOMAIN env', Unpinned(i)'
        PROVE  i \in swapped'
    <3>1. CASE env'[i] = env[i]
      <4>1. Unpinned(i) /\ i \in DOMAIN env
        BY <2>4, <2>5, <3>1
      <4>2. QED
        BY <2>4, <4>1
    <3>2. CASE i = at /\ env'[i].version = child.version
      BY <2>2, <2>4, <2>5, <3>2
    <3>3. QED
      BY <2>3, <2>4, <3>1, <3>2
  <2>6. QED
    BY <2>1, <2>5
<1>7. CASE Upgrade \/ Overwrite
  <2>1. DlIdle /\ swapped \subseteq swapped'
    BY <1>7 DEF Upgrade, Overwrite
  <2>2. OnlyThePinned'
    BY <2>1 DEF DlIdle
  <2>3. CASE Upgrade
    BY <2>1, <2>3 DEF DlIdle, Upgrade
  <2>4. CASE Overwrite
    <3>1. pc = "spawn" /\ at \notin swapped' => bytes'[opened] = bytes[opened]
      BY <2>4 DEF Overwrite
    <3>2. QED
      BY <2>1, <2>4, <3>1 DEF DlIdle, Overwrite
  <2>5. QED
    BY <1>7, <2>2, <2>3, <2>4
<1>11. CASE ChildReads \/ ChildCloses \/ OrphanExits \/ Over
  BY <1>11 DEF ChildReads, ChildCloses, OrphanExits, Over, providerVars
<1>8. ASSUME NEW s \in Streams, ReadOutput(s) \/ ChildWrites(s)
      PROVE  PinInv' /\ OnlyThePinned'
  BY <1>8 DEF ReadOutput, ChildWrites
<1>9. ASSUME NEW ok \in BOOLEAN, ChildExits(ok)
      PROVE  PinInv' /\ OnlyThePinned'
  BY <1>9 DEF ChildExits
<1>10. QED
  BY <1>1, <1>2, <1>3, <1>4, <1>5, <1>6, <1>7, <1>8, <1>9, <1>11 DEF ProviderNext, Resolve

(* A provider that has been joined, or never started, leaves its output and
   itself as they are until the next one. *)
LEMMA QuietStep ==
  ASSUME ProviderTypes, PinInv, QuietInv, ValueIsWhole, NoneLeftRunning, ProviderNext
  PROVE  QuietInv' /\ ValueIsWhole' /\ NoneLeftRunning'
<1> USE DEF ProviderTypes, PinInv, QuietInv, ValueIsWhole, NoneLeftRunning,
            Record, Ended, ChildType
<1>1. CASE Static
  BY <1>1 DEF Static
<1>2. CASE Dynamic \/ Open \/ Compare
  <2>1. CASE Dynamic
    BY <2>1 DEF Dynamic
  <2>2. CASE Open
    BY <2>2 DEF Open
  <2>3. CASE Compare
    BY <2>3 DEF Compare
  <2>4. QED
    BY <1>2, <2>1, <2>2, <2>3
<1>3. CASE Spawn
  BY <1>3 DEF Spawn, Executed, Running
<1>4. CASE WriteInput \/ InputWritten \/ SeeExit \/ StartCommand \/ JoinKilled
  <2>1. CASE WriteInput
    BY SMTT(30), <2>1 DEF WriteInput
  <2>2. CASE InputWritten
    BY <2>2 DEF InputWritten
  <2>3. CASE SeeExit
    BY <2>3 DEF SeeExit
  <2>4. CASE StartCommand
    BY <2>4 DEF StartCommand
  <2>5. CASE JoinKilled
    BY <2>5 DEF JoinKilled
  <2>6. QED
    BY <1>4, <2>1, <2>2, <2>3, <2>4, <2>5
<1>5. CASE TimeOutProvider
  BY <1>5 DEF TimeOutProvider
<1>6. CASE Join
  <2>1. child.state = "exited" /\ ~orphan /\ pipe["out"] = 0
    BY <1>6 DEF Join, AtEnd, Alive
  <2>2. Read("out") = said["out"]
    BY <2>1 DEF Read
  <2>3. ~Truncated("out") => Kept("out") = said["out"]
    BY <2>2 DEF Truncated, Kept
  <2>4. QED
    BY <1>6, <2>1, <2>3 DEF Join
<1>7. CASE Upgrade \/ Overwrite \/ ChildReads \/ ChildCloses \/ OrphanExits \/ Over
  <2>1. CASE Upgrade \/ Overwrite
    <3>1. DlIdle
      BY <2>1 DEF Upgrade, Overwrite
    <3>2. QED
      BY <3>1 DEF DlIdle
  <2>2. CASE ChildReads
    BY <2>2 DEF ChildReads
  <2>3. CASE ChildCloses
    BY <2>3 DEF ChildCloses
  <2>4. CASE OrphanExits
    BY <2>4 DEF OrphanExits
  <2>5. CASE Over
    BY <2>5 DEF Over, providerVars
  <2>6. QED
    BY <1>7, <2>1, <2>2, <2>3, <2>4, <2>5
<1>8. ASSUME NEW s \in Streams, ReadOutput(s) \/ ChildWrites(s)
      PROVE  QuietInv' /\ ValueIsWhole' /\ NoneLeftRunning'
  BY <1>8 DEF ReadOutput, ChildWrites
<1>9. ASSUME NEW ok \in BOOLEAN, ChildExits(ok)
      PROVE  QuietInv' /\ ValueIsWhole' /\ NoneLeftRunning'
  BY <1>9 DEF ChildExits
<1>10. QED
  BY <1>1, <1>2, <1>3, <1>4, <1>5, <1>6, <1>7, <1>8, <1>9 DEF ProviderNext, Resolve

(* A value is given to the record dl is at, if its user may read it. *)
LEMMA ValuesStep ==
  ASSUME ProviderTypes, PinInv, ValuesInv, ProviderNext
  PROVE  ValuesInv'
<1> USE DEF ProviderTypes, PinInv, ValuesInv, Record
<1>0. Len(records) \in Nat /\ (at <= Len(records) => Record \in RecordType)
  OBVIOUS
<1>1. CASE Static
  <2>1. Record.allowed \in BOOLEAN
    BY <1>0, <1>1 DEF Static, RecordType
  <2>2. env'[at] = (IF Record.allowed THEN Plain ELSE NoValue)
        /\ Plain # NoValue
    BY <1>1 DEF Static
  <2>3. (env'[at] # NoValue) = records[at].allowed
    BY <2>1, <2>2
  <2>4. \A i \in 1 .. Len(records) : i # at => env'[i] = env[i]
    BY <1>1 DEF Static
  <2>5. at' = at + 1 /\ pc' = "next" /\ UNCHANGED records
    BY <1>1 DEF Static
  <2>6. at \in 1 .. Len(records)
    BY <1>0, <1>1 DEF Static
  <2>7. ASSUME NEW i \in 1 .. Len(records)
        PROVE  /\ i < at + 1 => (env'[i] # NoValue) = records[i].allowed
               /\ i >= at + 1 => env'[i] = NoValue
    <3>1. CASE i = at
      BY <1>0, <2>3, <2>6, <3>1
    <3>2. CASE i # at
      <4>1. (i < at + 1 => i < at) /\ (i >= at + 1 => i >= at)
        BY <1>0, <2>6, <3>2
      <4>2. env'[i] = env[i]
        BY <2>4, <3>2
      <4>3. /\ i < at => (env[i] # NoValue) = records[i].allowed
            /\ i >= at => env[i] = NoValue
        OBVIOUS
      <4>4. QED
        BY <4>1, <4>2, <4>3
    <3>3. QED
      BY <3>1, <3>2
  <2>8. QED
    BY <2>5, <2>7
<1>2. CASE Dynamic \/ Open \/ Compare
  <2>1. CASE Dynamic
    BY <2>1 DEF Dynamic, MayResolve
  <2>2. CASE Open
    BY <2>2 DEF Open
  <2>3. CASE Compare
    BY <2>3 DEF Compare
  <2>4. QED
    BY <1>2, <2>1, <2>2, <2>3
<1>3. CASE Spawn
  BY <1>3 DEF Spawn
<1>4. CASE WriteInput \/ InputWritten \/ SeeExit \/ StartCommand \/ JoinKilled
  <2>1. CASE WriteInput
    BY <2>1 DEF WriteInput
  <2>2. CASE InputWritten
    BY <2>2 DEF InputWritten
  <2>3. CASE SeeExit
    BY <2>3 DEF SeeExit
  <2>4. CASE StartCommand
    BY <1>0, <2>4 DEF StartCommand
  <2>5. CASE JoinKilled
    BY <2>5 DEF JoinKilled
  <2>6. QED
    BY <1>4, <2>1, <2>2, <2>3, <2>4, <2>5
<1>5. CASE TimeOutProvider
  BY <1>5 DEF TimeOutProvider
<1>6. CASE Join
  <2>1. CASE pc' = "next"
    <3>1. env' = [env EXCEPT ![at] = [version |-> child.version, units |-> Kept("out")]]
          /\ at' = at + 1 /\ UNCHANGED records
      BY <1>6, <2>1 DEF Join
    <3>2. env'[at].version = child.version /\ child.version # 0 /\ NoValue.version = 0
      BY <1>0, <1>6, <3>1 DEF Join
    <3>3. (env'[at] # NoValue) = records[at].allowed
      <4>1. env'[at] # NoValue
        BY <3>2
      <4>2. records[at].allowed /\ records[at].allowed \in BOOLEAN
        BY <1>0, <1>6 DEF Join, RecordType
      <4>3. QED
        BY <4>1, <4>2
    <3>4. \A i \in 1 .. Len(records) : i # at => env'[i] = env[i]
      BY <3>1
    <3>5. QED
      BY <1>0, <2>1, <3>1, <3>3, <3>4
  <2>2. CASE pc' = "failed"
    BY <1>6, <2>2 DEF Join
  <2>3. QED
    BY <1>6, <2>1, <2>2 DEF Join
<1>7. CASE Upgrade \/ Overwrite
  <2>1. DlIdle
    BY <1>7 DEF Upgrade, Overwrite
  <2>2. QED
    BY <2>1 DEF DlIdle
<1>11. CASE ChildReads \/ ChildCloses \/ OrphanExits \/ Over
  <2>1. UNCHANGED <<records, at, env, pc, opened>>
    BY <1>11 DEF ChildReads, ChildCloses, OrphanExits, Over, providerVars
  <2>2. QED
    BY <2>1
<1>8. ASSUME NEW s \in Streams, ReadOutput(s) \/ ChildWrites(s)
      PROVE  ValuesInv'
  <2>1. UNCHANGED <<records, at, env, pc, opened>>
    BY <1>8 DEF ReadOutput, ChildWrites
  <2>2. QED
    BY <2>1
<1>9. ASSUME NEW ok \in BOOLEAN, ChildExits(ok)
      PROVE  ValuesInv'
  BY <1>9 DEF ChildExits
<1>10. QED
  BY <1>1, <1>2, <1>3, <1>4, <1>5, <1>6, <1>7, <1>8, <1>9, <1>11 DEF ProviderNext, Resolve

(* ProviderInv holds in every reachable state. *)
THEOREM ProviderInvariance == ProviderSpec => []ProviderInv
<1>1. ProviderInv /\ UNCHANGED providerVars => ProviderInv'
  BY DEF providerVars, ProviderInv, ProviderTypes, PinInv, QuietInv, ValuesInv, OnlyThePinned, Unpinned,
         ValueIsWhole, NoneLeftRunning, Record, Ended
<1>2. ProviderInv /\ ProviderNext => ProviderInv'
  BY ProviderTypesStep, PinStep, QuietStep, ValuesStep DEF ProviderInv
<1>3. QED
  BY InitProviderInv, <1>1, <1>2, PTL DEF ProviderSpec

(* Every reachable state of a run and its providers is well typed. *)
THEOREM ProviderTypeCorrect == ProviderSpec => []ProviderTypeOK
<1>1. ProviderInv => ProviderTypeOK
  BY DEF ProviderInv, ProviderTypes, QuietInv, ProviderTypeOK
<1>2. QED
  BY ProviderInvariance, <1>1, PTL

(* The command starts with every value its user may read, and no other. *)
THEOREM EveryValueThere == ProviderSpec => []CommandHasAll
<1>1. ProviderInv => CommandHasAll
  BY DEF ProviderInv, ProviderTypes, ValuesInv, CommandHasAll
<1>2. QED
  BY ProviderInvariance, <1>1, PTL

(* What was compared with the pin gives the value, whatever replaces or
   rewrites the binary, unless that is between comparison and execution and to
   the file that is executed: the opened one on Linux, elsewhere the one at
   the path, which may be another one from when dl opened its own. *)
THEOREM PinnedValues == ProviderSpec => []OnlyThePinned
  BY ProviderInvariance, PTL DEF ProviderInv

(* A value is all that its provider said. *)
THEOREM WholeValues == ProviderSpec => []ValueIsWhole
  BY ProviderInvariance, PTL DEF ProviderInv

(* No provider outlives the run, unless it closed its input unread. *)
THEOREM NoProviderLeft == ProviderSpec => []NoneLeftRunning
  BY ProviderInvariance, PTL DEF ProviderInv
=============================================================================
