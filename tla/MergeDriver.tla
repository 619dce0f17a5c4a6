----------------------------- MODULE MergeDriver -----------------------------
(***************************************************************************)
(* Two branches of one vault pair, the git merge driver that joins them,   *)
(* the pending-merge marker it leaves, and `dl reconcile`.                 *)
(*                                                                         *)
(* One developer works in a clone (`tree`, its files, and `head`, its      *)
(* branch) and merges the branch `theirs` of another one.  Git resolves a  *)
(* file that one side alone changed by itself, and runs the driver for     *)
(* every other, secrets.lock before vault.toml.  It writes the results to  *)
(* the working tree at the end; the marker is written at once, and git     *)
(* ignores it.                                                             *)
(*                                                                         *)
(*   - a whole `dl` command on a branch is one step (VaultTxn, and         *)
(*     VaultCommands for what happens between commands), but a `dl set` of *)
(*     the developer may be under way while git runs: it unlocks in one    *)
(*     step and commits in another;                                        *)
(*   - a hash is the content itself; keys, record ids and values are       *)
(*     numbers, minted fresh; the MAC is sealed or cleared;                *)
(*   - two clocks: the time of a record is any of Times;                   *)
(*   - the other developer never merges; the project uuid is the same.     *)
(***************************************************************************)
EXTENDS Integers, FiniteSets

CONSTANTS
  Names,             \* the names of secrets
  People,            \* those who may be recipients
  Times,             \* what a clock may say
  Version,           \* the version of the records of the first base
  MaxOps,            \* bound: commands on the two branches
  MaxMerges          \* bound: merges started

Ours   == "ours"     \* the two developers, who are also the signers of grants
Theirs == "theirs"
Sides  == {Ours, Theirs}

ASSUME TimesAssumption == Times \subseteq Nat \ {0} /\ 1 \in Times   \* the first base is of 1
ASSUME VersionAssumption == Version \in Nat \ {0}
ASSUME BoundsAssumption == MaxOps \in Nat /\ MaxMerges \in Nat

VARIABLES
  tree,              \* the pair in the working tree
  head,              \* the pair of the developer's branch
  theirs,            \* the pair of the other branch
  base,              \* the pair both branches come from
  marker,            \* .lock/pending-merge
  git,               \* what git does: "none", "secrets", "vault", "finish" or
                     \* "conflict" (it left the merge to the developer)
  result,            \* the files that git has merged so far, and the conflicts
  work,              \* the developer's command under way
  fresh,             \* the newest number minted
  ops, merges,       \* bounded counters
  joined,            \* history: the merge whose result is in the tree, if any
  raced              \* history: a merge happened inside a command

vars == <<tree, head, theirs, base, marker, git, result, work, fresh, ops,
          merges, joined, raced>>
repo   == <<head, theirs, base>>
bounds == <<fresh, ops, merges>>

None == 0
Insert(f, k, x) == [i \in DOMAIN f \cup {k} |-> IF i = k THEN x ELSE f[i]]
Without(f, ks)  == [i \in DOMAIN f \ ks |-> f[i]]

NoRecord == [id |-> <<>>, ver |-> 0, time |-> 0, sdk |-> None, val |-> None]
Manual   == [NoRecord EXCEPT !.val = -1]         \* not a record: an error
Absent   == [dek |-> None, sdks |-> [i \in {} |-> 0], full |-> FALSE, by |-> "none"]
NoMarker == [on |-> FALSE, secrets |-> {}, vault |-> {}, ids |-> {}, won |-> {}]
Idle     == [at |-> "idle", name |-> "none", meta |-> {}, git |-> FALSE]
NoResult == [secrets |-> {}, vault |-> {}, conflict |-> FALSE]
NoMerge  == {}

-----------------------------------------------------------------------------
(* The commands, as functions of a pair.                                    *)

Known(v) == {q \in People : v.rcpt[q] # Absent}

(* recipient_grant_is_valid *)
ValidGrant(r, signers) == r.by \in signers
(* Once there are signers, a recipient without a valid grant gets no key. *)
MayGet(v, q) == v.signers = {} \/ ValidGrant(v.rcpt[q], v.signers)

Openable(p, n) ==
  p.secrets[n] # NoRecord =>
    LET r == p.secrets[n]
    IN  r.id \in DOMAIN p.vault.wraps
        /\ p.vault.wraps[r.id] = [sdk |-> r.sdk, under |-> p.vault.dek]

(* The hash in vault.toml is that of secrets.lock, and every record decrypts. *)
Usable(p) == p.vault.hash = p.secrets /\ \A n \in Names : Openable(p, n)

(* Every commit seals the metadata and moves the epoch. *)
Committed(v, s) ==
  [vault |-> [v EXCEPT !.epoch = @ + 1, !.sealed = TRUE, !.hash = s], secrets |-> s]

(* upsert_record: a record keeps its id and, if it is wrapped, its SDK. *)
AfterSet(v, s, n, t) ==
  LET old == s[n]
      new == old = NoRecord
      id  == IF new THEN <<n, fresh + 1>> ELSE old.id
      sdk == IF ~new /\ id \in DOMAIN v.wraps THEN v.wraps[id].sdk ELSE fresh + 1
      record == [id |-> id, ver |-> old.ver + 1, time |-> t, sdk |-> sdk,
                 val |-> fresh + 1]
      rcpt == [q \in People |->
                 IF v.rcpt[q].full /\ MayGet(v, q)
                 THEN [v.rcpt[q] EXCEPT !.sdks = Insert(@, id, sdk)] ELSE v.rcpt[q]]
  IN  Committed([v EXCEPT !.wraps = Insert(@, id, [sdk |-> sdk, under |-> v.dek]),
                          !.rcpt = rcpt],
                [s EXCEPT ![n] = record])

AfterUnset(v, s, n) ==
  LET gone == {s[n].id}
  IN  Committed([v EXCEPT !.wraps = Without(@, gone),
                          !.rcpt = [q \in People |->
                             [v.rcpt[q] EXCEPT !.sdks = Without(@, gone)]]],
                [s EXCEPT ![n] = NoRecord])

(* rotate_secret_sdks_after_acl_removal: the record is encrypted anew. *)
AfterRemoval(v, s, n, who, t) ==
  LET id   == s[n].id
      sdk  == fresh + 1
      rcpt == [q \in People |->
                 CASE q = who -> [v.rcpt[q] EXCEPT !.sdks = Without(@, {id}), !.full = FALSE]
                   [] q # who /\ MayGet(v, q)
                        /\ (v.rcpt[q].full \/ id \in DOMAIN v.rcpt[q].sdks)
                      -> [v.rcpt[q] EXCEPT !.sdks = Insert(@, id, sdk)]
                   [] OTHER -> v.rcpt[q]]
  IN  Committed([v EXCEPT !.wraps = Insert(@, id, [sdk |-> sdk, under |-> v.dek]),
                          !.rcpt = rcpt],
                [s EXCEPT ![n].ver = @ + 1, ![n].time = t, ![n].sdk = sdk])

(* rotate_project_key_wrapping *)
AfterRotate(v, s) ==
  LET dek == fresh + 1
  IN  Committed([v EXCEPT
        !.kek = @ + 1, !.dek = dek,
        !.wraps = [i \in DOMAIN @ |-> [sdk |-> v.wraps[i].sdk, under |-> dek]],
        !.rcpt = [q \in People |-> IF v.rcpt[q].dek # None /\ MayGet(v, q)
                                   THEN [v.rcpt[q] EXCEPT !.dek = dek] ELSE v.rcpt[q]]], s)

(* A grant of full access; recipients without a valid grant are blessed. *)
AfterGrant(v, s, who, signer) ==
  LET signers == v.signers \cup {signer}
      all == [dek |-> v.dek, sdks |-> [i \in DOMAIN v.wraps |-> v.wraps[i].sdk],
              full |-> TRUE, by |-> signer]
  IN  Committed([v EXCEPT
        !.signers = signers,
        !.rcpt = [q \in People |->
                    CASE q = who -> all
                      [] q # who /\ q \in Known(v) /\ ~ValidGrant(v.rcpt[q], signers)
                         -> [v.rcpt[q] EXCEPT !.by = signer]
                      [] OTHER -> v.rcpt[q]]], s)

AfterRevoke(v, s, who) == AfterRotate([v EXCEPT !.rcpt[who] = Absent], s)

(* What one command of `side` makes of its pair p. *)
Outcomes(p, side) ==
  LET v == p.vault  s == p.secrets  IN
  {AfterSet(v, s, n, t) : n \in Names, t \in Times}
  \cup {AfterUnset(v, s, n) : n \in {m \in Names : s[m] # NoRecord}}
  \cup {AfterRemoval(v, s, nq[1], nq[2], t) :
          nq \in {x \in Names \X People :
                    s[x[1]] # NoRecord /\ Openable(p, x[1])
                    /\ s[x[1]].id \in DOMAIN v.rcpt[x[2]].sdks},
          t \in Times}
  \cup {AfterRotate(v, s)}
  \cup {AfterGrant(v, s, q, side) : q \in People}
  \cup {AfterRevoke(v, s, q) : q \in Known(v)}

-----------------------------------------------------------------------------
(* The merge of secrets.lock.                                               *)

(* Bug of the mutants: ours stays when the times are the same. *)
LatestOrOurs(o, t) ==
  CASE o.ver # t.ver   -> IF o.ver > t.ver THEN o ELSE t
    [] o.ver = t.ver   -> IF t.time > o.time THEN t ELSE o

Latest(o, t) ==
  CASE o.ver # t.ver                       -> IF o.ver > t.ver THEN o ELSE t
    [] o.ver = t.ver /\ o.time # t.time    -> IF o.time > t.time THEN o ELSE t
    [] o.ver = t.ver /\ o.time = t.time    ->
         IF <<o.sdk, o.val>> = <<t.sdk, t.val>> THEN o ELSE Manual

(* Bug of the mutants: a record that one side removed comes back. *)
ChooseEither(o, t, b) ==
  CASE o # NoRecord /\ t # NoRecord -> Latest(o, t)
    [] o # NoRecord /\ t = NoRecord -> o
    [] o = NoRecord                 -> t

(* choose_secret: a record removed on one side goes, unless the other side
   changed it meanwhile. *)
Choose(o, t, b) ==
  CASE o # NoRecord /\ t # NoRecord -> Latest(o, t)
    [] o # NoRecord /\ t = NoRecord -> IF o = b THEN NoRecord ELSE o
    [] o = NoRecord                 -> IF t = b THEN NoRecord ELSE t

MergedSecrets(o, t, b) == [n \in Names |-> Choose(o[n], t[n], b[n])]

NeedsHand(s) == \E n \in Names : s[n] = Manual
Ids(s) == {s[n].id : n \in {m \in Names : s[m] # NoRecord}}

(* The ids of the records of ours that theirs replaced. *)
TheirsWon(o, s) ==
  {s[n].id : n \in {m \in Names : o[m] # NoRecord /\ s[m] # NoRecord
                                  /\ s[m] # o[m] /\ s[m].id = o[m].id}}

(* The merge of vault.toml.                                                 *)

MergedSigners(o, t, b) ==
  IF o.signers = {} /\ b.signers = {} THEN t.signers ELSE o.signers

(* Bug of the mutants: recipients of theirs are taken without a look at base. *)
JoinsUnseen(o, t, b, q) ==
  q \in Known(t) \ Known(o) /\ ValidGrant(t.rcpt[q], MergedSigners(o, t, b))

(* The recipients that theirs adds and a trusted signer has granted. *)
Joins(o, t, b, q) ==
  /\ q \in Known(t) \ (Known(o) \cup Known(b))
  /\ ValidGrant(t.rcpt[q], MergedSigners(o, t, b))

Rejections(o, t, b) ==
  {q \in Known(t) \ (Known(o) \cup Known(b)) : ~Joins(o, t, b, q)}
  \cup (IF o.signers = {} /\ b.signers = {} THEN {}
        ELSE t.signers \ (o.signers \cup b.signers))

(* union_sdk_wrappings *)
UnionOf(ours, others, won) ==
  [i \in DOMAIN ours \cup DOMAIN others |->
     IF i \in DOMAIN others /\ (i \in won \/ i \notin DOMAIN ours)
     THEN others[i] ELSE ours[i]]

MergedEpoch(o, t) == IF o.epoch > t.epoch THEN o.epoch ELSE t.epoch

(* Project key, hash and MAC stay ours'; a changed file loses the MAC. *)
MergedVault(o, t, b, won) ==
  LET member(q) == IF Joins(o, t, b, q) THEN t.rcpt[q] ELSE o.rcpt[q]
      rcpt == [q \in People |->
                 IF member(q) # Absent /\ q \in Known(t)
                 THEN [member(q) EXCEPT !.sdks = UnionOf(@, t.rcpt[q].sdks, won)]
                 ELSE member(q)]
      v == [o EXCEPT !.epoch = MergedEpoch(o, t), !.signers = MergedSigners(o, t, b),
                     !.rcpt = rcpt, !.wraps = UnionOf(@, t.wraps, won)]
  IN  IF v = o THEN o ELSE [v EXCEPT !.sealed = FALSE]

-----------------------------------------------------------------------------

Init ==
  /\ \E present \in SUBSET Names, granted \in SUBSET People :
       LET ids     == present \X {1}
           secrets == [n \in Names |->
             IF n \in present THEN [id |-> <<n, 1>>, ver |-> Version, time |-> 1,
                                    sdk |-> 1, val |-> 1] ELSE NoRecord]
           vault == [epoch |-> 1, kek |-> 1, dek |-> 1, hash |-> secrets,
                     sealed |-> TRUE,
                     wraps |-> [i \in ids |-> [sdk |-> 1, under |-> 1]],
                     signers |-> IF granted = {} THEN {} ELSE {Ours},
                     rcpt |-> [q \in People |-> IF q \in granted
                       THEN [dek |-> 1, sdks |-> [i \in ids |-> 1], full |-> TRUE,
                             by |-> Ours] ELSE Absent]]
       IN  base = [vault |-> vault, secrets |-> secrets]
  /\ tree = base /\ head = base /\ theirs = base
  /\ marker = NoMarker /\ git = "none" /\ result = NoResult /\ work = Idle
  /\ fresh = 1 /\ ops = 0 /\ merges = 0
  /\ joined = NoMerge /\ raced = FALSE

Mint == fresh' = fresh + 1 /\ ops < MaxOps /\ ops' = ops + 1 /\ UNCHANGED merges

(* Every unlock: no pending merge, and the hash is that of secrets.lock. *)
MayUnlock == ~marker.on /\ tree.vault.hash = tree.secrets

(* No merge is running: commands of the developer begin here only, but one
   that has begun may go on beside a merge. *)
GitWaits == git \in {"none", "conflict"}

(* A command of the developer, from its unlock to its commit. *)
OurCommand ==
  /\ work = Idle /\ GitWaits /\ MayUnlock
  /\ tree' \in Outcomes(tree, Ours)
  /\ Mint /\ joined' = NoMerge
  /\ UNCHANGED <<repo, marker, git, result, work, raced>>

TheirCommand ==
  /\ git = "none"
  /\ theirs' \in Outcomes(theirs, Theirs)
  /\ Mint
  /\ UNCHANGED <<tree, head, base, marker, git, result, work, joined, raced>>

(* `dl set n` unlocks, and then prompts for the value. *)
BeginSet(n) ==
  /\ work = Idle /\ GitWaits /\ MayUnlock /\ ops < MaxOps
  /\ work' = [at |-> "set", name |-> n, meta |-> {tree.vault}, git |-> FALSE]
  /\ UNCHANGED <<tree, repo, marker, git, result, bounds, joined, raced>>

(* Under the lock: the metadata is read again if its epoch is greater. *)
CommitSet(t) ==
  /\ work.at = "set"
  /\ \E mine \in work.meta :
       LET newer == tree.vault.epoch > mine.epoch
           stale == tree.vault.dek # mine.dek \/ tree.vault.hash # tree.secrets
       IN  IF newer /\ stale
           THEN UNCHANGED <<tree, bounds, joined, raced>>
           ELSE /\ tree' = AfterSet(IF newer THEN tree.vault ELSE mine,
                                    tree.secrets, work.name, t)
                /\ Mint /\ joined' = NoMerge /\ raced' = (raced \/ work.git)
  /\ work' = Idle
  /\ UNCHANGED <<repo, marker, git, result>>

-----------------------------------------------------------------------------
(* git: commit, merge, driver, abort.                                       *)

(* git has changed the files under a command that may be under way. *)
Checkout(pair) ==
  /\ tree' = pair
  /\ work' = [work EXCEPT !.git = (work # Idle)]

(* git starts on a clean working tree only, so the developer has committed;
   it fast-forwards if it can. *)
StartMerge ==
  /\ git = "none" /\ theirs # base /\ merges < MaxMerges
  /\ merges' = merges + 1 /\ UNCHANGED <<fresh, ops>>
  /\ IF tree = base
     THEN Checkout(theirs) /\ head' = theirs /\ base' = theirs /\ UNCHANGED git
     ELSE git' = "secrets" /\ head' = tree /\ UNCHANGED <<tree, base, work>>
  /\ joined' = NoMerge
  /\ UNCHANGED <<theirs, marker, result, raced>>

(* What git takes without the driver: the one side that changed the file. *)
Trivial(o, t, b) == IF o = b THEN {t} ELSE IF t = b \/ o = t THEN {o} ELSE {}

(* The first driver run: writes the merged file, then a new marker. *)
DriveSecrets ==
  LET o == head.secrets  t == theirs.secrets  b == base.secrets
      m == MergedSecrets(o, t, b)
      easy == Trivial(o, t, b) IN
  /\ git = "secrets" /\ git' = "vault"
  /\ CASE easy # {} ->
            /\ result' = [result EXCEPT !.secrets = easy]
            /\ UNCHANGED marker
       [] easy = {} /\ NeedsHand(m) ->
            /\ result' = [result EXCEPT !.secrets = {o}, !.conflict = TRUE]
            /\ UNCHANGED marker
       [] easy = {} /\ ~NeedsHand(m) ->
            /\ result' = [result EXCEPT !.secrets = {m}]
            /\ marker' = [on |-> TRUE, secrets |-> {m}, vault |-> {},
                          ids |-> Ids(m), won |-> TheirsWon(o, m)]
  /\ UNCHANGED <<tree, repo, work, bounds, joined, raced>>

(* Bug of the mutants: only the secrets merge and rejections make a marker. *)
ReviewIfMerged(o, t, b) == marker.on \/ Rejections(o, t, b) # {}

(* A reconcile is asked for if secrets.lock was merged, if the two sides
   disagree about it, or if a recipient or signer was rejected. *)
NeedsReview(o, t, b) ==
  marker.on \/ o.hash # t.hash \/ Rejections(o, t, b) # {}

(* The second run.  The marker may be that of an earlier merge. *)
DriveVault ==
  LET o == head.vault  t == theirs.vault  b == base.vault
      m == MergedVault(o, t, b, marker.won)
      easy == Trivial(o, t, b)
      refused == o.kek # t.kek \/ ~(marker.ids \subseteq DOMAIN m.wraps) IN
  /\ git = "vault" /\ git' = "finish"
  /\ CASE easy # {} ->
            /\ result' = [result EXCEPT !.vault = easy]
            /\ UNCHANGED marker
       [] easy = {} /\ refused ->
            /\ result' = [result EXCEPT !.vault = {o}, !.conflict = TRUE]
            /\ UNCHANGED marker
       [] easy = {} /\ ~refused ->
            /\ result' = [result EXCEPT !.vault = {m}]
            /\ marker' = IF NeedsReview(o, t, b)
                         THEN [marker EXCEPT !.on = TRUE, !.vault = {m}] ELSE marker
  /\ UNCHANGED <<tree, repo, work, bounds, joined, raced>>

(* git updates the working tree, unless it has changed meanwhile, and commits
   the merge, unless a driver run has failed. *)
FinishMerge ==
  /\ git = "finish" /\ result' = NoResult
  /\ IF tree # head
     THEN git' = "none" /\ UNCHANGED <<tree, head, base, work, joined>>
     ELSE \E v \in result.vault, s \in result.secrets :
            /\ Checkout([vault |-> v, secrets |-> s])
            /\ IF result.conflict
               THEN git' = "conflict" /\ UNCHANGED <<head, base, joined>>
               ELSE /\ git' = "none" /\ head' = tree' /\ base' = theirs
                    /\ joined' = {[o |-> head, t |-> theirs, b |-> base]}
  /\ UNCHANGED <<theirs, marker, bounds, raced>>

(* The merge dies before the working tree was touched. *)
KillMerge ==
  /\ git \in {"vault", "finish"}
  /\ git' = "none" /\ result' = NoResult
  /\ UNCHANGED <<tree, repo, marker, work, bounds, joined, raced>>

(* git merge --abort: the marker is not git's. *)
Abort ==
  /\ git = "conflict" /\ git' = "none"
  /\ Checkout(head)
  /\ joined' = NoMerge
  /\ UNCHANGED <<repo, marker, result, bounds, raced>>

(* git checkout --ours -- .lock (or --theirs), and the commit. *)
TakeSide(pair) ==
  /\ git = "conflict" /\ git' = "none"
  /\ Checkout(pair) /\ head' = pair /\ base' = theirs
  /\ joined' = NoMerge
  /\ UNCHANGED <<theirs, marker, result, bounds, raced>>

-----------------------------------------------------------------------------
(* dl reconcile                                                             *)

(* verify_marker_matches_files *)
MarkerMatches ==
  /\ \A s \in marker.secrets : s = tree.secrets
  /\ \A v \in marker.vault : v = tree.vault

(* Confirmed by the developer: every record must open; the pair is sealed. *)
Reconcile ==
  /\ work = Idle /\ GitWaits /\ marker.on /\ MarkerMatches
  /\ \A n \in Names : Openable(tree, n)
  /\ tree' = Committed(tree.vault, tree.secrets)
  /\ work' = [Idle EXCEPT !.at = "blessed"]
  /\ Mint
  /\ UNCHANGED <<repo, marker, git, result, joined, raced>>

RemoveMarker ==
  /\ work.at = "blessed" /\ work' = Idle
  /\ marker' = NoMarker /\ raced' = (raced \/ work.git \/ git # "none")
  /\ UNCHANGED <<tree, repo, git, result, bounds, joined>>

(* The command dies, or is given up at its prompt. *)
Die ==
  /\ work # Idle /\ work' = Idle
  /\ UNCHANGED <<tree, repo, marker, git, result, bounds, joined, raced>>

Next ==
  \/ OurCommand \/ TheirCommand
  \/ \E n \in Names : BeginSet(n)
  \/ \E t \in Times : CommitSet(t)
  \/ StartMerge \/ DriveSecrets \/ DriveVault \/ FinishMerge
  \/ KillMerge \/ Abort \/ TakeSide(head) \/ TakeSide(theirs)
  \/ Reconcile \/ RemoveMarker \/ Die

Spec == Init /\ [][Next]_vars

-----------------------------------------------------------------------------

Records == [id : {<<>>} \cup (Names \X Nat), ver : Nat, time : Times \cup {0},
            sdk : Nat, val : Nat]

(* Types, in as far as they say something about the merge: no record of an
   error ever reaches a file, and the marker is empty when there is none. *)
TypeOK ==
  /\ \A p \in {tree, head, theirs, base} :
       /\ p.secrets \in [Names -> Records] /\ p.vault.hash \in [Names -> Records]
       /\ p.vault.epoch \in Nat /\ p.vault.kek \in Nat /\ p.vault.dek \in Nat
       /\ p.vault.sealed \in BOOLEAN /\ p.vault.signers \subseteq Sides
       /\ DOMAIN p.vault.rcpt = People
  /\ marker.on \in BOOLEAN /\ (marker.on \/ marker = NoMarker)
  /\ git \in {"none", "secrets", "vault", "finish", "conflict"}
  /\ work.at \in {"idle", "set", "blessed"} /\ raced \in BOOLEAN
  /\ fresh \in Nat /\ ops \in 0 .. MaxOps /\ merges \in 0 .. MaxMerges

(* Whatever was merged, aborted, killed or reconciled: a vault that a command
   would open has the hash of its secrets.lock and a right wrapping for every
   record.  So the marker is there whenever a merge has put the two files out
   of step (pending_merge.rs: no command works on merged, unblessed content).
   Not for a command that had unlocked before the merge, see
   NoUnblessedWrite. *)
UngatedPairOpens == ~marker.on /\ git # "conflict" /\ ~raced => Usable(tree)

SameRecord(x, y) == x = NoRecord \/ y = NoRecord \/ x.id = y.id
Older(x, y)      == x.ver < y.ver \/ (x.ver = y.ver /\ x.time < y.time)
Follows(x, y)    == SameRecord(x, y) /\ (x = NoRecord \/ ~Older(x, y))

(* What one developer alone changed, added or removed is in the merged
   secrets.lock, whichever way git and the driver shared the work
   (choose_secret).  A secret removed and set again is another record; and the
   record of ours may be older than that of the base, after a conflict that
   `git checkout --ours` has resolved: then it is not kept. *)
NoEditLost ==
  \A j \in joined, n \in Names :
    LET o == j.o.secrets[n]  t == j.t.secrets[n]  b == j.b.secrets[n] IN
      /\ o = b /\ SameRecord(t, b) => tree.secrets[n] = t
      /\ t = b /\ Follows(o, b)    => tree.secrets[n] = o

(* The two developers get the same secrets.lock, or both are asked, whoever
   merges whom (choose_latest). *)
MergeCommutes ==
  MergedSecrets(head.secrets, theirs.secrets, base.secrets)
    = MergedSecrets(theirs.secrets, head.secrets, base.secrets)

(* If the driver has merged vault.toml, a recipient that the developer has
   revoked is not back, and one that the other side adds comes with a grant of
   a signer trusted here (merge_recipients). *)
RevokedStaysOut ==
  \A j \in joined :
    Trivial(j.o.vault, j.t.vault, j.b.vault) = {} =>
      \A q \in Known(tree.vault) \ Known(j.o.vault) :
        /\ q \notin Known(j.b.vault)
        /\ j.o.vault.signers # {} => tree.vault.rcpt[q].by \in j.o.vault.signers

(* A machine that has anchored the epoch of either branch opens the merged
   vault (epoch_anchor.rs refuses an older one). *)
MergeKeepsEpoch ==
  \A j \in joined : /\ tree.vault.epoch >= j.o.vault.epoch
                    /\ tree.vault.epoch >= j.t.vault.epoch

(* merge.rs:332 "On a same-id conflict the wrapping comes from the same side as
   the winning ciphertext (theirs_won), so SDK and ciphertext never diverge":
   it is so for what the driver merges, not for what git resolves itself. *)
WrappingFollowsRecord ==
  \A j \in joined : \A n \in Names :
    LET r == tree.secrets[n] IN
      r # NoRecord => r.id \in DOMAIN tree.vault.wraps
                      /\ tree.vault.wraps[r.id].sdk = r.sdk

(* pending_merge.rs:136 "no command (interactive or CI) can read or write
   merged-but-unblessed content": a `dl set` that had unlocked before writes. *)
NoUnblessedWrite ==
  [][ops' # ops /\ work.at = "set" => ~marker.on \/ joined = NoMerge]_vars

(* A pending merge can be reconciled, once git is done. *)
ReconcilePossible ==
  marker.on /\ git = "none" /\ work.at # "blessed" => MarkerMatches

(* choose_latest by "the monotonic per-secret version counter". *)
NoEditLostEver ==
  \A j \in joined, n \in Names :
    j.o.secrets[n] = j.b.secrets[n] => tree.secrets[n] = j.t.secrets[n]

(* A record that the other side left alone stays what the developer made of it:
   not if he put back an older one (choose_secret looks at the base only when
   one of the two has no record). *)
ResolutionKept ==
  \A j \in joined, n \in Names :
    LET o == j.o.secrets[n]  b == j.b.secrets[n] IN
      j.t.secrets[n] = b /\ SameRecord(o, b) => tree.secrets[n] = o
=============================================================================
