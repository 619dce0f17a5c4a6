---------------------------- MODULE SessionCache ----------------------------
(***************************************************************************)
(* The session cache: one file with the project key, encrypted under a     *)
(* second file, the wrap key, and good until a time written beside it.     *)
(* Commands read it instead of asking for a credential, and write it again *)
(* whenever they unlocked; nothing locks it.                               *)
(*                                                                         *)
(* Each unlock is taken apart where another command can come in between:   *)
(* metadata, cache file, wrap key, trust chain, wrap key, cache file.  The *)
(* commit of a rotation or of the first grant is one step (VaultTxn).  A   *)
(* project key is a number, and the metadata of a vault say which one      *)
(* opens it.  The anchor and the secrets hash are those of VaultCommands.  *)
(***************************************************************************)
EXTENDS Naturals

CONSTANTS
  Unlocks,           \* commands under way
  SharedOptIn,       \* DOTLOCK_SHARED_CACHE
  Ttls,              \* what DOTLOCK_CACHE_TTL may be in a command's environment
  Cap,               \* MAX_TTL_SECS
  MaxTime,           \* bound: seconds
  MaxRotations,      \* bound: rotations of the project key
  MaxCommands        \* bound: commands started

ASSUME SharedOptInAssumption == SharedOptIn \in BOOLEAN
ASSUME TtlAssumption == Ttls \subseteq Nat /\ Cap \in Nat
ASSUME BoundAssumption ==
  MaxTime \in Nat /\ MaxRotations \in Nat /\ MaxCommands \in Nat

VARIABLES
  clock,             \* now_secs()
  vault,             \* vault.toml: project key, shared mode, and whether it parses
  wrapKey,           \* session.key, 0 when there is none yet
  entry,             \* sessions.toml
  unlock,            \* unlock[p]: command, where it is, what it has read
  wrapsMade,         \* wrap keys generated, for their numbers
  commands,          \* commands started
  closed,            \* history: the session was ended, and neither a proof of
                     \* a credential nor a late command has reopened it
  late,              \* history: who carried a key when it was last ended
  proved             \* history: when a key was last cached that had not come
                     \* from the cache

sessionVars == <<clock, vault, wrapKey, entry, unlock, wrapsMade, commands, closed, late,
                 proved>>
ended == <<closed, late>>

NoEntry   == [kind |-> "none"]
Torn      == [kind |-> "torn"]       \* zeros, or another format: does not parse
NoCommand == [pc |-> "idle", cmd |-> "none", ttl |-> 0, shared |-> FALSE,
              opens |-> 0, key |-> 0, seen |-> NoEntry, wrap |-> 0, until |-> 0]

Commands == {"get", "rotate", "share", "lock"}

GoOn(p, pc)   == unlock' = [unlock EXCEPT ![p].pc = pc]
EndCommand(p) == unlock' = [unlock EXCEPT ![p] = NoCommand]

(* Caching is off for this vault, as far as p knows it. *)
Off(p) == unlock[p].shared /\ ~SharedOptIn

Ttl(ttl) == IF ttl > Cap THEN Cap ELSE ttl

(* Bug of the mutants: an entry is still good in the second it ends. *)
ExpiredLate(e) == e.until < clock
Expired(e) == e.until <= clock

(* q may yet write the cache without anybody proving a credential. *)
Carries(q) ==
  \/ unlock[q].pc \in {"verify", "wrap", "newwrap", "write"}
  \/ unlock[q].pc = "judge" /\ unlock[q].seen.kind = "key"

Closed(p) == closed' = TRUE /\ late' = {q \in Unlocks \ {p} : Carries(q)}

(* shred_and_remove. *)
Shred(p) == entry' = NoEntry /\ Closed(p)

(* Bug of the mutants: only the file of the old format is removed. *)
InvalidateOld(p) == Closed(p) /\ UNCHANGED entry

(* invalidate_cache: the session is found by the metadata on disk, and there
   is none to find while these do not parse. *)
Invalidate(p) ==
  IF vault.readable THEN Shred(p) ELSE UNCHANGED <<entry, ended>>

-----------------------------------------------------------------------------

SessionInit ==
  /\ clock = 0
  /\ \E shared \in BOOLEAN : vault = [key |-> 1, shared |-> shared, readable |-> TRUE]
  /\ wrapKey = 0 /\ entry = NoEntry /\ wrapsMade = 0 /\ commands = 0 /\ closed = TRUE /\ late = {}
  /\ proved = 0
  /\ unlock = [p \in Unlocks |-> NoCommand]

(* A command of this user's; all but `dl lock` load the metadata first, and
   only `dl get` (and every other read or write) looks at the cache. *)
Start(p, cmd, ttl) ==
  /\ unlock[p].pc = "idle" /\ commands < MaxCommands
  /\ vault.readable \/ cmd = "lock"
  /\ commands' = commands + 1
  /\ unlock' = [unlock EXCEPT ![p] =
                [NoCommand EXCEPT !.cmd = cmd, !.ttl = ttl, !.shared = vault.shared,
                                  !.opens = vault.key,
                                  !.pc = CASE cmd = "get"  -> "read"
                                           [] cmd = "lock" -> "forget"
                                           [] OTHER        -> "prove"]]
  /\ late' = late \ {p}
  /\ UNCHANGED <<clock, vault, wrapKey, entry, wrapsMade, closed, proved>>

(* read_cached_dek_inner, the file. *)
ReadEntry(p) ==
  /\ unlock[p].pc = "read"
  /\ \/ /\ Off(p) /\ Shred(p) /\ GoOn(p, "prove")
     \/ /\ ~Off(p) /\ entry = NoEntry /\ GoOn(p, "prove") /\ UNCHANGED <<entry, ended>>
     \/ /\ ~Off(p) /\ entry # NoEntry
        /\ unlock' = [unlock EXCEPT ![p].pc = "judge", ![p].seen = entry]
        /\ UNCHANGED <<entry, ended>>
  /\ UNCHANGED <<clock, vault, wrapKey, wrapsMade, commands, proved>>

Serves(e) == e.kind = "key" /\ ~Expired(e) /\ e.wrap = wrapKey

(* read_cached_dek_inner, what is made of the file: an entry that does not
   parse, has expired or does not decrypt is shredded, whatever is there now. *)
Judge(p) ==
  /\ unlock[p].pc = "judge"
  /\ LET e == unlock[p].seen
     IN  \/ /\ Serves(e)
            /\ unlock' = [unlock EXCEPT ![p].pc = "verify", ![p].key = e.key]
            /\ UNCHANGED <<entry, ended>>
         \/ /\ ~Serves(e) /\ Shred(p)
            /\ unlock' = [unlock EXCEPT ![p].pc = "prove", ![p].seen = NoEntry]
  /\ UNCHANGED <<clock, vault, wrapKey, wrapsMade, commands, proved>>

(* The trust chain with the cached key.  A key rotated away is taken for
   tampering, and forgotten. *)
VerifyKey(p) ==
  /\ unlock[p].pc = "verify"
  /\ \/ /\ unlock[p].key = unlock[p].opens /\ GoOn(p, "wrap") /\ UNCHANGED <<entry, ended>>
     \/ /\ unlock[p].key # unlock[p].opens /\ Invalidate(p) /\ EndCommand(p)
  /\ UNCHANGED <<clock, vault, wrapKey, wrapsMade, commands, proved>>

(* The password, or the identity of a shared vault; nobody need answer. *)
Prove(p) ==
  /\ unlock[p].pc = "prove"
  /\ unlock' = [unlock EXCEPT ![p].pc = "wrap", ![p].key = unlock[p].opens]
  /\ closed' = FALSE
  /\ UNCHANGED <<clock, vault, wrapKey, entry, wrapsMade, commands, late, proved>>

After(p) ==
  unlock' = [unlock EXCEPT ![p] =
             IF unlock[p].cmd = "get" THEN NoCommand
             ELSE [NoCommand EXCEPT !.pc = "commit", !.cmd = unlock[p].cmd,
                                    !.shared = unlock[p].shared,
                                    !.opens = unlock[p].opens]]

(* write_cached_dek_inner: the expiry, and the wrap key if there is one. *)
Prepare(p) ==
  /\ unlock[p].pc = "wrap"
  /\ \/ /\ Off(p) /\ Shred(p) /\ After(p) /\ UNCHANGED wrapsMade
     \/ /\ ~Off(p) /\ UNCHANGED <<entry, ended>>
        /\ LET new  == wrapKey = 0
               next == [unlock[p] EXCEPT !.until = clock + Ttl(unlock[p].ttl)]
           IN  /\ wrapsMade' = IF new THEN wrapsMade + 1 ELSE wrapsMade
               /\ unlock' = [unlock EXCEPT ![p] =
                             [next EXCEPT !.pc   = IF new THEN "newwrap" ELSE "write",
                                          !.wrap = IF new THEN wrapsMade + 1 ELSE wrapKey]]
  /\ proved' = IF unlock[p].seen = NoEntry THEN clock ELSE proved
  /\ UNCHANGED <<clock, vault, wrapKey, commands>>

(* A new wrap key replaces one that another command has made meanwhile. *)
WriteWrapKey(p) ==
  /\ unlock[p].pc = "newwrap"
  /\ wrapKey' = unlock[p].wrap
  /\ GoOn(p, "write")
  /\ UNCHANGED <<clock, vault, entry, wrapsMade, commands, ended, proved>>

WriteEntry(p) ==
  /\ unlock[p].pc = "write"
  /\ entry' = [kind |-> "key", key |-> unlock[p].key, until |-> unlock[p].until,
               wrap |-> unlock[p].wrap, ttl |-> unlock[p].ttl]
  /\ closed' = (closed /\ p \notin late)
  /\ After(p)
  /\ UNCHANGED <<clock, vault, wrapKey, wrapsMade, commands, late, proved>>

(* rotate_project_key, and the first grant of `dl share`, which leaves the
   cache alone. *)
Commit(p) ==
  /\ unlock[p].pc = "commit" /\ vault.readable
  /\ \/ /\ unlock[p].cmd = "rotate" /\ unlock[p].opens <= MaxRotations
        /\ vault' = [key |-> unlock[p].opens + 1, shared |-> unlock[p].shared, readable |-> TRUE]
        /\ GoOn(p, "forget")
     \/ /\ unlock[p].cmd = "share"
        /\ vault' = [key |-> unlock[p].opens, shared |-> TRUE, readable |-> TRUE]
        /\ EndCommand(p)
  /\ UNCHANGED <<clock, wrapKey, entry, wrapsMade, commands, ended, proved>>

(* `dl lock`, and the end of a rotation. *)
Forget(p) ==
  /\ unlock[p].pc = "forget"
  /\ Invalidate(p)
  /\ EndCommand(p)
  /\ UNCHANGED <<clock, vault, wrapKey, wrapsMade, commands, proved>>

(* A command is killed, or its user gives up; while it shreds the file, the
   zeros may stay. *)
Kill(p) ==
  /\ unlock[p].pc # "idle"
  /\ EndCommand(p)
  /\ entry' \in {entry} \cup
        (IF entry # NoEntry /\ unlock[p].pc \in {"judge", "forget"} THEN {Torn} ELSE {})
  /\ UNCHANGED <<clock, vault, wrapKey, wrapsMade, commands, ended, proved>>

Tick ==
  /\ clock < MaxTime /\ clock' = clock + 1
  /\ UNCHANGED <<vault, wrapKey, entry, unlock, wrapsMade, commands, ended, proved>>

(* git leaves conflict markers in vault.toml, or the user takes them out. *)
Conflict ==
  /\ vault' = [vault EXCEPT !.readable = ~vault.readable]
  /\ UNCHANGED <<clock, wrapKey, entry, unlock, wrapsMade, commands, ended, proved>>

SessionNext ==
  \/ \E p \in Unlocks :
       \/ \E cmd \in Commands, ttl \in Ttls : Start(p, cmd, ttl)
       \/ ReadEntry(p) \/ Judge(p) \/ VerifyKey(p) \/ Prove(p) \/ Prepare(p)
       \/ WriteWrapKey(p) \/ WriteEntry(p) \/ Commit(p) \/ Forget(p) \/ Kill(p)
  \/ Tick \/ Conflict

SessionSpec == SessionInit /\ [][SessionNext]_sessionVars

-----------------------------------------------------------------------------

Keys    == 1 .. MaxRotations + 1
Wraps   == 0 .. MaxCommands
Entries == [kind : {"none", "torn"}] \cup
           [kind : {"key"}, key : Keys, until : Nat, wrap : Wraps, ttl : Ttls]

(* Every file holds what a command can have written, and no entry outlives
   the cap, whatever the environment of its writer said. *)
SessionTypeOK ==
  /\ clock \in Nat /\ vault \in [key : Keys, shared : BOOLEAN, readable : BOOLEAN]
  /\ wrapKey \in Wraps /\ entry \in Entries
  /\ entry.kind = "key" => entry.until <= clock + Cap
  /\ \A p \in Unlocks : unlock[p].seen \in Entries

(* README.md:171 "shred the cached project key": once `dl lock`, a rotation,
   an alarm or shared mode has ended the session, nobody is served from the
   cache, whoever was under way, until somebody proves a credential, or a
   command that already had the key then writes it into the cache once more
   (cache.rs:272-318). *)
LockEndsSession ==
  closed => ~Serves(entry) /\ \A p \in Unlocks : unlock[p].pc = "verify" => p \in late

(* As LockEndsSession, without the commands that were under way: fails, the
   last of them writes the cache. *)
OnlyProofReopens ==
  [][closed /\ ~closed' => \E p \in Unlocks : unlock[p].pc = "prove"]_sessionVars

(* DOTLOCK_CACHE_TTL=0 turns the cache off: what such a command wrote serves
   nobody, not even another command in the same second. *)
ZeroTurnsItOff == \A p \in Unlocks : unlock[p].pc = "verify" => unlock[p].seen.ttl > 0

(* cache.rs:28 "the cap is now 300s so `DOTLOCK_CACHE_TTL` can never keep a
   cached project key around for an hour": nobody is served longer than the
   cap after a key was cached because somebody had proved a credential.  Every
   unlock from the cache writes it again, with a new expiry. *)
KeyLifeCapped ==
  [][\A p \in Unlocks :
       unlock[p].pc = "judge" /\ unlock'[p].pc = "verify"
         => clock <= proved + Cap]_sessionVars

(* README.md:168 "`dl lock`": as LockEndsSession, and it says so even when
   vault.toml does not parse. *)
LockAlwaysEnds ==
  [][\A p \in Unlocks :
       unlock[p].pc = "forget" /\ unlock[p].cmd = "lock" /\ Forget(p)
         => entry'.kind # "key"]_sessionVars
=============================================================================
