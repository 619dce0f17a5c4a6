------------------------------ MODULE Identity ------------------------------
(***************************************************************************)
(* The local identity: three files for the key pair in use (private key,   *)
(* public key, metadata) and three for the archived RSA pair, which        *)
(* `dl cert init`, `passwd` and `migrate` read, write and rename one at a  *)
(* time and without a lock.  The processes may be killed between any two   *)
(* of these.  `migrate` ends with the entry of this identity in the        *)
(* project's vault.toml, the commit of which is one step here (VaultTxn).  *)
(* What others do to the recipients (a revoke, a limit) is in Sharing.     *)
(*                                                                         *)
(* A key pair is <<n, algorithm>>, and is its own fingerprint.  Only its   *)
(* user knows the passphrases, all of them; a mistyped one is GiveUp.      *)
(***************************************************************************)
EXTENDS Naturals, Sequences

CONSTANTS
  Procs,             \* commands under way
  Passphrases,       \* what a private key may be encrypted under
  Overlap,           \* BOOLEAN: may two `dl cert` commands run side by side?
  MaxCommands        \* bound: commands started

ASSUME OverlapAssumption == Overlap \in BOOLEAN
ASSUME MaxCommandsAssumption == MaxCommands \in Nat

Blank == "blank"                  \* the empty passphrase of older versions
Plain == "plain"                  \* not encrypted
Primary == {"priv", "pub", "meta"}
Archived(slot) == CASE slot = "priv" -> "oldpriv" [] slot = "pub"  -> "oldpub"
                    [] slot = "meta" -> "oldmeta"
Slots == Primary \cup {"oldpriv", "oldpub", "oldmeta"}

Keys    == (0 .. MaxCommands) \X {"rsa", "ed25519"}
NoKey   == <<0, "none">>
Absent  == <<>>

(* What the files of the pair k are, encrypted under u. *)
Files(k, u) == [priv |-> [key |-> k, under |-> u], pub |-> [key |-> k],
                meta |-> [fp |-> k, encrypted |-> u # Plain]]

VARIABLES
  disk,              \* the content of each slot, or Absent
  entries,           \* this user's entries among the vault's recipients: a
                     \* fingerprint, and the key it was wrapped for
  proc,              \* proc[p]: pc, command, what was read and what is left to do
  made,              \* key pairs made, for their numbers
  commands,          \* commands started
  excused            \* history: a passwd or another command was killed, or one
                     \* was told to --force

vars == <<disk, entries, proc, made, commands, excused>>

Idle == [pc |-> "idle", cmd |-> "none", under |-> Plain, key |-> NoKey,
         files |-> Absent, left |-> <<>>]

Exists(slot) == disk[slot] # Absent
AllIdle      == \A p \in Procs : proc[p].pc = "idle"

(* decrypt_private_key_pem, with a passphrase of the user's: it wants an
   encrypted key where the metadata say so, and only there. *)
Decrypts(priv, meta) == (priv.under # Plain) = meta.encrypted

-----------------------------------------------------------------------------

Init ==
  /\ \E k \in {<<0, "rsa">>, <<0, "ed25519">>}, u \in Passphrases \cup {Blank, Plain} :
       \E some \in BOOLEAN, member \in BOOLEAN :
         /\ disk = [s \in Slots |-> IF some /\ s \in Primary THEN Files(k, u)[s] ELSE Absent]
         /\ entries = IF some /\ member THEN {[fp |-> k, key |-> k]} ELSE {}
  /\ proc = [p \in Procs |-> Idle]
  /\ made = 0 /\ commands = 0 /\ excused = {}

Goto(p, pc)  == proc' = [proc EXCEPT ![p].pc = pc]
Finish(p)    == proc' = [proc EXCEPT ![p] = Idle]

Start(p, pc, cmd, under) ==
  /\ proc[p].pc = "idle" /\ (Overlap \/ AllIdle)
  /\ commands < MaxCommands /\ commands' = commands + 1
  /\ proc' = [proc EXCEPT ![p] = [Idle EXCEPT !.pc = pc, !.cmd = cmd, !.under = under]]

(* `dl cert init [--force] [--plain]` *)
StartInit(p, force, under) ==
  /\ force \/ \A s \in Primary : ~Exists(s)
  /\ Start(p, "asked", "init", under)
  /\ excused' = IF \E s \in Primary : Exists(s) THEN excused \cup {"forced"} ELSE excused
  /\ UNCHANGED <<disk, entries, made>>

(* `dl cert passwd [--remove]` *)
StartPasswd(p, under) ==
  /\ \A s \in Primary : Exists(s)
  /\ Start(p, "reading", "passwd", under)
  /\ UNCHANGED <<disk, entries, made, excused>>

(* The private key is read, decrypted, and compared with the metadata. *)
ReadPrivate(p) ==
  /\ proc[p].pc = "reading" /\ Exists("priv") /\ Exists("meta")
  /\ Decrypts(disk["priv"], disk["meta"]) /\ disk["priv"].key = disk["meta"].fp
  /\ proc' = [proc EXCEPT ![p].pc = "asked", ![p].key = disk["priv"].key]
  /\ UNCHANGED <<disk, entries, made, commands, excused>>

(* `dl cert migrate [--plain]`: an RSA pair is replaced; with an Ed25519 pair
   only this project's entry is seen to. *)
StartMigrate(p, under) ==
  /\ Exists("meta")
  /\ \/ /\ disk["meta"].fp[2] = "rsa" /\ ~Exists("oldmeta")
        /\ Start(p, "asked", "migrate", under)
     \/ /\ disk["meta"].fp[2] = "ed25519"
        /\ Start(p, "rekey", "migrate", under)
  /\ UNCHANGED <<disk, entries, made, excused>>

(* Bug of the mutants: the new files come first, the archive never. *)
PreparedUnarchived(p, k) ==
  [proc[p] EXCEPT !.files = Files(k, proc[p].under), !.key = k, !.pc = "write",
                  !.left = <<"priv", "pub", "meta">>]

(* Bug of the mutants: passwd forgets the flag in the metadata. *)
PreparedNoFlag(p, k) ==
  [proc[p] EXCEPT !.files = Files(k, proc[p].under), !.key = k,
                  !.pc = IF proc[p].cmd = "migrate" THEN "archive" ELSE "write",
                  !.left = IF proc[p].cmd = "passwd" THEN <<"priv">>
                           ELSE <<"priv", "pub", "meta">>]

(* The prompt for the new passphrase (none with --plain or --remove), and what
   follows in memory: a new pair, or the same one encrypted anew. *)
Prepared(p, k) ==
  [proc[p] EXCEPT
     !.files = Files(k, proc[p].under), !.key = k,
     !.pc    = IF proc[p].cmd = "migrate" THEN "archive" ELSE "write",
     !.left  = IF proc[p].cmd = "passwd" THEN <<"priv", "meta">>
               ELSE <<"priv", "pub", "meta">>]

Answer(p) ==
  /\ proc[p].pc = "asked"
  /\ LET passwd == proc[p].cmd = "passwd"
         k == IF passwd THEN proc[p].key ELSE <<made + 1, "ed25519">>
     IN  /\ proc' = [proc EXCEPT ![p] = Prepared(p, k)]
         /\ made' = IF passwd THEN made ELSE made + 1
  /\ UNCHANGED <<disk, entries, commands, excused>>

(* Any error before something is written: a cancelled prompt, a wrong
   passphrase, a file that is missing or does not fit. *)
GiveUp(p) ==
  /\ proc[p].pc \in {"asked", "reading", "rekey", "commit"}
  /\ Finish(p)
  /\ UNCHANGED <<disk, entries, made, commands, excused>>

(* Three renames; a file that is not there is an error, which ends the command. *)
Archive(p) ==
  /\ proc[p].pc = "archive"
  /\ LET s    == Head(proc[p].left)
         rest == Tail(proc[p].left)
     IN  IF ~Exists(s) THEN Finish(p) /\ UNCHANGED disk
         ELSE /\ disk' = [disk EXCEPT ![Archived(s)] = disk[s], ![s] = Absent]
              /\ proc' = [proc EXCEPT
                   ![p].left = IF rest = <<>> THEN <<"priv", "pub", "meta">> ELSE rest,
                   ![p].pc   = IF rest = <<>> THEN "write" ELSE "archive"]
  /\ UNCHANGED <<entries, made, commands, excused>>

Write(p) ==
  /\ proc[p].pc = "write"
  /\ LET s    == Head(proc[p].left)
         rest == Tail(proc[p].left)
     IN  /\ disk' = [disk EXCEPT ![s] = proc[p].files[s]]
         /\ IF rest # <<>> THEN proc' = [proc EXCEPT ![p].left = rest]
            ELSE IF proc[p].cmd = "migrate"
                 THEN proc' = [proc EXCEPT ![p].pc = "rekey", ![p].left = <<>>]
                 ELSE Finish(p)
  /\ UNCHANGED <<entries, made, commands, excused>>

(* rekey_current_project_recipient: the archived pair opens the vault ... *)
EntriesOf(meta) == {e \in entries : e.fp = disk[meta].fp}

Unlocks(priv, pub, meta) ==
  /\ Exists(priv) /\ Exists(pub) /\ Exists(meta)
  /\ EntriesOf(meta) # {} /\ \A e \in EntriesOf(meta) : disk[priv].key = e.key
  /\ Decrypts(disk[priv], disk[meta])

RekeyUnlock(p) ==
  /\ proc[p].pc = "rekey" /\ Unlocks("oldpriv", "oldpub", "oldmeta")
  /\ Goto(p, "commit")
  /\ UNCHANGED <<disk, entries, made, commands, excused>>

(* Bug of the mutants: the fingerprint is new, the wrapping is not. *)
HalfNewIdentity(p) ==
  IF proc[p].key # NoKey THEN [fp |-> proc[p].key, key |-> disk["oldpub"].key]
                         ELSE [fp |-> disk["meta"].fp, key |-> disk["oldpub"].key]

(* ... and its entry becomes one of the new pair: the one just made, or the one
   loaded from the files if the migration was in an earlier run. *)
NewIdentity(p) ==
  IF proc[p].key # NoKey THEN [fp |-> proc[p].key, key |-> proc[p].key]
                         ELSE [fp |-> disk["meta"].fp, key |-> disk["pub"].key]

RekeyCommit(p) ==
  /\ proc[p].pc = "commit" /\ EntriesOf("oldmeta") # {}
  /\ proc[p].key = NoKey => /\ \A s \in Primary : Exists(s)
                            /\ Decrypts(disk["priv"], disk["meta"])
  /\ entries' = (entries \ EntriesOf("oldmeta")) \cup {NewIdentity(p)}
  /\ Finish(p)
  /\ UNCHANGED <<disk, made, commands, excused>>

(* An owner grants access to the public key that `dl cert export-pub` shows;
   an entry of another key stays. *)
Granted(p) ==
  /\ \A s \in Primary : Exists(s)
  /\ Decrypts(disk["priv"], disk["meta"])
  /\ Start(p, "idle", "none", Plain)
  /\ entries' = {e \in entries : e.fp # disk["pub"].key}
                 \cup {[fp |-> disk["pub"].key, key |-> disk["pub"].key]}
  /\ UNCHANGED <<disk, made, excused>>

Kill(p) ==
  /\ proc[p].pc # "idle"
  /\ Finish(p)
  /\ excused' = excused \cup {IF proc[p].cmd = "passwd" THEN "passwd" ELSE "killed"}
  /\ UNCHANGED <<disk, entries, made, commands>>

Next == \E p \in Procs :
  \/ \E under \in Passphrases \cup {Plain} :
       \/ \E force \in BOOLEAN : StartInit(p, force, under)
       \/ StartPasswd(p, under)
       \/ StartMigrate(p, under)
  \/ ReadPrivate(p) \/ Answer(p) \/ GiveUp(p)
  \/ Archive(p) \/ Write(p)
  \/ RekeyUnlock(p) \/ RekeyCommit(p)
  \/ Granted(p) \/ Kill(p)

Spec == Init /\ [][Next]_vars

-----------------------------------------------------------------------------

(* Types, and what each slot can hold. *)
TypeOK ==
  /\ DOMAIN disk = Slots
  /\ \A s \in {"priv", "oldpriv"} : Exists(s) =>
       disk[s].key \in Keys /\ disk[s].under \in Passphrases \cup {Blank, Plain}
  /\ \A s \in {"pub", "oldpub"} : Exists(s) => disk[s].key \in Keys
  /\ \A s \in {"meta", "oldmeta"} : Exists(s) =>
       disk[s].fp \in Keys /\ disk[s].encrypted \in BOOLEAN
  /\ \A s \in {"oldpriv", "oldpub"} :
       Exists(s) /\ excused = {} => disk[s].key[2] = "rsa"
  /\ entries \subseteq [fp : Keys, key : Keys]
  /\ made \in 0 .. MaxCommands /\ commands \in 0 .. MaxCommands
  /\ excused \subseteq {"forced", "passwd", "killed"}

(* Every private key the vault is wrapped for is on disk, in the one place or
   the other - wherever a passwd or a migrate was killed.  Only
   `cert init --force` replaces it. *)
Kept(k) == \E s \in {"priv", "oldpriv"} : Exists(s) /\ disk[s].key = k
KeyKept == "forced" \notin excused => \A e \in entries : Kept(e.key)

(* identity.rs:445 "Archive the RSA identity FIRST (its files must never be
   lost)": of a pair whose private key was archived, or is to be. *)
RsaKept ==
  [][\A k \in Keys : k[2] = "rsa" /\ Kept(k) /\ excused' = {} => Kept(k)']_vars

(* Unless an init or a migrate was killed half way, the files fit together
   whenever none runs: all three or none, one pair, and encrypted as the
   metadata say; only this last is lost when a passwd was killed between its
   two writes (identity.rs:343-350). *)
FlagFits(priv, meta) == "passwd" \in excused \/ Decrypts(disk[priv], disk[meta])
Whole(priv, pub, meta) ==
  \/ ~Exists(priv) /\ ~Exists(pub) /\ ~Exists(meta)
  \/ /\ Exists(priv) /\ Exists(pub) /\ Exists(meta)
     /\ disk[priv].key = disk[meta].fp /\ disk[pub].key = disk[meta].fp
     /\ FlagFits(priv, meta)
WholeAtRest ==
  AllIdle /\ "killed" \notin excused =>
    Whole("priv", "pub", "meta") /\ Whole("oldpriv", "oldpub", "oldmeta")

(* The user can unlock the project he is a member of, whatever passwd, migrate
   and grants came in which order (find_local_recipient: the current pair
   first, then the archived one), unless a command was killed. *)
CanUnlock ==
  AllIdle /\ excused = {} /\ entries # {} =>
    IF Exists("meta") /\ EntriesOf("meta") # {} THEN Unlocks("priv", "pub", "meta")
    ELSE Unlocks("oldpriv", "oldpub", "oldmeta")

(* As CanUnlock, although a passwd was killed: fails, the metadata say of the
   new private key what was so of the old one. *)
UnlocksAfterKill ==
  AllIdle /\ excused \subseteq {"passwd"} /\ entries # {} =>
    Unlocks("priv", "pub", "meta") \/ Unlocks("oldpriv", "oldpub", "oldmeta")
=============================================================================
