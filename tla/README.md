# Verification of dotlock

`dl` keeps the secrets of a project in two files under `.lock/`: `vault.toml`
(metadata: wrapped keys, hashes, a MAC, an epoch) and `secrets.lock` (the
encrypted records).  Any number of `dl` processes work on them at once; there
is no daemon.  This directory holds TLA+ models of the parts of the program in
which order, crashes and concurrency matter, the runs that check them with TLC
and the proofs that TLAPS checks.  Paths below are relative to the repository.

## Inventory

| component | source | state | operations | modelled in |
|---|---|---|---|---|
| vault transaction | `src/storage/vault_txn.rs` | the two files, two temps, `txn.journal`, the flock on `.txn.lock` | `lock_vault_pair`, `commit_vault_pair`, `recover_pending` | `VaultTxn` |
| vault commands | `src/storage/{unlock_file,secrets_lock,vault_file,config}.rs`, `src/crypto/integrity.rs`, `src/commands/` | content of the pair; metadata and project key in a command's memory | unlock, get, set, unset, config, rotate, ratchet, re-encrypt | `VaultCommands` (partly) |
| repair | `src/commands/repair.rs` | its diagnosis | diagnose, prune, reseal | `VaultCommands` |
| rollback anchor | `src/storage/epoch_anchor.rs` | the newest epoch seen, per user and project | `last_seen_epoch`, `advance_epoch` | `VaultCommands` |
| session cache | `src/storage/cache.rs`, `src/commands/lock.rs` | the project key, wrapped, with an expiry; the wrap key | read, write, invalidate, lock | `SessionCache` |
| audit log | `src/audit/` | log, rotated logs, archives, high-water mark, lock file | append, rotate, verify | `AuditLog` (partly) |
| git merge driver | `src/git/merge.rs` | three versions of a file | merge `secrets.lock`, merge `vault.toml` | `MergeDriver` (partly) |
| pending merge | `src/storage/pending_merge.rs`, `src/commands/reconcile.rs` | `.lock/pending-merge` marker | gate on unlock, reconcile | `MergeDriver` |
| shared access | `src/storage/shared_access.rs`, `src/crypto/share.rs`, `src/commands/share.rs` | recipients, grants, signers, their wrappings | enable, grant, allow, revoke, rekey | `Sharing` |
| import of .env files | `src/commands/migrate.rs` | none of its own | one commit that sets several names | `Sharing` |
| local identity | `src/storage/identity.rs`, `src/commands/cert.rs` | private key, public key, metadata, archived RSA identity | init, passwd, migrate | `Identity` |
| environments, init | `src/storage/{project,init_project}.rs`, `src/commands/env.rs` | one pair per environment, the persisted selection | init, add, use, remove | `Environments` (partly) |
| git fetch, sync | `src/git/{fetch,sync}.rs`, `src/commands/sync.rs` | the work tree and the branch | pull with a time-out, fast-forward, report | `GitSync` |
| providers | `src/providers/mod.rs` | a child process, its pipes | open, hash, execute, feed, read, time out | `Providers` (partly) |
| run, exec, export | `src/runtime/`, `src/commands/`, `src/storage/env_file.rs` | none | read all secrets, start a child or write a file | `Providers`, `GitSync` (partly) |
| cryptography, file primitives, CLI, types | `src/crypto/`, `src/storage/secure_fs.rs`, `src/cli/`, `src/domain/` | none that outlives a call | | not modelled |

How they interact.  Every command but `init` first calls `recover_pending` and
the pending-merge gate, reads `vault.toml` once, obtains the project key (from
the session cache, the password or the local identity), verifies the MAC,
compares and advances the rollback anchor, and verifies the hash of
`secrets.lock`.  It then works on the metadata in memory.  Every write goes
through `commit_vault_pair`, which takes the flock; `set` and `unset` take it
earlier and refresh their metadata under it.  After a commit the anchor is
advanced again.  Unlocks, rotations and repairs append to the audit log; a
failure there is a warning.  The processes share files only: there are no
messages, and no step of one process waits for another except on the flock, on
the audit lock file, on a `git` it has started and on a provider.  Identity,
environments, cache and the marker are written outside the transaction; git
writes the pair without any lock of `dl`.

What is hard.  Crashes between any two file operations, during recovery as
well; reads without the lock beside commits; metadata read before a lock is
taken and written after it; compare-then-replace of the anchor; a cached key
that outlives the rotation of the key, or the end of the session; an audit lock
file that outlives its owner; lines cut short; a rotation of the log beside an
append; the two files of the pair merged by two independent runs of the merge
driver, or by git; a pull that is killed between two files; multi-file updates
outside the transaction (identity, init, environments); three pipes of limited
size between two processes; grants, revocations and key changes in any order.
`PROJECT.json` lists these hazards line by line.

What makes each part correct:

* transaction: the files always resolve to a pair some commit installed;
  recovery always succeeds; a guard keeps everybody else from both files;
* commands: no update is lost, the pair on disk always opens, the epoch grows,
  a retired key stays retired, nobody is told of damage that is none;
* anchor: no command puts it ahead of the vault or backwards;
* repair: ends in a pair that opens, removes nothing that can be read;
* session cache: once the session has ended nobody new is served without a
  credential; a time-to-live of zero serves nobody;
* audit log: an acknowledged entry is never lost unnoticed, an intact log
  verifies, an append always ends;
* merge and reconcile: what the gate lets a command open does open; no one-sided
  edit is lost; the result does not depend on who merges; a revoked recipient
  stays out;
* sharing: every wrapping is of the keys of now; full access is every secret;
  nobody loses one by a command that is not about him;
* identity: the private key the vault is wrapped for is never lost;
* environments: what exists opens, and what was set is there;
* git: local work stays, what `dl sync` says is so, nobody works on half a pair;
* providers: the value is whole and of the pinned bytes, as far as the platform
  lets `dl` see to that; the run ends.

## Modules

| module | models | extends |
|---|---|---|
| `VaultPair` | abstract: a pair that changes in one step | |
| `VaultTxn` | `vault_txn.rs`, one action per file operation; implements `VaultPair` | |
| `SecretStore` | abstract: what set, unset and get promise | |
| `VaultCommands` | whole commands over a pair that commits atomically; locked setters implement `SecretStore` | |
| `AuditLog` | the audit log, one action per file operation | |
| `MergeDriver` | two branches of a pair, git and the driver, the marker, reconcile | |
| `Sharing` | who is wrapped for what, one action per command | |
| `Identity` | `dl cert`, one action per file operation | |
| `SessionCache` | the cache and its readers and writers | |
| `GitSync` | pulls beside commands | |
| `Environments` | environments made and removed file by file | |
| `Providers` | a run, its provider and the pipes between them | |
| `MC<module>` | constants of the runs | `<module>` |
| `VaultTxnProofs`, `VaultCommandsProofs`, `AuditLogProofs`, `MergeDriverProofs`, `SharingProofs`, `IdentityProofs`, `EnvironmentsProofs` | theorems | the module and `TLAPS` |
| `RunProofs` | theorems about the three modules of a `dl run` | `GitSync`, `SessionCache`, `Providers` and `TLAPS` |

How they fit together.  `VaultTxn` justifies the one assumption all the others
make, that a commit of the pair is one step: theorem `Refinement` says so for
any number of processes and crashes.  `VaultCommands` is about what happens
between the commands of one vault, `MergeDriver` about what happens between two
branches of it, `Sharing` about what one command after the other does to the
keys.  `Identity` and `Sharing` meet in the entry of a person among the
recipients, `SessionCache` and `VaultCommands` in the cached key (which
`VaultCommands` reads at any age), `GitSync` and `MergeDriver` in git's
checkout, which the first takes apart and the second makes in one step.
`GitSync`, `SessionCache` and `Providers` are what `dl run` goes through before
its command starts; their names do not clash (`Spec`, `SessionSpec`,
`ProviderSpec`), so that one module of proofs extends all three.

### VaultTxn

A file content is the number of the commit that wrote it, a digest is the
content.  `pc[p]` is the file operation process `p` performs next; the actions
follow `commit_vault_pair` (`BeginCommit` to `DropJournal`),
`recover_pending_locked` (`Recheck` to `RemoveJournal`) and the two unlocked
reads of a command (`ReadVault`, `ReadSecrets`).  `Verdict` is the case
analysis of recovery.  `Crash(p)` is the death of a process at any operation,
and every `?` of the code as well: the files stay as they are and the kernel
frees the flock.  `CrashWriting(p)` leaves the file being written torn.
`NestedCommit` is a commit of a mutator that already holds the guard (the
thread-local registry of held locks).  `committed` and `disturbed` are history.

`VaultPair` allows one step: a commit newer than all before installs its pair,
with a new or the old `secrets.lock`.  The refinement maps the pair to
`Resolved`: what the two files stand for once recovery has run.  The commit
point is the rename of `vault.toml`.

### VaultCommands

A `vault.toml` is a record of its epoch, project key, write counter, SDK
wrappings and the hash of `secrets.lock`; a hash is the content itself.  A
command that does not hold the project key of a `vault.toml` fails on its MAC.
`meta[p]` is the metadata the command holds in memory, the one thing that gets
stale.  Commands fall in three classes, as in the code: `set` and `unset` lock,
refresh and commit; `config`, `rotate` and `allow` commit what they unlocked;
`repair` diagnoses, locks and commits what it unlocked.  `config` stands for
every command with the same commit pattern (config set and unset, share enable
and grant, a new master password); `rotate` also for a revocation, `allow` for
the removal of an ACL entry.  The ratchet runs inside `set` and `unset` and
commits on its own before the command goes on.

With `Damaged` the vault begins as a partial restore leaves it: `secrets.lock`
and `vault.toml` of different commits (records without a wrapping, or with that
of another key), wrappings that do not open (`BadWrap`), a sealed hash of
another file or one that does not open (`LostHash`), and an anchor ahead of
`vault.toml`, which then is refused unless the user accepts the rollback
(`EnforceAnchor`).  `CannotUnwrap` is where a command meets a broken wrapping:
`set` and `allow` in the record they re-encrypt, a rotation in any.

`SecretStore` is what the user is promised: one step gives one name a new
value or removes it, and nothing else changes.

`overtaken` marks commands beside which another one committed; `alarms`
collects the errors of commands nobody overtook.

### AuditLog

An entry is its number and that of its predecessor.  A line that does not parse
is `Junk`.  `Put` is the write of a line behind the last byte of the file: if
the last line was not ended, the two become one malformed line.  A file
descriptor follows the file through a rename and to its unlinking.  `writeln!`
is two writes (line, newline).  gzip is three steps: a partial archive, the
complete archive, the unlink.  The lock file stays when its owner dies;
`ClearLock` is a person who removes it.  `known[p]` is what had been
acknowledged when a verification read the log.

### MergeDriver

A developer works in a clone and merges the branch of another one.  A record is
its id, version counter, time stamp, SDK and value; vault.toml has the hash, the
epoch, the two key versions, wrappings per record, recipients with the signer of
their grant, and a MAC that is sealed or cleared.  `Choose` and `Latest` are
`choose_secret` and `choose_latest`, `UnionOf` the union of the wrappings, and
so on down `merge_vault`.  `Trivial` is git: a file that one side alone changed
is taken over without the driver.  git calls the driver for one file after the
other, the marker is written at once by the run for `secrets.lock`, and the
results come into the work tree at the end; a merge can be killed, aborted or
left in conflict, and the marker is not git's.  `dl reconcile` commits and then
removes the marker, with a crash in between.  A `dl set` may have unlocked
before the merge.  `joined` remembers the three versions of the merge whose
result is in the work tree.

### Sharing

The people are finitely many, and a vault that is shared at the start lists its
recipients in any order.  A person has a current key pair and perhaps an archived RSA one; a recipient is
a fingerprint, a grant (full, or a list of names), its signer, a wrapped project
key and wrapped keys of secrets.  `Wrap`, `Blessed`, `Rotated` and `Rewrapped`
are what the code calls in the middle of several commands: each command of
`share.rs`, `cert.rs` (rekey), `set`, `unset`, `migrate` and `rotate` is one
action composed of these, in the code's order.  `Access` is what unlocking gives
a person (full, limited, none, or an alarm) and `CanRead` what he then decrypts.
`aim` is whom the last command was to give or take access.  `OwnerRegainsAll` is
the way back of an owner: by the master password he revokes the entries he has
(`SharingProofs` shows that nobody ever has more than two), grants himself
full access, and reads everything.

### Identity

Six slots on disk, of which `dl cert` writes and renames one at a time; `left`
is what a command still has to write.  `Prepared` is the part of each command
before its first write, with its refusals.  A kill is possible before any step.
The last step of `migrate` is the entry of this identity in the vault, which is
replaced; a grant adds one and leaves those of other keys.  `excused` tells a
killed `passwd`, which leaves one pair with a flag that may be wrong, from other
killed commands, which may leave anything but a lost key.

### SessionCache

`ReadEntry`, `Judge`, `VerifyKey`, `Prepare`, `WriteWrapKey` and `WriteEntry` are
`read_cached_dek_inner` with its checks on age and mode, the MAC check that
discards a key that does not fit, and `write_cached_dek_inner` with its wrap key.  `Prove` is whoever
types a password.  `clock` advances at any time.  `closed` is set when a lock, a
rotation, an alarm or shared mode ends the session and cleared when somebody
proves a credential.  `late` are the commands that carried a key when it ended:
one of them may still write the cache, as `write_cached_dek_inner` does not look
back, and that opens the session again too.  So `dl lock` does not wait for the
commands under way, and `LockEndsSession` does not say so.

### GitSync

Histories are sequences of commit numbers, at the remote, as last fetched, and
here.  The child of `dl` is a pull that fetches and then checks out, first
`secrets.lock`, then `vault.toml`, then the branch, holding git's index lock;
`TimeOut` kills the child and not the checkout that it has started.  A run reads
`vault.toml` and verifies `secrets.lock` in two steps and raises an alarm when
they do not fit.  `dl sync` checks for a clean tree, fetches, classifies, fast-
forwards and reports, each a step.  A teammate pushes; the user commits and
pushes.  `beside` marks what the code cannot know: that a pair was
read or written during a checkout it did not start.

### Environments

An environment is a pair of files with keys of its own.  `StartAdd` to
`SaveVault` are `dl init` and `dl env add` (both write `secrets.lock`, if it is
not there, hash it and then save `vault.toml`); `Confirm` to `ResetSelection`
are `dl env remove`, which deletes the files in any order.  `dl set` resolves its
environment at the start and commits in it at the end; the refresh under the
lock refuses other keys.  Environments in `excused` were made or removed beside
another command of theirs, or their removal was killed.

### Providers

A run goes through the records; for a dynamic one it opens the binary, hashes
it, compares with the pin, executes it, writes the input, polls with a time-out, joins the two reader threads and looks at what they kept.  Pipes
hold `PipeSize` units and block.  The provider may write, close its input, exit,
leave a process with the pipes open, or do nothing.  At any time another file may
be renamed over the provider (`Upgrade`), or the file be written in place, while
`dl` has it open or not (`Overwrite`).  On Linux `dl` executes the file it
opened, elsewhere what is at the path (`Executed`); `swapped` are the records
whose provider changed where neither notices: the opened file between
comparison and execution, and off Linux the path since the opening.

## Runs

`PROJECT.json` lists twelve; every property of a passing run has a mutant there,
a plausible bug of the code that the run detects.

| run | checks | bounds |
|---|---|---|
| `txn_pair` | `TypeOK`, `ResolvesToCommitted`, `UndisturbedReadIsCommitted`, `GuardedPairStable`, `ImplementsPair`, and `EveryCommandEnds` under fairness | 2 processes, 2 commits (`MaxTxn`), any number of reads and crashes |
| `cmd_setters` | `NoFalseAlarm`, `ImplementsStore` | 2 processes, 2 names, 2 mutating commands, any number of gets and crashes |
| `cmd_operator` | `AnchorFollowsVault`, `OnlyStaleCacheAlarms`, `PairStaysUsable`, `RepairHeals`, `RepairPrunesOnlyLost` | one process with every command, one reader, one name, 3 commands, ratchet after 2 writes, whole vaults and every pair a partial restore leaves, with an anchor behind, level with or ahead of it |
| `cmd_config_race` | `PairUsable`, violated | a `set` and a `config` |
| `audit_appends` | `IntactLogVerifies`, `IntactOkIsComplete`, `OnlyGrows`, and `EveryAppendEnds` under fairness | 2 processes, 2 appends, 2 seconds, 1 crash, any number of failed steps and torn lines |
| `merge_merge` | `UngatedPairOpens`, `NoEditLost`, `MergeCommutes`, `RevokedStaysOut` | 2 names, one recipient, clocks that say 1 or 2, 3 commands on the branches, 2 merges |
| `share_today` | `WrappingsCurrent`, `FullReadsAll`, `OwnerRegainsAll`, `RecipientsKeepReading` | an owner and a colleague, 2 names, 4 commands, from an unshared vault, signed ones with old key pairs, and an unsigned one without |
| `ident_alone` | `KeyKept`, `WholeAtRest`, `CanUnlock` | 6 commands one after the other, one passphrase, killed anywhere |
| `cache_session` | `LockEndsSession`, `ZeroTurnsItOff` | 2 processes, 3 commands, 1 rotation, 3 points in time, a cap of 1, times-to-live of 0 and 9 |
| `git_sync` | `LocalWorkKept`, `SyncTellsTheTruth`, `NoHalfPair`, and `RunGoesOn` under fairness | 2 processes, 2 commits or writes beside the first (`MaxMade` 3), any number of commands, kills and time-outs |
| `env_envs` | `ExistingOpens`, `NothingLost` | 2 processes, 2 environments, 3 creations, 2 sets, 7 commands |
| `prov_providers` | `ValueIsWhole`, `OnlyThePinned`, `NoneLeftRunning`, and `PoliteRunEnds` under fairness | two records, pipes of one unit, an input of two, a limit of one, up to two units said on each stream |

The other modules' `TypeOK`, `ParsedJournalResolves` and `ProtocolInv`
(`VaultTxn`), `EpochAdvances` (`VaultCommands`, with the constants of
`cmd_setters`), `MergeKeepsEpoch`, `RunIsCurrent`, `BranchGrows`,
and `CommandHasAll` hold as well when they are named in the
configuration of their module.  Two larger configurations pass and are kept:
`MCVaultCommands_repair.cfg` (a repair with two names) and
`MCAuditLog_crashes.cfg` (three processes, three appends).

`CHECK_DEADLOCK FALSE` stands where the bounds end every behaviour: commands are
counted, and nobody has to start one.  In `txn_pair`, `cmd_setters`,
`cmd_operator`, `cache_session`, `git_sync` and `prov_providers` something (a
read, a get, a pull, an edit of the metadata, the wait after the end) stays
possible, and deadlock is checked.

Why the bounds are enough.  Two processes are the smallest number with a race,
and the protocols are symmetric: all that a process knows of the others is in
the shared files and the locks, so a third process adds no new kind of state.
For the safety properties the runs check this need not be believed: each of
them is also a theorem, for any number of processes, names, people and steps.
That the bounds matter is not idle: with three commands on the branches
`NoEditLost` held as it had first been stated, and its proof failed on a merge
after a fourth (`ResolutionKept` below).  Two commits give every commit a predecessor left over by a
crash; the bound is on commits, not on crashes, so crash after crash is covered.
Two mutating commands give one the other's leftovers; two appends and a rotation
are an entry, its successor and the file between them.  Three commands and two
merges are a change on either side, one on top of a merge, and a merge of what a
merge made.  Four commands on a shared vault are a grant, two changes of keys or
access, and a write or rotation after them; the colleague's keys start in every
state.  Six `cert` commands are an init, a passwd, a migrate, each killed once
and repeated.  Two clock values say earlier, equal and later.  Pipes of one unit
with an input of two block both ways, and two units said are below, at and
beyond a limit of one.

Fairness.  In `VaultTxn` and `AuditLog`, `Step(p)` is weakly fair: a process
that can take its next step is scheduled.  `Acquire(p)` of `VaultTxn` is
strongly fair: the kernel does not starve a waiter on a flock for ever.  The
audit lock needs no fairness of its own, because its waiters give up after ten
seconds.  In `GitSync` only `Dl(p)`, the steps of `dl` with its polling loop and
its clock, are weakly fair; git and the remote may stop for ever.  In
`Providers` `dl`, its reader threads and its clock are, and a polite provider
reads its input; nothing else is assumed of it.  Nobody has to start a command
or to crash.

### What the repository says and the code does not keep

`cmd_config_race` is a listed run; `PROJECT.json` quotes the sentence it refutes
under `findings`.  The configurations below are kept for whoever works on that
code (`tlc -config <cfg> <module>`); each ends in a counterexample to a sentence
of the repository, or to what one would like it to promise.  Where the table
says "constants of", name the property in a copy of that configuration.

| configuration | property | what happens |
|---|---|---|
| `MCVaultCommands_config_race.cfg` | `PairUsable` | `config` puts back metadata from before a `set`: the hash of the pair is wrong; with the same constants the epoch does not grow (`EpochAdvances`) |
| `MCVaultTxn_stuck.cfg` | `AlwaysRecoverable` (`vault_txn.rs:4`) | torn journal; the process that rolls it back dies after it removed the temp and before it removed the journal; nobody can recover any more |
| constants of `MCVaultTxn_stuck.cfg` | `ReadersSeeWholeCommits` | the two lock-free reads straddle a commit; the command fails and can be repeated |
| `MCVaultCommands_ratchet_race.cfg` | `SetLeavesNoOrphan` (`secrets_lock.rs:278`) | a ratchet commits over a concurrent `set`; both are of one epoch, and the refresh compares epochs only |
| `MCVaultCommands_repair_race.cfg` | `RepairPrunesOnlyLost` (`repair.rs:136`) | a record that was written anew after the diagnosis is pruned |
| `MCVaultCommands_rotate_race.cfg` | `RotationSticks` | a `set` with the retired key, at an epoch that is not smaller, commits it back |
| constants of `MCVaultCommands_operator.cfg` | `RepairedUnlocks` (`README.md:335`) | `unlock_full_for_repair` does not look at the anchor and reseals at the next epoch of the old `vault.toml`; when a backup older than the anchor was restored, the repaired vault is refused as a rollback |
| `MCVaultCommands_anchor_race.cfg` | `AnchorNeverBackward` | compare, overtaken, replace; the next unlock advances the anchor again |
| `MCAuditLog_torn.cfg` | `AlwaysReadable` (`log.rs:237`) | the line after a torn line merges with it and then is in the middle; with the same constants an ok may miss an entry (`OkMeansComplete`) |
| constants of `MCAuditLog_torn.cfg`, `MayTear = FALSE` | `BadMeansDisturbed` | `dl audit verify` reads the entries before the mark of an append |
| `MCAuditLog_rotate_lost.cfg` | `OkMeansComplete` (`README.md:569`) | `dl audit rotate` compresses and unlinks the file an append has open |
| constants of `MCMergeDriver_merge.cfg` | `WrappingFollowsRecord` (`merge.rs:332`) | git resolves `secrets.lock` by itself and the driver `vault.toml`, with the wrapping of the other side for a re-encrypted record; the marker holds the pair back |
| the same, without `SYMMETRY` | `NoUnblessedWrite` (`pending_merge.rs:136`) | a `set` that unlocked before the merge commits into it |
| the same | `ReconcilePossible` | a marker whose hashes match nothing: the merge was killed between the files, or aborted, or reconcile was killed before it removed the marker |
| the same | `NoEditLostEver` (`merge.rs:218`) | a secret removed and set again starts at version 1 and loses against its older self |
| constants of `MCMergeDriver_merge.cfg`, with `People = {}`, `Times = {1}`, `MaxOps = 4` | `ResolutionKept` | `choose_secret` looks at the base only if one side has no record: when a conflict was resolved with `git checkout --ours`, in favour of a record older than the base of the next merge, that merge takes the other side's, although nobody there has touched it |
| `MCSharing_transition.cfg` | `RecipientsKeepReading` (`shared_access.rs:166`) | in a vault without signers a rekey installs the first signer and blesses nobody |
| `MCSharing_direct.cfg` | `ProjectKeyOpensAll` (`secrets_lock.rs:532`) | a vault from before keys per secret is sealed at version 7 with records that are still direct |
| constants of `MCSharing_today.cfg` | `RevokedIsOut` (`README.md:458`) | a person with two entries is revoked from one of them |
| the same | `MasterPasswordWrites` (`domain/vault.rs:301`) | an owner limited his own entry, and the secrets on its list are gone: he unlocks by the master password and may not write |
| the same | `OwnerKeepsReading` (`README.md:376`) | the first grant to somebody else leaves an owner without an entry of his own nothing that opens a secret, until he grants himself access |
| `MCIdentity_race.cfg` | `RsaKept` (`identity.rs:445`) | two `cert migrate` side by side: the second archives the new key over the old one |
| constants of `MCIdentity_alone.cfg` | `UnlocksAfterKill` (`identity.rs:343`) | a `passwd` killed between the private key and the metadata: these say of the new key what was so of the old one, and it does not unlock |
| `MCSessionCache_sliding.cfg` | `KeyLifeCapped` (`cache.rs:28`, `README.md:702`) | every unlock from the cache writes it with a new expiry |
| constants of `MCSessionCache_session.cfg` | `OnlyProofReopens` (`cache.rs:300`) | a command that unlocked before `dl lock` or a rotation writes the key into the cache after it |
| `MCSessionCache_unlocked.cfg` | `LockAlwaysEnds` (`README.md:168`) | `dl lock` fails on a `vault.toml` that does not parse and leaves the key |
| `MCGitSync_local.cfg` | `LocalMeansLocal` (`fetch.rs:57`) | the checkout of a killed pull goes on beside the run that "uses the local vault" |
| `MCEnvironments_readd.cfg` | `AddedAnewOpens` (`README.md:196`) | a killed removal leaves `secrets.lock`, which the next `env add` takes over |
| constants of `MCEnvironments_envs.cfg` | `NeverDangling` (`env.rs:166`) | a removal that is killed, or runs beside `env use`, leaves the selection behind |
| constants of `MCProviders_providers.cfg` | `EveryRunEnds` (`README.md:693`) | a provider that does not read its input, or whose child holds a pipe: writing and joining have no time-out |
| the same | `HashedIsExecuted` (`providers/mod.rs:38`) | on Linux, the opened file is written in place between the comparison and the execution |
| the same | `LimitedRunStarts` (`README.md:439`) | a limited recipient's run fails at the first dynamic secret that is not on his list, and is not started with the others |

These are why the passing runs say what they say.  `cmd_setters` holds for any
number of setters because both sides lock and refresh; `PairStaysUsable` holds
with one writer only.  `RepairHeals` is about the pair, not about the anchor.
`NoFalseAlarm` excludes overtaken commands because their
lock-free reads may straddle a commit.  The audit properties exclude logs from
which a write was cut.  `UngatedPairOpens` excludes a command that unlocked
before a merge, `NoEditLost` a record of ours that is older than the one of the
base, `NoHalfPair` a reader beside a checkout that it did not wait for (the merge
that outlives the killed pull of the same run is one: `MCGitSync_local.cfg`, one
run is enough), `ExistingOpens` and `NothingLost` an environment removed beside
a command of its own, `WholeAtRest` and `CanUnlock` what killed commands left, `RecipientsKeepReading`
people with two entries.  `share_today` starts unsigned vaults without old keys,
and `ident_alone` runs one command at a time.

## Proofs

The theorems hold for every value of the constants, under the named assumptions
of the modules: bounds are natural numbers (`MaxMade` counts the first commit
and is not zero), `NoProc` and `Nobody` are no
processes, `Default` is an environment and `NoSelection` none, pipes hold at
least one unit, people are finitely many and some own the vault.  Where a
theorem needs more, it says so with a hypothesis (`OneWriter`, `SettersOnly`,
`CurrentStarts`, `~Overlap`); each of these is a condition on how the program is
used, and a configuration of the table above shows what happens without it.
Each module has one inductive invariant (two in `VaultCommandsProofs`), whose
preservation is proved action by action.

`VaultTxnProofs`: `TypeCorrect`, `AtomicPair` (`ResolvesToCommitted`),
`ParsedJournals` (`ParsedJournalResolves`), `UndisturbedReads`, `GuardedWindow`
and `Refinement` (`ImplementsPair`).  They follow from one inductive invariant,
`IInv == TypeOK /\ ProtocolInv` (`Invariance`).  None of the properties is
inductive by itself.  `LockInv` says that only the holder of the flock is
between acquiring and dropping it, so at most one process is inside a commit or
a recovery and the steps of the others leave the files alone.  `CommitInv` and
`RecoverInv` say what the holder knows at each label.  `JournalInv` describes
the files while a whole journal exists, without reference to any process, so
that it survives the death of the holder: they are before the first rename,
between the two, or after the second, and in the middle case the secrets temp
has the digest of the journal.  `FreshInv` orders contents by age, which keeps
the three cases apart (an old content is never equal to a new one).  `ReadInv`
carries what an undisturbed reader has seen.  The refinement uses the invariant
to show that only `RenameVault` changes `Resolved`, and that it does what
`Install` allows; the roll-forward, the second rename and the removal of the
journal leave it as it is.

`VaultCommandsProofs`: `TypeCorrect`, for all commands at once; then two
theories.  Under `OneWriter` one process runs whatever it likes, on a pair that
may have been damaged before, and the others only `get`: `AnchorHolds`
(`AnchorFollowsVault`), `OnlyTheCacheAlarms` (`OnlyStaleCacheAlarms`),
`UsablePairStays` (`PairStaysUsable`), `RepairLeavesUsablePair` (`RepairHeals`),
`RepairSparesReadable` (`RepairPrunesOnlyLost`), `WriterAdvancesEpoch`
(`EpochAdvances`) and `WriterRotationSticks` (`RotationSticks`).  Under
`SettersOnly` any number of processes run `set`, `unset` and `get`, without a
ratchet, on a pair that is whole: `SettersRaiseNoAlarm` (`NoFalseAlarm`),
`SettersKeepPairUsable`, `SettersKeepAnchorBehind` and `Refinement`
(`ImplementsStore`: no update of another one is lost).  Both rest on `Knows`:
metadata in memory are never newer than `vault.toml`, are `vault.toml` if they
have its epoch, and are overtaken otherwise.  `OneWriterInv(w)` adds that what
`w` works on is the pair as it is; `SettersInv` that a setter holds the lock
from the refresh on, and that its metadata are then the ones on disk.  For the
step to the store the proof shows that a commit under the lock changes what
`get` prints for one name.  Two writers of which one is not a locked setter, and
a ratchet beside a setter, are what the `_race` configurations refute.

`AuditLogProofs`: `IntactVerifies` (`IntactLogVerifies`), `OkIsComplete`
(`IntactOkIsComplete`) and `LogOnlyGrows` (`OnlyGrows`).  `Types` and `Holders`
(who is beyond the lock has made the lock file, but for a manual rotation) hold
always; the rest while nothing is disturbed.  `FilesKept` and `GzipsApart`
describe the files of every second while they are renamed, compressed and
unlinked: a half archive has its plain file beside it, and two rotations never
work on the same second.  `CurrentOpen` says that whoever writes writes to the
current file, at the beginning of a line.  `Logged` then is about the history
as a whole, whatever files it is in: it is a chain, the mark does not exceed it,
what was acknowledged is a subsequence of it, and an append knows the log it
extends; `Verified` carries this to a verification.  Most of the lemmas are
about reading the files one behind the other (`Joins`, `FlattenIs`,
`FlattenPlus`, `FlattenWithin`), about subsequences, and about chains that grow
by one entry (`ChainGrows`).

`MergeDriverProofs`: `TypeCorrect`, `GateHolds` (`UngatedPairOpens`),
`EditsAreKept` (`NoEditLost`), `MergeIsCommutative` (`MergeCommutes`),
`RevocationStands` (`RevokedStaysOut`) and `EpochIsKept` (`MergeKeepsEpoch`),
without hypotheses.  `RecordsInv` says
that a number is minted for one record, so two versions with one value have one
id: this is why the choice of the driver does not depend on the side.  `Descent`
says that versions only grow from the base to the other branch.  `MergeInv` is
what the driver has left for git while a merge is under way, `GateInv` what
opens then: base and other branch always, the work tree when nothing holds it
back, the branch for an abort.  `AheadInv` says that the other branch is ahead
of the base in its epoch and that a merge under way has something to merge; the
epoch that the driver writes is then behind neither side.

`SharingProofs`: `NoWrappingIsStale` (`WrappingsCurrent`), `FullAccessIsAll`
(`FullReadsAll`), `RecipientsKeep` (`RecipientsKeepReading`) and `OwnerComesBack`
(`OwnerRegainsAll`), under `CurrentStarts`: no vault from before keys per
secret, and none without signers in which people have old keys.  The invariant
says of the vault that its wrappings are of the records there are, under the
project key of now (`VaultOk`), of a recipient that all he holds is current and
his grant valid (`Ok`), and of a person that he has at most two entries, of
which one at most is of an old key (`FewOk`).  Every operator the commands are composed
of (`Wrap`, `Blessed`, `Rotated`, `Rewrapped`, `Dropped` and so on) has a lemma
on what it does to these.

`IdentityProofs`: `KeyIsKept` (`KeyKept`), `FilesFit` (`WholeAtRest`),
`MemberUnlocks` (`CanUnlock`) and `NoRsaKeyLost` (`RsaKept`), under `~Overlap`:
one `dl cert` command at a time, which is all the code is made for.  `FilesInv`
is why a killed migration is harmless: while the archive is incomplete there is
no private key in use, and the metadata, which are archived last, keep `init`
from starting.  `AskedInv`, `ArchiveInv` and `WriteInv` follow each command.
`FitInv` holds until an init or a migrate is killed: at each step of a migration
the files of the pair that is moved fit together, wherever they are, and a
`passwd` has one key in all three files at each step, so that its death can
spoil the flag and nothing else.

`EnvironmentsProofs`: `PairsOpen` (`ExistingOpens`) and `SetsAreKept`
(`NothingLost`).  For an environment
that is not excused, `Alone` says that whoever makes or removes it is the only
command for it; `FilesFit` is what the files are at rest, `Stage` what each
command knows of them between its steps (the metadata to be saved have the hash
of `secrets.lock` as it is).  Without `Stage` a save could fit any other content.

`RunProofs`, in three parts.  *The pull*: `LocalWork` (`LocalWorkKept`),
`TruthfulSync` (`SyncTellsTheTruth`), `WholePair` (`NoHalfPair`), `CurrentRun`
(`RunIsCurrent`) and `BranchOnlyGrows` (`BranchGrows`), and `GitTypeCorrect`.  The invariant:
`NumbersInv`, a number is given once and local work is in no history, so a clean
tree is told from a dirty one; `MergeInv` and `ChildInv`, a checkout goes
forward from the head of this clone, because nothing moves the head under it;
`FetchInv` and `SeenInv`, what was fetched is a prefix of the tracking branch
and that of the remote, all of which only grow, so what a command has seen stays
true; `WorkInv`, the two files differ only during a checkout, and a reader that
was not beside one has read from a whole pair.  The lemmas on prefixes
(`PrefixElements`, `PrefixOfPrefix`, `PrefixOfLonger`) carry the order of
histories.  *The unlock*: `SessionEnds` (`LockEndsSession`), `ZeroIsOff`
(`ZeroTurnsItOff`).  `LockEndsSession` speaks of the file; what makes it
inductive is `SessionInv`, that while the session is closed no command carries a
key but those that did when it was ended.  `TtlInv` says that an entry, and what
a command has read of one, ends within its own time-to-live, so one of zero is
over when somebody compares it.  Nothing is proved of how long a key stays
cached: renewal slides (`KeyLifeCapped` fails).  *The providers*: `PinnedValues` (`OnlyThePinned`),
`WholeValues` (`ValueIsWhole`), `NoProviderLeft` (`NoneLeftRunning`),
`EveryValueThere` (`CommandHasAll`) and `ProviderTypeCorrect`.  `PinInv` carries the comparison with the
pin to the value, while the opened file is not written and, off Linux, is still
the one at the path; `QuietInv` says that nobody writes to a pipe after the join;
`ValuesInv` that the records behind `dl` have a value exactly if they may.

Model-checked only: the liveness properties (`EveryCommandEnds`,
`EveryAppendEnds`, `RunGoesOn`, `PoliteRunEnds`), because TLAPS proves nothing
under fairness; and the type invariants of `AuditLog`, `Sharing`, `Identity`,
`Environments` and `SessionCache`, of which the inductive invariants contain as
much as the proofs need, without the bounds on counters.

## Not modelled, and abstractions

* Power loss: a crash is the death of a process, so what was written is there.
  The order of fsyncs in `vault_txn.rs` is not checked.
* Cryptography is ideal: a key opens what it sealed and nothing else.  KDFs,
  nonces, algorithms and the canonical form under the MAC are left out;
  signatures are the name of their signer.
* File primitives (symlinks, modes), the command line, prompts, tables, error
  texts, the parser of `.env` files and the formats of `export`.
* Vault commands: rotation by age (`rotate --if-due`), the creation of dynamic
  records (`upsert_dynamic`), `dl provider attest`.
* Audit: a line torn inside a UTF-8 character (an error even at the end of the
  file), a gzip that goes on after its parent has died, a second manual rotation
  in the same second, which overwrites the archive of the first.  An automatic
  rotation happens in a second in which no file was rotated before: the file
  that is rotated is 10 MiB big or 90 days old.
* Merge: criss-cross merges (more than one base), the installation of the driver
  into `.gitattributes`, more than one other branch.  Two facts of the code the
  model shows and no property is about: only reconcile removes the marker while
  `repair` refuses to work beside it, and a `git merge --abort` after a reconcile
  goes back to an epoch below the anchor.  Where git takes over a `vault.toml`
  by itself the signers are not checked.
* Identity: after a kill between the renames of a migration every later
  `migrate` fails, although the key is there; after a kill of `passwd` between
  key and metadata the flag is wrong, and `WholeAtRest` says that nothing else is.
  `KeyKept` holds through both; `CanUnlock` is about commands that were not
  killed.  An unlock that reads the three files beside a migration is not
  modelled.
* Cache: a clock that is set back lengthens a session; `dl share` leaves an entry
  until the next unlock; `dl lock` covers the selected environment only.  The
  legacy plaintext cache is only ever deleted and is left out.
* git: `dl sync` has no time-out; a run's second reading of `secrets.lock`
  (`src/runtime/mod.rs:44`) is part of its verification step; `dl sync` reads
  `HEAD` and the remote ref at two moments, one step here, and both only grow.
* Environments: the search for the project root; two concurrent creations of one
  environment are excused.
* Providers: the checks of names, owners and permissions before the open; a
  script, which its interpreter opens again after the execution; a rewrite in the
  middle of hashing.

## Plan

Done: all modules above, and a theorem for every safety property of the passing
runs.  Next, in this order:

1. `AuditLog`: that the mark counts no more than was appended, which `TypeOK`
   says and no theorem does.
2. `VaultDurability`: the file operations of `VaultTxn` under power loss, with
   the fsyncs of the code.
