# Verification of simple-file-encrypt

`simple-file-encrypt` keeps chosen files of a git repository encrypted in
place. A *domain* is a directory with a config file
`.simple-file-encrypt.toml`; the config lists the managed paths, the paths to
keep out, the paths to treat as binary, and a ring of domain keys, each wrapped
under a key derived from the password. The first key of the ring is current:
new ciphertext is written under it, older ones stay so that older ciphertext
can be read until `rekey --prune` drops them.

There is no journal and no database. What the user stands to lose — the only
copy of a secret — depends on the order in which two kinds of ordinary files
(the config, and the encrypted files) are replaced, on what is checked before
each replacement, and on the paths that those checks look at. That is what
this project is about:

- `DomainOps` models the commands that rewrite files, step by step, against
  interruptions, failing fsyncs, power loss, a second invocation, and a user
  who edits, stashes, merges and checks files out in the middle;
- `ManagedList` models the commands that rewrite the path lists, against a tree
  of directories, symlinks and nested repositories that changes meanwhile;
- `AtomicReplace` models the replacement of one file, system call by system
  call, against crashes and other programs;
- `InitNesting` models several `init`s in one tree, directory by directory;
- `KeyRing` models the wrapped keys while passwords change and git puts configs
  together from lines of several revisions;
- `OwnershipScan` models the decision whether a damaged file is ciphertext of
  this domain, decryption attempt by decryption attempt;
- `Select` models the walk that turns entries into files, directory entry by
  directory entry, against its budgets and a tree that changes meanwhile;
- `Gates` models the read-only scans `status`, `check` and `verify` beside the
  commands of `DomainOps`;
- the main safety properties are proved for every instance, and all properties
  are checked on small ones.

Contents: [inventory](#1-inventory), [modules](#2-modules-and-the-code),
[properties](#3-properties), [runs and bounds](#4-runs-and-bounds),
[fairness](#5-fairness), [proofs](#6-proofs), [findings](#7-findings),
[what is left out](#8-abstractions-and-what-is-not-modelled),
[plan](#9-plan), [how to run](#10-how-to-run).

## 1. Inventory

Paths below are relative to `src/src/`.

| Component | State | Operations | Talks to |
|---|---|---|---|
| `ops/encrypt.rs` | — | `encrypt`, `encrypt_pass`, `plan` | config (registers targets), select, crypto, fsops |
| `ops/decrypt.rs` | — | `decrypt`, `recover_excluded` | select, crypto, fsops |
| `ops/keychange.rs` | — | `rekey` (fresh, `--continue`, `--prune`), `passwd` | everything above |
| `ops/manage.rs` | a draft of the config | `add`, `remove` and their `--binary`, `--exclude`, `--force` | config, select, probe |
| `ops/init.rs` | — | `init` | config, paths |
| `ops/scan.rs` | — | `status`, `check`, `verify` (read-only) | select, crypto |
| `ops/mod.rs` | `Domain`: lock, root, loaded config | `open_domain`, `audit_entries`, `run_serial`, `encrypt_content`, `classify_excluded_ciphertext` | all operations |
| `config.rs` | the config file; `LoadedConfig` with its snapshot | `parse`, `load`, `render_checked`, `rewrite`, `ensure_fresh` | fsops |
| `fsops.rs` | the files; temp files; the directory lock | `read_capped`, `atomic_replace`, `sweep_temps`, `lock_dir` | the kernel |
| `select.rs`, `paths.rs` | — | `expand`, minting of canonical paths, coverage | the tree |
| `crypto.rs`, `textmode.rs`, `binmode.rs`, `probe.rs` | — | ring wrapping, unit keys, text units and binary chunks, `probe` | — |
| `main.rs`, `pwinput.rs`, `report.rs`, `error.rs`, `hexutil.rs`, `consts.rs` | — | command line, prompts, messages, limits | — |

How they interact. A command takes an exclusive lock on the domain root
(`open_domain`), loads the config, expands its targets, asks for the password,
and goes over the files one after another (`run_serial`). Each file is read,
decided on, and replaced through a temp file and a rename followed by an fsync
of the directory (`atomic_replace`). `rewrite` replaces the config the same
way. Nothing but these renames persists. The lock keeps other invocations of
the program out, and nobody else: an editor or git may change any file, and
the config, at any point. Against those the code compares snapshots
(`ensure_fresh`, the snapshot argument of `atomic_replace`).

What is hard, and where it bites (the full list is `hazards` in
`PROJECT.json`):

- *crash recovery*: between committing a config with a new key and migrating
  the files, between registering a path and encrypting it, between a rename and
  its fsync;
- *stale state*: the config that a pass encrypts under, the file it read, the
  targets it expanded before the password prompt, and the tree an argument of
  `add` was checked against may all be outdated when used;
- *protocol sequences*: stash, rotate, prune, stash pop; exclude, rotate, lift
  the exclusion, prune; a merge of two key epochs;
- *silent skipping*: expansion leaves out missing paths, symlinks, nested
  repositories and unreachable exclusions, and a prune must not trust what it
  did not see;
- *unreliable storage*: a rename may reach the disk before the content it
  points to, an fsync may fail, a temp file may outlive its process;
- *interleavings without a lock*: editors and git take none, and two `init`s
  have no domain yet whose lock they could share;
- *limits*: a scan has a budget and files a cap, and whatever is cut short must
  not read as an answer;
- *progress*: a pass stops at its first error and a fresh rekey refuses while
  an older rotation is unfinished, so that finishing must remain possible.

What would make each component correct: the commands never strand a ciphertext
and never overwrite an edit; a reported success is true; the config on disk is
always loadable; the lists only let ciphertext out of sight on demand;
replacement leaves no half-written file and no plaintext behind; two domains
never nest; old wrapped keys cannot be pasted back; a scan that ran out of
budget never counts as "nothing found"; the read-only gates never pass what
the writers would refuse; and a selection is what the entries say, however the
walks that make it overlap. All of this is modelled here.

## 2. Modules and the code

```
Vault            what a domain promises
  ^ implements
DomainOps  ----  DomainProps   properties, inductive invariant, fairness
                   ^        ^
          MCDomainOps     DomainProofs

ManagedList (with its properties)
    ^          ^
MCManagedList  ManagedListProofs

DurableFile      what replacing a file promises
  ^ implements
AtomicReplace  ----  ReplaceProps   properties
                   ^          ^
              MCReplace   AtomicReplaceProofs

InitNesting    <--  MCInit,     InitProofs
KeyRing        <--  MCKeyRing,  KeyRingProofs
OwnershipScan  <--  MCScan,     OwnershipScanProofs

Select  <--  SelectProps (a selection without walks)  <--  MCSelect, SelectProofs

DomainProps, and with it DomainOps
  ^
Gates (with its properties)  <--  MCGates (with MCDomainOps),
                                  GatesProofs (with DomainProofs)
```

How they fit together. `Gates` composes with `DomainOps`, whose variables it
shares. Each of the five before it opens up a step, or an assumption, of
`DomainOps`:

- `WriteFile` followed by `SyncFile` there is one step each; `AtomicReplace`
  shows what the system calls behind them leave at every point, and that the
  file reads as one whole content throughout (`limbo` there is `MayRead`
  here). `DurableFile` is what the two have in common.
- The lock and its one domain per subtree are given there; `InitNesting` shows
  when a tree may come to have nested domains.
- A ring is a sequence of keys there, which a password either opens or not;
  `KeyRing` shows that no editing of the wrapped lines can yield another.
- `OwnCiphertext`, the answer of the scan of excluded files, is exact there;
  `OwnershipScan` works it out and shows on which damaged files it is.
- `Expand` there, and `Files`, `Hidden` and `Boundaries` in `ManagedList`, are
  what an expansion yields; `Select` shows that the walks yield that, or fail.

### `DomainOps`: encrypt, decrypt, rekey

State. `config` and `content` are the config file and the files as any program
sees them. `cfgLimbo` and `limbo` are what a power loss may leave in their
place: a rename adds the new version, an fsync of the directory (`Settle`)
leaves only the visible one. `away` is a stash, `commit` what history holds.
`lock` is the directory lock. The rest is the memory of each invocation: where
it is (`pc`), its command and arguments, the loaded config (`mem`), the
expanded targets (`work`, `hidden`), what its pass has left (`todo`) and the
file in hand with the bytes read (`cur`, `buf`). The snapshots that the code
compares are modelled by the outcome of the comparison: `stale[p]` says that
somebody replaced the config since `p` loaded it, `moved[p]` which files
somebody replaced since `p` read them.

A ciphertext is a record of its mode, the key of its first unit (`head`), the
key of its other units (`tail`) and its text. Two keys are needed because the
passes decide by the first unit (`authenticate_first`) while decryption and
verification authenticate all of them. Text in `Colliding` looks like
ciphertext to `probe`.

| Action | Code |
|---|---|
| `Open` | `open_domain`: lock, then load |
| `Expand` | `audit_entries`, `select::expand` |
| `Register` | `encrypt_pass` registers explicit targets before encrypting any |
| `StartDecrypt` | `decrypt` after the prompt |
| `ScanExcluded` | `scan_excluded_ciphertext`, and the first refusals of each `rekey` form |
| `PrecheckFile` | `find_old_epoch_file` |
| `Mint` | a fresh key is put in front of the ring, the config is renamed into place |
| `SyncConfig` | the fsync of `rewrite`, and its failure |
| `ReadFile`, `SkipFile`, `WriteFile`, `FailFile`, `SyncFile` | one file of `run_serial`: read, decide (`plan`, `Verdict`), compare snapshots, rename, fsync |
| `FinishPass` | end of a pass; `decrypt` goes on to excluded files, `--continue` to its check |
| `VerifyFile`, `Converge` | `ensure_all_current`, and `prune`'s rewrite |
| `Close` | the command reports success |
| `Interrupt`, `PowerLoss` | a signal, an I/O error, a wrong password; the machine |
| `Edit`, `Stash`, `Return`, `Merge`, `CommitAll`, `Checkout` | the user and git, who take no lock |

### `Vault`: the promise

Two variables: what each path reads as to a holder of the password, and how
often the user has intervened. A step that is not the user's must stutter.
`DomainProps` instantiates it (`Promise`) with the mapping `ReadsAs`: the text
of a file, or `Lost` if the ring on disk cannot open it. That `DomainOps`
implements it says that encrypting, decrypting, rotating, pruning, failing half
way and losing power never alter what a file says.

### `ManagedList`: the lists and what they reach

State: a tree of a few paths (`node`, `repo` for nested repositories), what
each file holds (`data`), the three lists (`config`), whether the ring has old
keys (`rotated`), and the command under way with its remaining arguments
(`rest`) and its `draft` of the lists. Three history variables say why some
ciphertext is out of reach: `waived` and `let_go`, because `remove --force` or
`remove --exclude` put it there; `strays`, because the user brought it to where
the lists do not reach, or where the command under way had looked already.
`Install` keeps them when the lists on disk change.

| Definition | Code |
|---|---|
| `Covers`, `CoveredBy` | `is_covered_by`, `covering_entry` |
| `NoContradiction`, `Loadable`, `Writable` | `check_exclude_contradictions`, `parse`, `render_checked` |
| `Walked`, `CutOff`, `Files`, `Hidden`, `Boundaries`, `Symlinks`, `Independent` | `expand`: walks, ancestor checks, and what they record or skip |
| `AddRefused`, `ExcludeRefused`, `RemoveRefused`, `ProbeRefuses` | the refusals of `add`, `add --exclude`, `remove`; `probe_under` |
| `Begin`, `Argument`, `Commit` | one command: open, one argument at a time, one rewrite |
| `EncryptManaged`, `EncryptNamed`, `DecryptNamed`, `Rotate`, `Continue`, `Prune` | the commands of `DomainOps`, each as one step that may stop after any part of its work |
| `WriteFile`, `MakeDir`, `MakeSymlink`, `Delete`, `ToggleRepo`, `HandExclude` | the user, also between two arguments |
| `Return` | git brings back ciphertext of the domain, under the current key or an old one of the ring, out of a stash, a branch or another clone |

The two models divide the work. `DomainOps` shows that commands do not overlap
(`OneAtATime`, proved) and that each is safe however it is interrupted, taking
one entry per file; so `ManagedList` may take encryption and rotation as single
steps and look at what the lists reach.

### `AtomicReplace`: the system calls of a replacement

State. Files are inodes (`inode`: content, whether others may read, mtime,
ctime, and what a power loss may leave of them); names refer to inodes (`dir`,
and `dirSafe` for what a power loss may leave). The descriptor, snapshot,
content read, temp name and outcome of each invocation are variables of their
own (`fd`, `snap`, `buf`, `temp`, `durable`). Here snapshots are what the code
compares: inode, permission bits, times, of a clock that may stand still
between two changes, and inode numbers are reused. `during` (history) records
which steps another program came between.

| Action | Code (`fsops.rs`) |
|---|---|
| `Lock` | `lock_dir` |
| `List`, `Sweep` | `sweep_temps`: list the directory, remove what has a temp name |
| `StatTarget`, `ReadTarget`, `RestatTarget` | `read_capped`: metadata, content, metadata again |
| `CreateTemp`, `WriteTemp`, `SyncTemp` | `create_temp` at 0600, the write, `sync_all` |
| `Recheck`, `Rename` | the last comparison of snapshots; the commit |
| `RestoreMode`, `SyncTarget`, `SyncDir` | fchmod, `sync_committed_file`, `sync_committed_dir` |
| `ReadBack`, `Finish` | the snapshot returned to the caller |
| `Abandon` (in several) | `TempGuard::drop` on an error before the rename |
| `Kill`, `PowerLoss`, `Flush`, `Tick` | signals and the machine |
| `EditInPlace`, `Chmod`, `ReplaceByRename`, `Remove` | other programs |

`DurableFile` has two variables: what the path reads as, and what it may read
as after a power loss; a content is put, settled, or lost to an older one.

### `InitNesting`: several inits

State: per directory a config file (`"part"` between creation and the end of
its write, `"rewritten"` once a command of the new domain has changed it) and
whether it has a `.git`; per init where it was started, how far its two
searches are (`at`, `todo`, `scanned`) and the repository root it has locked
(`held`). `maker`, `under`, `mishaps`, `disturbed` are history variables.

| Action | Code |
|---|---|
| `Start`, `SearchUp` | `init`, `refuse_nested_domains`, `discover_domain` (`paths.rs`), a directory per step |
| `SearchDown`, `FoundNothing` | `find_descendant_config`, a directory per step, with its limit |
| `FindRoot`, `Lock` | `create_config`: the repository root, its lock, and the second search |
| `Create`, `Write`, `Succeed`, `Fail` | `create_exclusive`: O_EXCL, write and sync, the guard's removal by name |
| `Kill`, `RewriteConfig`, `RemoveConfig`, `MakeRepository` | signals, other commands, the user |

### `KeyRing`: wrapped keys

State: the config (salt, KDF parameters, entries), all revisions that were ever
wrapped (history), and the command that has unlocked a ring, with the config
it loaded, whether that was replaced since, its password and its override
flags. Encryption is symbolic: an entry carries the KEK and the associated data
(`AdWrap`: ring length and position) it was made with.

| Definition | Code |
|---|---|
| `DeriveKek`, `WrapRing`, `Unwraps`, `KeysOf` | `derive_kek`, `wrap_ring`, `unwrap_ring` |
| `Allowed` | `check_kdf_policy` |
| `Unlock` | `open_domain`, `derive_kek_checked`, `unlock_ring` |
| `Passwd`, `Mint`, `Prune` | `passwd`; the rewrite of a fresh `rekey` and of `prune` |
| `Merge`, `Checkout` | git and the user: lines of several revisions, or one whole revision |

### `OwnershipScan`: whose ciphertext is this?

State: an excluded file as a sequence of cells, each of which says which unit
it is a part of; how the scan stands (`at`, `key`, `asLast`, what was read,
what is left of the budget); the verdict. The file starts as any ciphertext
`encrypt` writes in either format and is then damaged.

| Action or definition | Code |
|---|---|
| `TextCiphertext`, `BinaryCiphertext`, `FileTag` | `encrypt` of `textmode.rs`, `binmode.rs`; `file_tag` |
| `Probe`, `Read`, `ReadOverCap`, `ReadPrefix` | `scan_excluded_ciphertext`, `classify_oversize_excluded` |
| `DecryptWhole`, `HasLayout`, `Final`, `LastChunk` | `classify_excluded_ciphertext`; `parse_layout`; `decrypt` of both formats |
| `Attempt`, `Cost` | `ScanBudget::charge`, then one `unit_decrypt` |
| `TrySlot`, `GridDone`, `TryLast`, `TryLine`, `LinesDone` | `authenticate_grid`, `authenticate_any`, `authenticate_any_prefix` |
| `Truncate`, `Insert`, `Destroy`, `SpoilHeader`, `MixIn` | transfers, editors, disks, merges |

### `Select`: from entries to files

State: the tree (`kind`, with the rules on names as sets of paths: `Git`,
`ConfigName`, `Reserved`, `Odd`, and `Respelled` for a name found under another
spelling); what was asked (`asked`, `excl`, `counting`, `limits`); the walk
(`next` entry, `stack` of directories, each with what its listing has returned
and whether it is beneath an exclusion); and what it has (`out`, `scanned`,
`bytes`). `touched` is history: what other programs changed.

| Definition | Code (`select.rs`) |
|---|---|
| `FromConfig`, `FromArguments`, `Mintable` | `audit_entries`, `open_domain`, `mint`: what may be asked |
| `SkipRepeated`, `AddEntry`, `EntryOutcome`, `DirOutcome` | the loop of `expand_with_budgets`, `add_entry` |
| `Barriers`, `Topmost`, `BlockedOutcome` | `check_ancestors`, for the three origins of an entry |
| `WalkDir`, `Aliased`, `Visit`, `OpenFrame` | `walk_dir` up to its loop |
| `ReadName`, `NameOutcome`, `CloseDir` | the loop of `walk_dir` |
| `AddFile`, `AddExcluded`, `AddMissing`, `SkipSpecial`, `SkipBoundary`, `Sweep` | the functions of that name, with what each charges |
| `Affordable`, `GoOn`, `Fail` | `charge_path` and the checks of the two other budgets |
| `Finish` | the search for two names of one inode |
| `Change` | other programs |

`SelectProps` says what must come of it without walking: `Reached` relates an
entry to the paths it reaches, and from that follow the files wanted, the
excluded, missing and special ones, the boundaries, what must be refused, and
what the budgets must hold.

### `Gates`: status, check, verify

State: that of `DomainOps`, and for each scan a record `job`: its command and
arguments, the config it loaded, the files it expanded to, what it has yet to
look at, the file it has probed and is about to read whole, and the lines of
its report (`found`). `edited` and `replaced` (history) say what the user
changed under it.

| Definition | Code |
|---|---|
| `OpenScan`, `NoScan`, `CloseScan` | `open_domain` with the shared lock, which keeps `Invoke` out and is kept out by it (`lock_dir`) |
| `ScanEntries`, `ExpandScan` | `scan_entries`, `expand`, `expand_count_only`, the lines on missing paths |
| `ProbeFile`, `PrefixVerdict` | `read_prefix`, `probe`, and what `status` and `check` say of it |
| `ToAuthenticate`, `Authenticate`, `WholeVerdict` | the second read of `verify`, decryption, `classify_excluded_ciphertext` |
| `Unreadable`, `Outcome` | operational errors, `ScanOutcome` |
| `Watch` | the user, beside the scan |

## 3. Properties

Of `DomainOps` (in `DomainProps`):

- `TypeOK`: types; in particular the ring never exceeds `MaxRing` and no path
  is both managed and excluded.
- `NothingStranded`: every ciphertext in the tree is listed, and all its keys
  are in the ring on disk.
- `NothingStrandedAway`: the same of what a stash holds, so that it can come
  back after any rotation and prune.
- `SurvivesPowerLoss`: every config a power loss may leave opens every version
  of every file it may leave.
- `KeepsPromise`: refinement of `Vault`, above.
- `WritesUnderCurrentKey`: what the tool writes is whole, in the mode the
  config asks for, under the key that is current on disk at that moment.
- `OnlyDecryptExposes`: no command but `decrypt` puts plaintext where
  ciphertext was.
- `CompleteMeansComplete`, `SuccessMeansDone`: a reported success is true of
  every file processed that nobody changed since.
- `OneAtATime`: one invocation at work, on the config that is on disk unless
  the user replaced it.
- `RotationFinishes` (liveness): re-running `rekey --continue` brings
  everything under the newest key, or something only the user can resolve
  stands in the way.

Of `ManagedList`:

- `TypeOK`: types, and the lists on disk are always lists that `load` accepts.
- `DraftConsistent`: the draft never manages what it excludes, whatever happens
  to the tree between two arguments.
- `LossesAreExcused`: a prune takes the key from no ciphertext but what
  `remove --force` or `remove --exclude` put out of reach, what came back where
  the lists do not reach or a removal had looked before (`strays`), or what a
  repository inside an excluded tree hides (the residual the threat model
  documents).
- `CommitsKeepSight`: an `add`, an exclusion or a removal without `--force`
  leaves every ciphertext that rotation could see in its sight, but for what
  came back, or to light, after a removal had looked for it.
- `ExclusionsHideNothing`: an exclusion without `--force` takes no ciphertext
  from what `encrypt` and `rekey` process, again but for what came after it had
  looked.
- `AddOnlyWidens`: `add` never narrows what `encrypt` selects, nor what binary
  mode covers.
- `AdviceIsSafe`: `LossesAreExcused` without the excuse of `remove --exclude`;
  refuted, see [findings](#7-findings).

Of `AtomicReplace` (in `ReplaceProps`):

- `KeepsPromise`: refinement of `DurableFile`: at every moment, and after a
  power loss at any moment, the target reads as one whole content.
- `DurableIsDurable`: when the replacement is reported durable, nothing older
  can come back.
- `NoSilentOverwrite`: what a replacement destroys is what it had read, unless
  the change came after the last comparison or within one tick of the clock.
- `NeverOpensUp`: others can never read a temp file in use, and no file that
  the user has not let them read.
- `OnlyLiveTemps`: the sweep takes no temp file from a live invocation and,
  unless removing fails, leaves none of a dead one.
- `SnapshotIsOfOurs`: a file that matches the snapshot a replacement returned
  holds what the replacement wrote.

Of `InitNesting`:

- `NoNesting`: no two configs created under the lock of one repository root
  nest, unless a repository begins between them.
- `StrandedOnlyByMishap`: an unwritten config, which every later `init` refuses
  and no command loads, is being written, or its init was killed or could not
  remove it.
- `OnlyOwnWork`: an init replaces or removes no config but its own.

Of `KeyRing`:

- `RingOfOneRevision`: a password that unlocks a config, whatever lines it was
  put together from, yields the ring of one revision, whole and in order.
- `KeysSurvive`: `passwd` and a fresh `rekey` lose no key of the config they
  replace.

Of `OwnershipScan`:

- `ForeignHoldsNothing`: content found foreign holds no surviving unit under
  any ring key, whatever the damage and the budget.
- `AuthenticIsWhole`: full decryption accepts an untouched ciphertext or lines
  of one key, nothing else, and refuses no file as it was written.

Of `Select` (in `SelectProps`):

- `Exact`: an expansion that nobody disturbs finds what the definition without
  walks says, or fails for a reason that it gives: refusal, budget or depth. So
  no order of entries or listings, and no overlap of walks, decides anything
  but the depth.
- `ChargedInFull`: every path string that is kept was charged for, once.
- `SteadyAgrees`: what other programs leave alone is selected all the same.
- `Ends` (liveness): every expansion comes to an end.
- `HiddenNeverSelected` (proved, in no run: `Exact` and `SteadyAgrees` say more
  of what nobody disturbs): whatever the tree does, what is excluded is never
  selected, and what is not excluded never counts as excluded.

Of `Gates`:

- `NoFalseAlarm`: what `verify` calls FAILED is so, of files the user left
  alone: no command makes it see half a rotation. (With a lock that did not
  keep writers out, TLC finds it violated.)
- `VerifyVouches`: after a clean `verify` nothing keeps `rekey --continue` from
  completing.
- `VerifyAgreesWithPrune`: if nothing was pending or missing either, `prune`
  has nothing to refuse.
- `GateIsComplete`: what `check` and `verify` of one config both pass is
  ciphertext that opens, plaintext that looks like it included.
- `NothingUnsaid` (proved, in no run: a file passed over in silence would break
  the three before it): a scan that ends has a line on every file that is due one.

## 4. Runs and bounds

| Run | Asks | Bounds |
|---|---|---|
| `DomainFaults` | all seven commands on fresh and half-rotated domains, with one kill or failed fsync anywhere | 2 files in 2 directories, 3 keys, 2 texts (one collides with the probe and has a NUL), 2 invocations, 1 fault, ring of 3 |
| `DomainEdits` | encrypt, decrypt, fresh rekey, continuing and pruning against the user | 2 interventions, ring of 2, files that start as ciphertext under either key |
| `DomainLive` | all seven commands with power failing at any point, and whether rotation finishes | 1 invocation, ring of 2, 2 power losses |
| `ListReach` | the lists | paths `d`, `d/f`, `x`; 4 commands of up to 2 arguments, 1 intervention, cap of 3 entries |
| `Replace` | replacing a file against crashes and other programs | 2 invocations under one root, 3 inodes, 1 temp name, 2 contents, 2 ticks, 1 change, 2 faults |
| `InitRace` | inits that race | 2 inits, 3 directories one in another, 1 intervention, 2 faults, 1 directory scanned |
| `RingMerge` | wrapping against merges | 3 keys, 3 salts, 2 passwords, 2 KDF settings (one weak), ring of 2, 1 merge |
| `Scan` | whose ciphertext | 2 keys and a foreign one, chunks of 3 cells, bodies of 1, 2, 3, 6 and 8 cells or up to 2 lines, 2 edits, cap of 9 cells, budget ample or tight |
| `Select` | the walk against its definition, and on a changing tree | 8 trees of up to 5 of 11 paths, 5 sets of exclusions, lists of up to 3 paths in either order, arguments of up to 3, on 3 of the trees 6 sets of limits, on the others ample ones; with 1 change of one of 4 paths on 2 of the trees, ample limits |
| `Gates` | scans beside commands, user, faults; the gate of CI | 1 file, 1 command at a time (`encrypt`, fresh `rekey`, prune), 2 scans, 1 intervention, 1 power loss, 3 texts (one with an exact header, one with a broken one) |
| `FaultResume`, `AdvicePrune` | the findings: each reaches a counterexample | as small as shows it |

Why these are enough to be of interest. Two files are needed for one to be
migrated while the other is not, and for their renames to be rolled back
independently; the second is in a directory of its own so that an fsync of the
one does not settle the other. Three keys let a rotation follow an unfinished
one, and a ring of 3 (2) is reached, so that the limit refuses. Two
invocations suffice for contention on one lock. Two interventions suffice for
a stash and its return, a commit and a merge or a checkout of it. One fault per
behaviour is enough for safety because every state it leaves is also explored
as a state to go on from with any command. In the list model `d` may become a
file, a directory, a symlink or a repository, and `d/f` is the path whose
ancestors change; with four commands, ciphertext can be made, put out of sight,
rotated and pruned. The one intervention may bring ciphertext back at any of
these moments: between the arguments of a command, between its last look and its
rewrite, or after a removal and before a prune. The entry cap of 3 is reached.

In `Replace` three inodes are the target's, a temp file's and one that another
program renames into place; since they are reused, a snapshot may match a file
that only has the number of the old one. Two faults let an fsync fail and the
power fail after it, or a process die and the sweep fail. Two ticks tell times
apart, and the clock may stand still. In `InitRace` three directories in a row
leave one between the two inits where a repository may begin; the limit of one
scanned directory is reached, and a failing call whose cleanup fails takes both
faults. In `RingMerge` three keys and salts allow two rewrites after `init`,
enough for a ring to grow, to be pruned and for a merge to take lines of three
revisions. In `Scan` the last chunk may be short, full, of its SIV alone, or the
only one; a run of 9 cells of junk exceeds the cap and can shift the chunks by
a multiple of their length, a single cell shifts them off it; the tight budget
ends a scan after two attempts. `Budgets` stands for every amount that remains
after the files scanned before this one.

In `Select` the trees hold, one at a time, a nested repository, a foreign
config, a name that is no canonical path, a hard link, a directory under two
spellings, symlinks and files in the place of directories; the lists and
arguments overlap (`d` and `d/s`), repeat and contradict each other's order; and
every limit is both met and exceeded. Directories nest twice, which is enough
for a flag to be carried past one level and for the depth to depend on the
entry. In `Gates` one intervention may come between the two reads of a file; the file
may be a mixture of two epochs from the start, and is listed, or excluded in a domain that is rotating. Scans
share nothing but the lock, so a second one is there for `check` and `verify` at
once; what files have to do with each other is a matter of the commands, in the
other runs. `ReadCanFail` is FALSE there: a failed read makes an `error` line, as
a missing file does.

`CHECK_DEADLOCK FALSE` is set where a behaviour ends because what bounds it is
spent: in the list runs (commands and interventions), in `Scan` (the file is
classified) and in `Select` (the expansion ends). In the other runs some step is always possible: a new command or
`init` can be started, the system may write back.

## 5. Fairness

Two runs assume any. In `Select` an expansion goes on while it can
(`WF_vars(Step)`): it is a loop in one process, and other programs get no
fairness. In `DomainLive`, `Step` of an invocation is weakly fair: a
running process goes on unless the power fails. `Open(p, "continue", {})` is
strongly fair: the user, after each end of a run, sooner or later runs
`rekey --continue` again. The code promises no more — nothing is retried
automatically — and its messages ask for exactly this. Strong fairness is
needed because other commands of the same user may take the lock again and
again. Without it the property is false, as is any that expects an
interrupted program to finish by itself. Faults and edits are bounded, and
carry no fairness.

## 6. Proofs

`DomainProofs`, `ManagedListProofs`, `AtomicReplaceProofs`, `InitProofs`,
`KeyRingProofs`, `OwnershipScanProofs`, `SelectProofs` and `GatesProofs` are
checked by TLAPS; nothing is assumed but the named assumptions on the
constants (in `ManagedList`: that the root is the only path with no other
above it, and that the paths above one form a chain), and in
`AtomicReplaceProofs` that all invocations take the lock of one root.

`DomainProofs` holds for any number of files, keys, texts and invocations, any
ring length, and any number of edits and faults:

| Theorem | States | Needs the fault model |
|---|---|---|
| `TypeCorrect` | `[]TypeOK` | no |
| `Exclusion` | `[]OneAtATime` | no |
| `CurrentKey` | `WritesUnderCurrentKey` | no |
| `NoExposure` | `OnlyDecryptExposes` | no |
| `SuccessIsDone` | `[]SuccessMeansDone` | no |
| `CompletionIsComplete` | `[]CompleteMeansComplete` | no |
| `Inductive` | `[]IInv` | yes |
| `Stranding`, `StrandingAway` | `[]NothingStranded`, `[]NothingStrandedAway` | yes |
| `PowerSafety` | `[]SurvivesPowerLoss` | yes |
| `Promised` | `KeepsPromise` (the refinement) | yes |

The argument. `NothingStranded` is not inductive: whether a write or a prune is
safe depends on what the invocation knows. `IInv` adds, part by part:
`LockInv`, that only the lock holder is at work and that its loaded config is
the one on disk unless it is marked stale; `TargetInv`, that what a pass will
write is listed already and that the bytes in hand are those on disk unless
marked moved; `StoreInv`, that the config opens all there is, in the tree, in
the stash and in history; `LimboInv`, that without kills and fsync failures at
most the rename in progress is not durable; and `PruneInv`, how far a prune has
got in showing that no old key is needed — before its scan, that everything
outside its expanded targets is plain, and during verification, that every file
it is done with is under the current key alone. The six theorems that do not
need the fault model rest on the first two conjuncts; the last two also on
`ProgressInv`: a target that an invocation is done with, and that nobody
touched since it was read, is as the command was to make it (`Settled`), for
`--continue` under one key once the final check has been at it, and nothing is
left to do when the command reports success.

`FaultModel` says: power may fail, or a run may die between a rename and its
fsync (or that fsync fail), but not both; and older ciphertext comes back from
a stash, a merge or a checkout only between commands (a checkout that replaces
the config too may come at any time: it is noticed). It is not for convenience: `FaultResume`
violates `NothingStranded` just outside it, and so do a prune that a return from
the stash overtakes and a prune after an `encrypt_pass` whose fsync failed (see
the end of [findings](#7-findings)).

`ManagedListProofs` holds for any tree, any lists and any number of arguments:
`ListTypes` (`[]TypeOK`), `DraftNeverContradicts` (`[]DraftConsistent`) and
`NoSilentLoss` (`LossesAreExcused`). Its invariant `Inv` adds to the types that
ciphertext is always covered, lexically, by the lists, or recorded as given up
or brought elsewhere (`Tracked`), and that a command which has not reached its
rewrite has not uncovered any in its draft, unless it is one of the two that may
or the ciphertext came after its look (`Pending`).
The heart of the second is `RevisedKeepsCover`: an entry comes off the list
only after a probe that saw every file behind it or stopped at a repository.
From `Inv`, `PruneSpares` shows that a prune looks behind every entry or
refuses. `SightIsKept` (`CommitsKeepSight`) also follows from `Inv`: a file
that one walk meets has no repository above it, and so is met from every entry
that covers it (`MetFromAll`). Two properties need an invariant more each.
`AddWidens` (`AddOnlyWidens`): the draft of an `add` covers, argument by
argument, all that the config does, and excludes the same (`Widens`).
`NothingHidden` (`ExclusionsHideNothing`): the draft of an exclusion has the
managed entries of the config, and ciphertext that it hides from them came
later, or there is a repository in between (`Unhidden`). The probe of a new
exclusion is what keeps it, as it sees all ciphertext below, or stops at the
repository.

`AtomicReplaceProofs` holds for any number of invocations that take one lock
(`OneLock`), any inodes, temporary names and contents, and any number of ticks,
edits and faults:

| Theorem | States |
|---|---|
| `Inductive`, `AlwaysTyped` | `[]IInv`, `[]TypeOK` |
| `SweepIsSafe` | `[]OnlyLiveTemps` |
| `DurableHolds` | `[]DurableIsDurable` |
| `SnapshotHolds` | `[]SnapshotIsOfOurs` |
| `OverwritesOnlyRead` | `NoSilentOverwrite` |
| `NeverOpens` | `NeverOpensUp` |
| `Implements` | `KeepsPromise` (the refinement of `DurableFile`) |

Its `IInv` follows the new content through the system calls. Of the directory
(`Store`): what a name may refer to after a power loss includes what it refers
to now; every inode the target may refer to holds, and may be left with, whole
contents only; no ctime is ahead of the clock, and none goes back, so that a
snapshot's ctime is at most its inode's; the target can be read by others only
if the user granted it. Of the invocation at work (`Busy`): its temporary file
is where its name says and the target may not refer to it yet (`Held`); what
the sweep has yet to remove (`Swept`); how much of the new content is in the
file and on disk (`Written`); what an unchanged snapshot says of the content
read, through the re-check (`Compared`); and that the file is private until the
permission bits are restored (`Private`). `Compared` is where the clock
matters: a change since the snapshot leaves a later ctime, or the same one and
`blurred`. The lock makes `Alone` inductive, and with it a step of one
invocation is the only thing that may touch temporary files.

`InitProofs` holds for any tree, any number of inits, edits and faults, and any
limit on the search:

| Theorem | States |
|---|---|
| `InitTypes` | `[]TypeOK` |
| `DomainsDoNotNest` | `[]NoNesting` |
| `StrandingHasACause` | `[]StrandedOnlyByMishap` |
| `InitsKeepOffOthersWork` | `OnlyOwnWork` |

`NoNesting` is not inductive: that a config may be created depends on what two
searches saw earlier, a directory at a time. `IInv` says, of an init that holds
a lock and is past its first search, what its second has shown so far
(`SearchedSoFar`): every config made under that lock that lies above it is
still ahead of the upward search or beyond a boundary, and every one below it
lies behind a directory yet to be entered or beyond a boundary. Locks are
exclusive (`Mutual`). The steps of others keep this because a config only
appears in `Create`, under the lock, and a repository that appears only adds a
boundary. `WInv` says which init an unwritten config belongs to (`Owned`).

`KeyRingProofs` holds for any keys, salts, passwords and KDF settings, any
ring limit and any number of merges: `RingTypes` (`[]TypeOK`),
`UnwrapsOneRevision` (`[]RingOfOneRevision`) and `NoKeyIsDropped`
(`KeysSurvive`). The invariant says that each
revision was wrapped as `WrapRing` does, that the salts of two revisions
differ, and that every entry in the config comes from a revision. The KEK of
an entry then names its revision, and the associated data its place in it; as
the length of the ring is part of it, entries that unwrap are all of that
revision's. No key is dropped because what a command loaded is on disk when it
writes (`LoadedOK`: anything else made it stale), and `passwd` and a fresh
`rekey` write all of it.

`OwnershipScanProofs` holds for any ring, chunk length, cap, budgets, sizes and
damage: `ScanTypes` (`[]TypeOK`), `ForeignIsForeign` (`[]ForeignHoldsNothing`)
and `WholeIsAuthentic` (`[]AuthenticIsWhole`). For the second, `IInv` says what
the scan has excluded so far: no slot before `at` opens under any key, nor the
slot at `at` under a key before `key` (as a last chunk too, at slot 0). When
the grid ends, the last chunk can only begin where `parse_layout` puts it (a
lemma on division with remainder), and a scan that stops early says `Ambiguous`.
For the third, `WholeInv` says what an edit can do to a ciphertext (`Origins`):
each cell is junk or was made by `encrypt`; none stands before the place it was
made for, since cells are only dropped, overwritten or pushed towards the end;
and the cells of one chunk that do stand where they were made are of one
plaintext, since `MixIn` takes a chunk as a whole. When every chunk opens, all
the cells of the body stand where they were made (`DecryptedBody`); the file tag
then says that the chunks are of one plaintext and the last cell that the length
is right, so that the file is equal to a ciphertext (`AcceptedIsWhole`). The
converse, `UntouchedDecrypts`, is a computation on what `encrypt` writes.

`SelectProofs` holds for any finite tree and any exclusions, any entries,
budgets and limits, and any changes by other programs. It proves all the safety
properties of the walk: `SelectTypes` (`[]TypeOK`), `ExcludedStaysOut`
(`[]HiddenNeverSelected`), `BudgetHolds` (`[]ChargedInFull`),
`SteadyFilesSelected` (`[]SteadyAgrees`) and `ExpansionExact` (`[]Exact`). What
it assumes of the constants are the laws of a tree (`TreeAssumption`), that
there are finitely many paths and budgets are numbers, the byte budget not zero
(`SizeAssumption`), and that a config's own name is neither reserved nor odd
(`NamesAssumption`). Three invariants build on each other.

- `Inv`: the flag carried by each frame of the walk is what the path of its
  directory says (`FramesOK`), as a name is excluded when it is an exclusion
  itself or its directory lies beneath one (`HiddenBelow`); and only entries
  already taken up are recorded as missing (`TakenUp`), so that none is kept
  twice. One lemma per kind of finding relates its charge to what it keeps, and
  `Walks` and `GoesOn` carry that through a step.
- `SteadyInv`: of the paths nobody has disturbed, those found are the ones that
  the names looked at so far (`SeenIn`: all of a directory when its listing has
  ended, those returned until then for one on the stack) and the entries taken
  up so far yield (`Yields`), and none of these was refused (`Accepts`).
- `ExactInv`: as long as nobody has changed the tree, `scanned` counts each name
  looked at once and everything found is within the limits; a failure has a
  `Reason` that the definition without walks gives too; and what was selected at
  the end has no two names of one file.

At the end, `Reached` (by way of all the directories between an entry and a
path) has to be equated with what walks have visited, a step at a time. That
would be an induction over the tree; in its place stands `UpMinimal`: a set of
paths that holds the parent of each of its members, but not the root, is empty,
as its member with the fewest ancestors would have a parent with fewer.

`GatesProofs` holds for any number of files, keys, commands and scans, and any
number of edits and faults. `ReadOnly` (`GatesSpec => Spec`) carries over all of
`DomainProofs`; `StrandingBeside` states one of its consequences. `Thorough`,
`Truthful`, `Vouching`, `Agreement` and `Completeness` state `NothingUnsaid`,
`NoFalseAlarm`, `VerifyVouches`, `VerifyAgreesWithPrune` and `GateIsComplete`.
None of these is inductive. `GInv` adds what a scan knows of each file that the
user has left alone since it began (`FileOK`): why the file is among its targets
or not, that a line already given is `Verdict`, the one that reading it once and
whole would give, and that a file probed and not yet read again still is what it
was probed as. The steps of others keep this because a command at work and a
scan exclude one another (`CommandsExclude`, from the two locks), and because
`Watch` takes a file the user changes out of its scope.

Every safety property of a run that is expected to pass is thus proved for all
values of the constants. `WholeInv`, `SteadyInv` and `ExactInv` were checked by
TLC on the instances of the runs before they were proved. Only model-checked are `RotationFinishes` and
`Ends`, as liveness under fairness is beyond the prover. No module declares a
RECURSIVE operator, and no property needs an induction over data other than the
one that `UpMinimal` replaces.

## 7. Findings

Two are runs in which TLC finds a behaviour of the code that a document or a
comment of the repository excludes.

1. `FaultResume` — `rewrite` stops when the fsync of a new config fails, so
   that no ciphertext depends on a config a crash may roll back, and says that
   re-running resumes from it (`config.rs:437`). The re-run loads the visible
   config without settling it and migrates files; a power loss then rolls the
   config back under them.
2. `AdvicePrune` — `docs/cli.md:630` and the refusal itself
   (`ops/keychange.rs:316`) offer `remove --exclude` as a fix for ciphertext
   hidden by an exclusion. For an exclusion outside every managed entry it
   removes the only entry through which rekey sees the file; the next prune
   succeeds and drops its key.

Seven observations have no run of their own:

- `docs/cli.md:452` says that `remove` refuses an entry whose file probes as
  encrypted, "so removal cannot silently strand ciphertext", and
  `docs/threat-model.md:205` that it "refuses exactly this". The probe
  (`ops/manage.rs:407`; 268 for `add --exclude`) is not repeated before the
  rewrite (412; 311), which compares only the config: what a stash pop or a
  checkout brings back in between is off the list without a refusal. With
  several arguments or a large directory the window is as long as the probes
  that follow. After `add --exclude` the audits still see the file; after
  `remove` nothing does. `CommitsKeepSight` excuses this case and no other;
  without the excuse (`strays`) `ListReach` violates it in five steps, by
  `encrypt`, `remove` and a return in the middle.
- `docs/cli.md:684` says prune errors on what expansion had to skip. The targets
  are expanded before the password prompt (`ops/keychange.rs:82`) and existence
  is checked after it (line 400): a managed file that returns in between, out of
  a stash, is never verified and loses its key. With `ReturnsMidRun` TRUE,
  `DomainEdits` violates `NothingStranded`; `FaultModel` excludes it.
- A test (`tests/cli.rs:2715`) calls an excluded directory that has become a
  repository "hands-off by double declaration […] silently invisible to every
  guard", and `docs/cli.md:205` says the same of entries at a boundary. When a
  walk from a managed directory meets it, `select.rs:760` asks only whether the
  directory above is excluded: it is recorded, and `rekey --continue` and
  `--prune` refuse until its `.git` is gone. (An entry itself is hands-off, and
  `Select` has both.)
- Whether a tree is too deep depends on the order of the arguments: depth counts
  from the first entry that a directory is reached from (`select.rs:693`), and
  `Exact` says so.
- `fsops.rs:269` says that dependent writes must not proceed on a replacement
  that is not durable. `encrypt_pass` drops that result; a prune that follows
  verifies what is visible and drops the key that a rolled-back version needs.
  `FaultModel` excludes it.
- The directories that a command sweeps are taken from the entries as they are
  spelled (`ops/mod.rs:206`). One may lie in a nested repository with a domain
  of its own, whose lock is another; with two roots in `RootOf`,
  `OnlyLiveTemps` is false. The owner of the temp file then fails at its
  rename and its target keeps its content.
- `docs/cli.md:657` names two shapes of damaged ciphertext that read as foreign.
  There are two more: a chunk that an inserted byte has moved off the grid, and
  a short last chunk with data after it. `Survives` excepts them, as the code's
  comments do for what it cannot recover.

## 8. Abstractions and what is not modelled

In `DomainOps`:

- What the user and git do is durable at once. A checkout replaces the config
  and the files that differ in one step, and only with nothing stashed; `Edit` leaves stashed paths
  alone; excluded ciphertext is not stashed (the threat model puts it out of
  reach); a merge combines ciphertexts under keys of the ring.
- The window between the last comparison of snapshots and the rename, which the
  design accepts, is closed: `WriteFile` is one step.
- Every path has an entry of its own; directories are `ManagedList`'s.
- The order among older keys is left out: it matters only to their wrapping.
- Damage to ciphertext other than mixed epochs, over-cap files, hard links,
  scan budgets and the bytes of either format are left out.

In `ManagedList`:

- A symlink leads to where none of the names below it exists. Other special
  files, foreign configs below the root, aliases and budgets are left out.
- Git brings back ciphertext in one step (`Return`), at any path and moment,
  under any key of the ring; ciphertext whose key was dropped in the meantime
  comes back as `foreign`. Where the user had it until then is left out: that
  the keys for a stash survive a rotation is `NothingStrandedAway` of
  `DomainOps`, which also has files missing during a rotation. Moving a
  ciphertext brings nothing back, as keys are bound to paths.
- A hand edit of the config leaves it loadable; a config that is not stops
  every command at `load`.

In `AtomicReplace`:

- All contents have one length, so that the size in a snapshot never helps;
  link counts are left out.
- What other programs do is durable at once. They do not touch temp names.
- One directory, one target. Only the config and managed files are replaced
  this way, and each is in one directory.

In `InitNesting`: depth limits and unreadable directories make an init fail,
which it may do anywhere; a config is whole or not; a directory is not moved.

In `KeyRing`: cryptography is symbolic and random salts never repeat. When a
key may be dropped is `DomainOps`'; here `prune` may run at any time.

In `OwnershipScan`:

- Bytes are cells, and a unit opens under its own key and associated data
  only, whole and in order. All junk is alike, but for lines that decode.
- The plaintext is a version number; base64 and line endings are left out.
- One file per scan. What the files before it used up is in `Budgets`.

In `Select`:

- Inspecting a name and acting on it is one step, as is inspecting a directory
  and opening it; the window between the two is the residual of
  `docs/threat-model.md:174`. There is nothing below a symlink.
- Path strings are charged for one each, whatever their length. The covering
  entry that is kept with an excluded file is charged for and not kept; the
  count of excluded files is left out.
- Wrong names in arguments are refused before (`mint`), and are not asked for.

In `Gates`:

- Symlinks, special files and nested repositories, on which scans have lines of
  their own, are what `Select` yields beside the files. The `[binary]` marks and
  the `force_binary` warning of `status` are wording.
- A wrong password or a killed scan is `CloseScan`. Over-cap files are
  `OwnershipScan`'s.

Not modelled at all:

- How a path string becomes canonical (`paths.rs`): bytes and components, whose
  outcome `Select` takes as given.
- The command line, password input, messages and rendering: pure input and
  output.
- The cryptography itself, which is taken to be exact.

## 9. Plan

Every module of the plan is written, and every safety property of the runs that
are expected to pass is proved; the two liveness properties stay with TLC. A
continuation would take up the finer points of rendering and parsing, which need
the text formats byte by byte.

## 10. How to run

```
tlc -workers 2 -config DomainFaults.cfg MCDomainOps
tlc -workers 2 -config DomainEdits.cfg  MCDomainOps
tlc -workers 2 -config DomainLive.cfg   MCDomainOps
tlc -workers 2 -config ListReach.cfg    MCManagedList
tlc -workers 2 -config Replace.cfg      MCReplace
tlc -workers 2 -config InitRace.cfg     MCInit
tlc -workers 2 -config RingMerge.cfg    MCKeyRing
tlc -workers 2 -config Scan.cfg         MCScan
tlc -workers 2 -config Select.cfg       MCSelect
tlc -workers 2 -config Gates.cfg        MCGates
tlc -workers 2 -config FaultResume.cfg  MCDomainOps     # these two end in
tlc -workers 2 -config AdvicePrune.cfg  MCManagedList   # a counterexample
tlapm DomainProofs.tla                  # and the other *Proofs modules
```

`PROJECT.json` lists, for each run, its module and properties; for each
property a plausible bug in the code that would violate it (`mutants`); and for
each definition the lines of the code it stands for (`map`).
