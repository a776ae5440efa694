----------------------------- MODULE ManagedList -----------------------------
(***************************************************************************)
(* The three path lists of the config, and what keeps ciphertext within    *)
(* their reach: `add' and `remove' in all their forms (src/ops/manage.rs), *)
(* target selection over a tree with directories, symlinks and nested      *)
(* repositories (src/select.rs), and the rotation that must not drop a key *)
(* which something out of reach still needs (src/ops/keychange.rs).        *)
(*                                                                         *)
(* The arguments of one `add' or `remove' are processed one by one on a    *)
(* draft in memory, while the user changes the tree; one rewrite commits   *)
(* the draft, or an error drops it.  encrypt, decrypt and rekey are single *)
(* steps here, each with all its outcomes of stopping early: DomainOps has *)
(* their inside, and shows that they and these commands do not overlap.    *)
(*                                                                         *)
(* A file's data is what the keys make of it: ciphertext of this domain    *)
(* under the current key or an old one of the ring, ciphertext that lost   *)
(* its key, anything else that probes as encrypted (`foreign'), or plain.  *)
(***************************************************************************)
EXTENDS Naturals, Sequences, FiniteSets

CONSTANTS
  Path,        \* canonical relative paths, the root "" not among them
  Above,       \* [Path -> its proper ancestors]
  MaxEntries,  \* MAX_CONFIG_ENTRIES
  Commands,    \* the forms of add and remove that are run
  MaxArgs,     \* bound: arguments of one command
  MaxRuns,     \* bound: commands run
  MaxEdits     \* bound: interventions of the user

\* "binary" and "exclude" are add --binary and --exclude, "unmark" and
\* "unexclude" remove --binary and --exclude.
Adding    == {"add", "binary", "exclude"}
Removing  == {"remove", "unmark", "unexclude"}

ASSUME ListAssumption ==
  /\ Above \in [Path -> SUBSET Path]
  /\ \A p \in Path : p \notin Above[p] /\ \A a \in Above[p] : Above[a] \subseteq Above[p]
  /\ MaxEntries \in Nat
  /\ Commands \subseteq Adding \cup Removing
  /\ {MaxArgs, MaxRuns, MaxEdits} \subseteq Nat

\* The ancestors of a path are a chain.
ASSUME ChainAssumption ==
  \A p \in Path : \A a, b \in Above[p] : a = b \/ a \in Above[b] \/ b \in Above[a]

VARIABLES
  node,    \* [Path -> "absent", "file", "dir" or "symlink"]; a symlink
           \* leads to where none of the names below it exists
  data,    \* [Path -> what a file holds]
  repo,    \* directories with a .git of their own
  config,  \* the path lists on disk
  rotated, \* the ring has older keys
  op,      \* the command that has the lock, or "none"
  force,   \* whether it was given --force
  rest,    \* its arguments still to be processed
  draft,   \* its config in memory
  stale,   \* the config was replaced since it was loaded
  waived,  \* history: ciphertext that remove --force put out of reach
  let_go,  \* history: ciphertext that remove --exclude put out of reach
  strays,  \* history: ciphertext that the user brought to where the lists do
           \* not reach, or the command under way is past
  runs,    \* commands run so far
  edits    \* interventions of the user so far

disk  == <<node, data, repo>>
job   == <<op, force, rest, draft, stale>>
story == <<waived, let_go, strays>>
vars  == <<disk, config, rotated, job, story, runs, edits>>

Lists == [paths : SUBSET Path, binary : SUBSET Path, excl : SUBSET Path]
Empty == [paths |-> {}, binary |-> {}, excl |-> {}]

------------------------------------------------------------------------------
\* paths.rs: lexical coverage.

Covers(e, p)    == e = p \/ e \in Above[p]
CoveredBy(L, p) == \E e \in L : Covers(e, p)
Beneath(L, p)   == {e \in L : Covers(p, e)}

\* Within reach of rotation, by one list or the other; and meant for `encrypt'.
In(c, f)      == CoveredBy(c.paths \cup c.excl, f)
Managed(c, f) == CoveredBy(c.paths, f) /\ ~CoveredBy(c.excl, f)

\* check_exclude_contradictions
NoContradiction(c) == \A e \in c.excl : Beneath(c.paths, e) = {}

\* What parse accepts, and what render_checked agrees to write.
Loadable(c) ==
  /\ NoContradiction(c)
  /\ Cardinality(c.paths) + Cardinality(c.binary) + Cardinality(c.excl)
       <= MaxEntries

WritableUncapped(c) == NoContradiction(c)
Writable(c) == Loadable(c)

TypeOK ==
  /\ node \in [Path -> {"absent", "file", "dir", "symlink"}]
  /\ data \in [Path -> {"none", "plain", "foreign", "current", "old", "lost"}]
  /\ repo \subseteq Path
  /\ config \in Lists /\ Loadable(config)
  /\ rotated \in BOOLEAN
  /\ op \in Adding \cup Removing \cup {"none"}
  /\ force \in BOOLEAN
  /\ rest \in Seq(Path)
  /\ draft \in Lists
  /\ stale \in BOOLEAN
  /\ waived \subseteq Path
  /\ let_go \subseteq Path
  /\ strays \subseteq Path
  /\ {runs, edits} \subseteq Nat

Ours(f)     == data[f] \in {"current", "old"}
ProbeHit(f) == data[f] \in {"foreign", "current", "old", "lost"}

------------------------------------------------------------------------------
\* select.rs.

\* The regular files a walk from entry e meets: it enters no repository.
WalkedEverywhere(e) == {f \in Path : Covers(e, f) /\ node[f] = "file"}
Walked(e) == {f \in WalkedEverywhere(e) :
                \A d \in repo : d \in Above[f] => ~Covers(e, d)}

\* check_ancestors fails, or for an exclusion gives up.
CutOff(e) == \E a \in Above[e] : node[a] \in {"file", "symlink"} \/ a \in repo

\* Repository roots that are recorded for the entries in L: a walk leaves out
\* those beneath an exclusion, an entry of its own one that is an exclusion too.
Boundaries(L, excl) ==
  {d \in repo : \E e \in L : /\ Covers(e, d)
                             /\ ~CoveredBy(IF e = d THEN excl ELSE excl \ {d}, d)}

Symlinks(c) == {s \in Path : /\ node[s] = "symlink"
                            /\ CoveredBy(c.paths, s)
                            /\ ~CoveredBy(c.excl, s)}

\* audit_entries: an exclusion inside a managed entry is met by its walk, and
\* the others are roots of their own.
Independent(c) == {e \in c.excl : ~CoveredBy(c.paths, e)}

\* Expanded::files and Expanded::excluded for the entries of the config.
WalkedFrom(L) == UNION {Walked(e) : e \in {x \in L : ~CutOff(x)}}
Files(c)  == {f \in WalkedFrom(c.paths) : ~CoveredBy(c.excl, f)}
HiddenUnderManaged(c) == WalkedFrom(c.paths) \ Files(c)
Hidden(c) == (WalkedFrom(c.paths) \ Files(c)) \cup WalkedFrom(Independent(c))

\* A managed entry below a file, a symlink or a repository stops everything,
\* and so does an exclusion below a symlink.
AuditFails(c) ==
  \/ \E e \in c.paths : CutOff(e)
  \/ \E e \in Independent(c) : \E a \in Above[e] : node[a] = "symlink"

\* probe_under, whose every finding and failure is a refusal.
ProbeRefuses(e, excl) ==
  \/ CutOff(e)
  \/ Boundaries({e}, excl) # {}
  \/ \E f \in Walked(e) : ProbeHit(f)

------------------------------------------------------------------------------
\* One argument of add or remove, on the draft c.

\* A new entry, which takes the place of those it covers if it is a real
\* directory now.
EntryLost(L, p) == IF CoveredBy(L, p) THEN L ELSE L \ Beneath(L, p)
Entered(L, p) ==
  IF CoveredBy(L, p) THEN L
  ELSE {p} \cup (IF node[p] = "dir" THEN L \ Beneath(L, p) ELSE L)

ExactExclude(c, p) == p \in c.excl
CoveringExclude(c, p) == CoveredBy(c.excl, p)

AddRefused(c, p) ==
  \/ CoveringExclude(c, p)
  \/ \E a \in Above[p] : node[a] = "file"
  \/ /\ ~CoveredBy(c.paths, p)
     /\ node[p] = "file"
     /\ Beneath(c.paths, p) # {}

ExcludeUnprobed(c, p) ==
  \/ \E a \in Above[p] : node[a] = "file"
  \/ ~CoveredBy(c.excl, p) /\ Beneath(c.paths, p) # {}

ExcludeRefused(c, p) ==
  \/ \E a \in Above[p] : node[a] = "file"
  \/ /\ ~CoveredBy(c.excl, p)
     /\ \/ Beneath(c.paths, p) # {}
        \/ /\ node[p] \in {"file", "dir"}
           /\ ~force
           /\ ProbeRefuses(p, c.excl \cup {p})

RemoveUnprobed(c, p) == p \notin c.paths
RemoveRefused(c, p) ==
  \/ p \notin c.paths
  \/ ~force /\ ProbeRefuses(p, c.excl)

Refused(c, p) ==
  \/ op \in {"add", "binary"} /\ AddRefused(c, p)
  \/ op = "exclude"   /\ ExcludeRefused(c, p)
  \/ op = "remove"    /\ RemoveRefused(c, p)
  \/ op = "unmark"    /\ p \notin c.binary
  \/ op = "unexclude" /\ p \notin c.excl

\* The list L under the command, which enters p if its form is in E and drops
\* p if its form is in D.
Edited(L, p, E, D) ==
  IF op \in E THEN Entered(L, p) ELSE IF op \in D THEN L \ {p} ELSE L

Revised(c, p) ==
  [paths  |-> Edited(c.paths, p, {"add", "binary"}, {"remove"}),
   binary |-> Edited(c.binary, p, {"binary"}, {"unmark"}),
   excl   |-> Edited(c.excl, p, {"exclude"}, {"unexclude"})]

------------------------------------------------------------------------------
\* add and remove.

Run == /\ op = "none"
       /\ runs < MaxRuns
       /\ runs' = runs + 1
       /\ Loadable(config)

\* open_domain, for arguments that resolve to this domain.
Begin(o, b, args) ==
  /\ Run
  /\ o \in Commands
  /\ b => o \in {"exclude", "remove"}
  /\ \A i \in DOMAIN args : ~CutOff(args[i]) /\ args[i] \notin repo
  /\ op' = o
  /\ force' = b
  /\ rest' = args
  /\ draft' = config
  /\ stale' = FALSE
  /\ UNCHANGED <<disk, config, rotated, story, edits>>

\* The lists on disk become c, which puts W and L out of reach.  History keeps
\* no more than what they do not reach.
Outside(H, c) == {f \in H : ~In(c, f)}
Install(c, W, L) ==
  /\ config' = c
  /\ waived' = Outside(waived \cup W, c)
  /\ let_go' = Outside(let_go \cup L, c)
  /\ strays' = Outside(strays, c)

EndCommand ==
  /\ op' = "none"
  /\ force' = FALSE
  /\ rest' = <<>>
  /\ draft' = Empty
  /\ stale' = FALSE

\* The next argument: an error ends the command with nothing written.
Argument ==
  /\ op # "none"
  /\ rest # <<>>
  /\ IF Refused(draft, Head(rest))
     THEN EndCommand /\ Install(config, {}, {})
     ELSE /\ draft' = Revised(draft, Head(rest))
          /\ rest' = Tail(rest)
          /\ UNCHANGED <<op, force, stale, config, story>>
  /\ UNCHANGED <<disk, rotated, runs, edits>>

\* Ciphertext that the draft takes out of reach.
Dropped == {f \in Path : Ours(f) /\ In(config, f) /\ ~In(draft, f)}

\* The rewrite that commits the draft, unless the result could not be loaded
\* or the config on disk is another by now.
Commit ==
  /\ op # "none"
  /\ rest = <<>>
  /\ IF stale \/ ~Writable(draft)
     THEN Install(config, {}, {})
     ELSE Install(draft, IF op = "remove" /\ force THEN Dropped ELSE {},
                         IF op = "unexclude" THEN Dropped ELSE {})
  /\ EndCommand
  /\ UNCHANGED <<disk, rotated, runs, edits>>

------------------------------------------------------------------------------
\* encrypt, decrypt and rekey.

\* A pass over T that may stop early; S is what it got done.
Encrypted(S) ==
  data' = [f \in Path |-> IF f \in S THEN "current" ELSE data[f]]

CanEncrypt(T, S) ==
  /\ S \subseteq T
  /\ \A f \in S : data[f] \in {"plain", "current", "old"}

EncryptManaged(S) ==
  /\ Run
  /\ ~\E e \in config.paths : CutOff(e)
  /\ CanEncrypt(Files(config), S)
  /\ Encrypted(S)
  /\ UNCHANGED <<node, repo, config, rotated, job, story, edits>>

\* encrypt with a path: what it selects is registered first.
EncryptNamed(p, S) ==
  LET targets == {f \in Walked(p) : ~CoveredBy(config.excl, f)}
      added   == {f \in targets : ~CoveredBy(config.paths, f)}
      c       == [config EXCEPT !.paths = @ \cup added]
  IN
  /\ Run
  /\ ~CutOff(p) /\ p \notin repo
  /\ ~CoveredBy(config.excl, p)
  /\ CanEncrypt(targets, S)
  /\ Writable(c)
  /\ Install(c, {}, {})
  /\ Encrypted(S)
  /\ UNCHANGED <<node, repo, rotated, job, edits>>

\* decrypt with a path, listed, excluded or neither.
DecryptNamed(f) ==
  /\ Run
  /\ node[f] = "file" /\ Ours(f)
  /\ ~CutOff(f)
  /\ data' = [data EXCEPT ![f] = "plain"]
  /\ UNCHANGED <<node, repo, config, rotated, job, story, edits>>

\* rekey: every ciphertext is now under an old key, and the pass begins.
Rotate(S) ==
  LET T == Files(config)
  IN
  /\ Run
  /\ ~AuditFails(config)
  /\ rotated => \A f \in T : data[f] \in {"plain", "current"}
  /\ CanEncrypt(T, S)
  /\ rotated' = TRUE
  /\ data' = [f \in Path |-> IF f \in S THEN "current"
                             ELSE IF data[f] = "current" THEN "old" ELSE data[f]]
  /\ UNCHANGED <<node, repo, config, job, story, edits>>

\* What --continue and --prune refuse to converge past.
Unverified(c) ==
  \/ Symlinks(c) # {}
  \/ Boundaries(c.paths, c.excl) # {}
  \/ \E f \in Hidden(c) : Ours(f)

Continue(S) ==
  /\ Run
  /\ ~AuditFails(config)
  /\ ~Unverified(config)
  /\ CanEncrypt(Files(config), S)
  /\ Encrypted(S)
  /\ UNCHANGED <<node, repo, config, rotated, job, story, edits>>

\* rekey --prune: what is under an old key after this is lost.
Prune ==
  /\ Run
  /\ rotated
  /\ ~AuditFails(config)
  /\ \A e \in config.paths : node[e] \in {"file", "dir"}
  /\ ~Unverified(config)
  /\ \A f \in Files(config) : data[f] \in {"plain", "current"}
  /\ rotated' = FALSE
  /\ data' = [f \in Path |-> IF data[f] = "old" THEN "lost" ELSE data[f]]
  /\ UNCHANGED <<node, repo, config, job, story, edits>>

------------------------------------------------------------------------------
\* The user, at any moment.

Intervene == /\ edits < MaxEdits
             /\ edits' = edits + 1

\* The command under way has dealt with the argument that decides about f.
Past(f) == op # "none" /\ ~Managed(draft, f)

\* p becomes a node of kind k holding v, and what was beneath it is gone.
Become(p, k, v) ==
  /\ Intervene
  /\ \A a \in Above[p] : node[a] = "dir"
  /\ node' = [q \in Path |-> IF q = p THEN k
                             ELSE IF p \in Above[q] THEN "absent" ELSE node[q]]
  /\ data' = [q \in Path |-> IF q = p THEN v
                             ELSE IF p \in Above[q] THEN "none" ELSE data[q]]
  /\ repo' = {q \in repo : ~Covers(p, q)}
  /\ waived' = {q \in waived : ~Covers(p, q)}
  /\ let_go' = {q \in let_go : ~Covers(p, q)}
  /\ strays' = {q \in strays : ~Covers(p, q)}
       \cup {q \in {p} : /\ v \in {"current", "old"}
                         /\ ~In(config, q) \/ Past(q)}
  /\ UNCHANGED <<config, rotated, job, runs>>

WriteFile(p, v) == node[p] \in {"absent", "file"} /\ Become(p, "file", v)

\* git brings back what it holds of p: a stash, a branch, another clone's work.
\* What it holds under a key that is dropped by now is `foreign'.
Return(p, v)    == (v = "old" => rotated) /\ WriteFile(p, v)

MakeDir(p)      == node[p] \in {"absent", "file"} /\ Become(p, "dir", "none")
MakeSymlink(p)  == node[p] # "symlink" /\ Become(p, "symlink", "none")
Delete(p)       == node[p] # "absent" /\ Become(p, "absent", "none")

\* git init in a directory, or its .git moved away, which lets out what it hid.
ToggleRepo(d) ==
  /\ Intervene
  /\ node[d] = "dir"
  /\ repo' = IF d \in repo THEN repo \ {d} ELSE repo \cup {d}
  /\ strays' = strays \cup {f \in Path : /\ d \in repo /\ d \in Above[f]
                                        /\ Ours(f) /\ Past(f)}
  /\ UNCHANGED <<node, data, config, rotated, job, waived, let_go, runs>>

\* A hand edit, or a merge, that brings in an exclusion and takes the entries
\* it shadows off the managed list.
HandExclude(p) ==
  /\ Intervene
  /\ ~CoveredBy(config.excl, p)
  /\ Install([config EXCEPT !.excl = @ \cup {p}, !.paths = @ \ Beneath(@, p)], {}, {})
  /\ Loadable(config')
  /\ stale' = (op # "none")
  /\ UNCHANGED <<disk, rotated, op, force, rest, draft, runs>>

------------------------------------------------------------------------------
Init ==
  /\ node \in [Path -> {"absent", "file", "dir", "symlink"}]
  /\ \A p \in Path : node[p] # "absent" => \A a \in Above[p] : node[a] = "dir"
  /\ data = [p \in Path |-> IF node[p] = "file" THEN "plain" ELSE "none"]
  /\ repo = {}
  /\ config = Empty
  /\ rotated = FALSE
  /\ op = "none"
  /\ force = FALSE
  /\ rest = <<>>
  /\ draft = Empty
  /\ stale = FALSE
  /\ waived = {}
  /\ let_go = {}
  /\ strays = {}
  /\ runs = 0
  /\ edits = 0

Arguments == UNION {[1..n -> Path] : n \in 1..MaxArgs}

Manage ==
  \/ \E o \in Commands, b \in BOOLEAN, args \in Arguments : Begin(o, b, args)
  \/ Argument
  \/ Commit

Convert ==
  \/ \E S \in SUBSET Path : EncryptManaged(S) \/ Rotate(S) \/ Continue(S)
  \/ \E p \in Path, S \in SUBSET Path : EncryptNamed(p, S)
  \/ \E f \in Path : DecryptNamed(f)
  \/ Prune

User ==
  \/ \E p \in Path, v \in {"plain", "foreign"} : WriteFile(p, v)
  \/ \E p \in Path, v \in {"current", "old"} : Return(p, v)
  \/ \E p \in Path : \/ MakeDir(p) \/ MakeSymlink(p) \/ Delete(p)
                     \/ ToggleRepo(p) \/ HandExclude(p)

Next == Manage \/ Convert \/ User

Spec == Init /\ [][Next]_vars

------------------------------------------------------------------------------
\* TypeOK says that the tool never writes a config it would refuse to load.

\* However the arguments of one command and the tree under it interact, the
\* draft never manages what it excludes, so that the final check of the
\* writer (render_checked) has only the caps left to refuse.
DraftConsistent == NoContradiction(draft)

\* Ciphertext only leaves the reach of rotation, to lose its key at a prune,
\* by --force, by remove --exclude, because the user brought it to where the
\* lists do not reach (or a removal had looked before), or hidden in a
\* repository that stands inside an excluded tree (docs/threat-model.md).
Residual(f) == CoveredBy(config.excl, f) /\ \E d \in repo : d \in Above[f]
LossesAreExcused ==
  [][\A f \in Path : data[f] = "old" /\ data'[f] = "lost"
       => f \in waived \cup let_go \cup strays \/ Residual(f)]_vars

\* The same without the excuse of remove --exclude, which docs/cli.md and the
\* refusal of prune itself name as the fix for hidden ciphertext.
AdviceIsSafe ==
  [][\A f \in Path : data[f] = "old" /\ data'[f] = "lost"
       => f \in waived \cup strays \/ Residual(f)]_vars

\* Committing an add, an exclusion or a removal without --force leaves every
\* ciphertext that rotation could see in its sight, though the command read
\* the tree argument by argument while it changed.  Excused is a removal that
\* looked at the path before git brought the ciphertext back, or out of a nested
\* repository: the probe is not repeated, and the rewrite compares the config
\* only (README, findings).
Seen(c) == Files(c) \cup Hidden(c)
CommitsKeepSight ==
  [][op' = "none" /\ config' # config /\ op \in {"add", "binary", "exclude", "remove"} /\ ~force
       => \A f \in Seen(config) :
            Ours(f) => f \in Seen(config') \/ (op = "remove" /\ f \in strays)]_vars

\* An exclusion without --force takes no ciphertext away from encrypt and
\* rekey, whatever its arguments exclude of one another, but for what came or
\* came to light after it had looked.
ExclusionsHideNothing ==
  [][op' = "none" /\ config' # config /\ op = "exclude" /\ ~force
       => \A f \in Files(config) :
            Ours(f) => f \in Files(config') \cup strays]_vars

\* add only ever widens what encrypt selects and what binary mode covers.
AddOnlyWidens ==
  [][op' = "none" /\ config' # config /\ op \in {"add", "binary"}
       => /\ Files(config) \subseteq Files(config')
          /\ \A p \in Path : CoveredBy(config.binary, p) => CoveredBy(config'.binary, p)]_vars
=============================================================================
