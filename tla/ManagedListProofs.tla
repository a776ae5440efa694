-------------------------- MODULE ManagedListProofs --------------------------
(***************************************************************************)
(* Proofs about ManagedList, for every tree, every list and every number   *)
(* of arguments.  The argument: ciphertext stays covered, lexically, by    *)
(* the lists (Tracked); a command on its way to its rewrite has not yet    *)
(* uncovered any in its draft, unless it is one of the two that may        *)
(* (Pending), or git brought it back once the command had looked there;    *)
(* and a prune looks behind every entry of the lists, or stops.            *)
(***************************************************************************)
EXTENDS ManagedList, FiniteSetTheorems, TLAPS

\* Only what is there holds data, and it stands in real directories.
TreeOK ==
  /\ \A p \in Path : node[p] # "absent" => \A a \in Above[p] : node[a] = "dir"
  /\ \A p \in Path : data[p] # "none" => node[p] = "file"
  /\ \A d \in repo : node[d] = "dir"

Excused == waived \cup let_go \cup strays

Tracked == \A f \in Path : Ours(f) => In(config, f) \/ f \in Excused

Pending ==
  op # "none" /\ ~stale =>
    \A f \in Path : In(config, f)
      => \/ In(draft, f)
         \/ op = "remove" /\ (force \/ ~Ours(f) \/ f \in strays)
         \/ op = "unexclude"

DraftInv == (op = "none" => draft = Empty) /\ DraftConsistent

Inv == TypeOK /\ TreeOK /\ DraftInv /\ Tracked /\ Pending

USE ListAssumption

------------------------------------------------------------------------------
\* Facts about coverage.

LEMMA CoversTransitive ==
  ASSUME NEW e \in Path, NEW d \in Path, NEW f \in Path, Covers(e, d), Covers(d, f)
  PROVE  Covers(e, f)
BY DEF Covers

LEMMA CoverageGrows ==
  ASSUME NEW L, NEW M, NEW f, L \subseteq M, CoveredBy(L, f)
  PROVE  CoveredBy(M, f)
BY DEF CoveredBy

\* A list that takes an entry in covers what it covered.
LEMMA EnteredCovers ==
  ASSUME NEW L \in SUBSET Path, NEW p \in Path
  PROVE  /\ Entered(L, p) \in SUBSET Path
         /\ Entered(L, p) \subseteq L \cup {p}
         /\ \A f \in Path : CoveredBy(L, f) => CoveredBy(Entered(L, p), f)
<1>1. Entered(L, p) \in SUBSET Path /\ Entered(L, p) \subseteq L \cup {p}
  BY DEF Entered, Beneath
<1>2. ASSUME NEW f \in Path, CoveredBy(L, f)  PROVE CoveredBy(Entered(L, p), f)
  <2>1. CASE CoveredBy(L, p)
    BY <1>2, <2>1 DEF Entered
  <2>2. CASE ~CoveredBy(L, p)
    <3>1. PICK e \in L : Covers(e, f)
      BY <1>2 DEF CoveredBy
    <3>2. CASE Covers(p, e)
      <4>1. Covers(p, f)
        BY <3>1, <3>2, CoversTransitive
      <4>2. p \in Entered(L, p)
        BY <2>2 DEF Entered
      <4>3. QED
        BY <4>1, <4>2 DEF CoveredBy
    <3>3. CASE ~Covers(p, e)
      <4>1. e \in Entered(L, p)
        BY <2>2, <3>3 DEF Entered, Beneath
      <4>2. QED
        BY <3>1, <4>1 DEF CoveredBy
    <3>4. QED
      BY <3>2, <3>3
  <2>3. QED
    BY <2>1, <2>2
<1>3. QED
  BY <1>1, <1>2

LEMMA EmptyLoadable == Empty \in Lists /\ Loadable(Empty)
<1>1. Cardinality({}) = 0
  BY FS_EmptySet
<1>2. QED
  BY <1>1 DEF Empty, Lists, Loadable, NoContradiction, Beneath

LEMMA EditedIsList ==
  ASSUME NEW L \in SUBSET Path, NEW p \in Path, NEW E, NEW D
  PROVE  Edited(L, p, E, D) \in SUBSET Path
BY EnteredCovers DEF Edited

\* An argument that was not refused keeps the draft free of contradictions.
LEMMA RevisedOK ==
  ASSUME TypeOK, DraftConsistent, NEW p \in Path, ~Refused(draft, p)
  PROVE  Revised(draft, p) \in Lists /\ NoContradiction(Revised(draft, p))
<1> DEFINE r == Revised(draft, p)
<1>1. r \in Lists
  BY EditedIsList DEF Revised, Lists, TypeOK
<1>2. ASSUME NEW e \in r.excl  PROVE Beneath(r.paths, e) = {}
  <2>1. draft.paths \in SUBSET Path /\ draft.excl \in SUBSET Path
    BY DEF TypeOK, Lists
  <2>2. \A x \in draft.excl : Beneath(draft.paths, x) = {}
    BY DEF DraftConsistent, NoContradiction
  <2>3. CASE op \in {"add", "binary"}
    <3>1. ~CoveredBy(draft.excl, p)
      BY <2>3 DEF Refused, AddRefused, CoveringExclude
    <3>2. r.paths = Entered(draft.paths, p) /\ r.excl = draft.excl
      BY <2>3 DEF Revised, Edited
    <3>3. r.paths \subseteq draft.paths \cup {p}
      BY <2>1, <3>2, EnteredCovers
    <3>4. ~Covers(e, p)
      BY <1>2, <3>1, <3>2 DEF CoveredBy
    <3>5. QED
      BY <1>2, <2>2, <3>2, <3>3, <3>4 DEF Beneath
  <2>4. CASE op = "exclude"
    <3>1. r.paths = draft.paths /\ r.excl = Entered(draft.excl, p)
      BY <2>4 DEF Revised, Edited
    <3>2. CoveredBy(draft.excl, p) \/ Beneath(draft.paths, p) = {}
      BY <2>4 DEF Refused, ExcludeRefused
    <3>3. CASE CoveredBy(draft.excl, p)
      BY <1>2, <2>2, <3>1, <3>3 DEF Entered
    <3>4. CASE Beneath(draft.paths, p) = {}
      <4>1. Entered(draft.excl, p) \subseteq draft.excl \cup {p}
        BY <2>1, EnteredCovers
      <4>2. e \in draft.excl \cup {p}
        BY <1>2, <3>1, <4>1
      <4>3. QED
        BY <2>2, <3>1, <3>4, <4>2
    <3>5. QED
      BY <3>2, <3>3, <3>4
  <2>5. CASE op \notin {"add", "binary", "exclude"}
    <3>1. r.paths \subseteq draft.paths /\ r.excl \subseteq draft.excl
      BY <2>5 DEF Revised, Edited
    <3>2. QED
      BY <1>2, <2>2, <3>1 DEF Beneath
  <2>6. QED
    BY <2>3, <2>4, <2>5
<1>3. QED
  BY <1>1, <1>2 DEF NoContradiction

LEMMA InSplits ==
  ASSUME NEW c, NEW f
  PROVE  In(c, f) <=> CoveredBy(c.paths, f) \/ CoveredBy(c.excl, f)
BY DEF In, CoveredBy

\* What a walk from e does not meet although e covers it stands in a nested
\* repository; if the walk refused to pass any of these but the excluded
\* ones, then it is excluded itself.
LEMMA MissedIsNested ==
  ASSUME NEW e \in Path, NEW f \in Path, Covers(e, f), node[f] = "file",
         f \notin Walked(e)
  PROVE  \E d \in repo : d \in Above[f] /\ Covers(e, d)
BY DEF Walked, WalkedEverywhere

LEMMA NestedIsExcluded ==
  ASSUME TypeOK, NEW X \in SUBSET Path, NEW L, NEW d \in repo, NEW f \in Path,
         d \in Above[f], CoveredBy(L, d), Boundaries(L, X) = {}
  PROVE  CoveredBy(X, f)
<1>1. CoveredBy(X, d)
  <2>1. PICK e \in L : Covers(e, d)
    BY DEF CoveredBy
  <2>2. CoveredBy(IF e = d THEN X ELSE X \ {d}, d)
    BY <2>1 DEF Boundaries
  <2>3. QED
    BY <2>2 DEF CoveredBy
<1>2. PICK x \in X : Covers(x, d)
  BY <1>1 DEF CoveredBy
<1>3. d \in Path /\ Covers(d, f)
  BY DEF TypeOK, Covers
<1>4. Covers(x, f)
  BY <1>2, <1>3, CoversTransitive
<1>5. QED
  BY <1>4 DEF CoveredBy

LEMMA OursIsFile ==
  ASSUME TreeOK, NEW f \in Path, Ours(f)
  PROVE  node[f] = "file" /\ ProbeHit(f)
BY DEF TreeOK, Ours, ProbeHit

\* What is in neither excuse after the lists change is within their reach.
LEMMA InstallStory ==
  ASSUME TypeOK, NEW c, NEW W \in SUBSET Path, NEW L \in SUBSET Path,
         Install(c, W, L)
  PROVE  /\ config' = c
         /\ waived' \subseteq Path /\ let_go' \subseteq Path /\ strays' \subseteq Path
         /\ \A f \in Excused \cup W \cup L : In(c, f) \/ f \in Excused'
<1>1. waived \subseteq Path /\ let_go \subseteq Path /\ strays \subseteq Path
  BY DEF TypeOK
<1> QED BY <1>1 DEF Install, Outside, Excused

------------------------------------------------------------------------------
\* The commands that change the lists.

LEMMA InitInv == Init => Inv
<1> SUFFICES ASSUME Init  PROVE Inv
  OBVIOUS
<1>1. TypeOK
  <2>1. <<>> \in Seq(Path) /\ 0 \in Nat
    OBVIOUS
  <2>2. rest \in Seq(Path) /\ runs \in Nat /\ edits \in Nat
    BY <2>1 DEF Init
  <2>3. data \in [Path -> {"none", "plain", "foreign", "current", "old", "lost"}]
    BY DEF Init
  <2>4. config \in Lists /\ Loadable(config) /\ draft \in Lists
    BY EmptyLoadable DEF Init
  <2>5. QED
    BY <2>2, <2>3, <2>4 DEF Init, TypeOK
<1>2. TreeOK
  BY DEF Init, TreeOK
<1>3. DraftInv
  BY EmptyLoadable DEF Init, DraftInv, DraftConsistent, Loadable
<1>4. Tracked
  BY DEF Init, Tracked, Ours
<1>5. Pending
  BY DEF Init, Pending
<1>6. QED
  BY <1>1, <1>2, <1>3, <1>4, <1>5 DEF Inv

LEMMA BeginInv ==
  ASSUME Inv, NEW o \in Commands, NEW b \in BOOLEAN, NEW args \in Arguments,
         Begin(o, b, args)
  PROVE  Inv'
<1> USE DEF Inv, Begin, Run, disk, story
<1>1. TypeOK'
  <2>1. args \in Seq(Path)
    BY DEF Arguments
  <2>2. {runs', edits'} \subseteq Nat
    BY DEF TypeOK
  <2>3. o \in Adding \cup Removing
    OBVIOUS
  <2>4. QED
    BY <2>1, <2>2, <2>3 DEF TypeOK
<1>2. TreeOK'
  BY DEF TreeOK
<1>3. DraftInv'
  <2>1. o # "none"
    BY DEF Adding, Removing
  <2>2. NoContradiction(config)
    BY DEF TypeOK, Loadable
  <2>3. QED
    BY <2>1, <2>2 DEF DraftInv, DraftConsistent
<1>4. Tracked'
  BY DEF Tracked, Ours, Excused
<1>5. Pending'
  BY DEF Pending
<1>6. QED
  BY <1>1, <1>2, <1>3, <1>4, <1>5

LEMMA EndCommandInv ==
  ASSUME Inv, EndCommand
  PROVE  /\ op' \in Adding \cup Removing \cup {"none"}
         /\ force' \in BOOLEAN /\ rest' \in Seq(Path) /\ draft' \in Lists
         /\ stale' \in BOOLEAN
         /\ DraftInv' /\ Pending'
<1>1. NoContradiction(Empty)
  BY EmptyLoadable DEF Loadable
<1>2. DraftInv'
  BY <1>1 DEF EndCommand, DraftInv, DraftConsistent
<1>3. Pending'
  BY DEF EndCommand, Pending
<1>4. rest' \in Seq(Path) /\ draft' \in Lists
  BY EmptyLoadable DEF EndCommand
<1>5. QED
  BY <1>2, <1>3, <1>4 DEF EndCommand

\* An argument uncovers no ciphertext, unless the command is one of the two
\* that may: a removal probes the tree behind the entry it takes off.
LEMMA RevisedKeepsCover ==
  ASSUME TypeOK, TreeOK, NEW p \in Path, ~Refused(draft, p),
         NEW f \in Path, In(draft, f),
         op # "unexclude", op = "remove" => ~force /\ Ours(f)
  PROVE  In(Revised(draft, p), f)
<1> DEFINE r == Revised(draft, p)
<1>1. draft.paths \in SUBSET Path /\ draft.excl \in SUBSET Path
  BY DEF TypeOK, Lists
<1>2. CASE op \in {"add", "binary"}
  <2>1. r.paths = Entered(draft.paths, p) /\ r.excl = draft.excl
    BY <1>2 DEF Revised, Edited
  <2>2. QED
    BY <1>1, <2>1, InSplits, EnteredCovers
<1>3. CASE op = "exclude"
  <2>1. r.paths = draft.paths /\ r.excl = Entered(draft.excl, p)
    BY <1>3 DEF Revised, Edited
  <2>2. QED
    BY <1>1, <2>1, InSplits, EnteredCovers
<1>4. CASE op = "remove"
  <2>1. r.paths = draft.paths \ {p} /\ r.excl = draft.excl
    BY <1>4 DEF Revised, Edited
  <2>2. ~ProbeRefuses(p, draft.excl)
    BY <1>4 DEF Refused, RemoveRefused
  <2>3. PICK e \in draft.paths \cup draft.excl : Covers(e, f)
    BY DEF In, CoveredBy
  <2>4. CASE e # p \/ e \in draft.excl
    BY <2>1, <2>3, <2>4 DEF In, CoveredBy
  <2>5. CASE e = p
    <3>1. node[f] = "file" /\ ProbeHit(f)
      BY <1>4, OursIsFile
    <3>2. f \notin Walked(p)
      BY <2>2, <3>1 DEF ProbeRefuses
    <3>3. PICK d \in repo : d \in Above[f] /\ Covers(p, d)
      BY <2>3, <2>5, <3>1, <3>2, MissedIsNested
    <3>4. CoveredBy({p}, d) /\ Boundaries({p}, draft.excl) = {}
      BY <2>2, <3>3 DEF CoveredBy, ProbeRefuses
    <3>5. CoveredBy(draft.excl, f)
      BY <1>1, <3>3, <3>4, NestedIsExcluded
    <3>6. QED
      BY <2>1, <3>5, InSplits
  <2>6. QED
    BY <2>4, <2>5
<1>5. CASE op \notin {"add", "binary", "exclude", "remove"}
  <2>1. r.paths = draft.paths /\ r.excl = draft.excl
    BY <1>5 DEF Revised, Edited
  <2>2. QED
    BY <2>1, InSplits
<1>6. QED
  BY <1>2, <1>3, <1>4, <1>5

LEMMA ArgumentInv == ASSUME Inv, Argument  PROVE Inv'
<1> USE DEF Inv, Argument, disk, story
<1>1. TreeOK'
  BY DEF TreeOK
<1>2. CASE Refused(draft, Head(rest))
  <2>1. EndCommand /\ Install(config, {}, {})
    BY <1>2
  <2>2. /\ config' = config
        /\ waived' \subseteq Path /\ let_go' \subseteq Path /\ strays' \subseteq Path
        /\ \A f \in Excused : In(config, f) \/ f \in Excused'
    BY <2>1, InstallStory
  <2>3. TypeOK'
    BY <2>1, <2>2, EndCommandInv DEF TypeOK
  <2>4. Tracked'
    BY <2>2 DEF Tracked, Ours
  <2>5. QED
    BY <1>1, <2>1, <2>3, <2>4, EndCommandInv
<1>3. CASE ~Refused(draft, Head(rest))
  <2> DEFINE p == Head(rest)
  <2>1. p \in Path /\ Tail(rest) \in Seq(Path)
    BY DEF TypeOK
  <2>2. /\ draft' = Revised(draft, p)
        /\ rest' = Tail(rest)
        /\ UNCHANGED <<op, force, stale, config, story>>
    BY <1>3
  <2>3. draft' \in Lists /\ NoContradiction(draft')
    BY <1>3, <2>1, <2>2, RevisedOK DEF DraftInv
  <2>4. TypeOK'
    BY <2>1, <2>2, <2>3 DEF TypeOK
  <2>5. DraftInv'
    BY <2>2, <2>3 DEF DraftInv, DraftConsistent
  <2>6. Pending'
    <3> SUFFICES ASSUME ~stale, NEW f \in Path, In(config, f)
                 PROVE  \/ In(draft', f)
                        \/ op = "remove" /\ (force \/ ~Ours(f) \/ f \in strays)
                        \/ op = "unexclude"
      BY <2>2 DEF Pending, Ours
    <3>1. \/ In(draft, f)
          \/ op = "remove" /\ (force \/ ~Ours(f) \/ f \in strays)
          \/ op = "unexclude"
      BY DEF Pending
    <3>2. QED
      BY <1>3, <2>1, <2>2, <3>1, RevisedKeepsCover
  <2>7. Tracked'
    BY <2>2 DEF Tracked, Ours, Excused
  <2>8. QED
    BY <1>1, <2>4, <2>5, <2>6, <2>7
<1>4. QED
  BY <1>2, <1>3

LEMMA CommitInv == ASSUME Inv, Commit  PROVE Inv'
<1> USE DEF Inv, Commit, disk, story
<1>1. EndCommand
  OBVIOUS
<1>2. TreeOK'
  BY DEF TreeOK
<1>3. CASE stale \/ ~Writable(draft)
  <2>1. /\ config' = config
        /\ waived' \subseteq Path /\ let_go' \subseteq Path /\ strays' \subseteq Path
        /\ \A f \in Excused : In(config, f) \/ f \in Excused'
    BY <1>3, InstallStory
  <2>2. TypeOK'
    BY <1>1, <2>1, EndCommandInv DEF TypeOK
  <2>3. Tracked'
    BY <2>1 DEF Tracked, Ours
  <2>4. QED
    BY <1>1, <1>2, <2>2, <2>3, EndCommandInv
<1>4. CASE ~(stale \/ ~Writable(draft))
  <2> DEFINE W == IF op = "remove" /\ force THEN Dropped ELSE {}
             L == IF op = "unexclude" THEN Dropped ELSE {}
  <2>1. W \in SUBSET Path /\ L \in SUBSET Path /\ Install(draft, W, L)
    BY <1>4 DEF Dropped
  <2>2. /\ config' = draft
        /\ waived' \subseteq Path /\ let_go' \subseteq Path /\ strays' \subseteq Path
        /\ \A f \in Excused \cup W \cup L : In(draft, f) \/ f \in Excused'
    BY <2>1, InstallStory
  <2>3. TypeOK'
    BY <1>1, <1>4, <2>2, EndCommandInv DEF TypeOK, Writable
  <2>4. ASSUME NEW f \in Path, Ours(f)
        PROVE  In(draft, f) \/ f \in Excused \cup W \cup L
    <3>1. CASE ~In(config, f)
      BY <2>4, <3>1 DEF Tracked
    <3>2. CASE In(config, f)
      <4>1. \/ In(draft, f)
            \/ op = "remove" /\ (force \/ f \in strays)
            \/ op = "unexclude"
        BY <1>4, <2>4, <3>2 DEF Pending
      <4>2. QED
        BY <2>4, <3>2, <4>1 DEF Dropped, Excused
    <3>3. QED
      BY <3>1, <3>2
  <2>5. Tracked'
    BY <2>2, <2>4 DEF Tracked, Ours
  <2>6. QED
    BY <1>1, <1>2, <2>3, <2>5, EndCommandInv
<1>5. QED
  BY <1>3, <1>4

------------------------------------------------------------------------------
\* encrypt, decrypt and rekey: none runs while another command does.

\* An idle step changes data only: ciphertext is where it was, or where the
\* lists cover it.
LEMMA DataInv ==
  ASSUME Inv, op = "none", UNCHANGED <<node, repo, job, edits>>,
         waived' \subseteq Path, let_go' \subseteq Path, strays' \subseteq Path,
         \A f \in Excused : In(config', f) \/ f \in Excused',
         runs' \in Nat, rotated' \in BOOLEAN,
         config' \in Lists, Loadable(config'),
         data' \in [Path -> {"none", "plain", "foreign", "current", "old", "lost"}],
         \A f \in Path : data'[f] # "none" => node[f] = "file",
         \A f \in Path : In(config, f) => In(config', f),
         \A f \in Path : Ours(f)' => Ours(f) \/ In(config', f)
  PROVE  Inv'
<1> USE DEF Inv, job
<1>1. TypeOK'
  BY DEF TypeOK
<1>2. TreeOK'
  BY DEF TreeOK
<1>3. DraftInv'
  BY DEF DraftInv, DraftConsistent
<1>4. Tracked'
  BY DEF Tracked
<1>5. Pending'
  BY DEF Pending
<1>6. QED
  BY <1>1, <1>2, <1>3, <1>4, <1>5

\* A pass leaves everything it did not encrypt alone.
LEMMA EncryptedData ==
  ASSUME Inv, NEW T, NEW S, T \subseteq Path, CanEncrypt(T, S),
         Encrypted(S)
  PROVE  /\ data' \in [Path -> {"none", "plain", "foreign", "current", "old", "lost"}]
         /\ \A f \in Path : data'[f] # "none" => node[f] = "file"
         /\ \A f \in Path : Ours(f)' => Ours(f) \/ f \in T
<1>1. data \in [Path -> {"none", "plain", "foreign", "current", "old", "lost"}]
  BY DEF Inv, TypeOK
<1>2. data' \in [Path -> {"none", "plain", "foreign", "current", "old", "lost"}]
  BY <1>1 DEF Encrypted
<1>3. \A f \in Path : data'[f] = IF f \in S THEN "current" ELSE data[f]
  BY DEF Encrypted
<1>4. \A f \in S : data[f] # "none"
  BY DEF CanEncrypt
<1>5. \A f \in Path : data'[f] # "none" => node[f] = "file"
  BY <1>3, <1>4 DEF Inv, TreeOK
<1>6. S \subseteq T
  BY DEF CanEncrypt
<1>7. QED
  BY <1>2, <1>3, <1>5, <1>6 DEF Ours

LEMMA FilesCovered ==
  ASSUME TypeOK, NEW f \in Files(config)
  PROVE  f \in Path /\ In(config, f)
BY DEF Files, WalkedFrom, Walked, WalkedEverywhere, In, CoveredBy, TypeOK, Lists

\* The commands that leave the lists as they are leave the excuses so too.
LEMMA SameStory ==
  ASSUME Inv, UNCHANGED story
  PROVE  /\ waived' \subseteq Path /\ let_go' \subseteq Path /\ strays' \subseteq Path
         /\ \A f \in Excused : In(config', f) \/ f \in Excused'
BY DEF Inv, TypeOK, story, Excused

LEMMA RunType == Inv /\ Run => op = "none" /\ runs' \in Nat /\ Loadable(config)
BY DEF Inv, TypeOK, Run

LEMMA EncryptManagedInv ==
  ASSUME Inv, NEW S \in SUBSET Path, EncryptManaged(S) \/ Continue(S)
  PROVE  Inv'
<1>1. /\ Run /\ CanEncrypt(Files(config), S) /\ Encrypted(S)
      /\ UNCHANGED <<node, repo, config, rotated, job, story, edits>>
  BY DEF EncryptManaged, Continue
<1>2. Files(config) \subseteq Path /\ \A f \in Files(config) : In(config, f)
  BY FilesCovered DEF Inv
<1>3. /\ data' \in [Path -> {"none", "plain", "foreign", "current", "old", "lost"}]
      /\ \A f \in Path : data'[f] # "none" => node[f] = "file"
      /\ \A f \in Path : Ours(f)' => Ours(f) \/ f \in Files(config)
  BY <1>1, <1>2, EncryptedData
<1>4. config' \in Lists /\ rotated' \in BOOLEAN
  BY <1>1 DEF Inv, TypeOK
<1>5. Loadable(config') /\ op = "none" /\ runs' \in Nat
  BY <1>1, RunType
<1>6. \A f \in Path : In(config, f) => In(config', f)
  BY <1>1
<1>7. \A f \in Path : Ours(f)' => Ours(f) \/ In(config', f)
  BY <1>1, <1>2, <1>3
<1>8. QED
  BY <1>1, <1>3, <1>4, <1>5, <1>6, <1>7, DataInv, SameStory

LEMMA EncryptNamedInv ==
  ASSUME Inv, NEW p \in Path, NEW S \in SUBSET Path, EncryptNamed(p, S)
  PROVE  Inv'
<1> DEFINE targets == {f \in Walked(p) : ~CoveredBy(config.excl, f)}
           added == {f \in targets : ~CoveredBy(config.paths, f)}
           c == [config EXCEPT !.paths = @ \cup added]
<1>1. /\ Run /\ CanEncrypt(targets, S) /\ Encrypted(S)
      /\ Writable(c)
      /\ Install(c, {}, {})
      /\ UNCHANGED <<node, repo, rotated, job, edits>>
  BY DEF EncryptNamed
<1>2. targets \subseteq Path
  BY DEF Walked, WalkedEverywhere
<1> HIDE DEF targets
<1>3. /\ data' \in [Path -> {"none", "plain", "foreign", "current", "old", "lost"}]
      /\ \A f \in Path : data'[f] # "none" => node[f] = "file"
      /\ \A f \in Path : Ours(f)' => Ours(f) \/ f \in targets
  BY <1>1, <1>2, EncryptedData
<1>4. config \in Lists
  BY DEF Inv, TypeOK
<1>5. /\ config' = c /\ config' \in Lists
      /\ config'.paths = config.paths \cup added
      /\ config'.excl = config.excl
  BY <1>1, <1>2, <1>4 DEF Lists, Install
<1>6. Loadable(config') /\ op = "none" /\ runs' \in Nat /\ rotated' \in BOOLEAN
  BY <1>1, <1>5, RunType DEF Writable, Inv, TypeOK
<1>7. \A f \in Path : In(config, f) => In(config', f)
  BY <1>5 DEF In, CoveredBy
<1>8. \A f \in targets : In(config', f)
  BY <1>5 DEF In, CoveredBy, Covers
<1>9. /\ waived' \subseteq Path /\ let_go' \subseteq Path /\ strays' \subseteq Path
      /\ \A f \in Excused : In(config', f) \/ f \in Excused'
  <2> HIDE DEF c
  <2> QED BY <1>1, <1>5, InstallStory DEF Inv
<1>10. QED
  BY <1>1, <1>3, <1>5, <1>6, <1>7, <1>8, <1>9, DataInv

LEMMA DecryptNamedInv ==
  ASSUME Inv, NEW f \in Path, DecryptNamed(f)
  PROVE  Inv'
<1>1. /\ Run /\ node[f] = "file"
      /\ data' = [data EXCEPT ![f] = "plain"]
      /\ UNCHANGED <<node, repo, config, rotated, job, story, edits>>
  BY DEF DecryptNamed
<1>2. data \in [Path -> {"none", "plain", "foreign", "current", "old", "lost"}]
  BY DEF Inv, TypeOK
<1>3. /\ data' \in [Path -> {"none", "plain", "foreign", "current", "old", "lost"}]
      /\ \A g \in Path : data'[g] # "none" => node[g] = "file"
      /\ \A g \in Path : Ours(g)' => Ours(g)
  BY <1>1, <1>2 DEF Inv, TreeOK, Ours
<1>4. config' \in Lists /\ rotated' \in BOOLEAN
  BY <1>1 DEF Inv, TypeOK
<1>5. Loadable(config') /\ op = "none" /\ runs' \in Nat
  BY <1>1, RunType
<1>6. QED
  BY <1>1, <1>3, <1>4, <1>5, DataInv, SameStory

LEMMA RotateInv ==
  ASSUME Inv, NEW S \in SUBSET Path, Rotate(S)
  PROVE  Inv'
<1>1. /\ Run /\ CanEncrypt(Files(config), S) /\ rotated' = TRUE
      /\ data' = [f \in Path |-> IF f \in S THEN "current"
                                 ELSE IF data[f] = "current" THEN "old" ELSE data[f]]
      /\ UNCHANGED <<node, repo, config, job, story, edits>>
  BY DEF Rotate
<1>2. \A f \in Files(config) : In(config, f)
  BY FilesCovered DEF Inv
<1>3. data \in [Path -> {"none", "plain", "foreign", "current", "old", "lost"}]
  BY DEF Inv, TypeOK
<1>4. S \subseteq Files(config) /\ \A f \in S : data[f] # "none"
  BY <1>1 DEF CanEncrypt
<1>5. /\ data' \in [Path -> {"none", "plain", "foreign", "current", "old", "lost"}]
      /\ \A f \in Path : data'[f] # "none" => data[f] # "none"
      /\ \A f \in Path : Ours(f)' => Ours(f) \/ f \in S
  BY <1>1, <1>3, <1>4 DEF Ours
<1>6. \A f \in Path : data'[f] # "none" => node[f] = "file"
  BY <1>5 DEF Inv, TreeOK
<1>7. config' \in Lists
  BY <1>1 DEF Inv, TypeOK
<1>8. Loadable(config') /\ op = "none" /\ runs' \in Nat
  BY <1>1, RunType
<1>9. /\ \A f \in Path : In(config, f) => In(config', f)
      /\ \A f \in Path : Ours(f)' => Ours(f) \/ In(config', f)
  BY <1>1, <1>2, <1>4, <1>5
<1>10. QED
  BY <1>1, <1>5, <1>6, <1>7, <1>8, <1>9, DataInv, SameStory

LEMMA PruneInv == ASSUME Inv, Prune  PROVE Inv'
<1>1. /\ Run /\ rotated' = FALSE
      /\ data' = [f \in Path |-> IF data[f] = "old" THEN "lost" ELSE data[f]]
      /\ UNCHANGED <<node, repo, config, job, story, edits>>
  BY DEF Prune
<1>2. data \in [Path -> {"none", "plain", "foreign", "current", "old", "lost"}]
  BY DEF Inv, TypeOK
<1>3. /\ data' \in [Path -> {"none", "plain", "foreign", "current", "old", "lost"}]
      /\ \A f \in Path : data'[f] # "none" => node[f] = "file"
      /\ \A f \in Path : Ours(f)' => Ours(f)
  BY <1>1, <1>2 DEF Inv, TreeOK, Ours
<1>4. config' \in Lists
  BY <1>1 DEF Inv, TypeOK
<1>5. Loadable(config') /\ op = "none" /\ runs' \in Nat
  BY <1>1, RunType
<1>6. QED
  BY <1>1, <1>3, <1>4, <1>5, DataInv, SameStory

------------------------------------------------------------------------------
\* The user.

LEMMA BecomeInv ==
  ASSUME Inv, NEW p \in Path, NEW k \in {"absent", "file", "dir", "symlink"},
         NEW v \in {"none", "plain", "foreign", "current", "old"}, v # "none" => k = "file",
         Become(p, k, v)
  PROVE  Inv'
<1> USE DEF Inv
<1>1. /\ edits' \in Nat
      /\ \A a \in Above[p] : node[a] = "dir"
      /\ node' = [q \in Path |-> IF q = p THEN k
                                 ELSE IF p \in Above[q] THEN "absent" ELSE node[q]]
      /\ data' = [q \in Path |-> IF q = p THEN v
                                 ELSE IF p \in Above[q] THEN "none" ELSE data[q]]
      /\ repo' = {q \in repo : ~Covers(p, q)}
      /\ waived' = {q \in waived : ~Covers(p, q)}
      /\ let_go' = {q \in let_go : ~Covers(p, q)}
      /\ strays' = {q \in strays : ~Covers(p, q)}
           \cup {q \in {p} : /\ v \in {"current", "old"}
                             /\ ~In(config, q) \/ Past(q)}
      /\ UNCHANGED <<config, rotated, job, runs>>
  BY DEF Become, Intervene, TypeOK
<1>2. /\ node \in [Path -> {"absent", "file", "dir", "symlink"}]
      /\ data \in [Path -> {"none", "plain", "foreign", "current", "old", "lost"}]
      /\ repo \subseteq Path /\ waived \subseteq Path /\ let_go \subseteq Path
      /\ strays \subseteq Path
  BY DEF TypeOK
<1>3. /\ node' \in [Path -> {"absent", "file", "dir", "symlink"}]
      /\ data' \in [Path -> {"none", "plain", "foreign", "current", "old", "lost"}]
  BY <1>1, <1>2
<1>4. TypeOK'
  <2>1. repo' \subseteq Path /\ waived' \subseteq Path /\ let_go' \subseteq Path
        /\ strays' \subseteq Path
    BY <1>1, <1>2
  <2>2. QED
    BY <1>1, <1>3, <2>1 DEF TypeOK, job
\* What p does not cover stays as it is, and so does everything above p.
<1>5. \A q \in Path : ~Covers(p, q) => node'[q] = node[q] /\ data'[q] = data[q]
  BY <1>1 DEF Covers
<1>6. \A q \in Path : \A a \in Above[q] : Covers(p, a) => p \in Above[q]
  BY DEF Covers
<1>7. \A q \in Path : Above[q] \subseteq Path
  OBVIOUS
<1>8. ASSUME NEW q \in Path, node'[q] # "absent", NEW a \in Above[q]
      PROVE  node'[a] = "dir"
  <2>1. p \notin Above[q]
    <3>1. CASE q = p
      BY <3>1
    <3>2. CASE q # p
      BY <1>1, <1>8, <3>2
    <3>3. QED
      BY <3>1, <3>2
  <2>2. ~Covers(p, a) /\ a \in Path
    BY <1>6, <1>7, <1>8, <2>1
  <2>3. node[a] = "dir"
    <3>1. CASE q = p
      BY <1>1, <1>8, <3>1
    <3>2. CASE q # p
      <4>1. node[q] # "absent"
        BY <1>1, <1>8, <2>1, <3>2
      <4>2. QED
        BY <1>8, <4>1 DEF TreeOK
    <3>3. QED
      BY <3>1, <3>2
  <2>4. QED
    BY <1>5, <2>2, <2>3
<1>9. TreeOK'
  <2>1. \A q \in Path : data'[q] # "none" => node'[q] = "file"
    BY <1>1 DEF TreeOK
  <2>2. \A d \in repo' : node'[d] = "dir"
    BY <1>1, <1>2, <1>5 DEF TreeOK
  <2>3. QED
    BY <1>8, <2>1, <2>2 DEF TreeOK
<1>10. DraftInv'
  BY <1>1 DEF DraftInv, DraftConsistent, job
<1>11. ASSUME NEW f \in Path, Ours(f)'
       PROVE  (Ours(f) /\ ~Covers(p, f)) \/ (f = p /\ v \in {"current", "old"})
  BY <1>1, <1>11 DEF Ours, Covers
<1>12. \A f \in Path : f \in Excused /\ ~Covers(p, f) => f \in Excused'
  BY <1>1 DEF Excused
<1>13. v \in {"current", "old"} /\ ~In(config, p) => p \in Excused'
  BY <1>1 DEF Excused
<1>14. Tracked'
  BY <1>1, <1>11, <1>12, <1>13 DEF Tracked
<1>15. Pending'
  <2>1. v \in {"current", "old"} /\ op # "none" /\ ~In(draft, p) => p \in strays'
    BY <1>1, InSplits DEF Past, Managed
  <2>2. \A f \in strays : ~Covers(p, f) => f \in strays'
    BY <1>1
  <2>3. QED
    BY <1>1, <1>11, <2>1, <2>2 DEF Pending, job
<1>16. QED
  BY <1>4, <1>9, <1>10, <1>14, <1>15

LEMMA ToggleRepoInv ==
  ASSUME Inv, NEW d \in Path, ToggleRepo(d)
  PROVE  Inv'
<1> USE DEF Inv, ToggleRepo, Intervene, job, story
<1>1. TypeOK'
  BY DEF TypeOK
<1>2. TreeOK'
  BY DEF TreeOK
<1>3. DraftInv' /\ Tracked' /\ Pending'
  BY DEF DraftInv, DraftConsistent, Tracked, Pending, Ours, Excused
<1>4. QED
  BY <1>1, <1>2, <1>3

LEMMA HandExcludeInv ==
  ASSUME Inv, NEW p \in Path, HandExclude(p)
  PROVE  Inv'
<1> USE DEF Inv
<1> DEFINE c == [config EXCEPT !.excl = @ \cup {p}, !.paths = @ \ Beneath(@, p)]
<1>1. /\ edits' \in Nat
      /\ Install(c, {}, {})
      /\ Loadable(config')
      /\ stale' = (op # "none")
      /\ UNCHANGED <<disk, rotated, op, force, rest, draft, runs>>
  BY DEF HandExclude, Intervene, TypeOK
<1>2. config \in Lists
  BY DEF TypeOK
<1>3. /\ config' = c
      /\ config' \in Lists
      /\ config'.excl = config.excl \cup {p}
      /\ config'.paths = config.paths \ Beneath(config.paths, p)
  BY <1>1, <1>2 DEF Lists, Install
<1> HIDE DEF c
<1>4. /\ waived' \subseteq Path /\ let_go' \subseteq Path /\ strays' \subseteq Path
      /\ \A f \in Excused : In(config', f) \/ f \in Excused'
  BY <1>1, <1>3, InstallStory
<1>5. TypeOK'
  BY <1>1, <1>3, <1>4 DEF TypeOK, disk
<1>6. TreeOK' /\ DraftInv'
  BY <1>1 DEF TreeOK, DraftInv, DraftConsistent, disk
<1>7. ASSUME NEW f \in Path, In(config, f)  PROVE In(config', f)
  <2>1. PICK e \in config.paths \cup config.excl : Covers(e, f)
    BY <1>7 DEF In, CoveredBy
  <2>2. e \in Path
    BY <1>2 DEF Lists
  <2>3. CASE Covers(p, e)
    BY <1>3, <2>1, <2>2, <2>3, CoversTransitive DEF In, CoveredBy
  <2>4. CASE ~Covers(p, e)
    BY <1>3, <2>1, <2>4 DEF In, CoveredBy, Beneath
  <2>5. QED
    BY <2>3, <2>4
<1>8. Tracked'
  BY <1>1, <1>4, <1>7 DEF Tracked, Ours, disk
<1>9. Pending'
  BY <1>1 DEF Pending
<1>10. QED
  BY <1>5, <1>6, <1>8, <1>9

------------------------------------------------------------------------------
LEMMA StutterInv == ASSUME Inv, UNCHANGED vars  PROVE Inv'
<1> USE DEF Inv, vars, disk, job, story
<1>1. TypeOK' /\ TreeOK'
  BY DEF TypeOK, TreeOK
<1>2. DraftInv' /\ Tracked' /\ Pending'
  BY DEF DraftInv, DraftConsistent, Tracked, Pending, Ours, Excused
<1>3. QED
  BY <1>1, <1>2

LEMMA Inductive == ASSUME Inv, [Next]_vars  PROVE Inv'
<1>1. CASE Manage
  BY <1>1, BeginInv, ArgumentInv, CommitInv DEF Manage
<1>2. CASE Convert
  BY <1>2, EncryptManagedInv, RotateInv, EncryptNamedInv, DecryptNamedInv, PruneInv
     DEF Convert
<1>3. CASE User
  <2>1. ASSUME NEW p \in Path, NEW v \in {"plain", "foreign"}, WriteFile(p, v)
        PROVE  Inv'
    BY <2>1, BecomeInv DEF WriteFile
  <2>2. ASSUME NEW p \in Path, NEW v \in {"current", "old"}, Return(p, v)
        PROVE  Inv'
    BY <2>2, BecomeInv DEF Return, WriteFile
  <2>3. ASSUME NEW p \in Path, MakeDir(p) \/ MakeSymlink(p) \/ Delete(p)
        PROVE  Inv'
    BY <2>3, BecomeInv DEF MakeDir, MakeSymlink, Delete
  <2>4. QED
    BY <1>3, <2>1, <2>2, <2>3, ToggleRepoInv, HandExcludeInv DEF User
<1>4. CASE UNCHANGED vars
  BY <1>4, StutterInv
<1>5. QED
  BY <1>1, <1>2, <1>3, <1>4 DEF Next

THEOREM Reach == Spec => []Inv
<1>1. Init => Inv
  BY InitInv
<1>2. Inv /\ [Next]_vars => Inv'
  BY Inductive
<1>3. QED
  BY <1>1, <1>2, PTL DEF Spec

\* Every state is well typed, and the config on disk is one that the tool
\* loads: the writer never commits lists its reader would refuse.
THEOREM ListTypes == Spec => []TypeOK
<1>1. Inv => TypeOK
  BY DEF Inv
<1>2. QED
  BY <1>1, Reach, PTL

\* However many arguments a command has and however the tree changes between
\* them, its draft never manages what it excludes.
THEOREM DraftNeverContradicts == Spec => []DraftConsistent
<1>1. Inv => DraftConsistent
  BY DEF Inv, DraftInv
<1>2. QED
  BY <1>1, Reach, PTL

\* Only a prune takes a key from ciphertext.
LEMMA OnlyPruneLoses ==
  ASSUME Inv, [Next]_vars, NEW f \in Path, data[f] = "old", data'[f] = "lost"
  PROVE  Prune
<1>1. CASE Manage
  BY <1>1 DEF Manage, Begin, Argument, Commit, disk
<1>2. CASE Convert
  <2>1. ASSUME NEW S \in SUBSET Path, Encrypted(S)
        PROVE  FALSE
    BY <2>1 DEF Encrypted
  <2>2. ASSUME NEW S \in SUBSET Path, Rotate(S)
        PROVE  FALSE
    BY <2>2 DEF Rotate
  <2>3. ASSUME NEW g \in Path, DecryptNamed(g)
        PROVE  FALSE
    BY <2>3 DEF DecryptNamed, Inv, TypeOK
  <2>4. QED
    BY <1>2, <2>1, <2>2, <2>3 DEF Convert, EncryptManaged, Continue, EncryptNamed
<1>3. CASE User
  <2>1. ASSUME NEW p \in Path, NEW k, NEW v, v # "lost",
               Become(p, k, v)
        PROVE  FALSE
    BY <2>1 DEF Become
  <2>2. ASSUME NEW p \in Path, ToggleRepo(p) \/ HandExclude(p)
        PROVE  FALSE
    BY <2>2 DEF ToggleRepo, HandExclude, disk
  <2>3. ASSUME NEW p \in Path, MakeDir(p) \/ MakeSymlink(p) \/ Delete(p)
        PROVE  FALSE
    BY <2>1, <2>3 DEF MakeDir, MakeSymlink, Delete
  <2>4. ASSUME NEW p \in Path, NEW v \in {"plain", "foreign", "current", "old"},
               WriteFile(p, v)
        PROVE  FALSE
    BY <2>1, <2>4 DEF WriteFile
  <2>5. QED
    BY <1>3, <2>2, <2>3, <2>4 DEF User, Return
<1>4. CASE UNCHANGED vars
  BY <1>4 DEF vars, disk
<1>5. QED
  BY <1>1, <1>2, <1>3, <1>4 DEF Next

\* A prune has looked behind every entry of the lists.
LEMMA PruneSpares ==
  ASSUME Inv, Prune, NEW f \in Path, data[f] = "old"
  PROVE  f \in waived \cup let_go \cup strays \/ Residual(f)
<1> SUFFICES ASSUME f \notin Excused  PROVE Residual(f)
  BY DEF Excused
<1>1. Ours(f) /\ node[f] = "file"
  BY OursIsFile DEF Ours, Inv
<1>2. PICK e \in config.paths \cup config.excl : Covers(e, f)
  BY <1>1 DEF Inv, Tracked, In, CoveredBy
<1>3. /\ config.paths \subseteq Path /\ config.excl \subseteq Path
      /\ repo \subseteq Path
  BY DEF Inv, TypeOK, Lists
<1>4. /\ f \notin Hidden(config)
      /\ f \notin Files(config)
      /\ Boundaries(config.paths, config.excl) = {}
      /\ \A x \in config.paths : ~CutOff(x)
  BY <1>1 DEF Prune, Unverified, AuditFails
<1>5. f \notin WalkedFrom(config.paths) /\ f \notin WalkedFrom(Independent(config))
  BY <1>4 DEF Hidden
<1>6. ASSUME NEW m \in config.paths, Covers(m, f)  PROVE Residual(f)
  <2>1. f \notin Walked(m)
    BY <1>4, <1>5 DEF WalkedFrom
  <2>2. PICK d \in repo : d \in Above[f] /\ Covers(m, d)
    BY <1>1, <1>3, <1>6, <2>1, MissedIsNested
  <2>3. CoveredBy(config.paths, d)
    BY <2>2 DEF CoveredBy
  <2>4. CoveredBy(config.excl, f)
    BY <1>3, <1>4, <2>2, <2>3, NestedIsExcluded DEF Inv
  <2>5. QED
    BY <2>2, <2>4 DEF Residual
<1>7. CASE e \in config.paths
  BY <1>2, <1>6, <1>7
<1>8. CASE e \in config.excl /\ CoveredBy(config.paths, e)
  <2>1. PICK m \in config.paths : Covers(m, e)
    BY <1>8 DEF CoveredBy
  <2>2. Covers(m, f)
    BY <1>2, <1>3, <1>8, <2>1, CoversTransitive
  <2>3. QED
    BY <1>6, <2>2
<1>9. CASE e \in Independent(config)
  <2>1. CoveredBy(config.excl, f)
    BY <1>2, <1>9 DEF CoveredBy, Independent
  <2>2. CASE CutOff(e)
    <3>1. PICK a \in Above[e] : node[a] \in {"file", "symlink"} \/ a \in repo
      BY <2>2 DEF CutOff
    <3>2. a \in Above[f]
      BY <1>2, <1>3, <3>1 DEF Covers
    <3>3. node[a] = "dir"
      BY <1>1, <3>2 DEF Inv, TreeOK
    <3>4. QED
      BY <2>1, <3>1, <3>2, <3>3 DEF Residual
  <2>3. CASE ~CutOff(e)
    <3>1. f \notin Walked(e)
      BY <1>5, <1>9, <2>3 DEF WalkedFrom
    <3>2. QED
      BY <1>1, <1>2, <1>3, <2>1, <3>1, MissedIsNested DEF Residual
  <2>4. QED
    BY <2>2, <2>3
<1>10. QED
  BY <1>2, <1>7, <1>8, <1>9 DEF Independent

\* No ciphertext of the domain loses its key without the user having put it
\* out of reach himself, or a repository hiding it in an excluded tree.
THEOREM NoSilentLoss == Spec => LossesAreExcused
<1>1. Inv /\ [Next]_vars
        => [\A f \in Path : data[f] = "old" /\ data'[f] = "lost"
              => f \in waived \cup let_go \cup strays \/ Residual(f)]_vars
  BY OnlyPruneLoses, PruneSpares
<1>2. QED
  BY <1>1, Reach, PTL DEF Spec, LossesAreExcused

------------------------------------------------------------------------------
\* What commits do to the sight of rotation and of encrypt.

\* A file that one walk meets has no repository above it, and so is met by a
\* walk from whatever else covers it.
LEMMA NothingNestedAbove ==
  ASSUME NEW e \in Path, NEW f \in Walked(e), ~CutOff(e)
  PROVE  Above[f] \cap repo = {}
<1>1. /\ f \in Path /\ Covers(e, f)
      /\ \A d \in repo : d \in Above[f] => ~Covers(e, d)
  BY DEF Walked, WalkedEverywhere
<1> SUFFICES ASSUME NEW d \in repo, d \in Above[f]
             PROVE  FALSE
  OBVIOUS
<1>2. ~Covers(e, d) /\ d \notin Above[e]
  BY <1>1 DEF CutOff
<1>3. e # f /\ e \in Above[f]
  BY <1>1, <1>2 DEF Covers
<1> QED BY <1>1, <1>2, <1>3, ChainAssumption DEF Covers

LEMMA MetFromAll ==
  ASSUME TypeOK, TreeOK, NEW e \in Path, NEW f \in Walked(e), ~CutOff(e),
         NEW x \in Path, Covers(x, f)
  PROVE  f \in Walked(x) /\ ~CutOff(x)
<1>1. /\ f \in Path /\ node[f] = "file" /\ Covers(e, f)
      /\ \A d \in repo : d \in Above[f] => ~Covers(e, d)
  BY DEF Walked, WalkedEverywhere
<1>2. \A a \in Above[f] : node[a] = "dir"
  BY <1>1 DEF TreeOK
<1>3. Above[f] \cap repo = {}
  BY NothingNestedAbove
<1>4. Above[x] \subseteq Above[f]
  BY <1>1 DEF Covers
<1> QED BY <1>1, <1>2, <1>3, <1>4 DEF Walked, WalkedEverywhere, CutOff

LEMMA MetFromList ==
  ASSUME TypeOK, TreeOK, NEW L \in SUBSET Path, NEW M \in SUBSET Path,
         NEW f \in WalkedFrom(L), CoveredBy(M, f)
  PROVE  f \in WalkedFrom(M)
<1>1. PICK e \in L : ~CutOff(e) /\ f \in Walked(e)
  BY DEF WalkedFrom
<1>2. PICK x \in M : Covers(x, f)
  BY DEF CoveredBy
<1>3. f \in Walked(x) /\ ~CutOff(x)
  BY <1>1, <1>2, MetFromAll
<1> QED BY <1>2, <1>3 DEF WalkedFrom

\* So what is seen under some lists is seen under all that cover it.
LEMMA SeenWhereCovered ==
  ASSUME TypeOK, TreeOK, NEW c \in Lists, NEW d \in Lists,
         NEW f \in Seen(c), In(d, f)
  PROVE  f \in Seen(d)
<1>1. /\ c.paths \in SUBSET Path /\ Independent(c) \in SUBSET Path
      /\ d.paths \in SUBSET Path /\ Independent(d) \in SUBSET Path
  BY DEF Lists, Independent
<1>2. PICK L \in SUBSET Path : f \in WalkedFrom(L)
  BY <1>1 DEF Seen, Files, Hidden
<1>3. f \in Path
  BY <1>2 DEF WalkedFrom, Walked, WalkedEverywhere
<1>4. CASE CoveredBy(d.paths, f)
  <2>1. f \in WalkedFrom(d.paths)
    BY <1>1, <1>2, <1>4, MetFromList
  <2> QED BY <2>1 DEF Seen, Hidden
<1>5. CASE ~CoveredBy(d.paths, f)
  <2>1. PICK x \in d.excl : Covers(x, f)
    BY <1>5 DEF In, CoveredBy
  <2>2. x \in Path /\ ~CoveredBy(d.paths, x)
    <3>1. x \in Path
      BY DEF Lists
    <3> QED BY <1>1, <1>3, <1>5, <2>1, <3>1, CoversTransitive DEF CoveredBy
  <2>3. CoveredBy(Independent(d), f)
    BY <2>1, <2>2 DEF Independent, CoveredBy
  <2>4. f \in WalkedFrom(Independent(d))
    BY <1>1, <1>2, <2>3, MetFromList
  <2> QED BY <2>4 DEF Seen, Hidden
<1> QED BY <1>4, <1>5

\* A command that ends with other lists on disk has committed its draft.
LEMMA OnlyCommitWrites ==
  ASSUME Inv, [Next]_vars, op # "none", op' = "none", config' # config
  PROVE  ~stale /\ config' = draft /\ UNCHANGED disk
<1>1. CASE Manage
  BY <1>1 DEF Manage, Begin, Run, Argument, Commit, Install
<1>2. CASE Convert
  BY <1>2 DEF Convert, EncryptManaged, EncryptNamed, DecryptNamed, Rotate, Continue,
              Prune, Run
<1>3. CASE User
  BY <1>3 DEF User, WriteFile, Return, MakeDir, MakeSymlink, Delete, Become,
              ToggleRepo, HandExclude, job
<1>4. CASE UNCHANGED vars
  BY <1>4 DEF vars
<1> QED BY <1>1, <1>2, <1>3, <1>4 DEF Next

\* No add, exclusion or removal without --force commits lists under which
\* rotation is blind to a ciphertext it could see before, unless a removal had
\* looked at its path before git brought it back: otherwise, what the probe
\* refuses, argument by argument, is enough on a tree that changes meanwhile.
THEOREM SightIsKept == Spec => CommitsKeepSight
<1>1. ASSUME Inv, [Next]_vars, op' = "none", config' # config,
             op \in {"add", "binary", "exclude", "remove"}, ~force,
             NEW f \in Seen(config), Ours(f)
      PROVE  f \in Seen(config') \/ (op = "remove" /\ f \in strays)
  <2>1. ~stale /\ config' = draft /\ UNCHANGED disk
    BY <1>1, OnlyCommitWrites
  <2>2. config \in Lists /\ draft \in Lists /\ TypeOK /\ TreeOK
    BY <1>1 DEF Inv, TypeOK
  <2>3. f \in Path /\ In(config, f)
    <3>1. PICK e \in config.paths \cup config.excl : f \in Walked(e)
      BY DEF Seen, Files, Hidden, WalkedFrom, Independent
    <3> QED BY <3>1 DEF Walked, WalkedEverywhere, In, CoveredBy
  <2>4. In(draft, f) \/ (op = "remove" /\ f \in strays)
    BY <1>1, <2>1, <2>3 DEF Inv, Pending
  <2>5. In(draft, f) => f \in Seen(draft)
    BY <2>2, SeenWhereCovered
  <2> QED BY <2>1, <2>4, <2>5
<1>2. Inv /\ [Next]_vars
        => [op' = "none" /\ config' # config
              /\ op \in {"add", "binary", "exclude", "remove"} /\ ~force
            => \A f \in Seen(config) :
                 Ours(f) => f \in Seen(config') \/ (op = "remove" /\ f \in strays)]_vars
  BY <1>1
<1>3. QED
  BY <1>2, Reach, PTL DEF Spec, CommitsKeepSight

------------------------------------------------------------------------------
\* The draft of an add covers what the config does, and excludes the same.
Widens ==
  op \in {"add", "binary"} /\ ~stale =>
    /\ draft.excl = config.excl
    /\ \A f \in Path : /\ CoveredBy(config.paths, f) => CoveredBy(draft.paths, f)
                       /\ CoveredBy(config.binary, f) => CoveredBy(draft.binary, f)

LEMMA WidensArgument == ASSUME Inv, Widens, Argument  PROVE Widens'
<1> SUFFICES ASSUME op' \in {"add", "binary"}, ~stale'
             PROVE  /\ draft'.excl = config.excl
                    /\ \A f \in Path :
                         /\ CoveredBy(config.paths, f) => CoveredBy(draft'.paths, f)
                         /\ CoveredBy(config.binary, f) => CoveredBy(draft'.binary, f)
  BY DEF Widens, Argument, Install
<1> DEFINE p == Head(rest)
<1>1. /\ draft' = Revised(draft, p)
      /\ UNCHANGED <<op, stale>>
  BY DEF Argument, EndCommand
<1>2. p \in Path /\ draft.paths \in SUBSET Path /\ draft.binary \in SUBSET Path
  BY DEF Argument, Inv, TypeOK, Lists
<1>3. /\ draft'.paths = Entered(draft.paths, p)
      /\ draft'.binary \in {draft.binary, Entered(draft.binary, p)}
      /\ draft'.excl = draft.excl
  BY <1>1 DEF Revised, Edited
<1>4. /\ draft.excl = config.excl
      /\ \A f \in Path : /\ CoveredBy(config.paths, f) => CoveredBy(draft.paths, f)
                         /\ CoveredBy(config.binary, f) => CoveredBy(draft.binary, f)
  BY <1>1 DEF Widens
<1>5. ASSUME NEW f \in Path
      PROVE  /\ CoveredBy(config.paths, f) => CoveredBy(draft'.paths, f)
             /\ CoveredBy(config.binary, f) => CoveredBy(draft'.binary, f)
  <2>1. CoveredBy(draft.paths, f) => CoveredBy(Entered(draft.paths, p), f)
    BY <1>2, EnteredCovers
  <2>2. CoveredBy(draft.binary, f) => CoveredBy(Entered(draft.binary, p), f)
    BY <1>2, EnteredCovers
  <2> QED BY <1>3, <1>4, <2>1, <2>2
<1> QED BY <1>3, <1>4, <1>5

LEMMA WidensNext == ASSUME Inv, Widens, [Next]_vars  PROVE Widens'
<1>1. CASE Manage
  BY <1>1, WidensArgument DEF Manage, Begin, Commit, EndCommand, Widens
<1>2. CASE Convert
  BY <1>2 DEF Convert, EncryptManaged, EncryptNamed, DecryptNamed, Rotate, Continue,
              Prune, Run, job, Widens
<1>3. CASE User
  <2>1. ASSUME NEW p \in Path, HandExclude(p)
        PROVE  Widens'
    BY <2>1 DEF HandExclude, Widens
  <2> QED BY <1>3, <2>1 DEF User, WriteFile, Return, MakeDir, MakeSymlink, Delete,
                          Become, ToggleRepo, job, Widens
<1>4. CASE UNCHANGED vars
  BY <1>4 DEF vars, job, Widens
<1> QED BY <1>1, <1>2, <1>3, <1>4 DEF Next

\* add never takes a file out of what encrypt selects, nor a path out of
\* binary mode, though it drops the entries that a new one covers and the
\* tree changes between its arguments and its rewrite.
THEOREM AddWidens == Spec => AddOnlyWidens
<1>1. Init => Widens
  BY DEF Init, Widens
<1>2. Inv /\ Widens /\ [Next]_vars => Widens'
  BY WidensNext
<1>3. ASSUME Inv, Widens, [Next]_vars, op' = "none", config' # config,
             op \in {"add", "binary"}
      PROVE  /\ Files(config) \subseteq Files(config')
             /\ \A p \in Path : CoveredBy(config.binary, p) => CoveredBy(config'.binary, p)
  <2>1. ~stale /\ config' = draft /\ UNCHANGED disk
    BY <1>3, OnlyCommitWrites
  <2>2. /\ TypeOK /\ TreeOK
        /\ config.paths \in SUBSET Path /\ draft.paths \in SUBSET Path
    BY <1>3 DEF Inv, TypeOK, Lists
  <2>3. ASSUME NEW f \in Files(config)
        PROVE  f \in Files(draft)
    <3>1. f \in WalkedFrom(config.paths) /\ ~CoveredBy(config.excl, f)
      BY DEF Files
    <3>2. f \in Path /\ CoveredBy(config.paths, f)
      BY <3>1 DEF WalkedFrom, Walked, WalkedEverywhere, CoveredBy
    <3>3. CoveredBy(draft.paths, f) /\ draft.excl = config.excl
      BY <1>3, <2>1, <3>2 DEF Widens
    <3>4. f \in WalkedFrom(draft.paths)
      BY <2>2, <3>1, <3>3, MetFromList
    <3> QED BY <3>1, <3>3, <3>4 DEF Files
  <2> QED BY <1>3, <2>1, <2>3 DEF Widens
<1>4. Inv /\ Widens /\ [Next]_vars
        => [op' = "none" /\ config' # config /\ op \in {"add", "binary"}
            => /\ Files(config) \subseteq Files(config')
               /\ \A p \in Path :
                    CoveredBy(config.binary, p) => CoveredBy(config'.binary, p)]_vars
  BY <1>3
<1>5. QED
  BY <1>1, <1>2, <1>4, Reach, PTL DEF Spec, AddOnlyWidens

------------------------------------------------------------------------------
\* An exclusion on its way to its rewrite hides no ciphertext in its draft, as
\* far as it stands in no repository, which would hide it from the probe too.
Unhidden ==
  op = "exclude" /\ ~force /\ ~stale =>
    /\ draft.paths = config.paths
    /\ \A f \in Path : Ours(f) /\ Above[f] \cap repo = {} /\ Managed(config, f)
         => Managed(draft, f) \/ f \in strays

LEMMA UnhiddenArgument == ASSUME Inv, Unhidden, Argument  PROVE Unhidden'
<1> SUFFICES ASSUME op' = "exclude", ~force', ~stale'
             PROVE  /\ draft'.paths = config.paths
                    /\ \A f \in Path :
                         Ours(f) /\ Above[f] \cap repo = {} /\ Managed(config, f)
                           => Managed(draft', f) \/ f \in strays'
  BY DEF Unhidden, Argument, Install, Ours, disk
<1> DEFINE p == Head(rest)
<1>1. /\ ~Refused(draft, p)
      /\ draft' = Revised(draft, p)
      /\ UNCHANGED <<op, force, stale, strays>>
  BY DEF Argument, EndCommand, story
<1>2. p \in Path /\ draft.excl \in SUBSET Path
  BY DEF Argument, Inv, TypeOK, Lists
<1>3. draft'.paths = draft.paths /\ draft'.excl = Entered(draft.excl, p)
  BY <1>1 DEF Revised, Edited
<1>4. draft.paths = config.paths
  BY <1>1 DEF Unhidden
<1>5. ASSUME NEW f \in Path, Ours(f), Above[f] \cap repo = {}, Managed(config, f),
             f \notin strays
      PROVE  Managed(draft', f)
  <2>1. Managed(draft, f)
    BY <1>1, <1>5 DEF Unhidden
  <2>2. CASE CoveredBy(draft.excl, p)
    BY <1>3, <2>1, <2>2 DEF Entered, Managed
  <2>3. CASE ~CoveredBy(draft.excl, p)
    <3>1. Entered(draft.excl, p) \subseteq draft.excl \cup {p}
      BY <1>2, EnteredCovers
    <3>2. ~Covers(p, f)
      <4> SUFFICES ASSUME Covers(p, f)  PROVE FALSE
        OBVIOUS
      <4>1. node[f] = "file" /\ ProbeHit(f) /\ TreeOK
        BY <1>5, OursIsFile DEF Inv
      <4>2. node[p] \in {"file", "dir"}
        BY <4>1 DEF Covers, TreeOK
      <4>3. ~ProbeRefuses(p, draft.excl \cup {p})
        BY <1>1, <2>3, <4>2 DEF Refused, ExcludeRefused
      <4>4. f \in Walked(p)
        BY <1>5, <4>1 DEF Walked, WalkedEverywhere
      <4>5. QED
        BY <4>1, <4>3, <4>4 DEF ProbeRefuses
    <3>3. QED
      BY <1>3, <2>1, <3>1, <3>2 DEF Managed, CoveredBy
  <2>4. QED
    BY <2>2, <2>3
<1> QED BY <1>1, <1>3, <1>4, <1>5

\* What the user does to ciphertext that the command is past makes it a stray.
LEMMA UnhiddenBecome ==
  ASSUME Inv, Unhidden, NEW p \in Path, NEW k, NEW v, Become(p, k, v)
  PROVE  Unhidden'
<1>1. /\ data' = [q \in Path |-> IF q = p THEN v
                                 ELSE IF p \in Above[q] THEN "none" ELSE data[q]]
      /\ repo' = {q \in repo : ~Covers(p, q)}
      /\ strays' = {q \in strays : ~Covers(p, q)}
           \cup {q \in {p} : /\ v \in {"current", "old"}
                             /\ ~In(config, q) \/ Past(q)}
      /\ \A a \in Above[p] : node[a] = "dir"
      /\ UNCHANGED <<config, op, force, draft, stale>>
  BY DEF Become, job
<1> SUFFICES ASSUME op = "exclude", ~force, ~stale, NEW f \in Path, Ours(f)',
                    Above[f] \cap repo' = {}, Managed(config, f), ~Managed(draft, f)
             PROVE  f \in strays'
  BY <1>1 DEF Unhidden
<1>2. CASE f = p
  BY <1>1, <1>2 DEF Ours, Past
<1>3. CASE f # p
  <2>1. p \notin Above[f] /\ Ours(f)
    BY <1>1, <1>3 DEF Ours
  <2>2. ASSUME NEW a \in Above[f]
        PROVE  ~Covers(p, a)
    BY <2>1 DEF Covers
  <2>3. Above[f] \cap repo = {}
    BY <1>1, <2>2
  <2>4. f \in strays
    BY <2>1, <2>3 DEF Unhidden
  <2> QED BY <1>1, <1>3, <2>1, <2>4 DEF Covers
<1> QED BY <1>2, <1>3

LEMMA UnhiddenToggle ==
  ASSUME Inv, Unhidden, NEW d \in Path, ToggleRepo(d)
  PROVE  Unhidden'
<1>1. /\ repo' = IF d \in repo THEN repo \ {d} ELSE repo \cup {d}
      /\ strays' = strays \cup {f \in Path : /\ d \in repo /\ d \in Above[f]
                                            /\ Ours(f) /\ Past(f)}
      /\ UNCHANGED <<data, config, op, force, draft, stale>>
  BY DEF ToggleRepo, job
<1> SUFFICES ASSUME op = "exclude", ~force, ~stale, NEW f \in Path, Ours(f),
                    Above[f] \cap repo' = {}, Managed(config, f), ~Managed(draft, f)
             PROVE  f \in strays'
  BY <1>1 DEF Unhidden, Ours
<1>2. CASE Above[f] \cap repo = {}
  BY <1>1, <1>2 DEF Unhidden
<1>3. CASE Above[f] \cap repo # {}
  <2>1. d \in repo /\ d \in Above[f]
    BY <1>1, <1>3
  <2> QED BY <1>1, <2>1 DEF Past
<1> QED BY <1>2, <1>3

LEMMA UnhiddenNext == ASSUME Inv, Unhidden, [Next]_vars  PROVE Unhidden'
<1>1. CASE Manage
  BY <1>1, UnhiddenArgument DEF Manage, Begin, Commit, EndCommand, Unhidden
<1>2. CASE Convert
  BY <1>2 DEF Convert, EncryptManaged, EncryptNamed, DecryptNamed, Rotate, Continue,
              Prune, Run, job, Unhidden
<1>3. CASE User
  <2>1. ASSUME NEW p \in Path, HandExclude(p)
        PROVE  Unhidden'
    BY <2>1 DEF HandExclude, Unhidden
  <2>2. ASSUME NEW p \in Path, NEW v, WriteFile(p, v) \/ Return(p, v)
        PROVE  Unhidden'
    BY <2>2, UnhiddenBecome DEF WriteFile, Return
  <2>3. ASSUME NEW p \in Path, MakeDir(p) \/ MakeSymlink(p) \/ Delete(p)
        PROVE  Unhidden'
    BY <2>3, UnhiddenBecome DEF MakeDir, MakeSymlink, Delete
  <2> QED BY <1>3, <2>1, <2>2, <2>3, UnhiddenToggle DEF User
<1>4. CASE UNCHANGED vars
  BY <1>4 DEF vars, disk, job, story, Ours, Unhidden
<1> QED BY <1>1, <1>2, <1>3, <1>4 DEF Next

\* An exclusion without --force commits no lists under which encrypt and rekey
\* pass over a ciphertext that they selected before, but for one that came or
\* came to light when the command was past its path: for any number of
\* arguments that exclude parts of one another, and any tree.
THEOREM NothingHidden == Spec => ExclusionsHideNothing
<1>1. Init => Unhidden
  BY DEF Init, Unhidden
<1>2. Inv /\ Unhidden /\ [Next]_vars => Unhidden'
  BY UnhiddenNext
<1>3. ASSUME Inv, Unhidden, [Next]_vars, op' = "none", config' # config,
             op = "exclude", ~force, NEW f \in Files(config), Ours(f), f \notin strays
      PROVE  f \in Files(config')
  <2>1. ~stale /\ config' = draft /\ UNCHANGED disk
    BY <1>3, OnlyCommitWrites
  <2>2. /\ TypeOK /\ TreeOK
        /\ config.paths \in SUBSET Path /\ draft.paths \in SUBSET Path
    BY <1>3 DEF Inv, TypeOK, Lists
  <2>3. f \in WalkedFrom(config.paths) /\ ~CoveredBy(config.excl, f)
    BY DEF Files
  <2>4. PICK e \in config.paths : ~CutOff(e) /\ f \in Walked(e)
    BY <2>3 DEF WalkedFrom
  <2>5. f \in Path /\ Managed(config, f)
    BY <2>3, <2>4 DEF Walked, WalkedEverywhere, CoveredBy, Managed
  <2>6. Above[f] \cap repo = {}
    BY <2>2, <2>4, NothingNestedAbove
  <2>7. Managed(draft, f)
    BY <1>3, <2>1, <2>5, <2>6 DEF Unhidden
  <2>8. f \in Files(draft)
    BY <2>2, <2>3, <2>7, MetFromList DEF Files, Managed
  <2> QED BY <2>1, <2>8 DEF Files, WalkedFrom, Walked, WalkedEverywhere, CutOff, disk
<1>4. Inv /\ Unhidden /\ [Next]_vars
        => [op' = "none" /\ config' # config /\ op = "exclude" /\ ~force
            => \A f \in Files(config) :
                 Ours(f) => f \in Files(config') \cup strays]_vars
  BY <1>3
<1>5. QED
  BY <1>1, <1>2, <1>4, Reach, PTL DEF Spec, ExclusionsHideNothing
=============================================================================
