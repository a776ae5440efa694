----------------------------- MODULE SelectProps -----------------------------
(***************************************************************************)
(* What an expansion must yield, said without walking: which paths of the  *)
(* tree are reached from which entries, and which trees and entries are    *)
(* refused.  Select is checked against it, for every order of entries and  *)
(* of directory listings.                                                  *)
(***************************************************************************)
EXTENDS Select

Entries == {asked[i] : i \in DOMAIN asked}

\* Entries that nothing bars on the way from the root.
Open == {e \in Entries : e.origin = "named" \/ Barriers(e.path) = {}}

\* A directory that may be walked, from wherever it is met.
Enterable(d) == kind[d] = "dir" /\ (d = Root \/ ~IsRepo(d))

\* Walking from b meets p: everything on the way may be entered, is listed, and
\* has a name the walk takes up.
Way(b, p) == {q \in Node : Covers(b, q) /\ Covers(q, p)}
Reached(b, p) ==
  /\ Covers(b, p)
  /\ \A q \in Way(b, p) \ {p} : Enterable(q)
  /\ \A q \in Way(b, p) \ {b} : Present(q) /\ q \notin Git \cup Respelled
  /\ \A q \in Way(b, p) \ {b, p} : q \notin Odd

\* Everything a walk or an entry looks at, and the directories walked.
Met     == {p \in Node : Present(p) /\ \E e \in Open : Reached(e.path, p)}
Entered == {d \in Met \ Odd : Enterable(d)}
Itself(p) == \E e \in Open : e.path = p

\* Names that a walk passes over, and names it takes up.
Passed(p) == p \in Reserved \/ (p \in ConfigName /\ Up[p] = Root)
ByWalk(p) == p # Root /\ Up[p] \in Entered /\ p \notin Git \cup Respelled

Regular == {p \in Met \ Odd : kind[p] = "file" /\ ~Passed(p)}

WantedFiles  == {p \in Regular : ~Hidden(p)}
WantedHidden == IF counting THEN {} ELSE {p \in Regular : Hidden(p)}
WantedMissing ==
  {e \in Open : e.origin # "exclusion" /\ ~Present(e.path)}
WantedSpecials ==
  {p \in Met \ Odd : kind[p] \in {"symlink", "fifo"} /\ ~Passed(p) /\ ~Hidden(p)}

\* Nested repositories: a walk leaves out those beneath an exclusion, an entry
\* those that are exclusions too.
Beneath(p) == \E x \in excl : x \in Above[p]
Repos == {p \in (Met \ Odd) \ {Root} : kind[p] = "dir" /\ IsRepo(p)}
WalkedInto == {p \in Repos : ByWalk(p) /\ ~Beneath(p)}
AskedFor   == {p \in Repos : Itself(p) /\ ~Hidden(p)}

\* What must be refused whatever the budgets are.
Unfollowable ==
  \E e \in Entries \ Open :
    \/ e.origin = "managed"
    \/ \E b \in Topmost(e.path) : kind[b] = "symlink" \/ (kind[b] = "dir" /\ ~IsRepo(b))
BadTarget ==
  \E e \in Open : /\ e.origin = "named"
                  /\ ~Hidden(e.path)
                  /\ \/ kind[e.path] \in {"symlink", "fifo"}
                     \/ kind[e.path] = "dir" /\ e.path # Root /\ IsRepo(e.path)
BadName   == \E p \in Met \cap Odd : ~Beneath(p)
NestedDomain ==
  \/ \E d \in Entered \ {Root} : HasConfig(d)
  \/ \E p \in Met \cap ConfigName : kind[p] # "dir" /\ Up[p] # Root
Twins(S)  == \E p, q \in S : p # q /\ Inode[p] = Inode[q]
Refused   == \/ Unfollowable \/ BadTarget \/ BadName \/ NestedDomain
             \/ Twins(WantedFiles) \/ Twins(Entered)

\* Nesting counts from the first entry that a directory is reached from.
Levels(b, d) == Cardinality(Way(b, d)) - 1
Reaching(d)  == {i \in DOMAIN asked : asked[i] \in Open /\ Reached(asked[i].path, d)}
Earliest(I)  == CHOOSE i \in I : \A j \in I : i <= j
TooDeep == \E d \in Entered : Levels(asked[Earliest(Reaching(d))].path, d) > limits.depth

\* What an expansion that succeeds has examined and keeps.
Swept == {Root} \cup Entered \cup {Up[e.path] : e \in {x \in Entries : x.path # Root}}

WantedBytes ==
  3 * Cardinality(WantedFiles) + 4 * Cardinality(WantedHidden)
    + Cardinality(WantedMissing) + Cardinality(Swept) + Cardinality(Entered)
    + Cardinality({p \in WantedSpecials : ByWalk(p)})
    + Cardinality({p \in WantedSpecials : Itself(p)})
    + Cardinality(WalkedInto) + Cardinality(AskedFor)
WantedScans == Cardinality({p \in Path : Present(p) /\ p \notin Respelled
                                         /\ Up[p] \in Entered})

OverBudget == \/ Cardinality(WantedFiles) > limits.files
              \/ Cardinality(WantedHidden) > limits.files
              \/ WantedScans > limits.scanned
              \/ WantedBytes > limits.bytes

------------------------------------------------------------------------------
\* An expansion that nobody disturbs succeeds only if nothing is refused and
\* the budgets suffice for all of it, and then it has found exactly what there
\* is to find; it fails only for one of those reasons.  The order of listings
\* and of overlapping walks decides nothing, but for the depth, which counts
\* from the first of them (expand_with_budgets; the comment on visited_dirs).
Exact ==
  touched = {} =>
    /\ status = "done" =>
         /\ ~Refused /\ ~OverBudget /\ ~TooDeep
         /\ out.files = WantedFiles
         /\ out.hidden = WantedHidden
         /\ out.named = {p \in WantedFiles \cup WantedHidden :
                           \E e \in Entries : e.path = p /\ e.origin = "named"}
         /\ out.missing = WantedMissing
         /\ {out.specials[i] : i \in DOMAIN out.specials} = WantedSpecials
         /\ {out.boundaries[i] : i \in DOMAIN out.boundaries} = WalkedInto \cup AskedFor
         /\ out.swept = Swept
    /\ status = "failed" => Refused \/ OverBudget \/ TooDeep

\* A path that nothing happened to, nor to what it lies in, nor to whether that
\* is a repository or another domain.
Steady(p) == \A t \in touched : /\ ~Covers(t, p)
                                /\ t \in Git \cup ConfigName => ~Covers(Up[t], p)

\* While other programs change the tree, what they leave alone is selected all
\* the same: a file that appears or vanishes in one place costs no other its
\* encryption, and none is selected twice or by mistake (the loop of walk_dir).
SteadyAgrees ==
  status = "done" =>
    \A p \in Path : Steady(p) => /\ p \in out.files <=> p \in WantedFiles
                                 /\ p \in out.hidden <=> p \in WantedHidden

\* Whatever the tree does, an excluded file is never selected, nor is one that
\* is not excluded treated as if it were: the carried flag is what the path
\* says (the comment on excluded_via).
HiddenNeverSelected ==
  /\ \A p \in out.files : ~Hidden(p)
  /\ \A p \in out.hidden : Hidden(p)

\* What is passed over, once for each time it is met.
Noted(o) == Len(o.specials) + Len(o.boundaries)

\* Every path string that is kept has been charged for, once for each copy, so
\* that no tree makes an expansion keep more than the budget (charge_path).
Kept(o) == 3 * Cardinality(o.files) + 4 * Cardinality(o.hidden)
             + Cardinality(o.missing) + Noted(o)
             + Cardinality(o.swept) + Cardinality(o.visited)
ChargedInFull == bytes = Kept(out)

\* Every expansion comes to an end, on aliased and overlapping trees too.
Ends == <>(status # "expanding")

==============================================================================
