------------------------------- MODULE Select -------------------------------
(***************************************************************************)
(* Target selection (src/select.rs): one expansion of entries, stored in   *)
(* the config or named on the command line, into the regular files an      *)
(* invocation works on.  It walks directory trees name by name, in the     *)
(* order the file system lists them, while other programs may change the   *)
(* tree; it keeps to three budgets and a depth limit, carries along        *)
(* whether it is beneath an exclusion, and stops at nested repositories.   *)
(*                                                                         *)
(* A name is what the rules on names make of it: `.git', the name of the   *)
(* config, one that is reserved, an odd one (not UTF-8, or with a control  *)
(* character) or any other.  Inspecting a name and acting on it, or a      *)
(* directory and opening it, is one step.                                  *)
(***************************************************************************)
EXTENDS Naturals, Sequences, FiniteSets

CONSTANTS
  Path,        \* relative paths, those with odd names among them
  Root,        \* "", the domain root
  Up,          \* [Path -> the directory it is in]
  Above,       \* [Path and Root -> its proper ancestors, Root included]
  Inode,       \* [Path and Root -> (device, inode)], equal for aliases
  Git,         \* paths named .git
  ConfigName,  \* paths named like the domain config
  Reserved,    \* temp files, .gitattributes and .gitmodules
  Odd,         \* names that cannot become canonical paths
  Respelled,   \* other spellings of a name: found when asked for, not listed
  Limits,      \* the budgets and depth limits a run is tried with
  Editable,    \* paths another program may create, remove or replace
  MaxEdits     \* bound: how often it does

Node == Path \cup {Root}
Kinds == {"absent", "file", "dir", "symlink", "fifo"}
Entry == [path : Node, origin : {"managed", "exclusion", "named"}]

ASSUME TreeAssumption ==
  /\ Root \notin Path
  /\ Up \in [Path -> Node]
  /\ Above \in [Node -> SUBSET Node]
  /\ Above[Root] = {}
  /\ \A p \in Path : Above[p] = {Up[p]} \cup Above[Up[p]]
  /\ \A p \in Node : p \notin Above[p]

\* A config's own name has nothing odd and is not among the reserved ones.
ASSUME NamesAssumption ==
  /\ {Git, ConfigName, Reserved, Odd, Respelled, Editable} \subseteq SUBSET Path
  /\ ConfigName \cap (Reserved \cup Odd) = {}
  /\ MaxEdits \in Nat

\* Paths are of bounded length, and the budget has room for the root's.
ASSUME SizeAssumption ==
  /\ IsFiniteSet(Path)
  /\ \A l \in Limits : /\ {l.files, l.scanned, l.bytes, l.depth} \subseteq Nat
                        /\ l.bytes > 0

VARIABLES
  kind,      \* [Node -> what is there now]
  excl,      \* the excludes of the loaded config
  asked,     \* the entries to expand, in order
  counting,  \* excluded files are counted, not recorded
  limits,    \* the budgets in force
  next,      \* the entry to take up next
  stack,     \* the directories being walked, the innermost last
  out,       \* what has been found so far
  scanned,   \* directory entries examined
  bytes,     \* path strings charged for; their lengths are left out
  status,    \* "expanding", "done" or "failed"
  touched,   \* history: the paths other programs have changed
  edits      \* how often they have, before it began too

given == <<excl, asked, counting, limits>>
world == <<kind, touched, edits>>
vars  == <<world, given, next, stack, out, scanned, bytes, status>>

Covers(e, p) == e = p \/ e \in Above[p]
Hidden(p)    == \E x \in excl : Covers(x, p)

Present(p)   == kind[p] # "absent"
Inside(d)    == {p \in Path : Up[p] = d /\ Present(p)}
IsRepo(d)    == Inside(d) \cap Git # {}
HasConfig(d) == Inside(d) \cap ConfigName # {}
Listing(d)   == Inside(d) \ Respelled

Frame == [dir : Node, hidden : BOOLEAN, depth : Nat,
          listed : SUBSET Path, read : SUBSET Path]

\* `specials' and `boundaries' may hold a path once for a walk and once for an
\* entry of its own.
Found == [files : SUBSET Node, named : SUBSET Node, hidden : SUBSET Node,
          missing : SUBSET Entry, specials : Seq(Node), boundaries : Seq(Node),
          swept : SUBSET Node, visited : SUBSET Node]

TypeOK ==
  /\ kind \in [Node -> Kinds]
  /\ excl \subseteq Path
  /\ asked \in Seq(Entry)
  /\ counting \in BOOLEAN
  /\ limits \in Limits
  /\ next \in Nat \ {0}
  /\ stack \in Seq(Frame)
  /\ out \in Found
  /\ scanned \in Nat
  /\ bytes \in Nat
  /\ status \in {"expanding", "done", "failed"}
  /\ touched \subseteq Path
  /\ edits \in Nat

------------------------------------------------------------------------------
\* What an invocation may ask for.

\* What stands in the way to a stored entry.
Barriers(p) ==
  {a \in Above[p] \ {Root} : \/ kind[a] \in {"file", "symlink", "fifo"}
                             \/ IsRepo(a)
                             \/ HasConfig(a)}

Targetable(p) == p \notin Git \cup ConfigName \cup Reserved \cup Odd

\* mint and discover_domain accept p as an argument, and mint keeps its spelling.
Mintable(p) ==
  \/ p = Root
  \/ /\ Targetable(p)
     /\ \A q \in Respelled : Covers(q, p) => ~Present(q)
     /\ Barriers(p) = {}
     /\ kind[p] # "symlink"
     /\ kind[p] = "dir" => ~IsRepo(p) /\ ~HasConfig(p)

Stored(e) == e.origin \in {"managed", "exclusion"}

\* The entries of a config, with its independent exclusions (audit_entries) or
\* without any exclusion, or arguments.  Properties do not depend on the order
\* of stored entries, which the code sorts.
FromConfig(a) ==
  LET paths == {a[i].path : i \in {j \in DOMAIN a : a[j].origin = "managed"}}
      roots == {a[i].path : i \in {j \in DOMAIN a : a[j].origin = "exclusion"}}
  IN
  /\ \A i \in DOMAIN a : Stored(a[i]) /\ a[i].path # Root /\ Targetable(a[i].path)
  /\ \A p \in paths : ~Hidden(p)
  /\ roots \in {{}, {x \in excl : \A p \in paths : ~Covers(p, x)}}

FromArguments(a) ==
  \A i \in DOMAIN a : a[i].origin = "named" /\ Mintable(a[i].path)

Nothing == [files |-> {}, named |-> {}, hidden |-> {}, missing |-> {},
            specials |-> <<>>, boundaries |-> <<>>,
            swept |-> {Root}, visited |-> {}]

Init ==
  /\ kind \in [Node -> Kinds]
  /\ kind[Root] = "dir"
  /\ \A p \in Path : Present(p) => kind[Up[p]] = "dir"
  /\ excl \in SUBSET {p \in Path : Targetable(p)}
  /\ asked \in Seq(Entry)
  /\ FromConfig(asked) \/ FromArguments(asked)
  /\ counting \in BOOLEAN
  /\ limits \in Limits
  /\ next = 1
  /\ stack = <<>>
  /\ out = Nothing
  /\ scanned = 0
  /\ bytes = 1
  /\ status = "expanding"
  /\ touched = {}
  /\ edits \in 0..MaxEdits

------------------------------------------------------------------------------
\* Finding something: what becomes of `out', and what is charged for it.

Nil(o) == [out |-> o, charge |-> 0]

\* add_sweep_dir
Sweep(o, D) == [out |-> [o EXCEPT !.swept = @ \cup D],
                charge |-> Cardinality(D \ o.swept)]

AddFileAgain(o, p, named) ==
  [out |-> [o EXCEPT !.files = @ \cup {p},
                     !.named = IF named THEN @ \cup {p} ELSE @],
   charge |-> 3]

\* add_file: the path is kept twice, and the absolute path.
AddFile(o, p, named) ==
  [out |-> [o EXCEPT !.files = @ \cup {p},
                     !.named = IF named THEN @ \cup {p} ELSE @],
   charge |-> IF p \in o.files THEN 0 ELSE 3]

\* add_excluded: the covering entry is kept too.
AddExcluded(o, p, named) ==
  IF counting THEN Nil(o)
  ELSE [out |-> [o EXCEPT !.hidden = @ \cup {p},
                          !.named = IF named THEN @ \cup {p} ELSE @],
        charge |-> IF p \in o.hidden THEN 0 ELSE 4]

AddMissing(o, e) == [out |-> [o EXCEPT !.missing = @ \cup {e}], charge |-> 1]
SkipSpecial(o, p) == [out |-> [o EXCEPT !.specials = Append(@, p)], charge |-> 1]
SkipBoundary(o, p) ==
  [out |-> [o EXCEPT !.boundaries = Append(@, p)], charge |-> 1]

\* The new part of walk_dir's bookkeeping, for a directory not walked before.
Visit(o, d) ==
  LET swept == Sweep([o EXCEPT !.visited = @ \cup {d}], {d})
  IN  [swept EXCEPT !.charge = @ + 1]

Both(a, b) == [out |-> b.out, charge |-> a.charge + b.charge]

\* Within the budgets?
Affordable(r) ==
  /\ bytes + r.charge <= limits.bytes
  /\ Cardinality(r.out.files) <= limits.files
  /\ Cardinality(r.out.hidden) <= limits.files

Fail == /\ status' = "failed"
        /\ UNCHANGED <<world, given, next, stack, out, bytes>>

\* Keep what a step has found, and go on with entry n and the directories s.
GoOn(r, n, s) ==
  IF Affordable(r)
  THEN /\ out' = r.out
       /\ bytes' = bytes + r.charge
       /\ next' = n
       /\ stack' = s
       /\ UNCHANGED <<world, given, status>>
  ELSE Fail

AliasedFilesOnly(d) == FALSE

\* walk_dir up to its loop: not again what was walked under the same path, and
\* never under another one.
Aliased(d) == \E v \in out.visited : v # d /\ Inode[v] = Inode[d]

OpenFrame(d, hidden, depth) ==
  [dir |-> d, hidden |-> hidden, depth |-> depth, listed |-> Listing(d), read |-> {}]

WalkDir(d, hidden, depth, r, n, s) ==
  \/ /\ d \in out.visited
     /\ GoOn(r, n, s)
  \/ /\ d \notin out.visited
     /\ Aliased(d) \/ depth > limits.depth
     /\ Fail
  \/ /\ d \notin out.visited
     /\ ~Aliased(d)
     /\ depth <= limits.depth
     /\ GoOn(Both(r, Visit(r.out, d)), n, Append(s, OpenFrame(d, hidden, depth)))

------------------------------------------------------------------------------
\* add_entry.

\* check_ancestors stops at the topmost thing in the way.
Topmost(p) == {b \in Barriers(p) : Above[b] \cap Barriers(p) = {}}

\* What is made of entry e, of which nothing but the path has been seen.
BlockedOutcome(e, b) ==
  IF \/ e.origin = "managed"
     \/ kind[b] = "symlink"
     \/ kind[b] = "dir" /\ ~IsRepo(b)
  THEN "fail" ELSE "ignore"

DirOutcome(e) ==
  LET p == e.path
  IN
  IF p # Root /\ IsRepo(p)
  THEN IF Hidden(p) THEN "ignore"
       ELSE IF e.origin = "managed" THEN "boundary" ELSE "fail"
  ELSE IF p # Root /\ HasConfig(p) THEN "fail" ELSE "walk"

EntryOutcome(e) ==
  LET p == e.path
  IN
  CASE Stored(e) /\ Barriers(p) # {} -> BlockedOutcome(e, CHOOSE b \in Topmost(p) : TRUE)
    [] ~Stored(e) /\ \E a \in Above[p] : kind[a] \in {"file", "fifo"} -> "fail"
    [] OTHER ->
       CASE kind[p] = "absent" -> IF e.origin = "exclusion" THEN "ignore" ELSE "missing"
         [] kind[p] = "dir"    -> DirOutcome(e)
         [] kind[p] = "file"   -> "file"
         [] kind[p] \in {"symlink", "fifo"} ->
              IF Hidden(p) THEN "ignore" ELSE IF Stored(e) THEN "special" ELSE "fail"

Expanding == status = "expanding" /\ next \in DOMAIN asked /\ stack = <<>>
Repeated  == \E i \in 1..(next - 1) : asked[i] = asked[next]

\* The directory of every entry but the root is swept, whatever comes of it.
WithParent(p) == IF p = Root THEN Nil(out) ELSE Sweep(out, {Up[p]})

SkipRepeatedForever ==
  /\ Expanding
  /\ Repeated
  /\ UNCHANGED vars

SkipRepeated ==
  /\ Expanding
  /\ Repeated
  /\ next' = next + 1
  /\ UNCHANGED <<world, given, stack, out, scanned, bytes, status>>

AddEntry ==
  LET e       == asked[next]
      p       == e.path
      before  == WithParent(p)
      outcome == EntryOutcome(e)
      named   == e.origin = "named"
      found   == CASE outcome = "file" /\ ~Hidden(p) -> AddFile(before.out, p, named)
                   [] outcome = "file" /\ Hidden(p)  -> AddExcluded(before.out, p, named)
                   [] outcome = "missing"            -> AddMissing(before.out, e)
                   [] outcome = "special"            -> SkipSpecial(before.out, p)
                   [] outcome = "boundary"           -> SkipBoundary(before.out, p)
                   [] OTHER                          -> Nil(before.out)
  IN
  /\ Expanding
  /\ ~Repeated
  /\ \/ outcome = "fail" /\ Fail
     \/ /\ outcome = "walk"
        /\ WalkDir(p, Hidden(p), 0, before, next + 1, <<>>)
     \/ /\ outcome \notin {"fail", "walk"}
        /\ GoOn(Both(before, found), next + 1, <<>>)
  /\ UNCHANGED scanned

------------------------------------------------------------------------------
\* The loop of walk_dir.

Top     == stack[Len(stack)]
Below   == SubSeq(stack, 1, Len(stack) - 1)
Walking == status = "expanding" /\ stack # <<>>

\* What readdir may return next: what was there when the directory was opened,
\* or has appeared since.
Returnable == (Top.listed \cup Listing(Top.dir)) \ Top.read

\* What is made of name p, in a directory beneath an exclusion or not.
NameOutcome(p, beneath) ==
  CASE ~Present(p) \/ p \in Git -> "pass"
    [] Present(p) /\ p \notin Git ->
       CASE p \in Odd -> IF beneath THEN "pass" ELSE "fail"
         [] p \notin Odd /\ kind[p] = "dir" ->
              IF IsRepo(p) THEN IF beneath THEN "pass" ELSE "boundary"
              ELSE IF HasConfig(p) THEN "fail" ELSE "walk"
         [] p \notin Odd /\ kind[p] # "dir" ->
              IF p \in Reserved \/ (p \in ConfigName /\ Up[p] = Root) THEN "pass"
              ELSE IF p \in ConfigName THEN "fail"
              ELSE IF kind[p] = "file" THEN "file"
              ELSE IF beneath \/ p \in excl THEN "pass" ELSE "special"

ReadName(p) ==
  LET hidden  == Top.hidden \/ p \in excl
      outcome == NameOutcome(p, Top.hidden)
      s       == Append(Below, [Top EXCEPT !.read = @ \cup {p}])
      found   == CASE outcome = "file" /\ ~hidden -> AddFile(out, p, FALSE)
                   [] outcome = "file" /\ hidden  -> AddExcluded(out, p, FALSE)
                   [] outcome = "special"         -> SkipSpecial(out, p)
                   [] outcome = "boundary"        -> SkipBoundary(out, p)
                   [] OTHER                       -> Nil(out)
  IN
  /\ Walking
  /\ p \in Returnable
  /\ scanned' = scanned + 1
  /\ \/ /\ scanned' > limits.scanned \/ outcome = "fail"
        /\ Fail
     \/ /\ scanned' <= limits.scanned
        /\ outcome = "walk"
        /\ WalkDir(p, hidden, Top.depth + 1, Nil(out), next, s)
     \/ /\ scanned' <= limits.scanned
        /\ outcome \notin {"fail", "walk"}
        /\ GoOn(found, next, s)

CloseDirAtVanished ==
  /\ Walking
  /\ \/ \E p \in Top.listed : ~Present(p)
     \/ \A p \in Top.listed \ Top.read : ~Present(p)
  /\ stack' = Below
  /\ UNCHANGED <<world, given, next, out, scanned, bytes, status>>

\* The listing ends when all that was there and still is has been returned.
CloseDir ==
  /\ Walking
  /\ \A p \in Top.listed \ Top.read : ~Present(p)
  /\ stack' = Below
  /\ UNCHANGED <<world, given, next, out, scanned, bytes, status>>

\* The end of expand_with_budgets: no two files share an inode.
Finish ==
  /\ status = "expanding"
  /\ next = Len(asked) + 1
  /\ stack = <<>>
  /\ status' = IF \/ \E f \in out.files : ~Present(f)
                  \/ \E f, g \in out.files : f # g /\ Inode[f] = Inode[g]
               THEN "failed" ELSE "done"
  /\ UNCHANGED <<world, given, next, stack, out, scanned, bytes>>

------------------------------------------------------------------------------
\* Other programs.

Change(p, k) ==
  /\ status = "expanding"
  /\ edits < MaxEdits
  /\ k # kind[p]
  /\ kind[Up[p]] = "dir"
  /\ Inside(p) = {}
  /\ kind' = [kind EXCEPT ![p] = k]
  /\ touched' = touched \cup {p}
  /\ edits' = edits + 1
  /\ UNCHANGED <<given, next, stack, out, scanned, bytes, status>>

------------------------------------------------------------------------------
Step ==
  \/ SkipRepeated
  \/ AddEntry
  \/ \E p \in Path : ReadName(p)
  \/ CloseDir
  \/ Finish

Next == Step \/ \E p \in Editable, k \in Kinds : Change(p, k)

Spec == Init /\ [][Next]_vars

\* A process that is not killed goes on; other programs need not act.
FairSpec == Spec /\ WF_vars(Step)
==============================================================================
