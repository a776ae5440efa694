----------------------------- MODULE InitProofs -----------------------------
(***************************************************************************)
(* Proofs about InitNesting: its types, and that domains made under one    *)
(* lock do not nest.                                                       *)
(***************************************************************************)
EXTENDS InitNesting, TLAPS

Searching == {"up", "down", "create"}

Mutual ==
  \A p, q \in Proc : held[p] = held[q] /\ held[p] # NoDir => p = q

Placed ==
  \A p \in Proc :
    /\ pc[p] # "idle" => cwd[p] \in Dir
    /\ pc[p] \in {"idle", "root", "lock"} => held[p] = NoDir
    /\ pc[p] = "up" => at[p] \in Dir /\ at[p] \in Upwards[cwd[p]]
    /\ pc[p] = "lock" => at[p] \in Dir

\* A config made under the lock that p holds.
Rival(p, d) == file[d] # "none" /\ under[d] = held[p] /\ held[p] # NoDir

\* The search upwards has yet to pass every rival above.
AboveToMeet(p) ==
  \A a \in Dir : Above(a, cwd[p]) /\ Rival(p, a) =>
    Boundary(a, cwd[p]) \/ a \in Upwards[at[p]]
AboveIsClear(p) ==
  \A a \in Dir : Above(a, cwd[p]) /\ Rival(p, a) => Boundary(a, cwd[p])

\* The search downwards has yet to enter a directory on the way to each below.
BelowToMeet(p) ==
  /\ \A e \in todo[p] : Above(cwd[p], e)
  /\ \A b \in Dir : Above(cwd[p], b) /\ Rival(p, b) =>
       Boundary(cwd[p], b) \/ \E e \in todo[p] : e \in Upwards[b]
BelowIsClear(p) ==
  \A b \in Dir : Above(cwd[p], b) /\ Rival(p, b) => Boundary(cwd[p], b)

SearchedSoFar(p) ==
  /\ pc[p] = "up" => AboveToMeet(p)
  /\ pc[p] = "down" => AboveIsClear(p) /\ BelowToMeet(p)
  /\ pc[p] = "create" => AboveIsClear(p) /\ BelowIsClear(p)

IInv ==
  /\ TypeOK
  /\ Mutual
  /\ Placed
  /\ \A p \in Proc : SearchedSoFar(p)
  /\ NoNesting

-----------------------------------------------------------------------------
LEMMA TreeFacts ==
  /\ \A d \in Dir : d \in Upwards[d] /\ Upwards[d] \subseteq Dir
  /\ \A d \in Dir : Parent[d] # NoDir =>
       Parent[d] \in Dir /\ Upwards[d] = {d} \cup Upwards[Parent[d]]
  /\ \A d \in Dir : Parent[d] = NoDir => Upwards[d] = {d}
  /\ \A c, d, e \in Dir : c \in Upwards[d] /\ d \in Upwards[e] => c \in Upwards[e]
  /\ \A c, d \in Dir : Above(c, d) => \E e \in Children(c) : e \in Upwards[d]
<1>1. \A d \in Dir : d \in Upwards[d] /\ Upwards[d] \subseteq Dir
  <2>1. \A d \in Dir : Upwards[d] \in SUBSET Dir
    BY TreeAssumption
  <2>2. \A d \in Dir : d \in Upwards[d]
    BY TreeAssumption
  <2> QED BY <2>1, <2>2
<1>2. \A d \in Dir : Parent[d] # NoDir =>
        Parent[d] \in Dir /\ Upwards[d] = {d} \cup Upwards[Parent[d]]
  BY TreeAssumption
<1>3. \A d \in Dir : Parent[d] = NoDir => Upwards[d] = {d}
  BY TreeAssumption
<1>4. \A c, d, e \in Dir : c \in Upwards[d] /\ d \in Upwards[e] => c \in Upwards[e]
  BY TreeAssumption, Zenon
<1>5. \A c, d \in Dir : Above(c, d) => \E e \in Children(c) : e \in Upwards[d]
  BY TreeAssumption DEF Above, Children
<1> QED BY <1>1, <1>2, <1>3, <1>4, <1>5

\* A directory is below its parent.
LEMMA ChildIsBelow ==
  ASSUME NEW c \in Dir, NEW e \in Children(c)
  PROVE  e \in Dir /\ Above(c, e)
<1>1. e \in Dir /\ Parent[e] = c /\ c # NoDir
  BY NamesAssumption DEF Children
<1>2. c \in Upwards[e]
  BY <1>1, TreeFacts
<1>3. c # e
  BY <1>1, TreeAssumption
<1> QED BY <1>1, <1>2, <1>3 DEF Above

LEMMA AboveTransitive ==
  ASSUME NEW a \in Dir, NEW b \in Dir, NEW c \in Dir, Above(a, b), b \in Upwards[c]
  PROVE  Above(a, c)
<1>1. a \in Upwards[c]
  BY TreeFacts DEF Above
<1>2. a # c
  BY TreeAssumption DEF Above
<1> QED BY <1>1, <1>2 DEF Above

LEMMA LowestMember ==
  ASSUME NEW d \in Dir, NEW S, S \subseteq Upwards[d], S # {}
  PROVE  \E r \in S : \A e \in S : e \in Upwards[r]
BY PathAssumption

LEMMA RepoRootType ==
  ASSUME NEW d \in Dir
  PROVE  RepoRoot(d) \in Dir \cup {NoDir}
<1> DEFINE S == Upwards[d] \cap git
<1>1. CASE S = {}
  BY <1>1 DEF RepoRoot
<1>2. CASE S # {}
  <2>1. S \subseteq Upwards[d]
    OBVIOUS
  <2>2. \E r \in S : \A e \in S : e \in Upwards[r]
    <3> HIDE DEF S
    <3> QED BY <1>2, <2>1, LowestMember
  <2>3. RepoRoot(d) \in S
    BY <1>2, <2>2 DEF RepoRoot
  <2> QED BY <2>3, TreeFacts
<1> QED BY <1>1, <1>2

\* A boundary stays one: repositories are only added.
LEMMA BoundaryStays ==
  ASSUME git \subseteq git', NEW a, NEW b, Boundary(a, b)
  PROVE  Boundary(a, b)'
BY DEF Boundary, Above

LEMMA InitIInv == Init => IInv
<1> SUFFICES ASSUME Init PROVE IInv
  OBVIOUS
<1>1. TypeOK
  <2>1. \A d \in Dir : (IF file[d] = "none" THEN NoDir ELSE RepoRoot(d)) \in Dir \cup {NoDir}
    BY RepoRootType
  <2>2. under \in [Dir -> Dir \cup {NoDir}]
    BY <2>1 DEF Init
  <2>3. file \in [Dir -> ConfigFile]
    BY DEF Init, ConfigFile
  <2>4. pc \in [Proc -> Label] /\ maker \in [Dir -> Proc \cup {NoProc}]
    BY DEF Init, Label
  <2>5. todo \in [Proc -> SUBSET Dir] /\ scanned \in [Proc -> Nat] /\ held \in [Proc -> Dir \cup {NoDir}]
    BY DEF Init
  <2>6. cwd \in [Proc -> Dir \cup {NoDir}] /\ at \in [Proc -> Dir \cup {NoDir}]
    BY DEF Init
  <2> QED BY <2>2, <2>3, <2>4, <2>5, <2>6 DEF Init, TypeOK
<1>2. Mutual /\ Placed /\ \A p \in Proc : SearchedSoFar(p)
  BY DEF Init, Mutual, Placed, SearchedSoFar
<1>3. NoNesting
  BY DEF Init, NoNesting
<1> QED BY <1>1, <1>2, <1>3 DEF IInv

-----------------------------------------------------------------------------
\* A step that makes no config: repositories may appear and configs go, and one
\* invocation at most moves on, to SearchedSoFar again or out of its search.
LEMMA QuietStep ==
  ASSUME IInv, TypeOK', Mutual', Placed',
         git \subseteq git', under' = under,
         \A d \in Dir : file'[d] # "none" => file[d] # "none",
         \A p \in Proc :
           \/ /\ pc'[p] = pc[p] /\ cwd'[p] = cwd[p] /\ at'[p] = at[p]
              /\ todo'[p] = todo[p] /\ held'[p] = held[p]
           \/ pc'[p] \notin Searching
           \/ SearchedSoFar(p)'
  PROVE  IInv'
<1> USE DEF IInv
<1>1. NoNesting'
  <2> SUFFICES ASSUME NEW a \in Dir, NEW b \in Dir,
                      file'[a] # "none", file'[b] # "none", Above(a, b),
                      under'[a] = under'[b], under'[a] # NoDir
               PROVE  Boundary(a, b)'
    BY DEF NoNesting, Above
  <2>1. Boundary(a, b)
    BY DEF NoNesting
  <2> QED BY <2>1, BoundaryStays
<1>2. ASSUME NEW p \in Proc PROVE SearchedSoFar(p)'
  <2>1. CASE pc'[p] \notin Searching
    BY <2>1 DEF SearchedSoFar, Searching
  <2>2. CASE /\ pc'[p] = pc[p] /\ cwd'[p] = cwd[p] /\ at'[p] = at[p]
             /\ todo'[p] = todo[p] /\ held'[p] = held[p]
    <3>1. \A d \in Dir : Rival(p, d)' => Rival(p, d)
      BY <2>2 DEF Rival
    <3>2. \A a, b : Boundary(a, b) => Boundary(a, b)'
      BY BoundaryStays
    <3>3. AboveToMeet(p) => AboveToMeet(p)'
      BY <2>2, <3>1, <3>2 DEF AboveToMeet, Above
    <3>4. AboveIsClear(p) => AboveIsClear(p)'
      BY <2>2, <3>1, <3>2 DEF AboveIsClear, Above
    <3>5. BelowToMeet(p) => BelowToMeet(p)'
      BY <2>2, <3>1, <3>2 DEF BelowToMeet, Above
    <3>6. BelowIsClear(p) => BelowIsClear(p)'
      BY <2>2, <3>1, <3>2 DEF BelowIsClear, Above
    <3> QED BY <2>2, <3>3, <3>4, <3>5, <3>6 DEF SearchedSoFar
  <2> QED BY <2>1, <2>2
<1> QED BY <1>1, <1>2

\* An invocation ends.
LEMMA EndFacts ==
  ASSUME IInv, NEW p \in Proc, End(p)
  PROVE  /\ Mutual' /\ Placed'
         /\ \A q \in Proc \ {p} :
              /\ pc'[q] = pc[q] /\ cwd'[q] = cwd[q] /\ at'[q] = at[q]
              /\ todo'[q] = todo[q] /\ held'[q] = held[q]
         /\ pc'[p] \notin Searching
         /\ pc' \in [Proc -> Label]
         /\ cwd' \in [Proc -> Dir \cup {NoDir}]
         /\ at' \in [Proc -> Dir \cup {NoDir}]
         /\ todo' \in [Proc -> SUBSET Dir]
         /\ scanned' \in [Proc -> Nat]
         /\ held' \in [Proc -> Dir \cup {NoDir}]
<1> USE DEF IInv
<1>1. /\ pc' = [pc EXCEPT ![p] = "idle"]
      /\ cwd' = [cwd EXCEPT ![p] = NoDir]
      /\ at' = [at EXCEPT ![p] = NoDir]
      /\ todo' = [todo EXCEPT ![p] = {}]
      /\ scanned' = [scanned EXCEPT ![p] = 0]
      /\ held' = [held EXCEPT ![p] = NoDir]
  BY DEF End, Goto
<1>2. /\ pc' \in [Proc -> Label]
      /\ cwd' \in [Proc -> Dir \cup {NoDir}]
      /\ at' \in [Proc -> Dir \cup {NoDir}]
      /\ todo' \in [Proc -> SUBSET Dir]
      /\ scanned' \in [Proc -> Nat]
      /\ held' \in [Proc -> Dir \cup {NoDir}]
  BY <1>1 DEF TypeOK, Label
<1>3. /\ \A q \in Proc \ {p} :
           /\ pc'[q] = pc[q] /\ cwd'[q] = cwd[q] /\ at'[q] = at[q]
           /\ todo'[q] = todo[q] /\ held'[q] = held[q]
      /\ pc'[p] = "idle" /\ held'[p] = NoDir
  BY <1>1 DEF TypeOK
<1>4. Mutual'
  BY <1>3 DEF Mutual
<1>5. Placed'
  BY <1>3 DEF Placed
<1> QED BY <1>2, <1>3, <1>4, <1>5 DEF Searching

LEMMA RefuseKeepsIInv ==
  ASSUME IInv, NEW p \in Proc, Refuse(p)
  PROVE  IInv'
<1>1. End(p) /\ UNCHANGED <<tree, edits, faults, past>>
  BY DEF Refuse
<1>2. UNCHANGED <<file, git, edits, faults, maker, under, mishaps, disturbed>>
  BY <1>1 DEF tree, past
<1>3. TypeOK'
  BY <1>1, <1>2, EndFacts DEF IInv, TypeOK
<1> QED BY <1>1, <1>2, <1>3, EndFacts, QuietStep

-----------------------------------------------------------------------------
\* The searches.

LEMMA StartKeepsIInv ==
  ASSUME IInv, NEW p \in Proc, NEW d \in Dir, Start(p, d)
  PROVE  IInv'
<1> USE DEF IInv
<1>1. /\ pc[p] = "idle"
      /\ cwd' = [cwd EXCEPT ![p] = d]
      /\ at' = [at EXCEPT ![p] = d]
      /\ pc' = [pc EXCEPT ![p] = "up"]
      /\ UNCHANGED <<file, git, edits, faults, todo, scanned, held, maker, under,
                     mishaps, disturbed>>
  BY DEF Start, Goto, tree, past
<1>2. TypeOK'
  BY <1>1 DEF TypeOK, Label
<1>3. /\ pc'[p] = "up" /\ cwd'[p] = d /\ at'[p] = d /\ held'[p] = NoDir
      /\ \A q \in Proc \ {p} : pc'[q] = pc[q] /\ cwd'[q] = cwd[q] /\ at'[q] = at[q]
  BY <1>1 DEF TypeOK, Placed
<1>4. Mutual' /\ Placed'
  BY <1>1, <1>3, TreeFacts DEF Mutual, Placed
<1>5. SearchedSoFar(p)'
  BY <1>3 DEF SearchedSoFar, AboveToMeet, Rival
<1> QED BY <1>1, <1>2, <1>3, <1>4, <1>5, QuietStep

LEMMA ClimbKeepsIInv ==
  ASSUME IInv, NEW p \in Proc, pc[p] = "up", file[at[p]] = "none", ~StopsUp(at[p]),
         at' = [at EXCEPT ![p] = Parent[at[p]]],
         UNCHANGED <<tree, edits, faults, pc, cwd, todo, scanned, held, past>>
  PROVE  IInv'
<1> USE DEF IInv
<1>1. UNCHANGED <<file, git, edits, faults, pc, cwd, todo, scanned, held, maker, under,
                  mishaps, disturbed>>
  BY DEF tree, past
<1>2. /\ cwd[p] \in Dir /\ at[p] \in Dir /\ at[p] \in Upwards[cwd[p]]
      /\ Parent[at[p]] # NoDir
  BY DEF Placed, StopsUp
<1>3. Parent[at[p]] \in Dir /\ Upwards[at[p]] = {at[p]} \cup Upwards[Parent[at[p]]]
  BY <1>2, TreeFacts
<1>4. Parent[at[p]] \in Upwards[cwd[p]]
  <2>1. Parent[at[p]] \in Upwards[at[p]]
    BY <1>3, TreeFacts
  <2> QED BY <2>1, <1>2, <1>3, TreeFacts
<1>5. TypeOK'
  BY <1>1, <1>3 DEF TypeOK
<1>6. /\ at'[p] = Parent[at[p]]
      /\ \A q \in Proc \ {p} : at'[q] = at[q]
  BY DEF TypeOK
<1>7. Mutual' /\ Placed'
  BY <1>1, <1>2, <1>3, <1>4, <1>6 DEF Mutual, Placed
<1>8. AboveToMeet(p)'
  <2> SUFFICES ASSUME NEW a \in Dir, Above(a, cwd[p]), Rival(p, a)
               PROVE  Boundary(a, cwd[p]) \/ a \in Upwards[Parent[at[p]]]
    BY <1>1, <1>6 DEF AboveToMeet, Above, Rival, Boundary
  <2>1. Boundary(a, cwd[p]) \/ a \in Upwards[at[p]]
    BY DEF SearchedSoFar, AboveToMeet
  <2>2. a # at[p]
    BY DEF Rival
  <2> QED BY <1>3, <2>1, <2>2
<1>9. SearchedSoFar(p)'
  BY <1>1, <1>8 DEF SearchedSoFar
<1> QED BY <1>1, <1>5, <1>6, <1>7, <1>9, QuietStep

\* At a boundary the search above is over, and the one below begins.
LEMMA TurnKeepsIInv ==
  ASSUME IInv, NEW p \in Proc, pc[p] = "up", file[at[p]] = "none", StopsUp(at[p]),
         at' = [at EXCEPT ![p] = NoDir],
         todo' = [todo EXCEPT ![p] = Children(cwd[p])],
         scanned' = [scanned EXCEPT ![p] = 0],
         Goto(p, "down"),
         UNCHANGED <<tree, edits, faults, cwd, held, past>>
  PROVE  IInv'
<1> USE DEF IInv
<1>1. /\ UNCHANGED <<file, git, edits, faults, cwd, held, maker, under, mishaps, disturbed>>
      /\ pc' = [pc EXCEPT ![p] = "down"]
  BY DEF tree, past, Goto
<1>2. cwd[p] \in Dir /\ at[p] \in Dir /\ at[p] \in Upwards[cwd[p]]
  BY DEF Placed
<1>3. TypeOK'
  BY <1>1 DEF TypeOK, Label, Children
<1>4. /\ at'[p] = NoDir /\ pc'[p] = "down" /\ todo'[p] = Children(cwd[p])
      /\ \A q \in Proc \ {p} : at'[q] = at[q] /\ pc'[q] = pc[q] /\ todo'[q] = todo[q]
  BY <1>1 DEF TypeOK
<1>5. Mutual' /\ Placed'
  BY <1>1, <1>2, <1>4 DEF Mutual, Placed
<1>6. AboveIsClear(p)'
  <2> SUFFICES ASSUME NEW a \in Dir, Above(a, cwd[p]), Rival(p, a)
               PROVE  Boundary(a, cwd[p])
    BY <1>1 DEF AboveIsClear, Above, Rival, Boundary
  <2>1. Boundary(a, cwd[p]) \/ a \in Upwards[at[p]]
    BY DEF SearchedSoFar, AboveToMeet
  <2>2. a # at[p]
    BY DEF Rival
  <2>3. CASE a \in Upwards[at[p]] /\ Parent[at[p]] = NoDir
    BY <1>2, <2>2, <2>3, TreeFacts
  <2>4. CASE a \in Upwards[at[p]] /\ at[p] \in git
    BY <1>2, <2>2, <2>4 DEF Boundary, Above
  <2> QED BY <2>1, <2>3, <2>4 DEF StopsUp
<1>7. BelowToMeet(p)'
  <2>1. \A e \in Children(cwd[p]) : Above(cwd[p], e)
    BY <1>2, ChildIsBelow
  <2>2. \A b \in Dir : Above(cwd[p], b) => \E e \in Children(cwd[p]) : e \in Upwards[b]
    BY <1>2, TreeFacts
  <2> QED BY <1>1, <1>4, <2>1, <2>2 DEF BelowToMeet, Above, Rival, Boundary
<1>8. SearchedSoFar(p)'
  BY <1>4, <1>6, <1>7 DEF SearchedSoFar
<1> QED BY <1>1, <1>3, <1>4, <1>5, <1>8, QuietStep

LEMMA SearchUpKeepsIInv ==
  ASSUME IInv, NEW p \in Proc, SearchUp(p)
  PROVE  IInv'
BY RefuseKeepsIInv, ClimbKeepsIInv, TurnKeepsIInv DEF SearchUp

LEMMA DescendKeepsIInv ==
  ASSUME IInv, NEW p \in Proc, NEW d \in Dir, NEW below,
         below = (IF d \in git THEN {} ELSE Children(d)),
         pc[p] = "down", d \in todo[p], d \in git \/ file[d] = "none",
         todo' = [todo EXCEPT ![p] = (@ \ {d}) \cup below],
         scanned' = [scanned EXCEPT ![p] = @ + 1],
         UNCHANGED <<tree, edits, faults, pc, cwd, at, held, past>>
  PROVE  IInv'
<1> USE DEF IInv
<1>1. UNCHANGED <<file, git, edits, faults, pc, cwd, at, held, maker, under, mishaps,
                  disturbed>>
  BY DEF tree, past
<1>2. cwd[p] \in Dir /\ AboveIsClear(p) /\ BelowToMeet(p)
  BY DEF Placed, SearchedSoFar
<1>3. below \subseteq Dir
  BY DEF Children
<1>4. TypeOK'
  BY <1>1, <1>3 DEF TypeOK
<1>5. /\ todo'[p] = (todo[p] \ {d}) \cup below
      /\ \A q \in Proc \ {p} : todo'[q] = todo[q]
  BY DEF TypeOK
<1>6. Mutual' /\ Placed'
  BY <1>1 DEF Mutual, Placed
<1>7. Above(cwd[p], d)
  BY <1>2 DEF BelowToMeet
<1>8. \A e \in todo'[p] : Above(cwd[p], e)
  <2>1. ASSUME NEW e \in Children(d) PROVE Above(cwd[p], e)
    BY <1>2, <1>7, ChildIsBelow, AboveTransitive DEF Above
  <2> QED BY <1>2, <1>5, <2>1 DEF BelowToMeet
<1>9. ASSUME NEW b \in Dir, Above(cwd[p], b), Rival(p, b)
      PROVE  Boundary(cwd[p], b) \/ \E e \in todo'[p] : e \in Upwards[b]
  <2>1. CASE \E e \in todo[p] \ {d} : e \in Upwards[b]
    BY <1>5, <2>1
  <2>2. CASE d \in Upwards[b] /\ d \in git
    BY <1>7, <2>2 DEF Boundary
  <2>3. CASE d \in Upwards[b] /\ d \notin git
    <3>1. Above(d, b)
      BY <1>9, <2>3 DEF Above, Rival
    <3>2. PICK e \in Children(d) : e \in Upwards[b]
      BY <3>1, TreeFacts
    <3> QED BY <1>5, <2>3, <3>2
  <2> QED BY <1>2, <1>9, <2>1, <2>2, <2>3 DEF BelowToMeet
<1>10. BelowToMeet(p)'
  BY <1>1, <1>8, <1>9 DEF BelowToMeet, Above, Rival, Boundary
<1>11. AboveIsClear(p)'
  BY <1>1, <1>2 DEF AboveIsClear, Above, Rival, Boundary
<1>12. SearchedSoFar(p)'
  BY <1>1, <1>10, <1>11 DEF SearchedSoFar
<1> QED BY <1>1, <1>4, <1>5, <1>6, <1>12, QuietStep

LEMMA SearchDownKeepsIInv ==
  ASSUME IInv, NEW p \in Proc, NEW d \in Dir, SearchDown(p, d)
  PROVE  IInv'
BY RefuseKeepsIInv, DescendKeepsIInv DEF SearchDown

LEMMA FoundNothingKeepsIInv ==
  ASSUME IInv, NEW p \in Proc, FoundNothing(p)
  PROVE  IInv'
<1> USE DEF IInv
<1>1. /\ pc[p] = "down" /\ todo[p] = {}
      /\ pc' = [pc EXCEPT ![p] = IF held[p] = NoDir THEN "root" ELSE "create"]
      /\ UNCHANGED <<file, git, edits, faults, cwd, at, todo, scanned, held, maker, under,
                     mishaps, disturbed>>
  BY DEF FoundNothing, Goto, tree, past, search
<1>2. TypeOK'
  BY <1>1 DEF TypeOK, Label
<1>3. /\ pc'[p] = IF held[p] = NoDir THEN "root" ELSE "create"
      /\ \A q \in Proc \ {p} : pc'[q] = pc[q]
  BY <1>1 DEF TypeOK
<1>4. Mutual' /\ Placed'
  BY <1>1, <1>3 DEF Mutual, Placed
<1>5. AboveIsClear(p) /\ BelowIsClear(p)
  BY <1>1 DEF SearchedSoFar, BelowToMeet, BelowIsClear
<1>6. AboveIsClear(p)' /\ BelowIsClear(p)'
  BY <1>1, <1>5 DEF AboveIsClear, BelowIsClear, Above, Rival, Boundary
<1>7. SearchedSoFar(p)'
  BY <1>3, <1>6 DEF SearchedSoFar
<1> QED BY <1>1, <1>2, <1>3, <1>4, <1>7, QuietStep

-----------------------------------------------------------------------------
\* The root and its lock.

LEMMA FindRootKeepsIInv ==
  ASSUME IInv, NEW p \in Proc, FindRoot(p)
  PROVE  IInv'
<1> USE DEF IInv
<1> DEFINE root == RepoRoot(cwd[p])
<1>1. /\ pc[p] = "root"
      /\ at' = [at EXCEPT ![p] = root]
      /\ pc' = [pc EXCEPT ![p] = IF root = NoDir THEN "create" ELSE "lock"]
      /\ UNCHANGED <<file, git, edits, faults, cwd, todo, scanned, held, maker, under,
                     mishaps, disturbed>>
  BY DEF FindRoot, Goto, tree, past
<1>2. cwd[p] \in Dir /\ held[p] = NoDir
  BY <1>1 DEF Placed
<1>3. root \in Dir \cup {NoDir}
  BY <1>2, RepoRootType
<1> HIDE DEF root
<1>4. TypeOK'
  BY <1>1, <1>3 DEF TypeOK, Label
<1>5. /\ pc'[p] = IF root = NoDir THEN "create" ELSE "lock"
      /\ at'[p] = root
      /\ \A q \in Proc \ {p} : pc'[q] = pc[q] /\ at'[q] = at[q]
  BY <1>1 DEF TypeOK
<1>6. Mutual' /\ Placed'
  BY <1>1, <1>2, <1>3, <1>5 DEF Mutual, Placed
<1>7. SearchedSoFar(p)'
  BY <1>1, <1>2, <1>5 DEF SearchedSoFar, AboveIsClear, BelowIsClear, Rival
<1> QED BY <1>1, <1>4, <1>5, <1>6, <1>7, QuietStep

LEMMA LockKeepsIInv ==
  ASSUME IInv, NEW p \in Proc, Lock(p)
  PROVE  IInv'
<1> USE DEF IInv
<1>1. CASE Refuse(p)
  BY <1>1, RefuseKeepsIInv
<1>2. CASE /\ LockFree(at[p])
           /\ held' = [held EXCEPT ![p] = at[p]]
           /\ AfterLock(p)
           /\ UNCHANGED <<tree, edits, faults, cwd, todo, scanned, past>>
  <2>1. /\ pc' = [pc EXCEPT ![p] = "up"]
        /\ at' = [at EXCEPT ![p] = cwd[p]]
        /\ UNCHANGED <<file, git, edits, faults, cwd, todo, scanned, maker, under,
                       mishaps, disturbed>>
    BY <1>2 DEF AfterLock, AfterLockSearch, Goto, tree, past
  <2>2. pc[p] = "lock" /\ cwd[p] \in Dir /\ at[p] \in Dir
    BY DEF Lock, Placed
  <2>3. TypeOK'
    BY <1>2, <2>1, <2>2 DEF TypeOK, Label
  <2>4. /\ pc'[p] = "up" /\ at'[p] = cwd[p] /\ held'[p] = at[p]
        /\ \A q \in Proc \ {p} : pc'[q] = pc[q] /\ at'[q] = at[q] /\ held'[q] = held[q]
    BY <1>2, <2>1 DEF TypeOK
  <2>5. Mutual'
    BY <1>2, <2>4 DEF Mutual, LockFree
  <2>6. Placed'
    BY <2>1, <2>2, <2>4, TreeFacts DEF Placed
  <2>7. SearchedSoFar(p)'
    BY <2>1, <2>4 DEF SearchedSoFar, AboveToMeet, Above
  <2> QED BY <2>1, <2>3, <2>4, <2>5, <2>6, <2>7, QuietStep
<1> QED BY <1>1, <1>2 DEF Lock

-----------------------------------------------------------------------------
\* The step that makes a config: under its lock, both searches have shown that
\* no rival is in its way, and no other invocation holds that lock.
LEMMA CreateKeepsIInv ==
  ASSUME IInv, NEW p \in Proc, Create(p)
  PROVE  IInv'
<1> USE DEF IInv
<1> DEFINE d == cwd[p]
<1>1. CASE Refuse(p)
  BY <1>1, RefuseKeepsIInv
<1>2. CASE /\ file' = [file EXCEPT ![d] = "part"]
           /\ maker' = [maker EXCEPT ![d] = p]
           /\ under' = [under EXCEPT ![d] = held[p]]
           /\ mishaps' = mishaps \ {d}
           /\ disturbed' = disturbed \ {p}
           /\ Goto(p, "write")
           /\ UNCHANGED <<git, edits, faults, cwd, search, held>>
  <2>1. /\ UNCHANGED <<git, edits, faults, cwd, at, todo, scanned, held>>
        /\ pc' = [pc EXCEPT ![p] = "write"]
    BY <1>2 DEF Goto, search
  <2>2. pc[p] = "create" /\ d \in Dir /\ AboveIsClear(p) /\ BelowIsClear(p)
    BY DEF Create, Placed, SearchedSoFar
  <2>3. TypeOK'
    BY <1>2, <2>1, <2>2 DEF TypeOK, Label, ConfigFile
  <2>4. /\ pc'[p] = "write"
        /\ \A q \in Proc \ {p} : pc'[q] = pc[q]
        /\ under'[d] = held[p]
        /\ \A e \in Dir \ {d} : file'[e] = file[e] /\ under'[e] = under[e]
    BY <1>2, <2>1, <2>2 DEF TypeOK
  <2>5. Mutual' /\ Placed'
    BY <2>1, <2>2, <2>4 DEF Mutual, Placed
  <2>6. ASSUME NEW q \in Proc PROVE SearchedSoFar(q)'
    <3>1. CASE q = p
      BY <2>4, <3>1 DEF SearchedSoFar
    <3>2. CASE q # p
      <4>1. \A e \in Dir : Rival(q, e)' => Rival(q, e)
        BY <2>1, <2>2, <2>4, <3>2 DEF Rival, Mutual
      <4>2. AboveToMeet(q) => AboveToMeet(q)'
        BY <2>1, <4>1 DEF AboveToMeet, Above, Boundary
      <4>3. AboveIsClear(q) => AboveIsClear(q)'
        BY <2>1, <4>1 DEF AboveIsClear, Above, Boundary
      <4>4. BelowToMeet(q) => BelowToMeet(q)'
        BY <2>1, <4>1 DEF BelowToMeet, Above, Boundary
      <4>5. BelowIsClear(q) => BelowIsClear(q)'
        BY <2>1, <4>1 DEF BelowIsClear, Above, Boundary
      <4> QED BY <2>1, <2>4, <3>2, <4>2, <4>3, <4>4, <4>5 DEF SearchedSoFar
    <3> QED BY <3>1, <3>2
  <2>7. NoNesting'
    <3> SUFFICES ASSUME NEW a \in Dir, NEW b \in Dir,
                        file'[a] # "none", file'[b] # "none", Above(a, b),
                        under'[a] = under'[b], under'[a] # NoDir
                 PROVE  Boundary(a, b)
      BY <2>1 DEF NoNesting, Above, Boundary
    <3>1. CASE a = d
      <4>1. b # d /\ Rival(p, b)
        BY <2>4, <3>1 DEF Above, Rival
      <4> QED BY <2>2, <3>1, <4>1 DEF BelowIsClear
    <3>2. CASE b = d
      <4>1. a # d /\ Rival(p, a)
        BY <2>4, <3>2 DEF Above, Rival
      <4> QED BY <2>2, <3>2, <4>1 DEF AboveIsClear
    <3>3. CASE a # d /\ b # d
      BY <2>4, <3>3 DEF NoNesting
    <3> QED BY <3>1, <3>2, <3>3
  <2> QED BY <2>3, <2>5, <2>6, <2>7
<1> QED BY <1>1, <1>2 DEF Create

LEMMA WriteKeepsIInv ==
  ASSUME IInv, NEW p \in Proc, Write(p)
  PROVE  IInv'
<1> USE DEF IInv
<1> DEFINE d == cwd[p]
<1>1. /\ pc[p] = "write"
      /\ file' = [file EXCEPT ![d] = IF maker[d] = p /\ @ = "part" THEN "whole" ELSE @]
      /\ pc' = [pc EXCEPT ![p] = "syncDir"]
      /\ UNCHANGED <<git, edits, faults, cwd, at, todo, scanned, held, maker, under,
                     mishaps, disturbed>>
  BY DEF Write, Goto, search, past
<1>2. d \in Dir
  BY <1>1 DEF Placed
<1>3. file' \in [Dir -> ConfigFile]
  BY <1>1, <1>2 DEF TypeOK, ConfigFile
<1>4. TypeOK'
  BY <1>1, <1>3 DEF TypeOK, Label
<1>5. /\ pc'[p] = "syncDir"
      /\ \A q \in Proc \ {p} : pc'[q] = pc[q]
      /\ \A e \in Dir : file'[e] # "none" => file[e] # "none"
  BY <1>1, <1>2 DEF TypeOK
<1>6. Mutual' /\ Placed'
  BY <1>1, <1>5 DEF Mutual, Placed
<1>7. pc'[p] \notin Searching
  BY <1>5 DEF Searching
<1> QED BY <1>1, <1>4, <1>5, <1>6, <1>7, QuietStep

LEMMA FailKeepsIInv ==
  ASSUME IInv, NEW p \in Proc, Fail(p)
  PROVE  IInv'
<1> USE DEF IInv
<1> DEFINE d == cwd[p]
<1>1. /\ pc[p] \in {"write", "syncDir"} /\ End(p)
      /\ UNCHANGED <<git, edits, maker, under>>
      /\ \/ /\ faults' = faults + 1
            /\ file' = [file EXCEPT ![d] = "none"]
            /\ disturbed' = disturbed \cup (Making(d) \ {p})
            /\ UNCHANGED mishaps
         \/ /\ faults' = faults + 2
            /\ mishaps' = mishaps \cup {d}
            /\ UNCHANGED <<file, disturbed>>
  BY DEF Fail, CleanUp, RemoveByName
<1>2. d \in Dir
  BY <1>1 DEF Placed
<1>3. file' \in [Dir -> ConfigFile]
  BY <1>1, <1>2 DEF TypeOK, ConfigFile
<1>4. disturbed' \in SUBSET Proc /\ mishaps' \in SUBSET Dir /\ faults' \in Nat
  BY <1>1, <1>2 DEF TypeOK, Making
<1>5. TypeOK'
  BY <1>1, <1>3, <1>4, EndFacts DEF TypeOK
<1>6. \A e \in Dir : file'[e] # "none" => file[e] # "none"
  BY <1>1, <1>2 DEF TypeOK
<1> QED BY <1>1, <1>5, <1>6, EndFacts, QuietStep

LEMMA KillKeepsIInv ==
  ASSUME IInv, NEW p \in Proc, Kill(p)
  PROVE  IInv'
<1> USE DEF IInv
<1>1. /\ pc[p] # "idle" /\ End(p) /\ faults' = faults + 1
      /\ mishaps' = IF pc[p] = "write" THEN mishaps \cup {cwd[p]} ELSE mishaps
      /\ UNCHANGED <<file, git, edits, maker, under, disturbed>>
  BY DEF Kill, Fault, tree
<1>2. mishaps' \in SUBSET Dir
  BY <1>1 DEF TypeOK, Placed
<1>3. TypeOK'
  BY <1>1, <1>2, EndFacts DEF TypeOK
<1> QED BY <1>1, <1>3, EndFacts, QuietStep

-----------------------------------------------------------------------------
\* What others do to the tree makes no config.
LEMMA OthersKeepIInv ==
  ASSUME IInv, NEW d \in Dir, Others(d)
  PROVE  IInv'
<1> USE DEF IInv
<1>1. UNCHANGED <<pc, cwd, at, todo, scanned, held, under, faults, mishaps>>
  BY DEF Others, RewriteConfig, RemoveConfig, MakeRepository, local, search, past
<1>2. /\ edits' = edits + 1
      /\ git' \in SUBSET Dir /\ git \subseteq git'
      /\ file' \in [Dir -> ConfigFile]
      /\ maker' \in [Dir -> Proc \cup {NoProc}]
      /\ disturbed' \in SUBSET Proc
      /\ \A e \in Dir : file'[e] # "none" => file[e] # "none"
  <2>1. CASE RewriteConfig(d)
    BY <2>1 DEF RewriteConfig, Intervene, TypeOK, ConfigFile, Making
  <2>2. CASE RemoveConfig(d)
    BY <2>2 DEF RemoveConfig, Intervene, TypeOK, ConfigFile, Making
  <2>3. CASE MakeRepository(d)
    BY <2>3 DEF MakeRepository, Intervene, TypeOK, past
  <2> QED BY <2>1, <2>2, <2>3 DEF Others
<1>3. TypeOK'
  BY <1>1, <1>2 DEF TypeOK
<1>4. Mutual' /\ Placed'
  BY <1>1 DEF Mutual, Placed
<1> QED BY <1>1, <1>2, <1>3, <1>4, QuietStep

LEMMA StutterKeepsIInv ==
  ASSUME IInv, UNCHANGED vars
  PROVE  IInv'
<1>1. UNCHANGED <<file, git, edits, faults, pc, cwd, at, todo, scanned, held, maker, under,
                  mishaps, disturbed>>
  BY DEF vars, tree, local, search, past
<1> QED BY <1>1 DEF IInv, TypeOK, Mutual, Placed, SearchedSoFar, AboveToMeet, AboveIsClear,
             BelowToMeet, BelowIsClear, NoNesting, Above, Rival, Boundary

LEMMA StepIInv == IInv /\ [Next]_vars => IInv'
<1> SUFFICES ASSUME IInv, [Next]_vars PROVE IInv'
  OBVIOUS
<1>1. CASE UNCHANGED vars
  BY <1>1, StutterKeepsIInv
<1>2. ASSUME NEW p \in Proc, Step(p) PROVE IInv'
  <2>1. CASE SearchUp(p)
    BY <2>1, SearchUpKeepsIInv
  <2>2. CASE \E d \in Dir : SearchDown(p, d)
    BY <2>2, SearchDownKeepsIInv
  <2>3. CASE FoundNothing(p)
    BY <2>3, FoundNothingKeepsIInv
  <2>4. CASE FindRoot(p)
    BY <2>4, FindRootKeepsIInv
  <2>5. CASE Lock(p)
    BY <2>5, LockKeepsIInv
  <2>6. CASE Create(p)
    BY <2>6, CreateKeepsIInv
  <2>7. CASE Write(p)
    BY <2>7, WriteKeepsIInv
  <2>8. CASE Fail(p)
    BY <2>8, FailKeepsIInv
  <2>9. CASE Succeed(p)
    BY <2>9, RefuseKeepsIInv DEF Succeed
  <2>10. CASE Kill(p)
    BY <2>10, KillKeepsIInv
  <2> QED BY <1>2, <2>1, <2>2, <2>3, <2>4, <2>5, <2>6, <2>7, <2>8, <2>9, <2>10 DEF Step
<1>3. ASSUME NEW p \in Proc, NEW d \in Dir, Start(p, d) PROVE IInv'
  BY <1>3, StartKeepsIInv
<1>4. ASSUME NEW d \in Dir, Others(d) PROVE IInv'
  BY <1>4, OthersKeepIInv
<1> QED BY <1>1, <1>2, <1>3, <1>4 DEF Next

\* In every behaviour the state is of its types, each search that has not ended
\* has met no rival on its way, and no two inits hold one lock.
LEMMA IInvHolds == Spec => []IInv
BY InitIInv, StepIInv, PTL DEF Spec

-----------------------------------------------------------------------------
\* The variables of every number of inits in every tree keep their types.
THEOREM InitTypes == Spec => []TypeOK
<1>1. IInv => TypeOK
  BY DEF IInv
<1> QED BY <1>1, IInvHolds, PTL

\* Whatever inits run at once, are killed or fail, and whatever others remove,
\* rewrite or make a repository of: no two configs created under the lock of one
\* root nest, for the second search, under that lock (create_config), sees all
\* that was created under it before.
THEOREM DomainsDoNotNest == Spec => []NoNesting
<1>1. IInv => NoNesting
  BY DEF IInv
<1> QED BY <1>1, IInvHolds, PTL

-----------------------------------------------------------------------------
\* Whose config it is.

AtWork == {"write", "syncDir"}

\* An init at work on a config has made the one that is there, or is known to
\* have been disturbed.
Owned ==
  \A p \in Proc : pc[p] \in AtWork =>
    \/ file[cwd[p]] # "none" /\ maker[cwd[p]] = p
    \/ p \in disturbed

WInv == IInv /\ Owned /\ StrandedOnlyByMishap

LEMMA SearchKeepsWork ==
  ASSUME WInv, UNCHANGED <<file, maker, mishaps, disturbed>>,
         \A p \in Proc :
           \/ pc'[p] = pc[p] /\ cwd'[p] = cwd[p]
           \/ pc[p] # "write" /\ pc'[p] \notin AtWork
  PROVE  (Owned /\ StrandedOnlyByMishap)'
<1> USE DEF WInv, AtWork
<1>1. Owned'
  BY DEF Owned
<1>2. StrandedOnlyByMishap'
  <2> SUFFICES ASSUME NEW d \in Dir, file[d] = "part", d \notin mishaps
               PROVE  maker[d] # NoProc /\ cwd'[maker[d]] = d /\ pc'[maker[d]] = "write"
    BY DEF StrandedOnlyByMishap
  <2>1. maker[d] \in Proc /\ cwd[maker[d]] = d /\ pc[maker[d]] = "write" /\ maker[d] # NoProc
    BY DEF StrandedOnlyByMishap, IInv, TypeOK
  <2> QED BY <2>1
<1> QED BY <1>1, <1>2

\* The searches, the lock and every refusal.
LEMMA PassageKeepsWork ==
  ASSUME WInv, NEW p \in Proc,
         \/ \E d \in Dir : Start(p, d) \/ SearchDown(p, d)
         \/ SearchUp(p) \/ FoundNothing(p) \/ FindRoot(p) \/ Lock(p) \/ Succeed(p)
         \/ pc[p] = "create" /\ Refuse(p)
  PROVE  (Owned /\ StrandedOnlyByMishap)'
<1>1. UNCHANGED <<file, maker, mishaps, disturbed>>
  BY DEF Start, SearchUp, SearchDown, FoundNothing, FindRoot, Lock, Succeed, Refuse, tree, past
<1>2. pc[p] # "write"
  BY DEF Start, SearchUp, SearchDown, FoundNothing, FindRoot, Lock, Succeed
<1>3. /\ \A q \in Proc \ {p} : pc'[q] = pc[q] /\ cwd'[q] = cwd[q]
      /\ pc'[p] \notin AtWork \/ (pc'[p] = pc[p] /\ cwd'[p] = cwd[p])
  <2>1. /\ pc \in [Proc -> Label] /\ cwd \in [Proc -> Dir \cup {NoDir}]
        /\ IInv
    BY DEF WInv, IInv, TypeOK
  <2>2. CASE Refuse(p)
    BY <2>1, <2>2 DEF Refuse, End, Goto, AtWork
  <2>3. CASE \E d \in Dir : Start(p, d)
    BY <2>1, <2>3 DEF Start, Goto, AtWork
  <2>4. CASE SearchUp(p)
    BY <2>1, <2>2, <2>4 DEF SearchUp, Goto, AtWork
  <2>5. CASE \E d \in Dir : SearchDown(p, d)
    BY <2>1, <2>2, <2>5 DEF SearchDown
  <2>6. CASE FoundNothing(p)
    BY <2>1, <2>6 DEF FoundNothing, Goto, AtWork
  <2>7. CASE FindRoot(p)
    BY <2>1, <2>7 DEF FindRoot, Goto, AtWork
  <2>8. CASE Lock(p)
    BY <2>1, <2>2, <2>8 DEF Lock, AfterLock, AfterLockSearch, Goto, AtWork
  <2> QED BY <2>2, <2>3, <2>4, <2>5, <2>6, <2>7, <2>8 DEF Succeed
<1> QED BY <1>1, <1>2, <1>3, SearchKeepsWork

LEMMA CreateKeepsWork ==
  ASSUME WInv, NEW p \in Proc, Create(p)
  PROVE  (Owned /\ StrandedOnlyByMishap)'
<1> DEFINE d == cwd[p]
<1>1. CASE Refuse(p)
  BY <1>1, PassageKeepsWork DEF Create
<1>2. CASE ~Refuse(p)
  <2>1. /\ pc[p] = "create" /\ d \in Dir /\ file[d] = "none"
        /\ file' = [file EXCEPT ![d] = "part"]
        /\ maker' = [maker EXCEPT ![d] = p]
        /\ mishaps' = mishaps \ {d}
        /\ disturbed' = disturbed \ {p}
        /\ pc' = [pc EXCEPT ![p] = "write"]
        /\ cwd' = cwd
    BY <1>2 DEF Create, Creatable, TakesNew, Goto, WInv, IInv, Placed
  <2>2. /\ file'[d] = "part" /\ maker'[d] = p /\ pc'[p] = "write"
        /\ \A e \in Dir \ {d} : file'[e] = file[e] /\ maker'[e] = maker[e]
        /\ \A q \in Proc \ {p} : pc'[q] = pc[q]
    BY <2>1 DEF WInv, IInv, TypeOK
  <2>3. Owned'
    <3> SUFFICES ASSUME NEW q \in Proc, pc'[q] \in AtWork
                 PROVE  \/ file'[cwd[q]] # "none" /\ maker'[cwd[q]] = q
                        \/ q \in disturbed'
      BY <2>1 DEF Owned
    <3>1. CASE q = p
      BY <2>2, <3>1
    <3>2. CASE q # p
      <4>1. pc[q] \in AtWork /\ cwd[q] \in Dir
        BY <2>2, <3>2 DEF WInv, IInv, Placed, AtWork
      <4> QED BY <2>1, <2>2, <3>2, <4>1 DEF WInv, Owned
    <3> QED BY <3>1, <3>2
  <2>4. StrandedOnlyByMishap'
    <3> SUFFICES ASSUME NEW e \in Dir, file'[e] = "part", e \notin mishaps'
                 PROVE  maker'[e] # NoProc /\ cwd[maker'[e]] = e /\ pc'[maker'[e]] = "write"
      BY <2>1 DEF StrandedOnlyByMishap
    <3>1. CASE e = d
      BY <2>2, <3>1, NamesAssumption
    <3>2. CASE e # d
      <4>1. maker[e] \in Proc /\ cwd[maker[e]] = e /\ pc[maker[e]] = "write" /\ maker[e] # NoProc
        BY <2>1, <2>2, <3>2 DEF WInv, IInv, TypeOK, StrandedOnlyByMishap
      <4> QED BY <2>1, <2>2, <3>2, <4>1
    <3> QED BY <3>1, <3>2
  <2> QED BY <2>3, <2>4
<1> QED BY <1>1, <1>2

LEMMA WriteKeepsWork ==
  ASSUME WInv, NEW p \in Proc, Write(p)
  PROVE  (Owned /\ StrandedOnlyByMishap)'
<1> DEFINE d == cwd[p]
<1>1. /\ pc[p] = "write" /\ d \in Dir
      /\ file' = [file EXCEPT ![d] = IF maker[d] = p /\ @ = "part" THEN "whole" ELSE @]
      /\ pc' = [pc EXCEPT ![p] = "syncDir"]
      /\ UNCHANGED <<cwd, maker, mishaps, disturbed>>
  BY DEF Write, Goto, search, past, WInv, IInv, Placed
<1>2. /\ pc'[p] = "syncDir"
      /\ \A e \in Dir : (file'[e] = "none") <=> (file[e] = "none")
      /\ \A e \in Dir : file'[e] = "part" => file[e] = "part" /\ (e # d \/ maker[e] # p)
      /\ \A q \in Proc \ {p} : pc'[q] = pc[q]
  BY <1>1 DEF WInv, IInv, TypeOK
<1>3. Owned'
  BY <1>1, <1>2 DEF Owned, AtWork, WInv, IInv, Placed
<1>4. StrandedOnlyByMishap'
  <2> SUFFICES ASSUME NEW e \in Dir, file'[e] = "part", e \notin mishaps
               PROVE  maker[e] # NoProc /\ cwd[maker[e]] = e /\ pc'[maker[e]] = "write"
    BY <1>1 DEF StrandedOnlyByMishap
  <2>1. maker[e] \in Proc /\ cwd[maker[e]] = e /\ pc[maker[e]] = "write" /\ maker[e] # NoProc
    BY <1>2 DEF WInv, IInv, TypeOK, StrandedOnlyByMishap
  <2> QED BY <1>2, <2>1
<1> QED BY <1>3, <1>4

LEMMA FailKeepsWork ==
  ASSUME WInv, NEW p \in Proc, Fail(p)
  PROVE  (Owned /\ StrandedOnlyByMishap)'
<1> DEFINE d == cwd[p]
<1>1. /\ pc[p] \in AtWork /\ d \in Dir /\ maker' = maker
      /\ pc' = [pc EXCEPT ![p] = "idle"] /\ cwd' = [cwd EXCEPT ![p] = NoDir]
      /\ \/ /\ file' = [file EXCEPT ![d] = "none"]
            /\ disturbed' = disturbed \cup (Making(d) \ {p})
            /\ mishaps' = mishaps
         \/ /\ mishaps' = mishaps \cup {d}
            /\ file' = file
            /\ disturbed' = disturbed
  BY DEF Fail, CleanUp, RemoveByName, End, Goto, AtWork, WInv, IInv, Placed
<1>2. /\ pc'[p] = "idle"
      /\ \A q \in Proc \ {p} : pc'[q] = pc[q] /\ cwd'[q] = cwd[q]
  BY <1>1 DEF WInv, IInv, TypeOK
<1>3. /\ \A e \in Dir : file'[e] = "part" /\ e \notin mishaps' =>
            file[e] = "part" /\ e # d /\ e \notin mishaps
      /\ \A e \in Dir \ {d} : file'[e] = file[e]
      /\ disturbed \subseteq disturbed'
      /\ file'[d] = file[d] \/ Making(d) \ {p} \subseteq disturbed'
  BY <1>1 DEF WInv, IInv, TypeOK
<1>4. Owned'
  <2> SUFFICES ASSUME NEW q \in Proc, pc'[q] \in AtWork
               PROVE  \/ file'[cwd'[q]] # "none" /\ maker[cwd'[q]] = q
                      \/ q \in disturbed'
    BY <1>1 DEF Owned
  <2>1. q # p /\ pc[q] \in AtWork /\ cwd'[q] = cwd[q] /\ cwd[q] \in Dir
    BY <1>2 DEF AtWork, WInv, IInv, Placed
  <2>2. CASE cwd[q] = d
    <3>1. q \in Making(d) \ {p}
      BY <2>1, <2>2 DEF Making, AtWork
    <3> QED BY <1>3, <2>1, <2>2, <3>1 DEF WInv, Owned
  <2>3. CASE cwd[q] # d
    BY <1>3, <2>1, <2>3 DEF WInv, Owned
  <2> QED BY <2>2, <2>3
<1>5. StrandedOnlyByMishap'
  <2> SUFFICES ASSUME NEW e \in Dir, file'[e] = "part", e \notin mishaps'
               PROVE  maker[e] # NoProc /\ cwd'[maker[e]] = e /\ pc'[maker[e]] = "write"
    BY <1>1 DEF StrandedOnlyByMishap
  <2>1. maker[e] \in Proc /\ cwd[maker[e]] = e /\ pc[maker[e]] = "write" /\ maker[e] # NoProc
    BY <1>3 DEF WInv, IInv, TypeOK, StrandedOnlyByMishap
  <2>2. maker[e] # p
    BY <1>3, <2>1
  <2> QED BY <1>2, <2>1, <2>2
<1> QED BY <1>4, <1>5

LEMMA KillKeepsWork ==
  ASSUME WInv, NEW p \in Proc, Kill(p)
  PROVE  (Owned /\ StrandedOnlyByMishap)'
<1>1. /\ pc' = [pc EXCEPT ![p] = "idle"] /\ cwd' = [cwd EXCEPT ![p] = NoDir]
      /\ mishaps' = IF pc[p] = "write" THEN mishaps \cup {cwd[p]} ELSE mishaps
      /\ UNCHANGED <<file, maker, disturbed>>
  BY DEF Kill, End, Goto, tree
<1>2. /\ pc'[p] = "idle"
      /\ \A q \in Proc \ {p} : pc'[q] = pc[q] /\ cwd'[q] = cwd[q]
  BY <1>1 DEF WInv, IInv, TypeOK
<1>3. Owned'
  BY <1>1, <1>2 DEF WInv, Owned, AtWork
<1>4. StrandedOnlyByMishap'
  <2> SUFFICES ASSUME NEW e \in Dir, file[e] = "part", e \notin mishaps'
               PROVE  maker[e] # NoProc /\ cwd'[maker[e]] = e /\ pc'[maker[e]] = "write"
    BY <1>1 DEF StrandedOnlyByMishap
  <2>1. maker[e] \in Proc /\ cwd[maker[e]] = e /\ pc[maker[e]] = "write" /\ maker[e] # NoProc
    BY <1>1 DEF WInv, IInv, TypeOK, StrandedOnlyByMishap
  <2>2. maker[e] # p
    BY <1>1, <2>1
  <2> QED BY <1>2, <2>1, <2>2
<1> QED BY <1>3, <1>4

LEMMA OthersKeepWork ==
  ASSUME WInv, NEW d \in Dir, Others(d)
  PROVE  (Owned /\ StrandedOnlyByMishap)'
<1>1. UNCHANGED <<pc, cwd, mishaps>>
  BY DEF Others, RewriteConfig, RemoveConfig, MakeRepository, local, past
<1>2. /\ disturbed \subseteq disturbed'
      /\ \A e \in Dir : file'[e] = "part" => file[e] = "part" /\ maker'[e] = maker[e]
      /\ \A e \in Dir \ {d} : file'[e] = file[e] /\ maker'[e] = maker[e]
      /\ (file'[d] = file[d] /\ maker'[d] = maker[d]) \/ Making(d) \subseteq disturbed'
  <2>1. CASE RewriteConfig(d)
    BY <2>1 DEF RewriteConfig, WInv, IInv, TypeOK
  <2>2. CASE RemoveConfig(d)
    BY <2>2 DEF RemoveConfig, WInv, IInv, TypeOK
  <2>3. CASE MakeRepository(d)
    BY <2>3 DEF MakeRepository, past
  <2> QED BY <2>1, <2>2, <2>3 DEF Others
<1>3. Owned'
  <2> SUFFICES ASSUME NEW q \in Proc, pc[q] \in AtWork
               PROVE  \/ file'[cwd[q]] # "none" /\ maker'[cwd[q]] = q
                      \/ q \in disturbed'
    BY <1>1 DEF Owned
  <2>1. cwd[q] \in Dir
    BY DEF AtWork, WInv, IInv, Placed
  <2>2. CASE cwd[q] = d
    <3>1. q \in Making(d)
      BY <2>2 DEF Making, AtWork
    <3> QED BY <1>2, <2>2, <2>1, <3>1 DEF WInv, Owned
  <2>3. CASE cwd[q] # d
    BY <1>2, <2>1, <2>3 DEF WInv, Owned
  <2> QED BY <2>2, <2>3
<1>4. StrandedOnlyByMishap'
  BY <1>1, <1>2 DEF WInv, StrandedOnlyByMishap
<1> QED BY <1>3, <1>4

LEMMA StepWInv == WInv /\ [Next]_vars => WInv'
<1> SUFFICES ASSUME WInv, [Next]_vars PROVE (Owned /\ StrandedOnlyByMishap)'
  BY StepIInv DEF WInv
<1>1. CASE UNCHANGED vars
  BY <1>1, SearchKeepsWork DEF vars, tree, local, past
<1>2. ASSUME NEW p \in Proc, Step(p) PROVE (Owned /\ StrandedOnlyByMishap)'
  BY <1>2, PassageKeepsWork, CreateKeepsWork, WriteKeepsWork, FailKeepsWork, KillKeepsWork
     DEF Step
<1>3. ASSUME NEW p \in Proc, NEW d \in Dir, Start(p, d)
      PROVE  (Owned /\ StrandedOnlyByMishap)'
  BY <1>3, PassageKeepsWork
<1>4. ASSUME NEW d \in Dir, Others(d) PROVE (Owned /\ StrandedOnlyByMishap)'
  BY <1>4, OthersKeepWork
<1> QED BY <1>1, <1>2, <1>3, <1>4 DEF Next

LEMMA WInvHolds == Spec => []WInv
<1>1. Init => WInv
  BY InitIInv DEF Init, WInv, Owned, AtWork, StrandedOnlyByMishap
<1> QED BY <1>1, StepWInv, PTL DEF Spec

\* An init that fails, ends or is killed at any of its steps leaves a config that
\* was never written only where it could not clean up after itself.
THEOREM StrandingHasACause == Spec => []StrandedOnlyByMishap
<1>1. WInv => StrandedOnlyByMishap
  BY DEF WInv
<1> QED BY <1>1, WInvHolds, PTL

\* create_exclusive writes and removes no config but the one it has made, unless
\* somebody has meanwhile removed or rewritten that one.
THEOREM InitsKeepOffOthersWork == Spec => OnlyOwnWork
<1>1. WInv /\ [Next]_vars =>
        [\A d \in Dir :
           file[d] # "none" /\ file'[d] # file[d] /\ edits' = edits =>
             \E p \in Making(d) : maker[d] = p \/ p \in disturbed]_vars
  <2> SUFFICES ASSUME WInv, Next, NEW d \in Dir,
                      file[d] # "none", file'[d] # file[d], edits' = edits
               PROVE  \E p \in Making(d) : maker[d] = p \/ p \in disturbed
    OBVIOUS
  <2>1. PICK p \in Proc : Create(p) \/ Write(p) \/ Fail(p)
    <3>1. ~ \E e \in Dir : Others(e)
      BY DEF Others, RewriteConfig, RemoveConfig, MakeRepository, Intervene, WInv, IInv, TypeOK
    <3>2. file' # file
      OBVIOUS
    <3>3. \A q \in Proc : ~ \E e \in Dir : Start(q, e)
      BY <3>2 DEF Start, tree
    <3>4. \A q \in Proc : Step(q) => Create(q) \/ Write(q) \/ Fail(q)
      BY <3>2 DEF Step, SearchUp, SearchDown, FoundNothing, FindRoot, Lock, Succeed, Kill,
                  Refuse, tree
    <3> QED BY <3>1, <3>3, <3>4 DEF Next
  <2>2. CASE Create(p)
    BY <2>2 DEF Create, Creatable, TakesNew, Refuse, tree, WInv, IInv, TypeOK
  <2>3. CASE Write(p)
    <3>1. d = cwd[p] /\ pc[p] = "write" /\ maker[d] = p
      BY <2>3 DEF Write, WInv, IInv, TypeOK
    <3> QED BY <3>1 DEF Making
  <2>4. CASE Fail(p)
    <3>1. d = cwd[p] /\ pc[p] \in AtWork
      BY <2>4 DEF Fail, CleanUp, RemoveByName, AtWork, WInv, IInv, TypeOK
    <3>2. maker[d] = p \/ p \in disturbed
      BY <3>1 DEF WInv, Owned
    <3> QED BY <3>1, <3>2 DEF Making, AtWork
  <2> QED BY <2>1, <2>2, <2>3, <2>4
<1> QED BY <1>1, WInvHolds, PTL DEF Spec, OnlyOwnWork
=============================================================================
