---------------------------- MODULE SelectProofs ----------------------------
(***************************************************************************)
(* What an expansion selects and what it charges, on every tree, with any  *)
(* budgets and however other programs change the tree meanwhile.  Three    *)
(* invariants, each on top of the one before:                              *)
(*   Inv        the flags and charges that are carried along are right;    *)
(*   SteadyInv  what names and entries taken up so far yield, of the paths *)
(*              nobody has disturbed, is what has been found of them;      *)
(*   ExactInv   while nobody disturbs anything, each counts once, in the   *)
(*              order of the entries, and so a failure has a reason.       *)
(* What is reached is defined by the ways through the tree and what is     *)
(* found by the steps of walks; the two meet by way of the least           *)
(* counterexample, the one with the fewest ancestors (UpMinimal).          *)
(***************************************************************************)
EXTENDS SelectProps, FiniteSetTheorems, WellFoundedInduction, TLAPS

FiniteOut(o) == /\ IsFiniteSet(o.files) /\ IsFiniteSet(o.hidden)
                /\ IsFiniteSet(o.missing) /\ IsFiniteSet(o.swept)
                /\ IsFiniteSet(o.visited)

Faithful(o) == /\ \A p \in o.files : ~Hidden(p)
               /\ \A p \in o.hidden : Hidden(p)

\* Only entries taken up are missing, so that none is kept twice.
TakenUp(o, n) == \A e \in o.missing : \E i \in 1..(n - 1) : asked[i] = e

\* The carried flag of a frame is what the path of its directory says.
FramesOK(s) ==
  \A i \in DOMAIN s : /\ s[i].hidden = Hidden(s[i].dir)
                      /\ \A p \in s[i].listed : Up[p] = s[i].dir

Inv == /\ TypeOK
       /\ FramesOK(stack)
       /\ Faithful(out)
       /\ FiniteOut(out)
       /\ TakenUp(out, next)
       /\ ChargedInFull

\* Result r of finding something adds to o what it charges for.
Keeping(o, r) == /\ r.out \in Found
                 /\ FiniteOut(r.out)
                 /\ r.charge \in Nat
                 /\ Kept(r.out) = Kept(o) + r.charge

-----------------------------------------------------------------------------
\* Excluded is what is excluded itself or lies in what is.
LEMMA HiddenBelow ==
  ASSUME excl \subseteq Path, NEW p \in Path
  PROVE  Hidden(p) <=> (Hidden(Up[p]) \/ p \in excl)
<1>1. Above[p] = {Up[p]} \cup Above[Up[p]]
  BY TreeAssumption
<1> QED BY <1>1 DEF Hidden, Covers

LEMMA CardNat == ASSUME NEW S, IsFiniteSet(S)  PROVE Cardinality(S) \in Nat
  BY FS_CardinalityType

\* Adding an element to a finite set.
LEMMA CardAdd ==
  ASSUME NEW S, IsFiniteSet(S), NEW x
  PROVE  /\ IsFiniteSet(S \cup {x})
         /\ Cardinality(S \cup {x}) = Cardinality(S) + (IF x \in S THEN 0 ELSE 1)
         /\ Cardinality(S) \in Nat
<1>1. Cardinality(S) \in Nat
  BY FS_CardinalityType
<1>2. /\ IsFiniteSet(S \cup {x})
      /\ Cardinality(S \cup {x}) =
           IF x \in S THEN Cardinality(S) ELSE Cardinality(S) + 1
  BY FS_AddElement
<1> QED BY <1>1, <1>2

LEMMA NotedNat == ASSUME NEW o \in Found  PROVE Noted(o) \in Nat
  BY DEF Noted, Found

LEMMA KeptNat == ASSUME NEW o \in Found, FiniteOut(o)  PROVE Kept(o) \in Nat
<1>1. /\ Cardinality(o.files) \in Nat /\ Cardinality(o.hidden) \in Nat
      /\ Cardinality(o.missing) \in Nat /\ Cardinality(o.swept) \in Nat
      /\ Cardinality(o.visited) \in Nat /\ Noted(o) \in Nat
  BY CardNat, NotedNat DEF FiniteOut
<1> QED BY <1>1 DEF Kept

LEMMA NilKeeps ==
  ASSUME NEW o \in Found, FiniteOut(o)
  PROVE  Keeping(o, Nil(o))
  BY KeptNat DEF Keeping, Nil

LEMMA SweepKeeps ==
  ASSUME NEW o \in Found, FiniteOut(o), NEW d \in Node
  PROVE  Keeping(o, Sweep(o, {d}))
<1> DEFINE r == Sweep(o, {d})
<1>1. /\ r.out \in Found /\ r.out.swept = o.swept \cup {d}
      /\ r.out.files = o.files /\ r.out.hidden = o.hidden
      /\ r.out.missing = o.missing /\ r.out.visited = o.visited
      /\ Noted(r.out) = Noted(o)
  BY DEF Sweep, Found, Noted
<1>0. r.charge = Cardinality({d} \ o.swept)
  BY DEF Sweep
<1>2. r.charge = IF d \in o.swept THEN 0 ELSE 1
  <2>1. CASE d \in o.swept
    <3>1. {d} \ o.swept = {}
      BY <2>1
    <3> QED BY <1>0, <2>1, <3>1, FS_EmptySet
  <2>2. CASE d \notin o.swept
    <3>1. {d} \ o.swept = {d}
      BY <2>2
    <3> QED BY <1>0, <2>2, <3>1, FS_Singleton
  <2> QED BY <2>1, <2>2
<1>3. /\ IsFiniteSet(o.swept \cup {d})
      /\ Cardinality(o.swept \cup {d})
           = Cardinality(o.swept) + (IF d \in o.swept THEN 0 ELSE 1)
      /\ Cardinality(o.swept) \in Nat
  BY CardAdd DEF FiniteOut
<1>4. /\ Cardinality(o.files) \in Nat /\ Cardinality(o.hidden) \in Nat
      /\ Cardinality(o.missing) \in Nat /\ Cardinality(o.visited) \in Nat
      /\ Noted(o) \in Nat
  BY CardNat, NotedNat DEF FiniteOut
<1>5. r.charge \in Nat
  BY <1>2
<1>6. Kept(r.out) = Kept(o) + r.charge
  <2> HIDE DEF r
  <2> QED BY <1>1, <1>2, <1>3, <1>4 DEF Kept
<1>7. FiniteOut(r.out)
  BY <1>1, <1>3 DEF FiniteOut
<1> QED BY <1>1, <1>5, <1>6, <1>7 DEF Keeping

LEMMA FileKeeps ==
  ASSUME NEW o \in Found, FiniteOut(o), NEW p \in Node, NEW named \in BOOLEAN
  PROVE  Keeping(o, AddFile(o, p, named))
<1> DEFINE r == AddFile(o, p, named)
<1>1. /\ r.out \in Found /\ r.out.files = o.files \cup {p}
      /\ r.out.swept = o.swept /\ r.out.hidden = o.hidden
      /\ r.out.missing = o.missing /\ r.out.visited = o.visited
      /\ Noted(r.out) = Noted(o)
      /\ r.charge = IF p \in o.files THEN 0 ELSE 3
  BY DEF AddFile, Found, Noted
<1>2. /\ IsFiniteSet(o.files \cup {p})
      /\ Cardinality(o.files \cup {p}) = Cardinality(o.files) + (IF p \in o.files THEN 0 ELSE 1)
      /\ Cardinality(o.files) \in Nat
  BY CardAdd DEF FiniteOut
<1>3. /\ Cardinality(o.swept) \in Nat /\ Cardinality(o.hidden) \in Nat
      /\ Cardinality(o.missing) \in Nat /\ Cardinality(o.visited) \in Nat
      /\ Noted(o) \in Nat
  BY CardNat, NotedNat DEF FiniteOut
<1>4. Kept(r.out) = Kept(o) + r.charge
  BY <1>1, <1>2, <1>3 DEF Kept
<1>5. FiniteOut(r.out)
  BY <1>1, <1>2 DEF FiniteOut
<1> QED BY <1>1, <1>4, <1>5 DEF Keeping

LEMMA ExcludedKeeps ==
  ASSUME NEW o \in Found, FiniteOut(o), NEW p \in Node, NEW named \in BOOLEAN
  PROVE  Keeping(o, AddExcluded(o, p, named))
<1> DEFINE r == AddExcluded(o, p, named)
<1>a. CASE counting
  BY <1>a, NilKeeps DEF AddExcluded
<1>b. CASE ~counting
  <2>1. /\ r.out \in Found /\ r.out.hidden = o.hidden \cup {p}
        /\ r.out.swept = o.swept /\ r.out.files = o.files
        /\ r.out.missing = o.missing /\ r.out.visited = o.visited
        /\ Noted(r.out) = Noted(o)
        /\ r.charge = IF p \in o.hidden THEN 0 ELSE 4
    BY <1>b DEF AddExcluded, Found, Noted
  <2>2. /\ IsFiniteSet(o.hidden \cup {p})
        /\ Cardinality(o.hidden \cup {p})
             = Cardinality(o.hidden) + (IF p \in o.hidden THEN 0 ELSE 1)
        /\ Cardinality(o.hidden) \in Nat
    BY CardAdd DEF FiniteOut
  <2>3. /\ Cardinality(o.swept) \in Nat /\ Cardinality(o.files) \in Nat
        /\ Cardinality(o.missing) \in Nat /\ Cardinality(o.visited) \in Nat
        /\ Noted(o) \in Nat
    BY CardNat, NotedNat DEF FiniteOut
  <2>4. Kept(r.out) = Kept(o) + r.charge
    BY <2>1, <2>2, <2>3 DEF Kept
  <2>5. FiniteOut(r.out)
    BY <2>1, <2>2 DEF FiniteOut
  <2> QED BY <2>1, <2>4, <2>5 DEF Keeping
<1> QED BY <1>a, <1>b

LEMMA MissingKeeps ==
  ASSUME NEW o \in Found, FiniteOut(o), NEW e \in Entry, e \notin o.missing
  PROVE  Keeping(o, AddMissing(o, e))
<1> DEFINE r == AddMissing(o, e)
<1>1. /\ r.out \in Found /\ r.out.missing = o.missing \cup {e}
      /\ r.out.swept = o.swept /\ r.out.files = o.files
      /\ r.out.hidden = o.hidden /\ r.out.visited = o.visited
      /\ Noted(r.out) = Noted(o)
      /\ r.charge = 1
  BY DEF AddMissing, Found, Noted
<1>2. /\ IsFiniteSet(o.missing \cup {e})
      /\ Cardinality(o.missing \cup {e}) = Cardinality(o.missing) + 1
      /\ Cardinality(o.missing) \in Nat
  BY CardAdd DEF FiniteOut
<1>3. /\ Cardinality(o.swept) \in Nat /\ Cardinality(o.files) \in Nat
      /\ Cardinality(o.hidden) \in Nat /\ Cardinality(o.visited) \in Nat
      /\ Noted(o) \in Nat
  BY CardNat, NotedNat DEF FiniteOut
<1>4. Kept(r.out) = Kept(o) + r.charge
  BY <1>1, <1>2, <1>3 DEF Kept
<1>5. FiniteOut(r.out)
  BY <1>1, <1>2 DEF FiniteOut
<1> QED BY <1>1, <1>4, <1>5 DEF Keeping

LEMMA OneMore ==
  ASSUME NEW a \in Nat, NEW b \in Nat, NEW c, c = a + 1
  PROVE  c + b = (a + b) + 1 /\ b + c = (b + a) + 1
  OBVIOUS

LEMMA SpecialKeeps ==
  ASSUME NEW o \in Found, FiniteOut(o), NEW p \in Node
  PROVE  Keeping(o, SkipSpecial(o, p))
<1> DEFINE s == Append(o.specials, p)
           q == [o EXCEPT !.specials = s]
           r == SkipSpecial(o, p)
<1>a. s \in Seq(Node) /\ Len(s) = Len(o.specials) + 1
  BY DEF Found
<1>b. r.out = q /\ r.charge = 1
  BY DEF SkipSpecial
<1> HIDE DEF s, r
<1>c. /\ q \in Found /\ q.specials = s /\ q.boundaries = o.boundaries
      /\ q.missing = o.missing /\ q.swept = o.swept
      /\ q.files = o.files /\ q.hidden = o.hidden
      /\ q.visited = o.visited
  BY <1>a DEF Found
<1> HIDE DEF q
<1>1. /\ r.out \in Found /\ r.charge = 1
      /\ r.out.missing = o.missing /\ r.out.swept = o.swept
      /\ r.out.files = o.files /\ r.out.hidden = o.hidden
      /\ r.out.visited = o.visited
  BY <1>b, <1>c
<1>2. Noted(r.out) = Noted(o) + 1
  <2>1. Len(o.specials) \in Nat /\ Len(o.boundaries) \in Nat
    BY DEF Found
  <2>2. Noted(r.out) = Len(s) + Len(o.boundaries)
    BY <1>b, <1>c, Zenon DEF Noted
  <2> QED BY <2>1, <2>2, <1>a, OneMore, Zenon DEF Noted
<1>3. /\ Cardinality(o.swept) \in Nat /\ Cardinality(o.files) \in Nat
      /\ Cardinality(o.hidden) \in Nat /\ Cardinality(o.visited) \in Nat
      /\ Cardinality(o.missing) \in Nat /\ Noted(o) \in Nat
  BY CardNat, NotedNat DEF FiniteOut
<1>4. Kept(r.out) = Kept(o) + r.charge
  BY <1>1, <1>2, <1>3 DEF Kept
<1>5. FiniteOut(r.out)
  BY <1>1 DEF FiniteOut
<1> QED BY <1>1, <1>4, <1>5 DEF Keeping, r

LEMMA BoundaryKeeps ==
  ASSUME NEW o \in Found, FiniteOut(o), NEW p \in Node
  PROVE  Keeping(o, SkipBoundary(o, p))
<1> DEFINE s == Append(o.boundaries, p)
           q == [o EXCEPT !.boundaries = s]
           r == SkipBoundary(o, p)
<1>a. s \in Seq(Node) /\ Len(s) = Len(o.boundaries) + 1
  BY DEF Found
<1>b. r.out = q /\ r.charge = 1
  BY DEF SkipBoundary
<1> HIDE DEF s, r
<1>c. /\ q \in Found /\ q.boundaries = s /\ q.specials = o.specials
      /\ q.missing = o.missing /\ q.swept = o.swept
      /\ q.files = o.files /\ q.hidden = o.hidden
      /\ q.visited = o.visited
  BY <1>a DEF Found
<1> HIDE DEF q
<1>1. /\ r.out \in Found /\ r.charge = 1
      /\ r.out.missing = o.missing /\ r.out.swept = o.swept
      /\ r.out.files = o.files /\ r.out.hidden = o.hidden
      /\ r.out.visited = o.visited
  BY <1>b, <1>c
<1>2. Noted(r.out) = Noted(o) + 1
  <2>1. Len(o.specials) \in Nat /\ Len(o.boundaries) \in Nat
    BY DEF Found
  <2>2. Noted(r.out) = Len(o.specials) + Len(s)
    BY <1>b, <1>c, Zenon DEF Noted
  <2> QED BY <2>1, <2>2, <1>a, OneMore, Zenon DEF Noted
<1>3. /\ Cardinality(o.swept) \in Nat /\ Cardinality(o.files) \in Nat
      /\ Cardinality(o.hidden) \in Nat /\ Cardinality(o.visited) \in Nat
      /\ Cardinality(o.missing) \in Nat /\ Noted(o) \in Nat
  BY CardNat, NotedNat DEF FiniteOut
<1>4. Kept(r.out) = Kept(o) + r.charge
  BY <1>1, <1>2, <1>3 DEF Kept
<1>5. FiniteOut(r.out)
  BY <1>1 DEF FiniteOut
<1> QED BY <1>1, <1>4, <1>5 DEF Keeping, r

LEMMA VisitKeeps ==
  ASSUME NEW o \in Found, FiniteOut(o), NEW d \in Node, d \notin o.visited
  PROVE  Keeping(o, Visit(o, d))
<1> DEFINE v == [o EXCEPT !.visited = @ \cup {d}]
           s == Sweep(v, {d})
<1>1. /\ v \in Found /\ v.visited = o.visited \cup {d}
      /\ v.swept = o.swept /\ v.files = o.files
      /\ v.hidden = o.hidden /\ v.missing = o.missing
      /\ Noted(v) = Noted(o)
  BY DEF Found, Noted
<1>2. /\ IsFiniteSet(o.visited \cup {d})
      /\ Cardinality(o.visited \cup {d}) = Cardinality(o.visited) + 1
      /\ Cardinality(o.visited) \in Nat
  BY CardAdd DEF FiniteOut
<1>3. /\ Cardinality(o.swept) \in Nat /\ Cardinality(o.files) \in Nat
      /\ Cardinality(o.hidden) \in Nat /\ Cardinality(o.missing) \in Nat
      /\ Noted(o) \in Nat
  BY CardNat, NotedNat DEF FiniteOut
<1>4. Kept(v) = Kept(o) + 1 /\ Kept(o) \in Nat
  <2> HIDE DEF v
  <2> QED BY <1>1, <1>2, <1>3 DEF Kept
<1>5. FiniteOut(v)
  BY <1>1, <1>2 DEF FiniteOut
<1>6. Keeping(v, s)
  <2> HIDE DEF v
  <2> QED BY <1>1, <1>5, SweepKeeps
<1>7. Visit(o, d).out = s.out /\ Visit(o, d).charge = s.charge + 1
  BY DEF Visit, Sweep
<1> HIDE DEF v, s
<1> QED BY <1>4, <1>6, <1>7 DEF Keeping

LEMMA BothKeep ==
  ASSUME NEW o, NEW a, NEW b, Kept(o) \in Nat, Keeping(o, a), Keeping(a.out, b)
  PROVE  Keeping(o, Both(a, b))
<1>1. Both(a, b).out = b.out /\ Both(a, b).charge = a.charge + b.charge
  BY DEF Both
<1> QED BY <1>1 DEF Keeping
-----------------------------------------------------------------------------
\* A frame put on the stack, and one taken off.
LEMMA FramesPush ==
  ASSUME NEW s \in Seq(Frame), FramesOK(s), NEW f \in Frame,
         f.hidden = Hidden(f.dir), \A p \in f.listed : Up[p] = f.dir
  PROVE  Append(s, f) \in Seq(Frame) /\ FramesOK(Append(s, f))
<1>1. /\ Append(s, f) \in Seq(Frame)
      /\ DOMAIN Append(s, f) = 1..(Len(s) + 1)
      /\ \A i \in 1..Len(s) : Append(s, f)[i] = s[i]
      /\ Append(s, f)[Len(s) + 1] = f
      /\ DOMAIN s = 1..Len(s) /\ Len(s) \in Nat
  OBVIOUS
<1>2. ASSUME NEW i \in DOMAIN Append(s, f)
      PROVE  i \in DOMAIN s \/ i = Len(s) + 1
  BY <1>1
<1> QED BY <1>1, <1>2 DEF FramesOK

LEMMA FramesPop ==
  ASSUME NEW s \in Seq(Frame), FramesOK(s), s # <<>>
  PROVE  /\ SubSeq(s, 1, Len(s) - 1) \in Seq(Frame)
         /\ FramesOK(SubSeq(s, 1, Len(s) - 1))
         /\ Len(s) \in DOMAIN s
<1> DEFINE b == SubSeq(s, 1, Len(s) - 1)
<1>1. Len(s) \in Nat \ {0} /\ DOMAIN s = 1..Len(s)
  OBVIOUS
<1>2. /\ b \in Seq(Frame)
      /\ DOMAIN b = 1..(Len(s) - 1)
      /\ \A i \in 1..(Len(s) - 1) : b[i] = s[i]
  BY <1>1
<1> HIDE DEF b
<1>3. DOMAIN b \subseteq DOMAIN s
  BY <1>1, <1>2
<1>4. FramesOK(b)
  BY <1>2, <1>3 DEF FramesOK
<1> QED BY <1>1, <1>2, <1>4 DEF b

LEMMA FrameType ==
  ASSUME TypeOK, NEW d \in Node, NEW hidden \in BOOLEAN, NEW depth \in Nat,
         hidden = Hidden(d)
  PROVE  /\ OpenFrame(d, hidden, depth) \in Frame
         /\ OpenFrame(d, hidden, depth).hidden = Hidden(OpenFrame(d, hidden, depth).dir)
         /\ \A p \in OpenFrame(d, hidden, depth).listed :
               Up[p] = OpenFrame(d, hidden, depth).dir
  BY DEF OpenFrame, Frame, Listing, Inside

\* What finding something leaves of a result that a step may keep.
Good(r, n) == /\ Keeping(out, r)
              /\ Faithful(r.out)
              /\ TakenUp(r.out, n)

LEMMA FurtherOn ==
  ASSUME NEW m \in Nat, NEW n \in Nat, n >= m
  PROVE  1..(m - 1) \subseteq 1..(n - 1)
  OBVIOUS

\* A step that leaves all that was found as it was.
LEMMA Keeps ==
  ASSUME Inv, TypeOK', UNCHANGED <<asked, excl, out, bytes>>, FramesOK(stack)',
         next' >= next
  PROVE  Inv'
<1>1. Faithful(out)'
  BY DEF Inv, Faithful, Hidden
<1>2. FiniteOut(out)'
  BY DEF Inv, FiniteOut
<1>3. TakenUp(out, next)'
  <2>1. next \in Nat /\ next' \in Nat
    BY DEF Inv, TypeOK
  <2>2. 1..(next - 1) \subseteq 1..(next' - 1)
    BY <2>1, FurtherOn
  <2> QED BY <2>2 DEF Inv, TakenUp
<1>4. ChargedInFull'
  BY DEF Inv, ChargedInFull, Kept, Noted
<1> QED BY <1>1, <1>2, <1>3, <1>4 DEF Inv

LEMMA SameFrames ==
  ASSUME FramesOK(stack), UNCHANGED <<stack, excl>>
  PROVE  FramesOK(stack)'
  BY DEF FramesOK, Hidden

LEMMA Fails ==
  ASSUME Inv, Fail, scanned' \in Nat
  PROVE  Inv'
<1>1. TypeOK'
  BY DEF Fail, Inv, TypeOK, world, given
<1>2. next' >= next
  BY DEF Fail, Inv, TypeOK
<1> QED BY <1>1, <1>2, Keeps, SameFrames DEF Fail, given, Inv

LEMMA GoesOn ==
  ASSUME Inv, NEW r, NEW n \in Nat \ {0}, NEW s \in Seq(Frame), FramesOK(s),
         Good(r, n), GoOn(r, n, s), scanned' \in Nat
  PROVE  Inv'
<1>1. CASE ~Affordable(r)
  BY <1>1, Fails DEF GoOn
<1>2. CASE Affordable(r)
  <2>1. /\ out' = r.out /\ bytes' = bytes + r.charge /\ next' = n /\ stack' = s
        /\ UNCHANGED <<world, given, status>>
    BY <1>2 DEF GoOn
  <2>2. TypeOK'
    BY <2>1 DEF Inv, TypeOK, Good, Keeping, world, given
  <2>3. FramesOK(stack)'
    BY <2>1 DEF FramesOK, Hidden, given
  <2>4. Faithful(out)'
    BY <2>1 DEF Good, Faithful, Hidden, given
  <2>5. FiniteOut(out)'
    BY <2>1 DEF Good, Keeping, FiniteOut
  <2>6. TakenUp(out, next)'
    BY <2>1 DEF Good, TakenUp, given
  <2>7. ChargedInFull'
    <3>1. Kept(out)' = Kept(r.out)
      BY <2>1 DEF Kept, Noted
    <3> QED BY <2>1, <3>1 DEF Good, Keeping, Inv, ChargedInFull
  <2> QED BY <2>2, <2>3, <2>4, <2>5, <2>6, <2>7 DEF Inv
<1> QED BY <1>1, <1>2

LEMMA Changed ==
  ASSUME Inv, NEW p \in Path, NEW k \in Kinds, p \in Editable, Change(p, k)
  PROVE  Inv'
<1>1. kind' \in [Node -> Kinds] /\ touched' \subseteq Path /\ edits' \in Nat
  BY DEF Change, Inv, TypeOK, Node
<1>t. TypeOK'
  BY <1>1 DEF Change, Inv, TypeOK, given
<1>2. next' >= next
  BY DEF Change, Inv, TypeOK
<1> QED BY <1>t, <1>2, Keeps, SameFrames DEF Change, given, Inv

LEMMA Skipped == ASSUME Inv, SkipRepeated  PROVE Inv'
<1>1. TypeOK' /\ next' >= next
  BY DEF SkipRepeated, Inv, TypeOK, world, given
<1> QED BY <1>1, Keeps, SameFrames DEF SkipRepeated, given, Inv

LEMMA Closed == ASSUME Inv, CloseDir  PROVE Inv'
<1>1. stack \in Seq(Frame) /\ FramesOK(stack) /\ stack # <<>>
  BY DEF CloseDir, Walking, Inv, TypeOK
<1>2. stack' \in Seq(Frame) /\ FramesOK(stack')
  BY <1>1, FramesPop DEF CloseDir, Below
<1>3. TypeOK' /\ next' >= next
  BY <1>2 DEF CloseDir, Inv, TypeOK, world, given
<1>4. FramesOK(stack)'
  BY <1>2 DEF FramesOK, Hidden, CloseDir, given
<1> QED BY <1>3, <1>4, Keeps DEF CloseDir, given

LEMMA Finished == ASSUME Inv, Finish  PROVE Inv'
<1>1. TypeOK' /\ next' >= next
  BY DEF Finish, Inv, TypeOK, world, given
<1> QED BY <1>1, Keeps, SameFrames DEF Finish, given, Inv

LEMMA Stuttered == ASSUME Inv, UNCHANGED vars  PROVE Inv'
<1>1. TypeOK' /\ next' >= next
  BY DEF vars, Inv, TypeOK, world, given
<1> QED BY <1>1, Keeps, SameFrames DEF vars, given, Inv

-----------------------------------------------------------------------------
\* A directory that is walked, in addition to result r.
LEMMA Walks ==
  ASSUME Inv, NEW d \in Node, NEW hidden \in BOOLEAN, hidden = Hidden(d),
         NEW depth \in Nat, NEW n \in Nat \ {0},
         NEW s \in Seq(Frame), FramesOK(s), NEW r, Good(r, n),
         r.out.visited = out.visited,
         WalkDir(d, hidden, depth, r, n, s), scanned' \in Nat
  PROVE  Inv'
<1>1. CASE d \in out.visited
  BY <1>1, GoesOn DEF WalkDir
<1>2. CASE d \notin out.visited /\ Fail
  BY <1>2, Fails
<1>3. CASE /\ d \notin out.visited
           /\ GoOn(Both(r, Visit(r.out, d)), n, Append(s, OpenFrame(d, hidden, depth)))
  <2> DEFINE v == Visit(r.out, d)
             t == Append(s, OpenFrame(d, hidden, depth))
  <2>1. t \in Seq(Frame) /\ FramesOK(t)
    BY FrameType, FramesPush DEF Inv
  <2>2. Keeping(r.out, v)
    BY <1>3, VisitKeeps DEF Good, Keeping
  <2>3. Kept(out) \in Nat
    BY KeptNat DEF Inv, TypeOK
  <2>4. Keeping(out, Both(r, v))
    BY <2>2, <2>3, BothKeep DEF Good
  <2>5. /\ Both(r, v).out = v.out
        /\ v.out.files = r.out.files /\ v.out.hidden = r.out.hidden
        /\ v.out.missing = r.out.missing
    BY DEF Both, Visit, Sweep, Good, Keeping, Found
  <2>6. Good(Both(r, v), n)
    BY <2>4, <2>5 DEF Good, Faithful, TakenUp
  <2> HIDE DEF v, t
  <2> QED BY <1>3, <2>1, <2>6, GoesOn DEF v, t
<1> QED BY <1>1, <1>2, <1>3 DEF WalkDir

\* Entry `next', which no earlier one equals, is new among the missing.
LEMMA FreshEntry ==
  ASSUME Inv, Expanding, ~Repeated
  PROVE  asked[next] \in Entry /\ asked[next] \notin out.missing
<1>1. asked \in Seq(Entry) /\ next \in DOMAIN asked
  BY DEF Inv, TypeOK, Expanding
<1>2. asked[next] \in Entry
  BY <1>1
<1>3. \A i \in 1..(next - 1) : asked[i] # asked[next]
  BY DEF Repeated
<1> QED BY <1>2, <1>3 DEF Inv, TakenUp

\* What adding to the found leaves as it was.
Same(o, q) == /\ q.files = o.files /\ q.hidden = o.hidden
              /\ q.missing = o.missing /\ q.visited = o.visited

LEMMA OthersAdd ==
  ASSUME NEW o \in Found, NEW p
  PROVE  /\ Same(o, Nil(o).out)
         /\ Same(o, SkipSpecial(o, p).out)
         /\ Same(o, SkipBoundary(o, p).out)
  BY DEF Same, Nil, SkipSpecial, SkipBoundary, Found

LEMMA SweepAdds == ASSUME NEW o \in Found, NEW D  PROVE Same(o, Sweep(o, D).out)
  BY DEF Same, Sweep, Found

LEMMA FileAdds ==
  ASSUME NEW o \in Found, NEW p, NEW b \in BOOLEAN
  PROVE  LET q == AddFile(o, p, b).out
         IN  /\ q.files = o.files \cup {p} /\ q.hidden = o.hidden
             /\ q.missing = o.missing
  BY DEF AddFile, Found

LEMMA ExcludedAdds ==
  ASSUME NEW o \in Found, NEW p, NEW b \in BOOLEAN
  PROVE  LET q == AddExcluded(o, p, b).out
         IN  /\ q.files = o.files /\ q.hidden \subseteq o.hidden \cup {p}
             /\ q.missing = o.missing
  BY DEF AddExcluded, Nil, Found

LEMMA MissingAdds ==
  ASSUME NEW o \in Found, NEW e
  PROVE  LET q == AddMissing(o, e).out
         IN  /\ q.files = o.files /\ q.hidden = o.hidden
             /\ q.missing = o.missing \cup {e}
  BY DEF AddMissing, Found

LEMMA NameRead ==
  ASSUME Inv, NEW p \in Path, ReadName(p)
  PROVE  Inv'
<1> DEFINE hidden  == Top.hidden \/ p \in excl
           outcome == NameOutcome(p, Top.hidden)
           s       == Append(Below, [Top EXCEPT !.read = @ \cup {p}])
           found   == CASE outcome = "file" /\ ~hidden -> AddFile(out, p, FALSE)
                        [] outcome = "file" /\ hidden  -> AddExcluded(out, p, FALSE)
                        [] outcome = "special"         -> SkipSpecial(out, p)
                        [] outcome = "boundary"        -> SkipBoundary(out, p)
                        [] OTHER                       -> Nil(out)
<1>1. /\ Below \in Seq(Frame) /\ FramesOK(Below) /\ Top \in Frame
      /\ Top.hidden = Hidden(Top.dir)
      /\ \A q \in Top.listed : Up[q] = Top.dir
  <2>1. stack \in Seq(Frame) /\ FramesOK(stack) /\ stack # <<>>
    BY DEF ReadName, Walking, Inv, TypeOK
  <2>2. Len(stack) \in DOMAIN stack /\ Below \in Seq(Frame) /\ FramesOK(Below)
    BY <2>1, FramesPop DEF Below
  <2>3. Top \in Frame
    BY <2>1, <2>2 DEF Top
  <2> QED BY <2>1, <2>2, <2>3 DEF FramesOK, Top
<1>2. Up[p] = Top.dir
  BY <1>1 DEF ReadName, Returnable, Listing, Inside
<1>3. hidden = Hidden(p)
  <2>1. excl \subseteq Path
    BY DEF Inv, TypeOK
  <2>2. hidden <=> Hidden(p)
    BY <1>1, <1>2, <2>1, HiddenBelow
  <2>3. hidden \in BOOLEAN /\ Hidden(p) \in BOOLEAN
    BY <1>1 DEF Frame, Hidden
  <2> QED BY <2>2, <2>3
<1>4. s \in Seq(Frame) /\ FramesOK(s)
  <2> DEFINE f == [Top EXCEPT !.read = @ \cup {p}]
  <2>1. f \in Frame /\ f.hidden = Top.hidden /\ f.dir = Top.dir /\ f.listed = Top.listed
    BY <1>1 DEF Frame
  <2> HIDE DEF f
  <2> QED BY <1>1, <2>1, FramesPush DEF f
<1>5. /\ out \in Found /\ FiniteOut(out) /\ Faithful(out) /\ TakenUp(out, next)
      /\ next \in Nat \ {0} /\ p \in Node
  BY DEF Inv, TypeOK, Node
<1>6. scanned' \in Nat
  BY DEF ReadName, Inv, TypeOK
<1>7. Good(found, next)
  <2>1. Keeping(out, found)
    BY <1>5, FileKeeps, ExcludedKeeps, SpecialKeeps, BoundaryKeeps, NilKeeps
  <2>2. Faithful(found.out) /\ found.out.missing = out.missing
    <3>1. CASE outcome = "file" /\ ~hidden
      <4>1. found = AddFile(out, p, FALSE)
        BY <3>1
      <4>2. ~Hidden(p)
        BY <1>3, <3>1
      <4> HIDE DEF found
      <4>3. /\ found.out.files = out.files \cup {p}
            /\ found.out.hidden = out.hidden
            /\ found.out.missing = out.missing
        BY <1>5, <4>1, FileAdds
      <4> QED BY <1>5, <4>2, <4>3 DEF Faithful
    <3>2. CASE outcome = "file" /\ hidden
      <4>1. found = AddExcluded(out, p, FALSE)
        BY <3>2
      <4>2. Hidden(p)
        BY <1>3, <3>2
      <4> HIDE DEF found
      <4>3. /\ found.out.files = out.files
            /\ found.out.hidden \subseteq out.hidden \cup {p}
            /\ found.out.missing = out.missing
        BY <1>5, <4>1, ExcludedAdds
      <4> QED BY <1>5, <4>2, <4>3 DEF Faithful
    <3>3. CASE outcome # "file"
      <4>1. \/ found = SkipSpecial(out, p)
            \/ found = SkipBoundary(out, p)
            \/ found = Nil(out)
        BY <3>3
      <4> HIDE DEF found
      <4> QED BY <1>5, <4>1, OthersAdd DEF Faithful, Same
    <3> QED BY <3>1, <3>2, <3>3
  <2> HIDE DEF found
  <2> QED BY <1>5, <2>1, <2>2 DEF Good, TakenUp
<1>8. Good(Nil(out), next) /\ Nil(out).out.visited = out.visited
  BY <1>5, NilKeeps DEF Good, Nil
<1>9. CASE Fail
  BY <1>6, <1>9, Fails
<1>10. CASE WalkDir(p, hidden, Top.depth + 1, Nil(out), next, s)
  <2>1. Top.depth + 1 \in Nat /\ hidden \in BOOLEAN
    BY <1>1 DEF Frame
  <2> HIDE DEF hidden, s
  <2> QED BY <1>3, <1>4, <1>5, <1>6, <1>8, <1>10, <2>1, Walks
<1>11. CASE GoOn(found, next, s)
  <2> HIDE DEF found, s
  <2> QED BY <1>4, <1>5, <1>6, <1>7, <1>11, GoesOn
<1> QED BY <1>9, <1>10, <1>11 DEF ReadName

LEMMA EntryAdded ==
  ASSUME Inv, AddEntry
  PROVE  Inv'
<1> DEFINE e       == asked[next]
           p       == e.path
           before  == WithParent(p)
           outcome == EntryOutcome(e)
           named   == e.origin = "named"
           found   == CASE outcome = "file" /\ ~Hidden(p) -> AddFile(before.out, p, named)
                        [] outcome = "file" /\ Hidden(p)  -> AddExcluded(before.out, p, named)
                        [] outcome = "missing"            -> AddMissing(before.out, e)
                        [] outcome = "special"            -> SkipSpecial(before.out, p)
                        [] outcome = "boundary"           -> SkipBoundary(before.out, p)
                        [] OTHER                          -> Nil(before.out)
<1>1. /\ out \in Found /\ FiniteOut(out) /\ Faithful(out) /\ TakenUp(out, next)
      /\ next \in Nat \ {0} /\ Kept(out) \in Nat /\ scanned' \in Nat
  BY KeptNat DEF Inv, TypeOK, AddEntry
<1>2. e \in Entry /\ e \notin out.missing
  BY FreshEntry DEF AddEntry
<1>3. p \in Node
  BY <1>2 DEF Entry
<1>4. /\ Keeping(out, before)
      /\ before.out.files = out.files /\ before.out.hidden = out.hidden
      /\ before.out.missing = out.missing /\ before.out.visited = out.visited
  <2>1. CASE p = Root
    BY <1>1, <2>1, NilKeeps DEF WithParent, Nil
  <2>2. CASE p # Root
    <3>1. Up[p] \in Node
      BY <1>3, <2>2, TreeAssumption DEF Node
    <3> QED BY <1>1, <2>2, <3>1, SweepKeeps, SweepAdds DEF WithParent, Same
  <2> QED BY <2>1, <2>2
<1>5. next + 1 \in Nat \ {0} /\ TakenUp(out, next + 1)
  BY <1>1 DEF TakenUp
<1>6. <<>> \in Seq(Frame) /\ FramesOK(<<>>)
  BY DEF FramesOK
<1>7. CASE Fail
  BY <1>1, <1>7, Fails
<1>8. CASE WalkDir(p, Hidden(p), 0, before, next + 1, <<>>)
  <2>1. Good(before, next + 1)
    BY <1>1, <1>4, <1>5 DEF Good, Faithful, TakenUp
  <2>2. Hidden(p) \in BOOLEAN
    BY DEF Hidden
  <2> HIDE DEF before
  <2> QED BY <1>1, <1>3, <1>4, <1>5, <1>6, <1>8, <2>1, <2>2, Walks
<1>9. CASE GoOn(Both(before, found), next + 1, <<>>)
  <2>1. before.out \in Found /\ FiniteOut(before.out) /\ named \in BOOLEAN
    BY <1>4 DEF Keeping
  <2> HIDE DEF before
  <2>2. Keeping(before.out, found)
    BY <1>2, <1>3, <1>4, <2>1, FileKeeps, ExcludedKeeps, MissingKeeps, SpecialKeeps,
       BoundaryKeeps, NilKeeps
  <2>3. Keeping(out, Both(before, found))
    BY <1>1, <1>4, <2>2, BothKeep
  <2>4. Faithful(found.out) /\ found.out.missing \subseteq out.missing \cup {e}
    <3>1. CASE outcome = "file" /\ ~Hidden(p)
      <4>1. found = AddFile(before.out, p, named)
        BY <3>1
      <4> HIDE DEF found, named
      <4> QED BY <1>1, <1>4, <2>1, <3>1, <4>1, FileAdds DEF Faithful
    <3>2. CASE outcome = "file" /\ Hidden(p)
      <4>1. found = AddExcluded(before.out, p, named)
        BY <3>2
      <4> HIDE DEF found, named
      <4> QED BY <1>1, <1>4, <2>1, <3>2, <4>1, ExcludedAdds DEF Faithful
    <3>3. CASE outcome = "missing"
      <4>1. found = AddMissing(before.out, e)
        BY <3>3
      <4> HIDE DEF found, e
      <4> QED BY <1>1, <1>4, <2>1, <4>1, MissingAdds DEF Faithful
    <3>4. CASE outcome \notin {"file", "missing"}
      <4>1. \/ found = SkipSpecial(before.out, p)
            \/ found = SkipBoundary(before.out, p)
            \/ found = Nil(before.out)
        BY <3>4
      <4> HIDE DEF found
      <4> QED BY <1>1, <1>4, <2>1, <4>1, OthersAdd DEF Faithful, Same
    <3> QED BY <3>1, <3>2, <3>3, <3>4
  <2>6. TakenUp(found.out, next + 1)
    BY <1>1, <1>5, <2>4 DEF TakenUp
  <2> HIDE DEF found
  <2>7. Good(Both(before, found), next + 1)
    BY <2>3, <2>4, <2>6 DEF Good, Both
  <2> DEFINE r == Both(before, found)
             n == next + 1
             s == <<>>
  <2>8. /\ n \in Nat \ {0} /\ s \in Seq(Frame) /\ FramesOK(s) /\ scanned' \in Nat
        /\ Good(r, n) /\ GoOn(r, n, s)
    BY <1>1, <1>5, <1>6, <1>9, <2>7
  <2> HIDE DEF r, n, s
  <2> QED BY <2>8, GoesOn
<1> QED BY <1>7, <1>8, <1>9 DEF AddEntry

-----------------------------------------------------------------------------
LEMMA Inductive == ASSUME Inv, [Next]_vars  PROVE Inv'
<1>1. CASE SkipRepeated
  BY <1>1, Skipped
<1>2. CASE AddEntry
  BY <1>2, EntryAdded
<1>3. ASSUME NEW p \in Path, ReadName(p)  PROVE Inv'
  BY <1>3, NameRead
<1>4. CASE CloseDir
  BY <1>4, Closed
<1>5. CASE Finish
  BY <1>5, Finished
<1>6. ASSUME NEW p \in Editable, NEW k \in Kinds, Change(p, k)  PROVE Inv'
  BY <1>6, Changed, NamesAssumption
<1>7. CASE UNCHANGED vars
  BY <1>7, Stuttered
<1> QED BY <1>1, <1>2, <1>3, <1>4, <1>5, <1>6, <1>7 DEF Next, Step

LEMMA Initially == ASSUME Init  PROVE Inv
<1>1. TypeOK
  BY NamesAssumption DEF Init, TypeOK, Nothing, Found, Node
<1>2. FramesOK(stack) /\ Faithful(out) /\ TakenUp(out, next)
  BY DEF Init, FramesOK, Faithful, TakenUp, Nothing
<1>3. FiniteOut(out)
  BY FS_EmptySet, FS_Singleton DEF Init, FiniteOut, Nothing
<1>4. ChargedInFull
  <2>1. /\ Cardinality(out.files) = 0 /\ Cardinality(out.hidden) = 0
        /\ Cardinality(out.missing) = 0 /\ Cardinality(out.visited) = 0
        /\ Cardinality(out.swept) = 1
    BY FS_EmptySet, FS_Singleton DEF Init, Nothing
  <2>2. Noted(out) = 0
    BY DEF Init, Nothing, Noted
  <2> QED BY <2>1, <2>2 DEF Init, ChargedInFull, Kept
<1> QED BY <1>1, <1>2, <1>3, <1>4 DEF Inv

LEMMA Always == Spec => []Inv
  BY Initially, Inductive, PTL DEF Spec

\* Every variable of an expansion keeps its type.
THEOREM SelectTypes == Spec => []TypeOK
  BY Always, PTL DEF Inv

\* On every tree, and whatever other programs do to it meanwhile, no excluded
\* file is selected, nor one that is not excluded set aside.
THEOREM ExcludedStaysOut == Spec => []HiddenNeverSelected
<1>1. Inv => HiddenNeverSelected
  BY DEF Inv, Faithful, HiddenNeverSelected
<1> QED BY <1>1, Always, PTL

\* On every tree all path strings that are kept have been charged for, so that
\* the budget bounds what an expansion keeps.
THEOREM BudgetHolds == Spec => []ChargedInFull
  BY Always, PTL DEF Inv

\* The frames of a stack.
FramesIn(s) == {s[i] : i \in DOMAIN s}

\* The names that walks have looked at: all of a directory when its listing has
\* ended, and those returned so far until then.
SeenIn(o, F) == {p \in Path : /\ Present(p)
                              /\ p \notin Respelled
                              /\ Up[p] \in o.visited
                              /\ \A f \in F : f.dir = Up[p] => p \in f.read}
Walked(k, S) == {p \in S : NameOutcome(p, Hidden(Up[p])) = k}

\* The paths of the entries before n that have outcome k.
Answered(k, n) ==
  {p \in Node : \E i \in 1..(n - 1) : asked[i].path = p /\ EntryOutcome(asked[i]) = k}

Got(k, S, n) == Walked(k, S) \cup Answered(k, n)

\* Of what nobody has disturbed, that has been found, and no more, which the
\* names looked at and the entries taken up yield; and none of them is refused.
Yields(o, S, n) ==
  \A p \in Node : Steady(p) =>
    /\ p \in o.visited <=> p \in Got("walk", S, n)
    /\ p \in o.files <=> p \in Got("file", S, n) /\ ~Hidden(p)
    /\ p \in o.hidden <=> p \in Got("file", S, n) /\ Hidden(p) /\ ~counting
Accepts(S, n) ==
  /\ \A p \in Walked("fail", S) : ~Steady(p)
  /\ \A i \in 1..(n - 1) :
        asked[i] \in Open /\ EntryOutcome(asked[i]) = "fail" => ~Steady(asked[i].path)

\* The directories on the stack are walked once, and what they list lies in them.
Distinct(s) == \A i, j \in DOMAIN s : s[i].dir = s[j].dir => i = j
Listed(o, F) ==
  \A f \in F : /\ f.dir \in o.visited
               /\ f.listed \cap Respelled = {}
               /\ \A p \in Listing(f.dir) : Steady(p) => p \in f.listed

\* What holds of the entries throughout.
Asked ==
  /\ \A e \in Entries : e.path # Root => Targetable(e.path)
  /\ \A e \in Entries : e.origin = "named" /\ Steady(e.path) => Mintable(e.path)
  /\ \A e \in Entries : e.origin = "managed" => ~Hidden(e.path)
  /\ \A e \in Entries : e.origin = "exclusion" => Hidden(e.path)
  /\ \A e, f \in Entries : Stored(e) = Stored(f)

Standing(o, n, s) ==
  /\ 1..(n - 1) \subseteq DOMAIN asked
  /\ Distinct(s)
  /\ Listed(o, FramesIn(s))
  /\ Yields(o, SeenIn(o, FramesIn(s)), n)
  /\ Accepts(SeenIn(o, FramesIn(s)), n)

SeenNow == SeenIn(out, FramesIn(stack))

SteadyInv ==
  /\ kind[Root] = "dir"
  /\ Asked
  /\ Standing(out, next, stack)
-----------------------------------------------------------------------------
\* The tree.  A set of paths that is not empty has a lowest member, which
\* stands in for an induction over the tree.
Rank(p) == Cardinality(Above[p])

LEMMA NodesFinite == IsFiniteSet(Node)
<1>1. IsFiniteSet(Path \cup {Root})
  BY SizeAssumption, FS_AddElement
<1> QED BY <1>1 DEF Node

LEMMA RankNat == ASSUME NEW p \in Node
                 PROVE  IsFiniteSet(Above[p]) /\ Rank(p) \in Nat
<1>1. Above[p] \in SUBSET Node
  BY TreeAssumption
<1>2. IsFiniteSet(Above[p])
  BY <1>1, NodesFinite, FS_Subset
<1> QED BY <1>2, FS_CardinalityType DEF Rank

LEMMA UpNode == ASSUME NEW p \in Path
                PROVE  /\ Up[p] \in Node /\ p \in Node /\ p # Root
                       /\ Above[p] = {Up[p]} \cup Above[Up[p]]
                       /\ Up[p] \in Above[p]
                       /\ Up[p] \notin Above[Up[p]]
  BY TreeAssumption DEF Node

LEMMA UpLower == ASSUME NEW p \in Path  PROVE Rank(p) = Rank(Up[p]) + 1
<1>1. IsFiniteSet(Above[Up[p]])
  BY UpNode, RankNat
<1>2. Cardinality(Above[Up[p]] \cup {Up[p]}) = Cardinality(Above[Up[p]]) + 1
  BY <1>1, UpNode, FS_AddElement
<1>3. Above[p] = Above[Up[p]] \cup {Up[p]}
  BY UpNode
<1> QED BY <1>2, <1>3 DEF Rank

LEMMA Lowest ==
  ASSUME NEW S \in SUBSET Node, S # {}
  PROVE  \E p \in S : \A q \in S : Rank(p) <= Rank(q)
<1> DEFINE T == {Rank(p) : p \in S}
<1>1. T \subseteq Nat /\ T # {}
  BY RankNat
<1>2. IsWellFoundedOn(OpToRel(<, Nat), Nat)
  BY NatLessThanWellFounded
<1>3. PICK m \in T : \A n \in T : <<n, m>> \notin OpToRel(<, Nat)
  <2> HIDE DEF T
  <2> QED BY <1>1, <1>2, WFMin
<1>4. \A n \in T : ~ (n < m)
  BY <1>1, <1>3 DEF OpToRel
<1>5. \A n \in T : m <= n
  BY <1>1, <1>4
<1> QED BY <1>5

\* No least counterexample, so none.
LEMMA UpMinimal ==
  ASSUME NEW S \in SUBSET Node,
         \A p \in S : p = Root \/ Up[p] \in S
  PROVE  S = {} \/ Root \in S
<1> SUFFICES ASSUME S # {}, Root \notin S  PROVE FALSE
  OBVIOUS
<1>1. PICK p \in S : \A q \in S : Rank(p) <= Rank(q)
  BY Lowest
<1>2. p \in Path /\ Up[p] \in S
  BY <1>1 DEF Node
<1>3. Rank(p) = Rank(Up[p]) + 1 /\ Rank(Up[p]) \in Nat /\ Rank(p) <= Rank(Up[p])
  BY <1>1, <1>2, UpLower, RankNat, UpNode
<1> QED BY <1>3

LEMMA AboveTransitive ==
  ASSUME NEW p \in Node, NEW q \in Above[p]
  PROVE  Above[q] \subseteq Above[p]
<1> DEFINE S == {r \in Node : \E a \in Above[r] : ~(Above[a] \subseteq Above[r])}
<1>1. \A r \in S : r # Root
  BY TreeAssumption
<1>2. ASSUME NEW r \in S  PROVE Up[r] \in S
  <2>1. r \in Path
    BY <1>1 DEF Node
  <2> QED BY <2>1, UpNode
<1>3. S = {} \/ Root \in S
  <2> HIDE DEF S
  <2>1. S \subseteq Node
    BY DEF S
  <2> QED BY <1>2, <2>1, UpMinimal
<1> QED BY <1>1, <1>3

LEMMA CoversTransitive ==
  ASSUME NEW a \in Node, NEW b \in Node, NEW p \in Node, Covers(a, b), Covers(b, p)
  PROVE  Covers(a, p)
  BY AboveTransitive DEF Covers

LEMMA CoversOnce ==
  ASSUME NEW a \in Node, NEW p \in Node, Covers(a, p), Covers(p, a)
  PROVE  a = p
  BY AboveTransitive, TreeAssumption DEF Covers

LEMMA CoversUp ==
  ASSUME NEW p \in Path, NEW b \in Node
  PROVE  Covers(b, p) <=> b = p \/ Covers(b, Up[p])
  BY UpNode DEF Covers

LEMMA AboveComparable ==
  ASSUME NEW p \in Node, NEW a \in Above[p], NEW b \in Above[p]
  PROVE  Covers(a, b) \/ Covers(b, a)
<1> DEFINE S == {r \in Node : \E x, y \in Above[r] : ~Covers(x, y) /\ ~Covers(y, x)}
<1>1. \A r \in S : r # Root
  BY TreeAssumption
<1>2. ASSUME NEW r \in S  PROVE Up[r] \in S
  <2>1. r \in Path
    BY <1>1 DEF Node
  <2> QED BY <2>1, UpNode DEF Covers
<1>3. S = {} \/ Root \in S
  <2> HIDE DEF S
  <2>1. S \subseteq Node
    BY DEF S
  <2> QED BY <1>2, <2>1, UpMinimal
<1> QED BY <1>1, <1>3
-----------------------------------------------------------------------------
\* The way from an entry down to what is beneath it.
LEMMA WayUp ==
  ASSUME NEW p \in Path, NEW b \in Node, Covers(b, Up[p])
  PROVE  /\ Way(b, p) = Way(b, Up[p]) \cup {p}
         /\ p \notin Way(b, Up[p])
         /\ b # p /\ Covers(b, p)
<1>1. Up[p] \in Node /\ p \in Node
  BY UpNode
<1>2. Covers(b, p)
  BY CoversUp
<1>3. ~Covers(p, Up[p])
  <2> SUFFICES ASSUME Covers(p, Up[p])  PROVE FALSE
    OBVIOUS
  <2>1. Covers(Up[p], p)
    BY UpNode DEF Covers
  <2>2. p = Up[p]
    BY <1>1, <2>1, CoversOnce
  <2> QED BY <2>2, UpNode
<1>4. \A q \in Node : Covers(q, p) <=> q = p \/ Covers(q, Up[p])
  BY CoversUp
<1> QED BY <1>1, <1>2, <1>3, <1>4 DEF Way

LEMMA WayItself ==
  ASSUME NEW p \in Node
  PROVE  Way(p, p) = {p} /\ Covers(p, p)
<1>1. \A q \in Way(p, p) : q = p
  BY CoversOnce DEF Way
<1> QED BY <1>1 DEF Way, Covers

LEMMA ReachedItself ==
  ASSUME NEW p \in Node
  PROVE  Reached(p, p)
  BY WayItself DEF Reached

LEMMA WayEnds ==
  ASSUME NEW b \in Node, NEW p \in Node, Covers(b, p)
  PROVE  b \in Way(b, p) /\ p \in Way(b, p)
  BY DEF Way, Covers

\* What is reached beneath b, one level at a time.
LEMMA ReachedBelow ==
  ASSUME NEW p \in Path, NEW b \in Node, Covers(b, Up[p])
  PROVE  Reached(b, p) <=> /\ Reached(b, Up[p])
                           /\ Enterable(Up[p])
                           /\ Present(p) /\ p \notin Git \cup Respelled
                           /\ Up[p] = b \/ Up[p] \notin Odd
<1>0. Up[p] \in Node /\ p \in Node
  BY UpNode
<1> DEFINE W == Way(b, Up[p])
<1>1. /\ Way(b, p) = W \cup {p} /\ p \notin W /\ b # p /\ Covers(b, p)
      /\ Up[p] \in W /\ b \in W
  BY <1>0, WayUp, WayEnds
<1> HIDE DEF W
<1>2. /\ Way(b, p) \ {p} = (W \ {Up[p]}) \cup {Up[p]}
      /\ Way(b, p) \ {b} = (W \ {b}) \cup {p}
      /\ Way(b, p) \ {b, p} = (W \ {b, Up[p]}) \cup ({Up[p]} \ {b})
  BY <1>1
<1>3. Reached(b, p) <=> /\ \A q \in W \ {Up[p]} : Enterable(q)
                        /\ Enterable(Up[p])
                        /\ \A q \in W \ {b} : Present(q) /\ q \notin Git \cup Respelled
                        /\ Present(p) /\ p \notin Git \cup Respelled
                        /\ \A q \in W \ {b, Up[p]} : q \notin Odd
                        /\ Up[p] # b => Up[p] \notin Odd
  BY <1>1, <1>2 DEF Reached
<1>4. Reached(b, Up[p]) <=> /\ \A q \in W \ {Up[p]} : Enterable(q)
                            /\ \A q \in W \ {b} : Present(q) /\ q \notin Git \cup Respelled
                            /\ \A q \in W \ {b, Up[p]} : q \notin Odd
  BY DEF Reached, W
<1> QED BY <1>3, <1>4

-----------------------------------------------------------------------------
\* What other programs do leaves steady paths, and what these lie in, alone.
LEMMA SteadyUp ==
  ASSUME NEW p \in Node, NEW q \in Node, Covers(q, p), Steady(p), touched \subseteq Path
  PROVE  Steady(q)
<1>1. ASSUME NEW t \in touched
      PROVE  /\ ~Covers(t, q)
             /\ t \in Git \cup ConfigName => ~Covers(Up[t], q)
  <2>1. t \in Node /\ Up[t] \in Node
    BY <1>1, UpNode
  <2> QED BY <2>1, CoversTransitive DEF Steady
<1> QED BY <1>1 DEF Steady

\* The same file, directory or nothing, and as much a repository or a domain.
Unmoved(q) == /\ kind'[q] = kind[q]
              /\ Present(q)' = Present(q)
              /\ IsRepo(q)' = IsRepo(q)
              /\ HasConfig(q)' = HasConfig(q)

LEMMA SteadyUnmoved ==
  ASSUME Inv, NEW t \in Path, NEW k \in Kinds, Change(t, k),
         NEW p \in Node, Steady(p)'
  PROVE  /\ Steady(p)
         /\ \A q \in Node : Covers(q, p) => Unmoved(q)
<1>1. touched' = touched \cup {t} /\ kind' = [kind EXCEPT ![t] = k]
  BY DEF Change
<1>2. kind \in [Node -> Kinds]
  BY DEF Inv, TypeOK
<1>3. Steady(p)
  BY <1>1 DEF Steady, Covers
<1>4. ~Covers(t, p) /\ (t \in Git \cup ConfigName => ~Covers(Up[t], p))
  BY <1>1 DEF Steady, Covers
<1>5. ASSUME NEW q \in Node, Covers(q, p)  PROVE Unmoved(q)
  <2>1. q # t /\ kind'[q] = kind[q]
    BY <1>1, <1>2, <1>4, <1>5
  <2>2. \A x \in Path : x # t => kind'[x] = kind[x]
    BY <1>1, <1>2 DEF Node
  <2>3. t \in Git \cup ConfigName => Up[t] # q
    BY <1>4, <1>5
  <2>4. \A x \in Path : x \in Git \cup ConfigName /\ Up[x] = q => kind'[x] = kind[x]
    BY <2>2, <2>3
  <2>5. /\ Inside(q)' \cap Git = Inside(q) \cap Git
        /\ Inside(q)' \cap ConfigName = Inside(q) \cap ConfigName
    BY <2>4 DEF Inside, Present
  <2> QED BY <2>1, <2>5 DEF Unmoved, IsRepo, HasConfig, Present
<1> QED BY <1>3, <1>5
-----------------------------------------------------------------------------
\* Nothing bars the way to an entry, as far as taking it up can tell.
Clear(e) ==
  IF Stored(e) THEN Barriers(e.path) = {}
  ELSE \A a \in Above[e.path] : kind[a] \notin {"file", "fifo"}

LEMMA EntryCases ==
  ASSUME NEW e \in Entry, kind[e.path] \in Kinds
  PROVE  /\ ~Clear(e) => EntryOutcome(e) \in {"fail", "ignore"}
         /\ ~Clear(e) /\ ~Stored(e) => EntryOutcome(e) = "fail"
         /\ Clear(e) =>
              /\ kind[e.path] = "absent" =>
                   EntryOutcome(e) = IF e.origin = "exclusion" THEN "ignore" ELSE "missing"
              /\ kind[e.path] = "dir" => EntryOutcome(e) = DirOutcome(e)
              /\ kind[e.path] = "file" => EntryOutcome(e) = "file"
              /\ kind[e.path] \in {"symlink", "fifo"} =>
                   EntryOutcome(e) = IF Hidden(e.path) THEN "ignore"
                                     ELSE IF Stored(e) THEN "special" ELSE "fail"
<1> DEFINE p == e.path
           b == CHOOSE x \in Topmost(p) : TRUE
<1>1. BlockedOutcome(e, b) \in {"fail", "ignore"}
  BY DEF BlockedOutcome
<1>2. CASE ~Clear(e) /\ Stored(e)
  <2>1. EntryOutcome(e) = BlockedOutcome(e, b)
    BY <1>2 DEF EntryOutcome, Clear
  <2> QED BY <1>1, <1>2, <2>1
<1>3. CASE ~Clear(e) /\ ~Stored(e)
  <2>1. EntryOutcome(e) = "fail"
    BY <1>3 DEF EntryOutcome, Clear
  <2> QED BY <1>3, <2>1
<1>4. CASE Clear(e)
  BY <1>4 DEF EntryOutcome, Clear, Kinds
<1> QED BY <1>2, <1>3, <1>4

LEMMA DirCases ==
  ASSUME NEW e
  PROVE  /\ DirOutcome(e) \in {"ignore", "boundary", "fail", "walk"}
         /\ DirOutcome(e) = "walk"
              <=> e.path = Root \/ (~IsRepo(e.path) /\ ~HasConfig(e.path))
         /\ DirOutcome(e) = "boundary"
              <=> e.path # Root /\ IsRepo(e.path) /\ ~Hidden(e.path) /\ e.origin = "managed"
  BY DEF DirOutcome

LEMMA EntryStays ==
  ASSUME NEW e \in Entry, excl' = excl, kind \in [Node -> Kinds],
         \A q \in Node : Covers(q, e.path) => Unmoved(q)
  PROVE  /\ (e.origin = "named" \/ Barriers(e.path) = {})'
              = (e.origin = "named" \/ Barriers(e.path) = {})
         /\ \A k \in {"walk", "file"} : EntryOutcome(e)' = k <=> EntryOutcome(e) = k
         /\ e.origin = "named" \/ Barriers(e.path) = {} =>
              (EntryOutcome(e)' = "fail" <=> EntryOutcome(e) = "fail")
<1> DEFINE p == e.path
<1>1. p \in Node /\ Above[p] \subseteq Node
  BY TreeAssumption DEF Entry
<1>2. Unmoved(p) /\ \A a \in Above[p] : Unmoved(a)
  BY <1>1 DEF Covers
<1>3. Barriers(p)' = Barriers(p)
  BY <1>2 DEF Barriers, Unmoved
<1>4. Hidden(p)' = Hidden(p)
  BY DEF Hidden
<1>5. DirOutcome(e)' = DirOutcome(e)
  BY <1>2, <1>4 DEF DirOutcome, Unmoved
<1>6. kind[p] \in Kinds /\ kind'[p] = kind[p]
  BY <1>1, <1>2 DEF Unmoved
<1>7. e.origin \in {"managed", "exclusion", "named"}
  BY DEF Entry
<1>8. CASE Stored(e) /\ Barriers(p) # {}
  <2>1. EntryOutcome(e) \in {"fail", "ignore"}
    BY <1>6, <1>8, EntryCases DEF Clear
  <2>2. EntryOutcome(e)' \in {"fail", "ignore"}
    BY <1>3, <1>8 DEF EntryOutcome, BlockedOutcome
  <2> QED BY <1>3, <1>8, <2>1, <2>2 DEF Stored
<1>9. CASE ~Stored(e) /\ \E a \in Above[p] : kind[a] \in {"file", "fifo"}
  <2>1. EntryOutcome(e) = "fail"
    BY <1>6, <1>9, EntryCases DEF Clear
  <2>2. \E a \in Above[p] : kind'[a] \in {"file", "fifo"}
    BY <1>2, <1>9 DEF Unmoved
  <2>3. EntryOutcome(e)' = "fail"
    BY <1>9, <2>2 DEF EntryOutcome
  <2> QED BY <1>3, <2>1, <2>3
<1>10. CASE Clear(e)
  <2>1. /\ ~(Stored(e) /\ Barriers(p)' # {})
        /\ ~(~Stored(e) /\ \E a \in Above[p] : kind'[a] \in {"file", "fifo"})
    BY <1>2, <1>3, <1>10 DEF Clear, Unmoved
  <2>2. /\ ~(Stored(e) /\ Barriers(p) # {})
        /\ ~(~Stored(e) /\ \E a \in Above[p] : kind[a] \in {"file", "fifo"})
    BY <1>10 DEF Clear
  <2>3. EntryOutcome(e)' = EntryOutcome(e)
    BY <1>4, <1>5, <1>6, <2>1, <2>2 DEF EntryOutcome, Kinds
  <2> QED BY <1>3, <2>3
<1> QED BY <1>8, <1>9, <1>10 DEF Clear

LEMMA EntryAt ==
  ASSUME Inv, NEW i \in DOMAIN asked
  PROVE  asked[i] \in Entry /\ asked[i] \in Entries /\ asked[i].path \in Node
<1>1. asked \in Seq(Entry)
  BY DEF Inv, TypeOK
<1>2. asked[i] \in Entry
  BY <1>1
<1> QED BY <1>2 DEF Entry, Entries

LEMMA EntryTyped == ASSUME Inv, NEW e \in Entries  PROVE e \in Entry /\ e.path \in Node
<1>1. PICK i \in DOMAIN asked : e = asked[i]
  BY DEF Entries
<1> QED BY <1>1, EntryAt

LEMMA StandingStays ==
  ASSUME Inv, SteadyInv, NEW t \in Path, NEW k \in Kinds, Change(t, k)
  PROVE  SteadyInv'
<1>1. /\ UNCHANGED <<excl, asked, counting, limits, next, stack, out>>
      /\ kind' = [kind EXCEPT ![t] = k] /\ kind \in [Node -> Kinds]
      /\ t # Root
  BY TreeAssumption DEF Change, given, Inv, TypeOK
<1>2. ASSUME NEW p \in Node, Steady(p)'
      PROVE  Steady(p) /\ Unmoved(p) /\ \A q \in Node : Covers(q, p) => Unmoved(q)
  BY <1>2, SteadyUnmoved DEF Covers
<1>3. kind'[Root] = "dir" /\ (1..(next - 1) \subseteq DOMAIN asked)'
  <2>1. Root \in Node
    BY DEF Node
  <2> QED BY <1>1, <2>1 DEF SteadyInv, Standing
<1>4. Asked'
  <2>1. Entries' = Entries
    BY <1>1 DEF Entries
  <2>2. ASSUME NEW e \in Entries, e.origin = "named", Steady(e.path)'
        PROVE  Mintable(e.path)'
    <3>1. e.path \in Node
      BY EntryTyped
    <3>2. Mintable(e.path) /\ \A q \in Node : Covers(q, e.path) => Unmoved(q)
      BY <1>2, <2>2, <3>1 DEF SteadyInv, Asked
    <3>3. Unmoved(e.path) /\ \A a \in Above[e.path] : Unmoved(a)
      BY <3>1, <3>2, TreeAssumption DEF Covers
    <3>4. Barriers(e.path)' = Barriers(e.path)
      BY <3>3 DEF Barriers, Unmoved
    <3>5. \A q \in Respelled : Covers(q, e.path) => ~Present(q)'
                                                     \/ e.path = Root \/ Present(q)
      <4>1. Respelled \subseteq Node
        BY NamesAssumption DEF Node
      <4> QED BY <3>2, <4>1 DEF Unmoved
    <3> QED BY <3>2, <3>3, <3>4, <3>5 DEF Mintable, Unmoved, Covers, Targetable
  <2> QED BY <1>1, <2>1, <2>2 DEF SteadyInv, Asked, Hidden
<1>5. Distinct(stack)' /\ Listed(out, FramesIn(stack))'
  <2>1. ASSUME NEW d, NEW p \in Listing(d)', Steady(p)'
        PROVE  p \in Listing(d) /\ Steady(p)
    <3>1. p \in Path /\ p \in Node
      BY <2>1 DEF Listing, Inside, Node
    <3>2. Unmoved(p) /\ Steady(p)
      BY <1>2, <2>1, <3>1
    <3> QED BY <2>1, <3>2 DEF Listing, Inside, Unmoved
  <2> QED BY <1>1, <2>1 DEF SteadyInv, Standing, Distinct, Listed, FramesIn
<1>6. ASSUME NEW p \in Path, Steady(p)'
      PROVE  /\ (p \in SeenNow)' = (p \in SeenNow)
             /\ NameOutcome(p, Hidden(Up[p]))' = NameOutcome(p, Hidden(Up[p]))
  <2>1. Unmoved(p)
    BY <1>2, <1>6 DEF Node
  <2>2. Hidden(Up[p])' = Hidden(Up[p])
    BY <1>1 DEF Hidden
  <2>3. NameOutcome(p, Hidden(Up[p]))' = NameOutcome(p, Hidden(Up[p]))
    BY <1>1, <2>1, <2>2 DEF NameOutcome, Unmoved
  <2> QED BY <1>1, <2>1, <2>3 DEF SeenNow, SeenIn, FramesIn, Unmoved
<1>7. ASSUME NEW i \in 1..(next - 1), Steady(asked[i].path)'
      PROVE  /\ asked[i] \in Entry /\ asked[i] \in Entries
             /\ Steady(asked[i].path)
             /\ (asked[i] \in Open)' = (asked[i] \in Open)
             /\ \A o \in {"walk", "file"} :
                  EntryOutcome(asked[i])' = o <=> EntryOutcome(asked[i]) = o
             /\ asked[i] \in Open =>
                  (EntryOutcome(asked[i])' = "fail" <=> EntryOutcome(asked[i]) = "fail")
  <2> DEFINE e == asked[i]
  <2>1. e \in Entry /\ e.path \in Node /\ e \in Entries
    BY EntryAt DEF SteadyInv, Standing
  <2>2. Steady(e.path) /\ \A q \in Node : Covers(q, e.path) => Unmoved(q)
    <3>1. PICK p \in Node : p = e.path
      BY <2>1
    <3>2. Steady(p)'
      BY <1>1, <1>7, <3>1 DEF Steady, Covers
    <3>3. Steady(p) /\ \A q \in Node : Covers(q, p) => Unmoved(q)
      BY <1>2, <3>2
    <3> QED BY <3>1, <3>3
  <2>3. e' = e /\ Entries' = Entries
    BY <1>1 DEF Entries
  <2>4. /\ (e.origin = "named" \/ Barriers(e.path) = {})'
              = (e.origin = "named" \/ Barriers(e.path) = {})
        /\ \A o \in {"walk", "file"} : EntryOutcome(e)' = o <=> EntryOutcome(e) = o
        /\ e.origin = "named" \/ Barriers(e.path) = {} =>
              (EntryOutcome(e)' = "fail" <=> EntryOutcome(e) = "fail")
    BY <1>1, <2>1, <2>2, <2>3, EntryStays
  <2>5. (asked[i] \in Open) = (e.origin = "named" \/ Barriers(e.path) = {})
    BY <2>1 DEF Open
  <2>6. (asked[i] \in Open)' = (e.origin = "named" \/ Barriers(e.path) = {})'
    BY <2>1, <2>3 DEF Open
  <2> HIDE DEF e
  <2>7. (asked[i] \in Open)' = (asked[i] \in Open)
    BY <2>4, <2>5, <2>6
  <2> QED BY <2>1, <2>2, <2>4, <2>5, <2>7 DEF e
<1>8. ASSUME NEW p \in Node, Steady(p)', NEW o \in {"walk", "file"}
      PROVE  (p \in Got(o, SeenNow, next))' <=> p \in Got(o, SeenNow, next)
  <2>1. (p \in Walked(o, SeenNow))' <=> p \in Walked(o, SeenNow)
    <3>1. SeenNow \subseteq Path /\ SeenNow' \subseteq Path
      BY DEF SeenNow, SeenIn
    <3> QED BY <1>6, <1>8, <3>1 DEF Walked
  <2>2. (p \in Answered(o, next))' <=> p \in Answered(o, next)
    BY <1>1, <1>7, <1>8 DEF Answered
  <2> QED BY <2>1, <2>2 DEF Got
<1>9. Yields(out, SeenNow, next)'
  <2>1. ASSUME NEW p \in Node, Steady(p)'
        PROVE  /\ p \in out.visited <=> (p \in Got("walk", SeenNow, next))'
               /\ p \in out.files <=> (p \in Got("file", SeenNow, next))' /\ ~Hidden(p)
               /\ p \in out.hidden <=> /\ (p \in Got("file", SeenNow, next))'
                                       /\ Hidden(p) /\ ~counting
    BY <1>2, <1>8, <2>1 DEF SteadyInv, Standing, Yields, SeenNow
  <2>2. \A p : Hidden(p)' = Hidden(p)
    BY <1>1 DEF Hidden
  <2> QED BY <1>1, <2>1, <2>2 DEF Yields
<1>10. Accepts(SeenNow, next)'
  <2>1. ASSUME NEW p \in Walked("fail", SeenNow)', Steady(p)'  PROVE FALSE
    <3>1. p \in Path
      BY <2>1 DEF Walked, SeenNow, SeenIn
    <3>2. p \in Walked("fail", SeenNow) /\ Steady(p)
      BY <1>2, <1>6, <2>1, <3>1 DEF Walked, Node
    <3> QED BY <3>2 DEF SteadyInv, Standing, Accepts, SeenNow
  <2>2. ASSUME NEW i \in 1..(next - 1), (asked[i] \in Open)',
               EntryOutcome(asked[i])' = "fail", Steady(asked[i].path)'
        PROVE  FALSE
    BY <1>7, <2>2 DEF SteadyInv, Standing, Accepts, SeenNow
  <2> QED BY <1>1, <2>1, <2>2 DEF Accepts
<1> QED BY <1>3, <1>4, <1>5, <1>9, <1>10 DEF SteadyInv, Standing, SeenNow
-----------------------------------------------------------------------------
\* The frames of a stack that has grown, or of which the innermost is left.
LEMMA PushFrames ==
  ASSUME NEW s \in Seq(Frame), NEW f \in Frame, Distinct(s),
         \A g \in FramesIn(s) : g.dir # f.dir
  PROVE  /\ Append(s, f) \in Seq(Frame)
         /\ FramesIn(Append(s, f)) = FramesIn(s) \cup {f}
         /\ Distinct(Append(s, f))
<1> DEFINE t == Append(s, f)
           m == Len(s) + 1
<1>1. /\ t \in Seq(Frame)
      /\ DOMAIN t = DOMAIN s \cup {m}
      /\ \A i \in DOMAIN s : t[i] = s[i]
      /\ t[m] = f /\ m \notin DOMAIN s
  <2>1. /\ t \in Seq(Frame)
        /\ DOMAIN t = 1..(Len(s) + 1)
        /\ \A i \in 1..Len(s) : t[i] = s[i]
        /\ t[Len(s) + 1] = f
        /\ DOMAIN s = 1..Len(s) /\ Len(s) \in Nat
    OBVIOUS
  <2>2. 1..(Len(s) + 1) = 1..Len(s) \cup {Len(s) + 1} /\ Len(s) + 1 \notin 1..Len(s)
    BY <2>1
  <2> QED BY <2>1, <2>2
<1> HIDE DEF t, m
<1>2. FramesIn(t) = FramesIn(s) \cup {f}
  BY <1>1 DEF FramesIn
<1>3. \A i \in DOMAIN s : s[i].dir # f.dir
  BY DEF FramesIn
<1>4. Distinct(t)
  BY <1>1, <1>3 DEF Distinct
<1> QED BY <1>1, <1>2, <1>4 DEF t

LEMMA PopFrames ==
  ASSUME NEW s \in Seq(Frame), s # <<>>, Distinct(s)
  PROVE  LET b == SubSeq(s, 1, Len(s) - 1)
             f == s[Len(s)]
         IN  /\ b \in Seq(Frame) /\ Distinct(b) /\ f \in Frame
             /\ FramesIn(s) = FramesIn(b) \cup {f}
             /\ \A g \in FramesIn(b) : g.dir # f.dir
<1> DEFINE b == SubSeq(s, 1, Len(s) - 1)
           m == Len(s)
<1>1. m \in Nat \ {0} /\ DOMAIN s = 1..m
  OBVIOUS
<1>2. /\ b \in Seq(Frame)
      /\ DOMAIN b = 1..(m - 1)
      /\ \A i \in 1..(m - 1) : b[i] = s[i]
  BY <1>1
<1>3. 1..m = 1..(m - 1) \cup {m} /\ m \notin 1..(m - 1)
  <2> HIDE DEF m
  <2> QED BY <1>1
<1> HIDE DEF b, m
<1>4. /\ DOMAIN s = DOMAIN b \cup {m} /\ m \notin DOMAIN b /\ m \in DOMAIN s
      /\ \A i \in DOMAIN b : b[i] = s[i]
  BY <1>1, <1>2, <1>3
<1>5. FramesIn(s) = FramesIn(b) \cup {s[m]}
  BY <1>4 DEF FramesIn
<1>6. Distinct(b) /\ \A g \in FramesIn(b) : g.dir # s[m].dir
  BY <1>4 DEF Distinct, FramesIn
<1>7. s[m] \in Frame
  BY <1>4
<1> QED BY <1>2, <1>5, <1>6, <1>7 DEF b, m

\* With a name that the listing has returned.
Seeing(S, p) == S \cup {q \in {p} : Present(q)}

\* A directory that has been opened adds nothing to what has been seen.
LEMMA SeenOpen ==
  ASSUME NEW o, NEW q, NEW F, NEW f, f.dir \notin o.visited,
         q.visited = o.visited \cup {f.dir}, f.read = {},
         \A g \in F : g.dir \in o.visited
  PROVE  SeenIn(q, F \cup {f}) = SeenIn(o, F)
  BY DEF SeenIn

LEMMA SeenSame ==
  ASSUME NEW o, NEW q, NEW F, q.visited = o.visited
  PROVE  SeenIn(q, F) = SeenIn(o, F)
  BY DEF SeenIn

-----------------------------------------------------------------------------
\* What taking up p with outcome k adds to what was found.
Took(o, q, p, k) ==
  /\ q.visited = IF k = "walk" THEN o.visited \cup {p} ELSE o.visited
  /\ q.files = IF k = "file" /\ ~Hidden(p) THEN o.files \cup {p} ELSE o.files
  /\ q.hidden = IF k = "file" /\ Hidden(p) /\ ~counting THEN o.hidden \cup {p} ELSE o.hidden

LEMMA WalkedMore ==
  ASSUME NEW S, NEW p, NEW k, k = NameOutcome(p, Hidden(Up[p])),
         NEW j
  PROVE  j # "pass" => Walked(j, Seeing(S, p))
           = Walked(j, S) \cup (IF j = k THEN {p} ELSE {})
<1>1. CASE Present(p)
  BY <1>1 DEF Walked, Seeing
<1>2. CASE ~Present(p) /\ j # "pass"
  <2>1. k = "pass"
    BY <1>2 DEF NameOutcome
  <2> QED BY <1>2, <2>1 DEF Walked, Seeing
<1> QED BY <1>1, <1>2

LEMMA AnsweredMore ==
  ASSUME NEW n \in Nat \ {0}, asked[n].path \in Node, NEW j
  PROVE  Answered(j, n + 1) = Answered(j, n)
           \cup (IF j = EntryOutcome(asked[n]) THEN {asked[n].path} ELSE {})
<1>1. 1..((n + 1) - 1) = 1..(n - 1) \cup {n}
  OBVIOUS
<1> QED BY <1>1 DEF Answered

LEMMA NameYields ==
  ASSUME NEW o, NEW q, NEW S, NEW n, NEW p, NEW k,
         k = NameOutcome(p, Hidden(Up[p])), Took(o, q, p, k), Yields(o, S, n)
  PROVE  Yields(q, Seeing(S, p), n)
<1> DEFINE T == Seeing(S, p)
<1>0. ASSUME NEW j, j # "pass"
      PROVE  Walked(j, T) = Walked(j, S) \cup (IF j = k THEN {p} ELSE {})
  BY <1>0, WalkedMore
<1> HIDE DEF T
<1>1. /\ Walked("walk", T) = Walked("walk", S) \cup (IF "walk" = k THEN {p} ELSE {})
      /\ Walked("file", T) = Walked("file", S) \cup (IF "file" = k THEN {p} ELSE {})
  BY <1>0
<1>2. /\ Got("walk", T, n) = Got("walk", S, n) \cup (IF "walk" = k THEN {p} ELSE {})
      /\ Got("file", T, n) = Got("file", S, n) \cup (IF "file" = k THEN {p} ELSE {})
  BY <1>1 DEF Got
<1>3. Yields(q, T, n)
  BY <1>2 DEF Yields, Took
<1> QED BY <1>3 DEF T

LEMMA EntryYields ==
  ASSUME NEW o, NEW q, NEW S, NEW n \in Nat \ {0}, asked[n].path \in Node,
         Took(o, q, asked[n].path, EntryOutcome(asked[n])), Yields(o, S, n)
  PROVE  Yields(q, S, n + 1)
<1> DEFINE p == asked[n].path
           k == EntryOutcome(asked[n])
           m == n + 1
<1>1. /\ Answered("walk", m) = Answered("walk", n) \cup (IF "walk" = k THEN {p} ELSE {})
      /\ Answered("file", m) = Answered("file", n) \cup (IF "file" = k THEN {p} ELSE {})
  BY AnsweredMore
<1>0. Took(o, q, p, k)
  OBVIOUS
<1> HIDE DEF m, p, k
<1>2. /\ Got("walk", S, m) = Got("walk", S, n) \cup (IF "walk" = k THEN {p} ELSE {})
      /\ Got("file", S, m) = Got("file", S, n) \cup (IF "file" = k THEN {p} ELSE {})
  BY <1>1 DEF Got
<1>3. Yields(q, S, m)
  BY <1>0, <1>2 DEF Yields, Took
<1> QED BY <1>3 DEF m

LEMMA NameAccepted ==
  ASSUME NEW S, NEW n, NEW p, Accepts(S, n), NameOutcome(p, Hidden(Up[p])) # "fail"
  PROVE  Accepts(Seeing(S, p), n)
  BY DEF Accepts, Walked, Seeing

LEMMA EntryAccepted ==
  ASSUME NEW S, NEW n \in Nat \ {0}, Accepts(S, n), EntryOutcome(asked[n]) # "fail"
  PROVE  Accepts(S, n + 1)
<1>1. 1..((n + 1) - 1) = 1..(n - 1) \cup {n}
  OBVIOUS
<1> QED BY <1>1 DEF Accepts
-----------------------------------------------------------------------------
\* What a step of the expansion itself leaves alone.
LEMMA SameWorld ==
  ASSUME UNCHANGED <<world, given>>
  PROVE  /\ \A p : Steady(p)' = Steady(p)
         /\ \A p : Hidden(p)' = Hidden(p)
         /\ \A d : Listing(d)' = Listing(d)
         /\ \A p, b : NameOutcome(p, b)' = NameOutcome(p, b)
         /\ \A e : EntryOutcome(e)' = EntryOutcome(e)
         /\ Open' = Open
         /\ \A p : Mintable(p)' = Mintable(p)
<1>1. /\ kind' = kind /\ touched' = touched /\ excl' = excl /\ asked' = asked
  BY DEF world, given
<1>2. \A p : Hidden(p)' = Hidden(p)
  BY <1>1 DEF Hidden
<1>3. /\ \A d : Inside(d)' = Inside(d) /\ IsRepo(d)' = IsRepo(d) /\ HasConfig(d)' = HasConfig(d)
      /\ \A p : Present(p)' = Present(p)
  BY <1>1 DEF Inside, IsRepo, HasConfig, Present
<1>4. \A p : Barriers(p)' = Barriers(p) /\ Topmost(p)' = Topmost(p)
  BY <1>1, <1>3 DEF Barriers, Topmost
<1>5. \A e : DirOutcome(e)' = DirOutcome(e)
  BY <1>2, <1>3 DEF DirOutcome
<1>6. \A e : EntryOutcome(e)' = EntryOutcome(e)
  <2> SUFFICES ASSUME NEW e  PROVE EntryOutcome(e)' = EntryOutcome(e)
    OBVIOUS
  <2>1. \A b : BlockedOutcome(e, b)' = BlockedOutcome(e, b)
    BY <1>1, <1>3 DEF BlockedOutcome
  <2> QED BY <1>1, <1>2, <1>4, <1>5, <2>1 DEF EntryOutcome
<1>7. \A p, b : NameOutcome(p, b)' = NameOutcome(p, b)
  BY <1>1, <1>3 DEF NameOutcome
<1>8. \A p : Mintable(p)' = Mintable(p)
  BY <1>1, <1>3, <1>4 DEF Mintable, Targetable
<1>9. Open' = Open
  BY <1>1, <1>4 DEF Open, Entries
<1>10. \A p : Steady(p)' = Steady(p)
  BY <1>1 DEF Steady
<1> QED BY <1>2, <1>3, <1>6, <1>7, <1>8, <1>9, <1>10 DEF Listing

LEMMA StandsOn ==
  ASSUME Inv, SteadyInv, UNCHANGED <<world, given>>,
         NEW q, NEW n, NEW s, Standing(q, n, s), out' = q, next' = n, stack' = s
  PROVE  SteadyInv'
<1>1. /\ kind' = kind /\ asked' = asked /\ counting' = counting
  BY DEF world, given
<1>2. SeenIn(out, FramesIn(stack))' = SeenIn(q, FramesIn(s))
  BY <1>1 DEF SeenIn, FramesIn, Present
<1>3. \A k : Got(k, SeenIn(out, FramesIn(stack)), next)' = Got(k, SeenIn(q, FramesIn(s)), n)
  <2>1. \A k : Answered(k, next)' = Answered(k, n)
    BY <1>1, SameWorld DEF Answered
  <2>2. \A k : Walked(k, SeenIn(out, FramesIn(stack)))' = Walked(k, SeenIn(q, FramesIn(s)))
    BY <1>2, SameWorld DEF Walked
  <2> QED BY <2>1, <2>2 DEF Got
<1>4. Yields(out, SeenIn(out, FramesIn(stack)), next)'
  BY <1>1, <1>3, SameWorld DEF Standing, Yields
<1>5. Accepts(SeenIn(out, FramesIn(stack)), next)'
  <2>1. Walked("fail", SeenIn(out, FramesIn(stack)))' = Walked("fail", SeenIn(q, FramesIn(s)))
    BY <1>2, SameWorld DEF Walked
  <2> QED BY <1>1, <2>1, SameWorld DEF Standing, Accepts
<1>6. /\ Distinct(stack)' /\ Listed(out, FramesIn(stack))'
      /\ (1..(next - 1) \subseteq DOMAIN asked)'
  BY <1>1, SameWorld DEF Standing, Distinct, Listed, FramesIn
<1>7. Asked'
  BY <1>1, SameWorld DEF SteadyInv, Asked, Entries
<1>8. (kind[Root] = "dir")'
  BY <1>1 DEF SteadyInv
<1> QED BY <1>4, <1>5, <1>6, <1>7, <1>8 DEF SteadyInv, Standing

LEMMA StandsStill ==
  ASSUME Inv, SteadyInv, UNCHANGED <<world, given, next, stack, out>>
  PROVE  SteadyInv'
<1>1. Standing(out, next, stack)
  BY DEF SteadyInv
<1> QED BY <1>1, StandsOn

LEMMA StandsGoOn ==
  ASSUME Inv, SteadyInv, NEW r, NEW n, NEW s, GoOn(r, n, s), Standing(r.out, n, s)
  PROVE  SteadyInv'
<1>1. CASE Fail
  BY <1>1, StandsStill DEF Fail
<1>2. CASE Affordable(r)
  BY <1>2, StandsOn DEF GoOn
<1> QED BY <1>1, <1>2 DEF GoOn

-----------------------------------------------------------------------------
\* The innermost frame and those below it.
LEMMA TopParts ==
  ASSUME Inv, SteadyInv, stack # <<>>
  PROVE  /\ Top \in Frame /\ Below \in Seq(Frame) /\ Distinct(Below)
         /\ FramesIn(stack) = FramesIn(Below) \cup {Top}
         /\ \A g \in FramesIn(Below) : g.dir # Top.dir
         /\ Top.hidden = Hidden(Top.dir)
         /\ \A p \in Top.listed : Up[p] = Top.dir /\ p \notin Respelled
         /\ \A g \in FramesIn(Below) \cup {Top} : g.dir \in out.visited
<1>1. stack \in Seq(Frame) /\ Distinct(stack) /\ Listed(out, FramesIn(stack))
  BY DEF Inv, TypeOK, SteadyInv, Standing
<1>2. /\ Top \in Frame /\ Below \in Seq(Frame) /\ Distinct(Below)
      /\ FramesIn(stack) = FramesIn(Below) \cup {Top}
      /\ \A g \in FramesIn(Below) : g.dir # Top.dir
  BY <1>1, PopFrames DEF Top, Below
<1>3. Len(stack) \in DOMAIN stack
  BY <1>1, FramesPop DEF Inv
<1>4. Top.hidden = Hidden(Top.dir) /\ \A p \in Top.listed : Up[p] = Top.dir
  BY <1>3 DEF Inv, FramesOK, Top
<1> QED BY <1>1, <1>2, <1>4 DEF Listed

ReadFrame(p) == [Top EXCEPT !.read = @ \cup {p}]
ReadStack(p) == Append(Below, ReadFrame(p))

LEMMA ReadParts ==
  ASSUME Inv, SteadyInv, stack # <<>>, NEW p \in Returnable
  PROVE  /\ p \in Path /\ Up[p] = Top.dir /\ p \notin Respelled
         /\ ReadFrame(p) \in Frame
         /\ ReadStack(p) \in Seq(Frame) /\ Distinct(ReadStack(p))
         /\ FramesIn(ReadStack(p)) = FramesIn(Below) \cup {ReadFrame(p)}
         /\ Listed(out, FramesIn(ReadStack(p)))
         /\ SeenIn(out, FramesIn(ReadStack(p))) = Seeing(SeenNow, p)
<1>1. p \in Path /\ Up[p] = Top.dir /\ p \notin Respelled
  BY TopParts DEF Returnable, Listing, Inside, Frame
<1>2. /\ ReadFrame(p) \in Frame /\ ReadFrame(p).dir = Top.dir
      /\ ReadFrame(p).listed = Top.listed
  BY <1>1, TopParts DEF ReadFrame, Frame
<1>3. /\ ReadStack(p) \in Seq(Frame) /\ Distinct(ReadStack(p))
      /\ FramesIn(ReadStack(p)) = FramesIn(Below) \cup {ReadFrame(p)}
  BY <1>2, TopParts, PushFrames DEF ReadStack
<1>4. Listed(out, FramesIn(stack))
  BY DEF SteadyInv, Standing
<1>5. Listed(out, FramesIn(ReadStack(p)))
  BY <1>2, <1>3, <1>4, TopParts DEF Listed
<1>6. Top.dir \in out.visited /\ \A g \in FramesIn(Below) : g.dir # Top.dir
  BY TopParts
<1>7. SeenIn(out, FramesIn(Below) \cup {ReadFrame(p)})
        = Seeing(SeenIn(out, FramesIn(Below) \cup {Top}), p)
  <2> DEFINE F == FramesIn(Below)
             f == Top
             g == ReadFrame(p)
  <2>1. g.dir = f.dir /\ g.read = f.read \cup {p}
    BY TopParts DEF ReadFrame, Frame
  <2>0. /\ p \in Path /\ Up[p] = f.dir /\ p \notin Respelled
        /\ f.dir \in out.visited /\ \A h \in F : h.dir # f.dir
    BY <1>1, <1>6
  <2> HIDE DEF F, f, g
  <2>2. SeenIn(out, F \cup {g}) = Seeing(SeenIn(out, F \cup {f}), p)
    BY <2>0, <2>1 DEF SeenIn, Seeing
  <2> QED BY <2>2 DEF F, f, g
<1> QED BY <1>1, <1>2, <1>3, <1>5, <1>7, TopParts DEF SeenNow

\* A directory opened on top of a stack.
LEMMA OpenStands ==
  ASSUME TypeOK, NEW o, NEW q, NEW n, NEW s \in Seq(Frame), NEW d \in Node,
         NEW hidden \in BOOLEAN, NEW depth \in Nat,
         d \notin o.visited, q.visited = o.visited \cup {d},
         1..(n - 1) \subseteq DOMAIN asked,
         Distinct(s), Listed(o, FramesIn(s)),
         Yields(q, SeenIn(o, FramesIn(s)), n), Accepts(SeenIn(o, FramesIn(s)), n)
  PROVE  LET t == Append(s, OpenFrame(d, hidden, depth))
         IN  /\ Standing(q, n, t)
             /\ FramesIn(t) = FramesIn(s) \cup {OpenFrame(d, hidden, depth)}
             /\ SeenIn(q, FramesIn(t)) = SeenIn(o, FramesIn(s))
<1> DEFINE f == OpenFrame(d, hidden, depth)
           t == Append(s, f)
<1>1. /\ f \in Frame /\ f.dir = d /\ f.read = {} /\ f.listed = Listing(d)
  BY DEF OpenFrame, Frame, Listing, Inside
<1> HIDE DEF f
<1>2. \A g \in FramesIn(s) : g.dir \in o.visited /\ g.dir # f.dir
  BY <1>1 DEF Listed
<1>3. Distinct(t) /\ FramesIn(t) = FramesIn(s) \cup {f}
  BY <1>1, <1>2, PushFrames
<1> HIDE DEF t
<1>4. SeenIn(q, FramesIn(t)) = SeenIn(o, FramesIn(s))
  BY <1>1, <1>2, <1>3, SeenOpen
<1>5. Listed(q, FramesIn(t))
  BY <1>1, <1>3 DEF Listed, Listing
<1> QED BY <1>3, <1>4, <1>5 DEF Standing, t, f
-----------------------------------------------------------------------------
\* What a name that is read yields, and what an entry that is taken up does.
NameFound(p) ==
  LET hidden  == Top.hidden \/ p \in excl
      outcome == NameOutcome(p, Top.hidden)
  IN  CASE outcome = "file" /\ ~hidden -> AddFile(out, p, FALSE)
        [] outcome = "file" /\ hidden  -> AddExcluded(out, p, FALSE)
        [] outcome = "special"         -> SkipSpecial(out, p)
        [] outcome = "boundary"        -> SkipBoundary(out, p)
        [] OTHER                       -> Nil(out)

EntryFound(o) ==
  LET e       == asked[next]
      p       == e.path
      outcome == EntryOutcome(e)
      named   == e.origin = "named"
  IN  CASE outcome = "file" /\ ~Hidden(p) -> AddFile(o, p, named)
        [] outcome = "file" /\ Hidden(p)  -> AddExcluded(o, p, named)
        [] outcome = "missing"            -> AddMissing(o, e)
        [] outcome = "special"            -> SkipSpecial(o, p)
        [] outcome = "boundary"           -> SkipBoundary(o, p)
        [] OTHER                          -> Nil(o)

LEMMA FileTook ==
  ASSUME NEW o \in Found, NEW p, NEW b \in BOOLEAN, ~Hidden(p)
  PROVE  Took(o, AddFile(o, p, b).out, p, "file")
  BY DEF Took, AddFile, Found

LEMMA ExcludedTook ==
  ASSUME NEW o \in Found, NEW p, NEW b \in BOOLEAN, Hidden(p)
  PROVE  Took(o, AddExcluded(o, p, b).out, p, "file")
  BY DEF Took, AddExcluded, Nil, Found

LEMMA OthersTook ==
  ASSUME NEW o, NEW q, NEW p, Same(o, q), NEW k, k \notin {"walk", "file"}
  PROVE  Took(o, q, p, k)
  BY DEF Took, Same

LEMMA MissingTook ==
  ASSUME NEW o \in Found, NEW p, NEW e
  PROVE  Took(o, AddMissing(o, e).out, p, "missing")
  BY DEF Took, AddMissing, Found

LEMMA HiddenName ==
  ASSUME Inv, SteadyInv, stack # <<>>, NEW p \in Returnable
  PROVE  /\ (Top.hidden \/ p \in excl) = Hidden(p)
         /\ Top.hidden = Hidden(Up[p]) /\ Top.hidden \in BOOLEAN
<1>1. p \in Path /\ Up[p] = Top.dir /\ Top.hidden = Hidden(Top.dir) /\ Top \in Frame
  BY TopParts, ReadParts
<1>2. Hidden(p) <=> (Hidden(Up[p]) \/ p \in excl)
  BY <1>1, HiddenBelow DEF Inv, TypeOK
<1>3. Hidden(p) \in BOOLEAN /\ Hidden(Up[p]) \in BOOLEAN
  BY DEF Hidden
<1> QED BY <1>1, <1>2, <1>3 DEF Frame

LEMMA NameTook ==
  ASSUME Inv, SteadyInv, stack # <<>>, NEW p \in Returnable,
         NameOutcome(p, Top.hidden) # "walk"
  PROVE  /\ Took(out, NameFound(p).out, p, NameOutcome(p, Top.hidden))
         /\ NameFound(p).out.visited = out.visited
<1> DEFINE k == NameOutcome(p, Top.hidden)
           q == NameFound(p).out
<1>1. out \in Found
  BY DEF Inv, TypeOK
<1>2. Took(out, q, p, k)
  <2>1. CASE k = "file" /\ ~Hidden(p)
    <3>1. NameFound(p) = AddFile(out, p, FALSE)
      BY <2>1, HiddenName DEF NameFound
    <3> QED BY <1>1, <2>1, <3>1, FileTook
  <2>2. CASE k = "file" /\ Hidden(p)
    <3>1. NameFound(p) = AddExcluded(out, p, FALSE)
      BY <2>2, HiddenName DEF NameFound
    <3> QED BY <1>1, <2>2, <3>1, ExcludedTook
  <2>3. CASE k # "file"
    <3>1. \/ NameFound(p) = SkipSpecial(out, p)
          \/ NameFound(p) = SkipBoundary(out, p)
          \/ NameFound(p) = Nil(out)
      BY <2>3 DEF NameFound
    <3>2. Same(out, q)
      BY <1>1, <3>1, OthersAdd
    <3> HIDE DEF q, k
    <3> QED BY <2>3, <3>2, OthersTook DEF k
  <2> QED BY <2>1, <2>2, <2>3
<1> HIDE DEF q, k
<1>3. q.visited = out.visited
  BY <1>2 DEF Took, k
<1> QED BY <1>2, <1>3 DEF q, k

\* Whatever name is read: what was found with it stands.
LEMMA ReadStands ==
  ASSUME Inv, SteadyInv, stack # <<>>, NEW p \in Returnable, NEW q,
         NameOutcome(p, Top.hidden) # "fail",
         Took(out, q, p, NameOutcome(p, Top.hidden))
  PROVE  /\ q.visited = out.visited => Standing(q, next, ReadStack(p))
         /\ p \notin out.visited /\ q.visited = out.visited \cup {p} =>
              \A hidden \in BOOLEAN, depth \in Nat :
                Standing(q, next, Append(ReadStack(p), OpenFrame(p, hidden, depth)))
<1> DEFINE s == ReadStack(p)
           S == SeenIn(out, FramesIn(s))
           k == NameOutcome(p, Top.hidden)
<1>1. /\ p \in Path /\ s \in Seq(Frame) /\ Distinct(s)
      /\ Listed(out, FramesIn(s)) /\ S = Seeing(SeenNow, p)
  BY ReadParts
<1>2. k = NameOutcome(p, Hidden(Up[p]))
  BY HiddenName
<1>3. /\ Yields(out, SeenNow, next) /\ Accepts(SeenNow, next)
      /\ 1..(next - 1) \subseteq DOMAIN asked
  BY DEF SteadyInv, Standing, SeenNow
<1>4. Yields(q, S, next) /\ Accepts(S, next)
  <2> HIDE DEF S, k
  <2>1. Took(out, q, p, k) /\ k # "fail"
    BY DEF k
  <2>2. Yields(q, Seeing(SeenNow, p), next)
    BY <1>2, <1>3, <2>1, NameYields
  <2>3. Accepts(Seeing(SeenNow, p), next)
    BY <1>2, <1>3, <2>1, NameAccepted
  <2> QED BY <1>1, <2>2, <2>3
<1> HIDE DEF s
<1>5. ASSUME q.visited = out.visited  PROVE Standing(q, next, s)
  <2>1. SeenIn(q, FramesIn(s)) = S
    BY <1>5, SeenSame
  <2>2. Listed(q, FramesIn(s))
    BY <1>1, <1>5 DEF Listed
  <2> QED BY <1>1, <1>3, <1>4, <2>1, <2>2 DEF Standing
<1>6. ASSUME p \notin out.visited, q.visited = out.visited \cup {p},
             NEW hidden \in BOOLEAN, NEW depth \in Nat
      PROVE  Standing(q, next, Append(s, OpenFrame(p, hidden, depth)))
  <2>1. p \in Node /\ TypeOK
    BY <1>1 DEF Node, Inv
  <2> QED BY <1>1, <1>3, <1>4, <1>6, <2>1, OpenStands
<1> QED BY <1>5, <1>6 DEF s

\* Whatever entry is taken up: what was found with it stands.
LEMMA EntryStands ==
  ASSUME Inv, SteadyInv, Expanding, NEW q,
         EntryOutcome(asked[next]) # "fail",
         Took(out, q, asked[next].path, EntryOutcome(asked[next]))
  PROVE  /\ q.visited = out.visited => Standing(q, next + 1, <<>>)
         /\ /\ asked[next].path \notin out.visited
            /\ q.visited = out.visited \cup {asked[next].path}
            => \A hidden \in BOOLEAN, depth \in Nat :
                 Standing(q, next + 1,
                          Append(<<>>, OpenFrame(asked[next].path, hidden, depth)))
<1> DEFINE p == asked[next].path
           n == next + 1
           s == <<>>
           S == SeenIn(out, FramesIn(s))
<1>1. next \in Nat \ {0} /\ p \in Node /\ stack = <<>>
  BY EntryAt DEF Expanding, Inv, TypeOK
<1>2. s \in Seq(Frame) /\ FramesIn(s) = {} /\ Distinct(s) /\ Listed(out, FramesIn(s))
  BY DEF FramesIn, Distinct, Listed
<1>3. S = SeenNow
  BY <1>1 DEF SeenNow
<1>4. /\ Yields(out, S, next) /\ Accepts(S, next)
      /\ 1..(next - 1) \subseteq DOMAIN asked
  BY <1>3 DEF SteadyInv, Standing, SeenNow
<1>5. 1..(n - 1) \subseteq DOMAIN asked
  <2>1. 1..(n - 1) = 1..(next - 1) \cup {next}
    BY <1>1
  <2> QED BY <1>4, <2>1 DEF Expanding
<1>6. Yields(q, S, n) /\ Accepts(S, n)
  <2> HIDE DEF S
  <2> QED BY <1>1, <1>4, EntryYields, EntryAccepted
<1> HIDE DEF s, n
<1>7. ASSUME q.visited = out.visited  PROVE Standing(q, n, s)
  <2>1. SeenIn(q, FramesIn(s)) = S
    BY <1>7, SeenSame
  <2>2. Listed(q, FramesIn(s))
    BY <1>2, <1>7 DEF Listed
  <2> QED BY <1>2, <1>5, <1>6, <2>1, <2>2 DEF Standing
<1>8. ASSUME p \notin out.visited, q.visited = out.visited \cup {p},
             NEW hidden \in BOOLEAN, NEW depth \in Nat
      PROVE  Standing(q, n, Append(s, OpenFrame(p, hidden, depth)))
  <2>1. TypeOK
    BY DEF Inv
  <2> HIDE DEF p
  <2> QED BY <1>1, <1>2, <1>5, <1>6, <1>8, <2>1, OpenStands DEF p
<1> QED BY <1>7, <1>8 DEF s, n

LEMMA WalkTook ==
  ASSUME NEW o, NEW r \in Found, NEW d, Same(o, r)
  PROVE  /\ d \in o.visited => Took(o, r, d, "walk")
         /\ Took(o, Visit(r, d).out, d, "walk")
         /\ Visit(r, d).out.visited = o.visited \cup {d}
<1>1. /\ Visit(r, d).out.visited = r.visited \cup {d}
      /\ Visit(r, d).out.files = r.files /\ Visit(r, d).out.hidden = r.hidden
  BY DEF Visit, Sweep, Found
<1>2. o.visited = r.visited /\ o.files = r.files /\ o.hidden = r.hidden
  BY DEF Same
<1>3. d \in o.visited => o.visited \cup {d} = o.visited
  OBVIOUS
<1> QED BY <1>1, <1>2, <1>3 DEF Took

LEMMA WalkStands ==
  ASSUME Inv, SteadyInv, NEW d \in Node, NEW hidden \in BOOLEAN, NEW depth \in Nat,
         NEW r, NEW n, NEW s, WalkDir(d, hidden, depth, r, n, s),
         d \in out.visited => Standing(r.out, n, s),
         d \notin out.visited =>
           Standing(Visit(r.out, d).out, n, Append(s, OpenFrame(d, hidden, depth)))
  PROVE  SteadyInv'
<1>1. CASE d \in out.visited /\ GoOn(r, n, s)
  BY <1>1, StandsGoOn
<1>2. CASE Fail
  BY <1>2, StandsStill DEF Fail
<1>3. CASE /\ d \notin out.visited
           /\ GoOn(Both(r, Visit(r.out, d)), n, Append(s, OpenFrame(d, hidden, depth)))
  <2> DEFINE b == Both(r, Visit(r.out, d))
             t == Append(s, OpenFrame(d, hidden, depth))
  <2>1. b.out = Visit(r.out, d).out
    BY DEF Both
  <2>2. GoOn(b, n, t) /\ Standing(b.out, n, t)
    BY <1>3, <2>1
  <2> HIDE DEF b, t
  <2> QED BY <2>2, StandsGoOn
<1> QED BY <1>1, <1>2, <1>3 DEF WalkDir

LEMMA ReadKeepsStanding ==
  ASSUME Inv, SteadyInv, NEW p \in Path, ReadName(p)
  PROVE  SteadyInv'
<1> DEFINE hidden == Top.hidden \/ p \in excl
           k      == NameOutcome(p, Top.hidden)
<1>1. /\ stack # <<>> /\ p \in Returnable
      /\ \/ Fail
         \/ k = "walk" /\ WalkDir(p, hidden, Top.depth + 1, Nil(out), next, ReadStack(p))
         \/ k \notin {"fail", "walk"} /\ GoOn(NameFound(p), next, ReadStack(p))
  BY DEF ReadName, Walking, ReadStack, ReadFrame, NameFound
<1>2. CASE Fail
  BY <1>2, StandsStill DEF Fail
<1>3. CASE k = "walk" /\ WalkDir(p, hidden, Top.depth + 1, Nil(out), next, ReadStack(p))
  <2>1. /\ p \in Node /\ hidden \in BOOLEAN /\ Top.depth + 1 \in Nat /\ out \in Found
        /\ k # "fail"
    BY <1>1, <1>3, TopParts, HiddenName DEF Node, Frame, Inv, TypeOK
  <2>2. Nil(out).out = out /\ Same(out, out)
    BY DEF Nil, Same
  <2>3. /\ p \in out.visited => Took(out, out, p, k)
        /\ Took(out, Visit(out, p).out, p, k)
        /\ Visit(out, p).out.visited = out.visited \cup {p}
    BY <1>3, <2>1, <2>2, WalkTook
  <2>4. p \in out.visited => Standing(out, next, ReadStack(p))
    <3>1. ASSUME p \in out.visited  PROVE Standing(out, next, ReadStack(p))
      BY <1>1, <2>1, <2>3, <3>1, ReadStands
    <3> QED BY <3>1
  <2>5. p \notin out.visited =>
          Standing(Visit(out, p).out, next,
                   Append(ReadStack(p), OpenFrame(p, hidden, Top.depth + 1)))
    <3> DEFINE q == Visit(out, p).out
    <3>1. Took(out, q, p, k) /\ q.visited = out.visited \cup {p}
      BY <2>3
    <3> HIDE DEF q
    <3>2. p \notin out.visited =>
            \A h \in BOOLEAN, m \in Nat :
              Standing(q, next, Append(ReadStack(p), OpenFrame(p, h, m)))
      BY <1>1, <2>1, <3>1, ReadStands
    <3> QED BY <2>1, <3>2 DEF q
  <2> HIDE DEF hidden
  <2> QED BY <1>3, <2>1, <2>2, <2>4, <2>5, WalkStands
<1>4. CASE k \notin {"fail", "walk"} /\ GoOn(NameFound(p), next, ReadStack(p))
  <2>1. Took(out, NameFound(p).out, p, k) /\ NameFound(p).out.visited = out.visited
    BY <1>1, <1>4, NameTook
  <2> DEFINE r == NameFound(p)
  <2> HIDE DEF r
  <2>2. Standing(r.out, next, ReadStack(p))
    BY <1>1, <1>4, <2>1, ReadStands DEF r
  <2> QED BY <1>4, <2>2, StandsGoOn DEF r
<1> QED BY <1>1, <1>2, <1>3, <1>4

\* The directory of an entry, swept, changes nothing else.
LEMMA ParentSame ==
  ASSUME Inv, NEW p \in Node
  PROVE  /\ WithParent(p).out \in Found /\ FiniteOut(WithParent(p).out)
         /\ Same(out, WithParent(p).out)
<1>1. out \in Found /\ FiniteOut(out)
  BY DEF Inv, TypeOK
<1>2. CASE p = Root
  BY <1>1, <1>2 DEF WithParent, Nil, Same
<1>3. CASE p # Root
  <2>1. Up[p] \in Node
    BY <1>3, UpNode DEF Node
  <2> QED BY <1>1, <1>3, <2>1, SweepKeeps, SweepAdds DEF WithParent, Keeping
<1> QED BY <1>2, <1>3

LEMMA TookAfter ==
  ASSUME NEW o, NEW r, NEW q, NEW p, NEW k, Same(o, r), Took(r, q, p, k)
  PROVE  Took(o, q, p, k)
  BY DEF Same, Took

LEMMA EntryTook ==
  ASSUME Inv, Expanding, NEW o \in Found, Same(out, o),
         EntryOutcome(asked[next]) # "walk"
  PROVE  /\ Took(out, EntryFound(o).out, asked[next].path, EntryOutcome(asked[next]))
         /\ EntryFound(o).out.visited = out.visited
<1> DEFINE e == asked[next]
           p == e.path
           k == EntryOutcome(e)
           q == EntryFound(o).out
           named == e.origin = "named"
<1>1. Took(o, q, p, k)
  <2>1. CASE k = "file" /\ ~Hidden(p)
    <3>1. EntryFound(o) = AddFile(o, p, named)
      BY <2>1 DEF EntryFound
    <3>2. named \in BOOLEAN
      OBVIOUS
    <3> HIDE DEF named
    <3> QED BY <2>1, <3>1, <3>2, FileTook
  <2>2. CASE k = "file" /\ Hidden(p)
    <3>1. EntryFound(o) = AddExcluded(o, p, named)
      BY <2>2 DEF EntryFound
    <3>2. named \in BOOLEAN
      OBVIOUS
    <3> HIDE DEF named
    <3> QED BY <2>2, <3>1, <3>2, ExcludedTook
  <2>3. CASE k = "missing"
    <3>1. EntryFound(o) = AddMissing(o, e)
      BY <2>3 DEF EntryFound
    <3> QED BY <2>3, <3>1, MissingTook
  <2>4. CASE k \notin {"file", "missing"}
    <3>1. \/ EntryFound(o) = SkipSpecial(o, p)
          \/ EntryFound(o) = SkipBoundary(o, p)
          \/ EntryFound(o) = Nil(o)
      BY <2>4 DEF EntryFound
    <3>2. Same(o, q)
      BY <3>1, OthersAdd
    <3> HIDE DEF q, k
    <3> QED BY <2>4, <3>2, OthersTook DEF k
  <2> QED BY <2>1, <2>2, <2>3, <2>4
<1> HIDE DEF q, k, p
<1>2. Took(out, q, p, k)
  BY <1>1, TookAfter
<1>3. q.visited = out.visited
  BY <1>2 DEF Took, k
<1> QED BY <1>2, <1>3 DEF q, k, p

LEMMA EntryKeepsStanding ==
  ASSUME Inv, SteadyInv, AddEntry
  PROVE  SteadyInv'
<1> DEFINE e == asked[next]
           p == e.path
           before == WithParent(p)
           k == EntryOutcome(e)
<1>1. /\ Expanding
      /\ \/ Fail
         \/ k = "walk" /\ WalkDir(p, Hidden(p), 0, before, next + 1, <<>>)
         \/ /\ k \notin {"fail", "walk"}
            /\ GoOn(Both(before, EntryFound(before.out)), next + 1, <<>>)
  BY DEF AddEntry, EntryFound
<1>2. p \in Node
  BY <1>1, EntryAt DEF Expanding
<1>3. before.out \in Found /\ Same(out, before.out)
  BY <1>2, ParentSame
<1>4. CASE Fail
  BY <1>4, StandsStill DEF Fail
<1> HIDE DEF before
<1>5. CASE k = "walk" /\ WalkDir(p, Hidden(p), 0, before, next + 1, <<>>)
  <2> DEFINE q == Visit(before.out, p).out
             s == <<>>
             n == next + 1
             f == OpenFrame(p, Hidden(p), 0)
  <2>1. Hidden(p) \in BOOLEAN /\ 0 \in Nat
    BY DEF Hidden
  <2>2. /\ p \in out.visited => Took(out, before.out, p, k)
        /\ Took(out, q, p, k)
        /\ q.visited = out.visited \cup {p}
    BY <1>3, <1>5, WalkTook
  <2>3. before.out.visited = out.visited
    BY <1>3 DEF Same
  <2>4. ASSUME p \in out.visited  PROVE Standing(before.out, n, s)
    BY <1>1, <1>5, <2>2, <2>3, <2>4, EntryStands
  <2>5. p \notin out.visited => Standing(q, n, Append(s, f))
    <3> HIDE DEF q
    <3>1. p \notin out.visited =>
            \A h \in BOOLEAN, m \in Nat :
              Standing(q, next + 1, Append(<<>>, OpenFrame(p, h, m)))
      BY <1>1, <1>5, <2>2, EntryStands
    <3> QED BY <2>1, <3>1
  <2> HIDE DEF n, s, p
  <2> QED BY <1>2, <1>5, <2>1, <2>4, <2>5, WalkStands DEF n, s
<1>6. CASE /\ k \notin {"fail", "walk"}
           /\ GoOn(Both(before, EntryFound(before.out)), next + 1, <<>>)
  <2> DEFINE r == Both(before, EntryFound(before.out))
             n == next + 1
             s == <<>>
  <2>1. r.out = EntryFound(before.out).out
    BY DEF Both
  <2>2. Took(out, r.out, p, k) /\ r.out.visited = out.visited
    BY <1>1, <1>3, <1>6, <2>1, EntryTook
  <2> HIDE DEF r
  <2>3. Standing(r.out, n, s)
    BY <1>1, <1>6, <2>2, EntryStands
  <2>4. GoOn(r, n, s)
    BY <1>6 DEF r
  <2> HIDE DEF n, s
  <2> QED BY <2>3, <2>4, StandsGoOn
<1> QED BY <1>1, <1>4, <1>5, <1>6

\* An entry asked for before is passed over.
LEMMA SkipSame ==
  ASSUME Inv, Repeated, next \in DOMAIN asked, NEW n, n = next + 1
  PROVE  /\ 1..(n - 1) = 1..(next - 1) \cup {next}
         /\ \E i \in 1..(next - 1) : asked[i] = asked[next]
         /\ \A k : Answered(k, n) = Answered(k, next)
<1>1. next \in Nat \ {0}
  BY DEF Inv, TypeOK
<1>2. PICK i \in 1..(next - 1) : asked[i] = asked[next]
  BY DEF Repeated
<1>3. 1..(n - 1) = 1..(next - 1) \cup {next}
  BY <1>1
<1>4. \A k : Answered(k, n) = Answered(k, next)
  BY <1>2, <1>3 DEF Answered
<1> QED BY <1>2, <1>3, <1>4

LEMMA SkipStands ==
  ASSUME Inv, SteadyInv, Repeated, next \in DOMAIN asked, NEW n, n = next + 1
  PROVE  Standing(out, n, stack)
<1>1. PICK i \in 1..(next - 1) : asked[i] = asked[next]
  BY SkipSame
<1> QED BY <1>1, SkipSame DEF SteadyInv, Standing, Yields, Accepts, Got

LEMMA SkipKeepsStanding ==
  ASSUME Inv, SteadyInv, SkipRepeated
  PROVE  SteadyInv'
<1> DEFINE n == next + 1
<1>1. /\ Repeated /\ next \in DOMAIN asked /\ n = next + 1
      /\ UNCHANGED <<world, given, stack, out>> /\ next' = n
  BY DEF SkipRepeated, Expanding
<1> HIDE DEF n
<1> QED BY <1>1, SkipStands, StandsOn

\* A listing that has ended has returned every steady name in it.
LEMMA ClosedSeen ==
  ASSUME Inv, SteadyInv, stack # <<>>, \A p \in Top.listed \ Top.read : ~Present(p),
         NEW p \in Path, Steady(p)
  PROVE  p \in SeenIn(out, FramesIn(Below)) <=> p \in SeenNow
<1>1. FramesIn(stack) = FramesIn(Below) \cup {Top}
  BY TopParts
<1>2. Present(p) /\ p \notin Respelled /\ Up[p] = Top.dir => p \in Top.read
  <2>1. Listed(out, FramesIn(stack))
    BY DEF SteadyInv, Standing
  <2>2. p \in Listing(Top.dir) => p \in Top.listed
    BY <1>1, <2>1 DEF Listed
  <2> QED BY <2>2 DEF Listing, Inside
<1> QED BY <1>1, <1>2 DEF SeenNow, SeenIn

LEMMA CloseStands ==
  ASSUME Inv, SteadyInv, stack # <<>>, \A p \in Top.listed \ Top.read : ~Present(p)
  PROVE  Standing(out, next, Below)
<1> DEFINE S == SeenIn(out, FramesIn(Below))
<1>1. /\ Yields(out, SeenNow, next) /\ Accepts(SeenNow, next)
      /\ 1..(next - 1) \subseteq DOMAIN asked /\ Listed(out, FramesIn(stack))
  BY DEF SteadyInv, Standing, SeenNow
<1>2. ASSUME NEW p \in Path, Steady(p), NEW k
      PROVE  p \in Walked(k, S) <=> p \in Walked(k, SeenNow)
  BY <1>2, ClosedSeen DEF Walked
<1>3. S \subseteq Path /\ SeenNow \subseteq Path
  BY DEF SeenIn, SeenNow
<1> HIDE DEF S
<1>4. ASSUME NEW p, Steady(p), NEW k
      PROVE  p \in Walked(k, S) <=> p \in Walked(k, SeenNow)
  BY <1>2, <1>3, <1>4 DEF Walked
<1>5. Yields(out, S, next)
  BY <1>1, <1>4 DEF Yields, Got
<1>6. Accepts(S, next)
  BY <1>1, <1>4 DEF Accepts
<1>7. Distinct(Below) /\ Listed(out, FramesIn(Below))
  BY <1>1, TopParts DEF Listed
<1> QED BY <1>1, <1>5, <1>6, <1>7 DEF Standing, S

LEMMA CloseKeepsStanding ==
  ASSUME Inv, SteadyInv, CloseDir
  PROVE  SteadyInv'
<1> DEFINE s == Below
<1>1. /\ stack # <<>> /\ \A p \in Top.listed \ Top.read : ~Present(p)
      /\ UNCHANGED <<world, given, next, out>> /\ stack' = s
  BY DEF CloseDir, Walking
<1>2. Standing(out, next, s)
  BY <1>1, CloseStands
<1> HIDE DEF s
<1> QED BY <1>1, <1>2, StandsOn

LEMMA StandingInductive == ASSUME Inv, SteadyInv, [Next]_vars  PROVE SteadyInv'
<1>1. CASE SkipRepeated
  BY <1>1, SkipKeepsStanding
<1>2. CASE AddEntry
  BY <1>2, EntryKeepsStanding
<1>3. ASSUME NEW p \in Path, ReadName(p)  PROVE SteadyInv'
  BY <1>3, ReadKeepsStanding
<1>4. CASE CloseDir
  BY <1>4, CloseKeepsStanding
<1>5. CASE Finish
  BY <1>5, StandsStill DEF Finish
<1>6. ASSUME NEW p \in Editable, NEW k \in Kinds, Change(p, k)  PROVE SteadyInv'
  BY <1>6, StandingStays, NamesAssumption
<1>7. CASE UNCHANGED vars
  BY <1>7, StandsStill DEF vars
<1> QED BY <1>1, <1>2, <1>3, <1>4, <1>5, <1>6, <1>7 DEF Next, Step
-----------------------------------------------------------------------------
LEMMA AskedAtFirst == ASSUME Init  PROVE Asked
<1>1. CASE FromArguments(asked)
  BY <1>1 DEF FromArguments, Asked, Entries, Mintable, Stored
<1>2. CASE FromConfig(asked)
  <2> DEFINE paths == {asked[i].path : i \in {j \in DOMAIN asked : asked[j].origin = "managed"}}
             roots == {asked[i].path : i \in {j \in DOMAIN asked : asked[j].origin = "exclusion"}}
  <2>1. /\ \A i \in DOMAIN asked : /\ Stored(asked[i]) /\ asked[i].path # Root
                                   /\ Targetable(asked[i].path)
        /\ \A p \in paths : ~Hidden(p)
        /\ roots \in {{}, {x \in excl : \A p \in paths : ~Covers(p, x)}}
    BY <1>2 DEF FromConfig
  <2>2. roots \subseteq excl
    BY <2>1
  <2>3. \A p \in roots : Hidden(p)
    BY <2>2 DEF Hidden, Covers
  <2>4. \A i \in DOMAIN asked : /\ asked[i].origin = "managed" => ~Hidden(asked[i].path)
                                /\ asked[i].origin = "exclusion" => Hidden(asked[i].path)
    BY <2>1, <2>3
  <2>5. \A i \in DOMAIN asked : asked[i].origin \in {"managed", "exclusion"}
    BY <2>1 DEF Stored
  <2> HIDE DEF paths, roots
  <2> QED BY <2>1, <2>4, <2>5 DEF Asked, Entries, Stored
<1> QED BY <1>1, <1>2 DEF Init

LEMMA StandsAtFirst == ASSUME Init  PROVE SteadyInv
<1>1. stack = <<>> /\ next = 1 /\ out = Nothing /\ kind[Root] = "dir"
  BY DEF Init
<1>2. FramesIn(stack) = {} /\ Distinct(stack) /\ 1..(next - 1) = {}
  BY <1>1 DEF FramesIn, Distinct
<1>3. SeenIn(out, FramesIn(stack)) = {}
  BY <1>1 DEF SeenIn, Nothing
<1>4. \A k : Got(k, {}, next) = {}
  BY <1>2 DEF Got, Walked, Answered
<1>5. Yields(out, {}, next)
  BY <1>1, <1>4 DEF Yields, Nothing
<1>6. Accepts({}, next)
  BY <1>2 DEF Accepts, Walked
<1> QED BY <1>1, <1>2, <1>3, <1>5, <1>6, AskedAtFirst DEF SteadyInv, Standing, Listed

-----------------------------------------------------------------------------
\* What has been found, read against what is reached.
LEMMA NameCases ==
  ASSUME NEW p \in Path, NEW b \in BOOLEAN, kind[p] \in Kinds
  PROVE  LET k == NameOutcome(p, b)
         IN  /\ k \in {"pass", "fail", "walk", "file", "special", "boundary"}
             /\ k # "pass" => Present(p) /\ p \notin Git
             /\ k \notin {"pass", "fail"} => p \notin Odd
             /\ Present(p) /\ p \notin Git \cup Odd =>
                  /\ k = "walk" <=> kind[p] = "dir" /\ ~IsRepo(p) /\ ~HasConfig(p)
                  /\ k = "boundary" <=> kind[p] = "dir" /\ IsRepo(p) /\ ~b
                  /\ k = "file" <=> kind[p] = "file" /\ ~Passed(p) /\ p \notin ConfigName
                  /\ k = "special" <=> /\ kind[p] \in {"symlink", "fifo"} /\ ~Passed(p)
                                       /\ p \notin ConfigName /\ ~b /\ p \notin excl
                  /\ k = "fail" <=>
                       \/ kind[p] = "dir" /\ ~IsRepo(p) /\ HasConfig(p)
                       \/ kind[p] # "dir" /\ ~Passed(p) /\ p \in ConfigName
             /\ Present(p) /\ p \in Odd \ Git => (k = "fail" <=> ~b)
<1>1. CASE ~Present(p) \/ p \in Git
  BY <1>1 DEF NameOutcome
<1>2. CASE Present(p) /\ p \notin Git /\ p \in Odd
  BY <1>2 DEF NameOutcome
<1>3. CASE Present(p) /\ p \notin Git /\ p \notin Odd /\ kind[p] = "dir"
  BY <1>3 DEF NameOutcome
<1>4. CASE Present(p) /\ p \notin Git /\ p \notin Odd /\ kind[p] # "dir"
  BY <1>4 DEF NameOutcome, Present, Kinds, Passed
<1> QED BY <1>1, <1>2, <1>3, <1>4

LEMMA EntryPath ==
  ASSUME Inv, SteadyInv, NEW e \in Entries
  PROVE  /\ e \in Entry /\ e.path \in Node /\ kind[e.path] \in Kinds
         /\ e.path \notin Odd /\ ~Passed(e.path) /\ e.path \notin ConfigName
<1>1. e \in Entry /\ e.path \in Node /\ kind[e.path] \in Kinds
  BY EntryTyped DEF Inv, TypeOK
<1>2. Root \notin Odd \cup Reserved \cup ConfigName
  BY TreeAssumption, NamesAssumption
<1>3. e.path = Root \/ Targetable(e.path)
  BY DEF SteadyInv, Asked
<1> QED BY <1>1, <1>2, <1>3 DEF Targetable, Passed

\* Entry outcomes that something comes of.
LEMMA AnsweredMet ==
  ASSUME Inv, SteadyInv, NEW n, 1..(n - 1) \subseteq DOMAIN asked,
         NEW k \in {"walk", "file", "special", "boundary"}, NEW p \in Answered(k, n)
  PROVE  /\ p \in Met \ Odd /\ Itself(p) /\ ~Passed(p) /\ p \notin ConfigName
         /\ \E e \in Open : e.path = p /\ EntryOutcome(e) = k /\ Clear(e)
<1>1. PICK i \in 1..(n - 1) : asked[i].path = p /\ EntryOutcome(asked[i]) = k
  BY DEF Answered
<1> DEFINE e == asked[i]
<1>2. e \in Entry /\ e \in Entries /\ e.path = p /\ p \in Node /\ kind[p] \in Kinds
  BY <1>1, EntryAt, EntryPath
<1>3. EntryOutcome(e) = k
  BY <1>1
<1> HIDE DEF e
<1>4. Clear(e) /\ Present(p)
  BY <1>2, <1>3, EntryCases DEF Present
<1>5. e \in Open
  BY <1>2, <1>4 DEF Open, Clear, Stored, Entry
<1>6. p \in Met
  BY <1>2, <1>4, <1>5, ReachedItself DEF Met
<1> QED BY <1>2, <1>3, <1>4, <1>5, <1>6, EntryPath DEF Itself

\* A name seen in a directory that is entered is met.
LEMMA SeenMet ==
  ASSUME Inv, NEW p \in Path, Present(p), p \notin Git \cup Respelled, Up[p] \in Entered
  PROVE  p \in Met
<1>1. PICK e \in Open : Reached(e.path, Up[p])
  BY DEF Entered, Met
<1>2. e.path \in Node /\ Covers(e.path, Up[p])
  BY <1>1, EntryTyped DEF Open, Reached
<1>3. Enterable(Up[p]) /\ Up[p] \notin Odd /\ p \in Node
  BY UpNode DEF Entered
<1>4. Reached(e.path, p)
  BY <1>1, <1>2, <1>3, ReachedBelow
<1> QED BY <1>3, <1>4 DEF Met

LEMMA VisitedEntered ==
  ASSUME Inv, SteadyInv, NEW o \in Found, NEW n, NEW s, Standing(o, n, s)
  PROVE  \A d \in o.visited : Steady(d) => d \in Entered
<1> DEFINE S == SeenIn(o, FramesIn(s))
           B == {d \in o.visited : Steady(d) /\ d \notin Entered}
<1>1. B \subseteq Node /\ o.visited \subseteq Node
  BY DEF Found
<1>2. Yields(o, S, n) /\ 1..(n - 1) \subseteq DOMAIN asked
  BY DEF Standing
<1>3. kind \in [Node -> Kinds] /\ touched \subseteq Path
  BY DEF Inv, TypeOK
<1>4. ASSUME NEW d \in B  PROVE d \in Path /\ Up[d] \in B
  <2>1. d \in Got("walk", S, n)
    BY <1>1, <1>2 DEF Yields
  <2>2. d \notin Answered("walk", n)
    <3> SUFFICES ASSUME d \in Answered("walk", n)  PROVE FALSE
      OBVIOUS
    <3>1. PICK e \in Open : e.path = d /\ EntryOutcome(e) = "walk" /\ Clear(e)
      BY <1>2, AnsweredMet
    <3>2. e \in Entry /\ kind[d] \in Kinds
      BY <1>1, <1>3, <3>1, EntryTyped DEF Open
    <3>3. kind[d] = "dir" /\ DirOutcome(e) = "walk"
      BY <3>1, <3>2, EntryCases DEF Kinds
    <3>4. Enterable(d)
      BY <3>1, <3>3, DirCases DEF Enterable
    <3>5. d \in Met \ Odd
      BY <1>2, AnsweredMet
    <3> QED BY <3>4, <3>5 DEF Entered
  <2>3. d \in S /\ NameOutcome(d, Hidden(Up[d])) = "walk"
    BY <2>1, <2>2 DEF Got, Walked
  <2>4. /\ d \in Path /\ d \notin Respelled /\ Up[d] \in o.visited
        /\ Up[d] \in Node /\ Covers(Up[d], d)
    BY <2>3, UpNode DEF SeenIn, Covers
  <2>5. Steady(Up[d])
    BY <1>1, <1>3, <2>4, SteadyUp
  <2>6. Up[d] \notin Entered
    <3> SUFFICES ASSUME Up[d] \in Entered  PROVE FALSE
      OBVIOUS
    <3>1. kind[d] \in Kinds /\ Hidden(Up[d]) \in BOOLEAN
      BY <1>1, <1>3 DEF Hidden
    <3>2. /\ Present(d) /\ d \notin Git \cup Odd /\ kind[d] = "dir" /\ ~IsRepo(d)
      BY <2>3, <2>4, <3>1, NameCases
    <3>3. d \in Met
      BY <2>4, <3>2, SeenMet
    <3> QED BY <3>2, <3>3 DEF Entered, Enterable
  <2> QED BY <2>4, <2>5, <2>6
<1>5. Root \notin B
  BY <1>4, TreeAssumption
<1>6. B = {}
  <2> HIDE DEF B
  <2> QED BY <1>1, <1>4, <1>5, UpMinimal
<1> QED BY <1>6

\* Whatever is found, other than by chance, is met by a walk or an entry.
LEMMA GotMet ==
  ASSUME Inv, SteadyInv, NEW o \in Found, NEW n, NEW s, Standing(o, n, s),
         NEW k \in {"walk", "file", "special", "boundary"},
         NEW p \in Got(k, SeenIn(o, FramesIn(s)), n), Steady(p)
  PROVE  p \in Met \ Odd
<1>1. CASE p \in Answered(k, n)
  BY <1>1, AnsweredMet DEF Standing
<1>2. CASE p \in Walked(k, SeenIn(o, FramesIn(s)))
  <2>1. /\ p \in Path /\ p \notin Respelled /\ Up[p] \in o.visited
        /\ NameOutcome(p, Hidden(Up[p])) = k
    BY <1>2 DEF Walked, SeenIn
  <2>2. /\ p \in Node /\ Up[p] \in Node /\ Covers(Up[p], p) /\ kind[p] \in Kinds
        /\ Hidden(Up[p]) \in BOOLEAN /\ touched \subseteq Path
    BY <2>1, UpNode DEF Covers, Inv, TypeOK, Hidden
  <2>3. Up[p] \in Entered
    BY <2>1, <2>2, SteadyUp, VisitedEntered
  <2>4. Present(p) /\ p \notin Git \cup Odd
    BY <2>1, <2>2, NameCases
  <2> QED BY <2>1, <2>3, <2>4, SeenMet
<1> QED BY <1>1, <1>2 DEF Got

\* An entry that was taken up, of a path nobody disturbed.
LEMMA TakenEntry ==
  ASSUME Inv, SteadyInv, NEW S, NEW n, Accepts(S, n), 1..(n - 1) \subseteq DOMAIN asked,
         NEW i \in 1..(n - 1), asked[i] \in Open, Steady(asked[i].path)
  PROVE  /\ Clear(asked[i]) /\ EntryOutcome(asked[i]) # "fail"
         /\ kind[asked[i].path] = "file" => asked[i].path \in Answered("file", n)
         /\ Enterable(asked[i].path) => asked[i].path \in Answered("walk", n)
<1> DEFINE e == asked[i]
           p == e.path
<1>1. e \in Entry /\ e \in Entries /\ p \in Node /\ kind[p] \in Kinds
  BY EntryAt, EntryPath
<1>2. EntryOutcome(e) # "fail"
  BY DEF Accepts
<1>3. Clear(e)
  BY <1>1, <1>2, EntryCases DEF Open, Clear, Stored
<1>4. kind[p] = "file" => EntryOutcome(e) = "file"
  BY <1>1, <1>3, EntryCases
<1>5. Enterable(p) => EntryOutcome(e) = "walk"
  BY <1>1, <1>2, <1>3, EntryCases, DirCases DEF Enterable, DirOutcome
<1> QED BY <1>1, <1>2, <1>3, <1>4, <1>5 DEF Answered

\* When no directory is open any more, whatever an entry reaches has been seen.
LEMMA ReachedSeen ==
  ASSUME Inv, SteadyInv, NEW o \in Found, NEW n, Standing(o, n, <<>>),
         NEW i \in 1..(n - 1), asked[i] \in Open,
         NEW p \in Node, Steady(p), Reached(asked[i].path, p)
  PROVE  p = asked[i].path \/ p \in SeenIn(o, {})
<1> DEFINE b == asked[i].path
           S == SeenIn(o, {})
           B == {q \in Node : Steady(q) /\ Reached(b, q) /\ q # b /\ q \notin S}
<1>0. FramesIn(<<>>) = {}
  BY DEF FramesIn
<1>1. Yields(o, S, n) /\ Accepts(S, n) /\ 1..(n - 1) \subseteq DOMAIN asked
  BY <1>0 DEF Standing
<1>2. b \in Node /\ touched \subseteq Path /\ kind \in [Node -> Kinds]
  BY <1>1, EntryAt DEF Inv, TypeOK
<1>3. ASSUME NEW q \in B  PROVE q \in Path /\ Up[q] \in B
  <2>1. q \in Node /\ Covers(b, q) /\ q # b /\ Steady(q) /\ Reached(b, q) /\ q \notin S
    BY DEF Reached
  <2>2. q \in Path /\ Covers(b, Up[q])
    <3>1. q # Root
      BY <2>1, TreeAssumption DEF Covers
    <3> QED BY <1>2, <2>1, <3>1, CoversUp DEF Node
  <2>3. /\ Reached(b, Up[q]) /\ Enterable(Up[q]) /\ Present(q) /\ q \notin Git \cup Respelled
        /\ Up[q] = b \/ Up[q] \notin Odd
    BY <1>2, <2>1, <2>2, ReachedBelow
  <2>4. Up[q] \in Node /\ Covers(Up[q], q)
    BY <2>2, UpNode DEF Covers
  <2>5. Steady(Up[q])
    BY <1>2, <2>1, <2>4, SteadyUp
  <2>6. Up[q] \notin o.visited
    BY <2>1, <2>2, <2>3 DEF SeenIn
  <2>7. Up[q] # b
    <3> SUFFICES ASSUME Up[q] = b  PROVE FALSE
      OBVIOUS
    <3>1. b \in Answered("walk", n)
      BY <1>1, <2>3, <2>5, TakenEntry
    <3> QED BY <1>1, <2>4, <2>5, <2>6, <3>1 DEF Yields, Got
  <2>8. Up[q] \notin S
    <3> SUFFICES ASSUME Up[q] \in S  PROVE FALSE
      OBVIOUS
    <3> DEFINE d == Up[q]
    <3>1. d \in Path /\ Present(d)
      BY DEF SeenIn
    <3>2. Covers(b, Up[d])
      BY <1>2, <2>3, <2>7, <3>1, CoversUp DEF Reached
    <3>3. d \notin Git \cup Odd
      BY <1>2, <2>3, <2>7, <3>1, <3>2, ReachedBelow
    <3>4. NameOutcome(d, Hidden(Up[d])) # "fail"
      BY <1>1, <2>5 DEF Accepts, Walked
    <3>5. kind[d] \in Kinds /\ Hidden(Up[d]) \in BOOLEAN /\ d # Root
      BY <1>2, <2>4, <3>1, TreeAssumption DEF Hidden
    <3>6. NameOutcome(d, Hidden(Up[d])) = "walk"
      BY <2>3, <3>1, <3>3, <3>4, <3>5, NameCases DEF Enterable
    <3>7. d \in Got("walk", S, n)
      BY <3>6 DEF Got, Walked
    <3> QED BY <1>1, <2>4, <2>5, <2>6, <3>7 DEF Yields
  <2> QED BY <2>2, <2>3, <2>4, <2>5, <2>7, <2>8
<1>4. Root \notin B
  BY <1>3, TreeAssumption
<1>5. B = {}
  <2> HIDE DEF B
  <2>1. B \subseteq Node
    BY DEF B
  <2> QED BY <1>3, <1>4, <2>1, UpMinimal
<1> QED BY <1>5

\* What walks and entries yield, in full, once nothing is left to walk.
LEMMA GotRegular ==
  ASSUME Inv, SteadyInv, NEW o \in Found, NEW n, NEW s, Standing(o, n, s),
         NEW p \in Got("file", SeenIn(o, FramesIn(s)), n), Steady(p)
  PROVE  p \in Regular
<1>1. p \in Met \ Odd
  BY GotMet
<1>2. p \in Node /\ kind[p] \in Kinds
  BY <1>1 DEF Met, Inv, TypeOK
<1>3. CASE p \in Answered("file", n)
  <2>1. /\ ~Passed(p)
        /\ \E e \in Open : e.path = p /\ EntryOutcome(e) = "file" /\ Clear(e)
    BY <1>3, AnsweredMet DEF Standing
  <2>2. kind[p] = "file"
    <3>1. PICK e \in Open : e.path = p /\ EntryOutcome(e) = "file" /\ Clear(e)
      BY <2>1
    <3>2. e \in Entry
      BY <3>1, EntryTyped DEF Open
    <3> QED BY <1>2, <3>1, <3>2, EntryCases, DirCases DEF Kinds
  <2> QED BY <1>1, <2>1, <2>2 DEF Regular
<1>4. CASE p \in Walked("file", SeenIn(o, FramesIn(s)))
  <2>1. p \in Path /\ NameOutcome(p, Hidden(Up[p])) = "file" /\ Hidden(Up[p]) \in BOOLEAN
    BY <1>4 DEF Walked, SeenIn, Hidden
  <2>2. kind[p] = "file" /\ ~Passed(p)
    BY <1>2, <2>1, NameCases
  <2> QED BY <1>1, <2>2 DEF Regular
<1> QED BY <1>3, <1>4 DEF Got

LEMMA RegularGot ==
  ASSUME Inv, SteadyInv, NEW o \in Found, NEW n, Standing(o, n, <<>>),
         DOMAIN asked \subseteq 1..(n - 1),
         NEW p \in Regular, Steady(p)
  PROVE  p \in Got("file", SeenIn(o, {}), n)
<1>0. FramesIn(<<>>) = {}
  BY DEF FramesIn
<1>1. Accepts(SeenIn(o, {}), n) /\ 1..(n - 1) \subseteq DOMAIN asked
  BY <1>0 DEF Standing
<1>2. /\ p \in Node /\ p \notin Odd /\ kind[p] = "file" /\ ~Passed(p) /\ Present(p)
      /\ kind[p] \in Kinds
  BY DEF Regular, Met, Present, Kinds
<1>3. PICK e \in Open : Reached(e.path, p)
  BY DEF Regular, Met
<1>4. PICK i \in 1..(n - 1) : e = asked[i]
  BY DEF Open, Entries
<1>5. e.path \in Node /\ Covers(e.path, p)
  BY <1>3, EntryTyped DEF Open, Reached
<1>6. CASE p = e.path
  BY <1>1, <1>2, <1>4, <1>6, TakenEntry DEF Got
<1>7. CASE p # e.path
  <2>1. p \in SeenIn(o, {})
    BY <1>2, <1>3, <1>4, <1>7, ReachedSeen
  <2>2. p \in Path /\ Hidden(Up[p]) \in BOOLEAN
    BY <2>1 DEF SeenIn, Hidden
  <2>3. Covers(e.path, Up[p])
    BY <1>5, <1>7, <2>2, CoversUp
  <2>4. p \notin Git
    BY <1>3, <1>5, <2>2, <2>3, ReachedBelow
  <2>5. NameOutcome(p, Hidden(Up[p])) # "fail"
    BY <1>1, <2>1 DEF Accepts, Walked
  <2>6. NameOutcome(p, Hidden(Up[p])) = "file"
    BY <1>2, <2>2, <2>4, <2>5, NameCases
  <2> QED BY <2>1, <2>6 DEF Got, Walked
<1> QED BY <1>6, <1>7

\* An expansion is done when there is nothing left to take up or to walk.
Over == status = "done" => stack = <<>> /\ DOMAIN asked \subseteq 1..(next - 1)

LEMMA OverInductive == ASSUME Inv, Over, [Next]_vars  PROVE Over'
<1>1. CASE status = "expanding" /\ ~Finish /\ Next
  <2>1. status' # "done"
    <3>1. CASE SkipRepeated
      BY <1>1, <3>1 DEF SkipRepeated
    <3>2. CASE AddEntry
      BY <1>1, <3>2 DEF AddEntry, Fail, GoOn, WalkDir
    <3>3. ASSUME NEW p \in Path, ReadName(p)  PROVE status' # "done"
      BY <1>1, <3>3 DEF ReadName, Fail, GoOn, WalkDir
    <3>4. CASE CloseDir
      BY <1>1, <3>4 DEF CloseDir
    <3>5. ASSUME NEW p \in Editable, NEW k \in Kinds, Change(p, k)  PROVE status' # "done"
      BY <1>1, <3>5 DEF Change
    <3> QED BY <1>1, <3>1, <3>2, <3>3, <3>4, <3>5 DEF Next, Step
  <2> QED BY <2>1 DEF Over
<1>2. CASE Finish
  <2>1. asked \in Seq(Entry)
    BY DEF Inv, TypeOK
  <2>2. DOMAIN asked = 1..(next - 1)
    <3>1. Len(asked) \in Nat /\ DOMAIN asked = 1..Len(asked)
      BY <2>1
    <3>2. next = Len(asked) + 1
      BY <1>2 DEF Finish
    <3> DEFINE l == Len(asked)
    <3>3. l \in Nat /\ DOMAIN asked = 1..l /\ next = l + 1
      BY <3>1, <3>2
    <3> HIDE DEF l
    <3> QED BY <3>3
  <2> QED BY <1>2, <2>2 DEF Finish, Over, given
<1>3. CASE status # "expanding" \/ UNCHANGED vars
  <2>1. UNCHANGED <<status, stack, asked, next>>
    BY <1>3 DEF Next, Step, SkipRepeated, AddEntry, ReadName, CloseDir, Finish, Change,
                Expanding, Walking, vars, given
  <2> QED BY <2>1 DEF Over
<1> QED BY <1>1, <1>2, <1>3

LEMMA StandsAlways == Spec => [](SteadyInv /\ Over)
<1>1. Init => SteadyInv /\ Over
  BY StandsAtFirst DEF Init, Over
<1>2. Inv /\ (SteadyInv /\ Over) /\ [Next]_vars => (SteadyInv /\ Over)'
  BY StandingInductive, OverInductive
<1> QED BY <1>1, <1>2, Always, PTL DEF Spec

\* However other programs change the tree meanwhile, of the files they leave
\* alone an expansion selects those that the entries reach, sets those aside
\* that are excluded, and does so with no other.
THEOREM SteadyFilesSelected == Spec => []SteadyAgrees
<1>1. ASSUME Inv, SteadyInv, Over  PROVE SteadyAgrees
  <2> SUFFICES ASSUME status = "done", NEW p \in Path, Steady(p)
               PROVE  /\ p \in out.files <=> p \in WantedFiles
                      /\ p \in out.hidden <=> p \in WantedHidden
    BY DEF SteadyAgrees
  <2>1. /\ stack = <<>> /\ DOMAIN asked \subseteq 1..(next - 1) /\ out \in Found
        /\ p \in Node
    BY <1>1 DEF Over, Inv, TypeOK, Node
  <2>2. Standing(out, next, <<>>) /\ FramesIn(<<>>) = {}
    BY <1>1, <2>1 DEF SteadyInv, FramesIn
  <2> DEFINE S == SeenIn(out, {})
  <2>3. p \in Got("file", S, next) <=> p \in Regular
    <3>1. ASSUME p \in Got("file", S, next)  PROVE p \in Regular
      BY <1>1, <2>1, <2>2, <3>1, GotRegular
    <3>2. ASSUME p \in Regular  PROVE p \in Got("file", S, next)
      BY <1>1, <2>1, <2>2, <3>2, RegularGot
    <3> QED BY <3>1, <3>2
  <2>4. /\ p \in out.files <=> p \in Got("file", S, next) /\ ~Hidden(p)
        /\ p \in out.hidden <=> p \in Got("file", S, next) /\ Hidden(p) /\ ~counting
    BY <2>1, <2>2 DEF Standing, Yields
  <2> QED BY <2>3, <2>4 DEF WantedFiles, WantedHidden
<1> QED BY <1>1, Always, StandsAlways, PTL
-----------------------------------------------------------------------------
\* What holds of an expansion that nobody disturbs.

Places(s) == {s[i] : i \in DOMAIN s}
Tally(k, S, n) == Cardinality(Walked(k, S)) + Cardinality(Answered(k, n))

EntriesFor(k, n) == {e \in Entries : EntryOutcome(e) = k /\ \E i \in 1..(n - 1) : asked[i] = e}
Parents(n) == {d \in Node : \E i \in 1..(n - 1) : asked[i].path # Root /\ d = Up[asked[i].path]}

\* All there is in the result comes of a name or an entry, and each name and
\* each entry counts once.
Tallied(o, S, n) ==
  /\ o.missing = EntriesFor("missing", n)
  /\ o.named = {p \in Answered("file", n) : /\ [path |-> p, origin |-> "named"] \in Entries
                                            /\ ~(counting /\ Hidden(p))}
  /\ Places(o.specials) = Got("special", S, n)
  /\ Places(o.boundaries) = Got("boundary", S, n)
  /\ Noted(o) = Tally("special", S, n) + Tally("boundary", S, n)
  /\ o.swept = {Root} \cup o.visited \cup Parents(n)
  /\ \A u, v \in o.visited : u # v => Inode[u] # Inode[v]
  /\ \A i \in 1..(n - 1) : EntryOutcome(asked[i]) # "fail"

\* Directories are walked from the first entry that reaches them.
InTurn(o, n, s) ==
  /\ \A d \in o.visited : Levels(asked[Earliest(Reaching(d))].path, d) <= limits.depth
  /\ s # <<>> =>
       /\ n - 1 \in DOMAIN asked /\ asked[n - 1] \in Open
       /\ \A f \in FramesIn(s) :
            /\ Reached(asked[n - 1].path, f.dir)
            /\ f.depth = Levels(asked[n - 1].path, f.dir)
            /\ f.read \subseteq f.listed
            /\ f.listed \subseteq Listing(f.dir)
       /\ \A i \in 1..(n - 2), d \in Entered :
            asked[i] \in Open /\ Reached(asked[i].path, d) => d \in o.visited

Measured(o, n, s) == /\ Standing(o, n, s)
                     /\ Tallied(o, SeenIn(o, FramesIn(s)), n)
                     /\ InTurn(o, n, s)

Within == /\ Cardinality(out.files) <= limits.files
          /\ Cardinality(out.hidden) <= limits.files
          /\ bytes <= limits.bytes
          /\ scanned = Cardinality(SeenNow)
          /\ scanned <= limits.scanned

Reason == Refused \/ OverBudget \/ TooDeep

ExactInv ==
  touched = {} =>
    /\ status # "failed" => Measured(out, next, stack) /\ Within
    /\ status = "failed" => Reason
    /\ status = "done" => ~Twins(out.files)
-----------------------------------------------------------------------------
\* Of an undisturbed expansion: nothing is found that is not there to find.
LEMMA AllSteady == ASSUME touched = {}, NEW p  PROVE Steady(p)
  BY DEF Steady

LEMMA BeneathHidden == ASSUME NEW p \in Path  PROVE Beneath(p) = Hidden(Up[p])
<1>1. \A x : x \in Above[p] <=> Covers(x, Up[p])
  BY UpNode DEF Covers
<1> QED BY <1>1 DEF Beneath, Hidden

\* What is known of a name that has been looked at.
LEMMA WalkedParts ==
  ASSUME Inv, SteadyInv, touched = {}, NEW o \in Found, NEW n, NEW s, Standing(o, n, s),
         NEW p \in SeenIn(o, FramesIn(s))
  PROVE  /\ p \in Path /\ p \in Node /\ p # Root /\ Present(p) /\ p \notin Respelled
         /\ kind[p] \in Kinds /\ Up[p] \in Entered /\ Hidden(Up[p]) \in BOOLEAN
         /\ Hidden(p) = (Hidden(Up[p]) \/ p \in excl)
         /\ p \notin Git => p \in Met /\ ByWalk(p)
<1>1. p \in Path /\ Present(p) /\ p \notin Respelled /\ Up[p] \in o.visited
  BY DEF SeenIn
<1>2. p \in Node /\ p # Root /\ kind[p] \in Kinds /\ Hidden(Up[p]) \in BOOLEAN
  BY <1>1, UpNode DEF Inv, TypeOK, Hidden
<1>3. Up[p] \in Entered
  BY <1>1, AllSteady, VisitedEntered
<1>4. Hidden(p) = (Hidden(Up[p]) \/ p \in excl)
  <2>1. Hidden(p) <=> (Hidden(Up[p]) \/ p \in excl)
    BY <1>1, HiddenBelow DEF Inv, TypeOK
  <2> QED BY <2>1 DEF Hidden
<1>5. p \notin Git => p \in Met /\ ByWalk(p)
  BY <1>1, <1>2, <1>3, SeenMet DEF ByWalk
<1> QED BY <1>1, <1>2, <1>3, <1>4, <1>5

LEMMA WalkedSound ==
  ASSUME Inv, SteadyInv, touched = {}, NEW o \in Found, NEW n, NEW s, Standing(o, n, s)
  PROVE  /\ Walked("special", SeenIn(o, FramesIn(s))) \subseteq {p \in WantedSpecials : ByWalk(p)}
         /\ Walked("boundary", SeenIn(o, FramesIn(s))) \subseteq WalkedInto
<1> DEFINE S == SeenIn(o, FramesIn(s))
<1>1. ASSUME NEW p \in Walked("special", S)  PROVE p \in WantedSpecials /\ ByWalk(p)
  <2>1. p \in S /\ NameOutcome(p, Hidden(Up[p])) = "special"
    BY <1>1 DEF Walked
  <2>2. /\ p \in Path /\ Present(p) /\ kind[p] \in Kinds /\ Hidden(Up[p]) \in BOOLEAN
        /\ Hidden(p) = (Hidden(Up[p]) \/ p \in excl)
        /\ p \notin Git => p \in Met /\ ByWalk(p)
    BY <2>1, WalkedParts
  <2>3. p \notin Git \cup Odd
    BY <2>1, <2>2, NameCases
  <2>4. /\ kind[p] \in {"symlink", "fifo"} /\ ~Passed(p)
        /\ ~Hidden(Up[p]) /\ p \notin excl
    BY <2>1, <2>2, <2>3, NameCases
  <2> QED BY <2>2, <2>3, <2>4 DEF WantedSpecials
<1>2. ASSUME NEW p \in Walked("boundary", S)  PROVE p \in WalkedInto
  <2>1. p \in S /\ NameOutcome(p, Hidden(Up[p])) = "boundary"
    BY <1>2 DEF Walked
  <2>2. /\ p \in Path /\ p # Root /\ Present(p) /\ kind[p] \in Kinds
        /\ Hidden(Up[p]) \in BOOLEAN
        /\ p \notin Git => p \in Met /\ ByWalk(p)
    BY <2>1, WalkedParts
  <2>3. p \notin Git \cup Odd
    BY <2>1, <2>2, NameCases
  <2>4. kind[p] = "dir" /\ IsRepo(p) /\ ~Hidden(Up[p])
    BY <2>1, <2>2, <2>3, NameCases
  <2> QED BY <2>2, <2>3, <2>4, BeneathHidden DEF WalkedInto, Repos
<1> QED BY <1>1, <1>2

LEMMA AnsweredSound ==
  ASSUME Inv, SteadyInv, NEW n, 1..(n - 1) \subseteq DOMAIN asked
  PROVE  /\ Answered("special", n) \subseteq {p \in WantedSpecials : Itself(p)}
         /\ Answered("boundary", n) \subseteq AskedFor
         /\ Answered("file", n) \subseteq Regular
         /\ Answered("walk", n) \subseteq Entered
         /\ EntriesFor("missing", n) \subseteq WantedMissing
<1>1. ASSUME NEW k \in {"walk", "file", "special", "boundary"}, NEW p \in Answered(k, n)
      PROVE  /\ p \in Met \ Odd /\ Itself(p) /\ ~Passed(p) /\ kind[p] \in Kinds
             /\ \E e \in Open : /\ e.path = p /\ EntryOutcome(e) = k /\ Clear(e)
                                /\ e \in Entry
  <2>1. p \in Met \ Odd /\ kind[p] \in Kinds
    BY AnsweredMet DEF Met, Inv, TypeOK
  <2> QED BY <2>1, AnsweredMet, EntryTyped DEF Open
<1>2. ASSUME NEW p \in Answered("special", n)  PROVE p \in WantedSpecials /\ Itself(p)
  <2>1. PICK e \in Open : /\ e.path = p /\ EntryOutcome(e) = "special" /\ Clear(e)
                          /\ e \in Entry
    BY <1>1
  <2>2. kind[p] \in {"symlink", "fifo"} /\ ~Hidden(p)
    BY <1>1, <2>1, EntryCases, DirCases DEF Kinds
  <2> QED BY <1>1, <2>2 DEF WantedSpecials
<1>3. ASSUME NEW p \in Answered("boundary", n)  PROVE p \in AskedFor
  <2>1. PICK e \in Open : /\ e.path = p /\ EntryOutcome(e) = "boundary" /\ Clear(e)
                          /\ e \in Entry
    BY <1>1
  <2>2. kind[p] = "dir" /\ DirOutcome(e) = "boundary"
    BY <1>1, <2>1, EntryCases DEF Kinds
  <2>3. p # Root /\ IsRepo(p) /\ ~Hidden(p)
    BY <2>1, <2>2, DirCases
  <2> QED BY <1>1, <2>2, <2>3 DEF AskedFor, Repos
<1>4. ASSUME NEW p \in Answered("file", n)  PROVE p \in Regular
  <2>1. PICK e \in Open : /\ e.path = p /\ EntryOutcome(e) = "file" /\ Clear(e)
                          /\ e \in Entry
    BY <1>1
  <2>2. kind[p] = "file"
    BY <1>1, <2>1, EntryCases, DirCases DEF Kinds
  <2> QED BY <1>1, <2>2 DEF Regular
<1>5. ASSUME NEW p \in Answered("walk", n)  PROVE p \in Entered
  <2>1. PICK e \in Open : /\ e.path = p /\ EntryOutcome(e) = "walk" /\ Clear(e)
                          /\ e \in Entry
    BY <1>1
  <2>2. kind[p] = "dir" /\ DirOutcome(e) = "walk"
    BY <1>1, <2>1, EntryCases DEF Kinds
  <2> QED BY <1>1, <2>1, <2>2, DirCases DEF Entered, Enterable
<1>6. ASSUME NEW e \in EntriesFor("missing", n)  PROVE e \in WantedMissing
  <2>1. e \in Entries /\ e \in Entry /\ EntryOutcome(e) = "missing" /\ kind[e.path] \in Kinds
    BY EntryPath DEF EntriesFor
  <2>2. Clear(e) /\ kind[e.path] = "absent" /\ e.origin # "exclusion"
    BY <2>1, EntryCases, DirCases DEF Kinds
  <2>3. e \in Open
    BY <2>1, <2>2 DEF Open, Clear, Stored, Entry
  <2> QED BY <2>2, <2>3 DEF WantedMissing, Present
<1> QED BY <1>2, <1>3, <1>4, <1>5, <1>6

LEMMA FoundSound ==
  ASSUME Inv, SteadyInv, touched = {}, NEW o \in Found, NEW n, NEW s, Standing(o, n, s)
  PROVE  /\ o.files \subseteq WantedFiles /\ o.hidden \subseteq WantedHidden
         /\ o.visited \subseteq Entered
         /\ {Root} \cup o.visited \cup Parents(n) \subseteq Swept
         /\ SeenIn(o, FramesIn(s)) \subseteq {p \in Path : /\ Present(p) /\ p \notin Respelled
                                                           /\ Up[p] \in Entered}
<1> DEFINE S == SeenIn(o, FramesIn(s))
<1>1. Yields(o, S, n) /\ 1..(n - 1) \subseteq DOMAIN asked
  BY DEF Standing
<1>2. o.files \subseteq Node /\ o.hidden \subseteq Node /\ o.visited \subseteq Node
  BY DEF Found
<1>3. /\ \A p \in o.files : p \in Got("file", S, n) /\ ~Hidden(p)
      /\ \A p \in o.hidden : p \in Got("file", S, n) /\ Hidden(p) /\ ~counting
  BY <1>1, <1>2, AllSteady DEF Yields
<1>4. \A p \in Got("file", S, n) : p \in Regular
  BY AllSteady, GotRegular
<1>5. o.visited \subseteq Entered
  BY AllSteady, VisitedEntered
<1>6. Parents(n) \subseteq {Up[e.path] : e \in {x \in Entries : x.path # Root}}
  BY <1>1 DEF Parents, Entries
<1>7. S \subseteq {p \in Path : Present(p) /\ p \notin Respelled /\ Up[p] \in Entered}
  BY <1>5 DEF SeenIn
<1> HIDE DEF S
<1>8. o.files \subseteq WantedFiles /\ o.hidden \subseteq WantedHidden
  BY <1>3, <1>4 DEF WantedFiles, WantedHidden
<1> QED BY <1>5, <1>6, <1>7, <1>8 DEF Swept, S
-----------------------------------------------------------------------------
\* What is there to find is bounded, so that what has been found is.
LEMMA CardWithin ==
  ASSUME NEW T, IsFiniteSet(T), NEW S, S \subseteq T
  PROVE  /\ IsFiniteSet(S) /\ Cardinality(S) \in Nat /\ Cardinality(T) \in Nat
         /\ Cardinality(S) <= Cardinality(T)
<1>1. IsFiniteSet(S) /\ Cardinality(S) <= Cardinality(T)
  BY FS_Subset
<1> QED BY <1>1, FS_CardinalityType

LEMMA EntriesFinite == ASSUME Inv  PROVE IsFiniteSet(Entries)
<1>1. asked \in Seq(Entry)
  BY DEF Inv, TypeOK
<1>2. Len(asked) \in Nat /\ DOMAIN asked = 1..Len(asked)
  BY <1>1
<1>3. IsFiniteSet(DOMAIN asked)
  BY <1>2, FS_Interval
<1>4. asked \in Surjection(DOMAIN asked, Entries)
  <2>1. asked \in [DOMAIN asked -> Entries]
    BY <1>1 DEF Entries
  <2> QED BY <2>1 DEF Surjection, Entries
<1> QED BY <1>3, <1>4, FS_Surjection

Scans == {p \in Path : Present(p) /\ p \notin Respelled /\ Up[p] \in Entered}

LEMMA WantedFinite ==
  ASSUME Inv
  PROVE  /\ IsFiniteSet(WantedFiles) /\ IsFiniteSet(WantedHidden)
         /\ IsFiniteSet(WantedMissing) /\ IsFiniteSet(Swept) /\ IsFiniteSet(Entered)
         /\ IsFiniteSet({p \in WantedSpecials : ByWalk(p)})
         /\ IsFiniteSet({p \in WantedSpecials : Itself(p)})
         /\ IsFiniteSet(WalkedInto) /\ IsFiniteSet(AskedFor) /\ IsFiniteSet(Scans)
<1>1. Met \subseteq Node
  BY DEF Met
<1>2. WantedFiles \subseteq Node /\ WantedHidden \subseteq Node
  BY <1>1 DEF WantedFiles, WantedHidden, Regular
<1>3. Entered \subseteq Node
  BY <1>1 DEF Entered
<1>4. Swept \subseteq Node
  <2>2. \A e \in Entries : e.path # Root => e.path \in Path
    BY EntryTyped DEF Node
  <2>3. {Up[e.path] : e \in {x \in Entries : x.path # Root}} \subseteq Node
    BY <2>2, UpNode
  <2> QED BY <1>3, <2>3 DEF Swept, Node
<1>5. /\ {p \in WantedSpecials : ByWalk(p)} \subseteq Node
      /\ {p \in WantedSpecials : Itself(p)} \subseteq Node
  BY <1>1 DEF WantedSpecials
<1>6. WalkedInto \subseteq Node /\ AskedFor \subseteq Node
  BY <1>1 DEF WalkedInto, AskedFor, Repos
<1>7. Scans \subseteq Node
  BY DEF Scans, Node
<1>8. IsFiniteSet(WantedMissing)
  <2>1. WantedMissing \subseteq Entries
    BY DEF WantedMissing, Open
  <2> QED BY <2>1, EntriesFinite, FS_Subset
<1>9. \A S : S \subseteq Node => IsFiniteSet(S)
  BY NodesFinite, FS_Subset
<1> QED BY <1>2, <1>3, <1>4, <1>5, <1>6, <1>7, <1>8, <1>9

LEMMA Bounded ==
  ASSUME Inv, SteadyInv, touched = {}, NEW o \in Found, NEW n, NEW s, Standing(o, n, s),
         Tallied(o, SeenIn(o, FramesIn(s)), n)
  PROVE  /\ Cardinality(o.files) <= Cardinality(WantedFiles)
         /\ Cardinality(o.hidden) <= Cardinality(WantedHidden)
         /\ Cardinality(SeenIn(o, FramesIn(s))) <= WantedScans
         /\ Kept(o) <= WantedBytes
<1> DEFINE S == SeenIn(o, FramesIn(s))
           ws == Walked("special", S)
           as == Answered("special", n)
           wb == Walked("boundary", S)
           ab == Answered("boundary", n)
           MS == {p \in WantedSpecials : ByWalk(p)}
           IS == {p \in WantedSpecials : Itself(p)}
<1>0. 1..(n - 1) \subseteq DOMAIN asked
  BY DEF Standing
<1>1. /\ o.missing = EntriesFor("missing", n)
      /\ o.swept = {Root} \cup o.visited \cup Parents(n)
      /\ Noted(o) = Tally("special", S, n) + Tally("boundary", S, n)
  BY DEF Tallied
<1>2. ws \subseteq MS /\ wb \subseteq WalkedInto
  BY WalkedSound
<1>3. as \subseteq IS /\ ab \subseteq AskedFor /\ EntriesFor("missing", n) \subseteq WantedMissing
  BY <1>0, AnsweredSound
<1>4. /\ o.files \subseteq WantedFiles /\ o.hidden \subseteq WantedHidden
      /\ o.visited \subseteq Entered /\ o.swept \subseteq Swept
      /\ S \subseteq Scans
  BY <1>1, FoundSound DEF Scans
<1>5. Noted(o) = (Cardinality(ws) + Cardinality(as)) + (Cardinality(wb) + Cardinality(ab))
  BY <1>1 DEF Tally
<1>6. WantedBytes = 3 * Cardinality(WantedFiles) + 4 * Cardinality(WantedHidden)
        + Cardinality(WantedMissing) + Cardinality(Swept) + Cardinality(Entered)
        + Cardinality(MS) + Cardinality(IS) + Cardinality(WalkedInto) + Cardinality(AskedFor)
  BY DEF WantedBytes
<1>7. WantedScans = Cardinality(Scans)
  BY DEF WantedScans, Scans
<1>8. /\ IsFiniteSet(WantedFiles) /\ IsFiniteSet(WantedHidden)
      /\ IsFiniteSet(WantedMissing) /\ IsFiniteSet(Swept) /\ IsFiniteSet(Entered)
      /\ IsFiniteSet(MS) /\ IsFiniteSet(IS)
      /\ IsFiniteSet(WalkedInto) /\ IsFiniteSet(AskedFor) /\ IsFiniteSet(Scans)
  BY WantedFinite
<1> HIDE DEF S, ws, as, wb, ab, MS, IS
<1>9. /\ Cardinality(o.files) \in Nat /\ Cardinality(WantedFiles) \in Nat
      /\ Cardinality(o.files) <= Cardinality(WantedFiles)
  BY <1>4, <1>8, CardWithin
<1>10. /\ Cardinality(o.hidden) \in Nat /\ Cardinality(WantedHidden) \in Nat
       /\ Cardinality(o.hidden) <= Cardinality(WantedHidden)
  BY <1>4, <1>8, CardWithin
<1>11. /\ Cardinality(o.missing) \in Nat /\ Cardinality(WantedMissing) \in Nat
       /\ Cardinality(o.missing) <= Cardinality(WantedMissing)
  BY <1>1, <1>3, <1>8, CardWithin
<1>12. /\ Cardinality(o.swept) \in Nat /\ Cardinality(Swept) \in Nat
       /\ Cardinality(o.swept) <= Cardinality(Swept)
  BY <1>4, <1>8, CardWithin
<1>13. /\ Cardinality(o.visited) \in Nat /\ Cardinality(Entered) \in Nat
       /\ Cardinality(o.visited) <= Cardinality(Entered)
  BY <1>4, <1>8, CardWithin
<1>14. /\ Cardinality(ws) \in Nat /\ Cardinality(MS) \in Nat
       /\ Cardinality(ws) <= Cardinality(MS)
  BY <1>2, <1>8, CardWithin
<1>15. /\ Cardinality(as) \in Nat /\ Cardinality(IS) \in Nat
       /\ Cardinality(as) <= Cardinality(IS)
  BY <1>3, <1>8, CardWithin
<1>16. /\ Cardinality(wb) \in Nat /\ Cardinality(WalkedInto) \in Nat
       /\ Cardinality(wb) <= Cardinality(WalkedInto)
  BY <1>2, <1>8, CardWithin
<1>17. /\ Cardinality(ab) \in Nat /\ Cardinality(AskedFor) \in Nat
       /\ Cardinality(ab) <= Cardinality(AskedFor)
  BY <1>3, <1>8, CardWithin
<1>18. Cardinality(S) <= Cardinality(Scans)
  BY <1>4, <1>8, CardWithin
<1>19. Kept(o) = 3 * Cardinality(o.files) + 4 * Cardinality(o.hidden) + Cardinality(o.missing)
         + ((Cardinality(ws) + Cardinality(as)) + (Cardinality(wb) + Cardinality(ab)))
         + Cardinality(o.swept) + Cardinality(o.visited)
  BY <1>5 DEF Kept
<1>20. Kept(o) <= WantedBytes
  <2> DEFINE a1 == Cardinality(o.files)   b1 == Cardinality(WantedFiles)
             a2 == Cardinality(o.hidden)  b2 == Cardinality(WantedHidden)
             a3 == Cardinality(o.missing) b3 == Cardinality(WantedMissing)
             a4 == Cardinality(o.swept)   b4 == Cardinality(Swept)
             a5 == Cardinality(o.visited) b5 == Cardinality(Entered)
             a6 == Cardinality(ws)        b6 == Cardinality(MS)
             a7 == Cardinality(as)        b7 == Cardinality(IS)
             a8 == Cardinality(wb)        b8 == Cardinality(WalkedInto)
             a9 == Cardinality(ab)        b9 == Cardinality(AskedFor)
  <2>1. Kept(o) = 3 * a1 + 4 * a2 + a3 + ((a6 + a7) + (a8 + a9)) + a4 + a5
    BY <1>19
  <2>2. WantedBytes = 3 * b1 + 4 * b2 + b3 + b4 + b5 + b6 + b7 + b8 + b9
    BY <1>6
  <2>3. /\ a1 \in Nat /\ b1 \in Nat /\ a1 <= b1 /\ a2 \in Nat /\ b2 \in Nat /\ a2 <= b2
        /\ a3 \in Nat /\ b3 \in Nat /\ a3 <= b3 /\ a4 \in Nat /\ b4 \in Nat /\ a4 <= b4
        /\ a5 \in Nat /\ b5 \in Nat /\ a5 <= b5 /\ a6 \in Nat /\ b6 \in Nat /\ a6 <= b6
        /\ a7 \in Nat /\ b7 \in Nat /\ a7 <= b7 /\ a8 \in Nat /\ b8 \in Nat /\ a8 <= b8
        /\ a9 \in Nat /\ b9 \in Nat /\ a9 <= b9
    BY <1>9, <1>10, <1>11, <1>12, <1>13, <1>14, <1>15, <1>16, <1>17
  <2> HIDE DEF a1, a2, a3, a4, a5, a6, a7, a8, a9, b1, b2, b3, b4, b5, b6, b7, b8, b9
  <2> QED BY <2>1, <2>2, <2>3
<1> QED BY <1>7, <1>9, <1>10, <1>18, <1>20 DEF S
-----------------------------------------------------------------------------
\* When nothing is left to walk, all that the entries reach has been found.
LEMMA ReachedVisited ==
  ASSUME Inv, SteadyInv, touched = {}, NEW o \in Found, NEW n, Standing(o, n, <<>>),
         NEW i \in 1..(n - 1), asked[i] \in Open,
         NEW d \in Entered, Reached(asked[i].path, d)
  PROVE  d \in o.visited
<1> DEFINE S == SeenIn(o, {})
           b == asked[i].path
<1>0. FramesIn(<<>>) = {}
  BY DEF FramesIn
<1>1. Yields(o, S, n) /\ Accepts(S, n) /\ 1..(n - 1) \subseteq DOMAIN asked
  BY <1>0 DEF Standing
<1>2. d \in Node /\ d \notin Odd /\ Enterable(d) /\ Steady(d) /\ b \in Node
  BY <1>1, AllSteady, EntryAt DEF Entered, Met
<1>3. d = b \/ d \in S
  BY <1>2, ReachedSeen
<1>4. CASE d = b
  <2>1. d \in Answered("walk", n)
    BY <1>1, <1>2, <1>4, AllSteady, TakenEntry
  <2> QED BY <1>1, <1>2, <2>1 DEF Yields, Got
<1>5. CASE d # b /\ d \in S
  <2>1. d \in Path /\ Covers(b, Up[d])
    <3>1. d \in Path
      BY <1>5 DEF SeenIn
    <3> QED BY <1>2, <1>5, <3>1, CoversUp DEF Reached
  <2>2. d \notin Git /\ Present(d)
    BY <1>2, <2>1, ReachedBelow
  <2>3. kind[d] \in Kinds /\ Hidden(Up[d]) \in BOOLEAN /\ d # Root
    BY <1>2, <2>1, TreeAssumption DEF Hidden, Inv, TypeOK
  <2>4. NameOutcome(d, Hidden(Up[d])) # "fail"
    BY <1>1, <1>2, <1>5 DEF Accepts, Walked
  <2>5. NameOutcome(d, Hidden(Up[d])) = "walk"
    BY <1>2, <2>1, <2>2, <2>3, <2>4, NameCases DEF Enterable
  <2>6. d \in Got("walk", S, n)
    BY <1>5, <2>5 DEF Got, Walked
  <2> QED BY <1>1, <1>2, <2>6 DEF Yields
<1> QED BY <1>3, <1>4, <1>5

\* An expansion that has nothing left to take up or to walk.
Complete(o, n) ==
  /\ o \in Found
  /\ Standing(o, n, <<>>)
  /\ Tallied(o, SeenIn(o, {}), n)
  /\ DOMAIN asked \subseteq 1..(n - 1)

LEMMA CompleteParts ==
  ASSUME Inv, SteadyInv, touched = {}, NEW o, NEW n, Complete(o, n)
  PROVE  /\ FramesIn(<<>>) = {}
         /\ Yields(o, SeenIn(o, {}), n) /\ Accepts(SeenIn(o, {}), n)
         /\ 1..(n - 1) \subseteq DOMAIN asked
         /\ \A e \in Entries : /\ EntryOutcome(e) # "fail"
                               /\ \E i \in 1..(n - 1) : asked[i] = e
         /\ \A p \in SeenIn(o, {}) : NameOutcome(p, Hidden(Up[p])) # "fail"
<1>1. FramesIn(<<>>) = {}
  BY DEF FramesIn
<1>2. /\ Yields(o, SeenIn(o, {}), n) /\ Accepts(SeenIn(o, {}), n)
      /\ 1..(n - 1) \subseteq DOMAIN asked
  BY <1>1 DEF Complete, Standing
<1>3. \A e \in Entries : \E i \in 1..(n - 1) : asked[i] = e
  BY DEF Complete, Entries
<1>4. \A i \in 1..(n - 1) : EntryOutcome(asked[i]) # "fail"
  BY DEF Complete, Tallied
<1>5. \A p \in SeenIn(o, {}) : NameOutcome(p, Hidden(Up[p])) # "fail"
  BY <1>2, AllSteady DEF Accepts, Walked
<1> QED BY <1>1, <1>2, <1>3, <1>4, <1>5

LEMMA AllVisited ==
  ASSUME Inv, SteadyInv, touched = {}, NEW o, NEW n, Complete(o, n)
  PROVE  o.visited = Entered /\ SeenIn(o, {}) = Scans
<1>1. o.visited \subseteq Entered
  BY FoundSound DEF Complete
<1>2. ASSUME NEW d \in Entered  PROVE d \in o.visited
  <2>1. PICK e \in Open : Reached(e.path, d)
    BY DEF Entered, Met
  <2>2. PICK i \in 1..(n - 1) : asked[i] = e
    BY <2>1, CompleteParts DEF Open
  <2> QED BY <2>1, <2>2, ReachedVisited DEF Complete
<1>3. o.visited = Entered
  BY <1>1, <1>2
<1> QED BY <1>3 DEF SeenIn, Scans

\* Whatever is met is an entry itself or a name that has been looked at.
LEMMA MetTaken ==
  ASSUME Inv, SteadyInv, touched = {}, NEW o, NEW n, Complete(o, n), NEW p \in Met
  PROVE  Itself(p) \/ (p \in SeenIn(o, {}) /\ p \notin Git /\ ByWalk(p))
<1>1. PICK e \in Open : Reached(e.path, p)
  BY DEF Met
<1>2. PICK i \in 1..(n - 1) : asked[i] = e
  BY <1>1, CompleteParts DEF Open
<1>3. p \in Node /\ Steady(p) /\ e.path \in Node /\ Covers(e.path, p)
  BY <1>1, AllSteady, EntryTyped DEF Met, Open, Reached
<1>4. p = e.path \/ p \in SeenIn(o, {})
  BY <1>1, <1>2, <1>3, ReachedSeen DEF Complete
<1>5. ASSUME p # e.path, p \in SeenIn(o, {})  PROVE p \notin Git /\ ByWalk(p)
  <2>1. /\ p \in Path /\ p \notin Respelled /\ p # Root
        /\ Up[p] \in o.visited
    BY <1>5, TreeAssumption DEF SeenIn
  <2>2. p \notin Git
    BY <1>1, <1>3, <1>5, <2>1, CoversUp, ReachedBelow
  <2> QED BY <2>1, <2>2, AllVisited DEF ByWalk
<1> QED BY <1>4, <1>5 DEF Itself

\* A name of a directory that is entered has been looked at.
LEMMA ByWalkSeen ==
  ASSUME Inv, SteadyInv, touched = {}, NEW o, NEW n, Complete(o, n),
         NEW p \in Node, ByWalk(p), Present(p)
  PROVE  /\ p \in SeenIn(o, {}) /\ p \in Path /\ p \notin Git
         /\ kind[p] \in Kinds /\ Hidden(Up[p]) \in BOOLEAN
         /\ NameOutcome(p, Hidden(Up[p])) # "fail"
         /\ Hidden(p) <=> (Hidden(Up[p]) \/ p \in excl)
<1>1. p \in Path /\ kind[p] \in Kinds /\ Hidden(Up[p]) \in BOOLEAN
  BY DEF ByWalk, Node, Inv, TypeOK, Hidden
<1>2. p \in SeenIn(o, {}) /\ p \notin Git
  BY <1>1, AllVisited DEF ByWalk, Scans
<1>3. Hidden(p) <=> (Hidden(Up[p]) \/ p \in excl)
  BY <1>1, HiddenBelow DEF Inv, TypeOK
<1> QED BY <1>1, <1>2, <1>3, CompleteParts

\* An entry that is open has been taken up, and not refused.
LEMMA OpenTaken ==
  ASSUME Inv, SteadyInv, touched = {}, NEW o, NEW n, Complete(o, n), NEW e \in Open
  PROVE  /\ e \in Entry /\ e \in Entries /\ e.path \in Node /\ kind[e.path] \in Kinds
         /\ Clear(e) /\ EntryOutcome(e) # "fail"
         /\ \A k : EntryOutcome(e) = k => e.path \in Answered(k, n)
<1>1. e \in Entries /\ EntryOutcome(e) # "fail"
  BY CompleteParts DEF Open
<1>2. PICK i \in 1..(n - 1) : asked[i] = e
  BY <1>1, CompleteParts
<1>3. e \in Entry /\ e.path \in Node /\ kind[e.path] \in Kinds
  BY <1>1, EntryPath
<1>4. Clear(e)
  BY <1>1, <1>2, AllSteady, CompleteParts, TakenEntry
<1> QED BY <1>1, <1>2, <1>3, <1>4 DEF Answered
-----------------------------------------------------------------------------
\* What a complete expansion has found.
LEMMA RegularFound ==
  ASSUME Inv, SteadyInv, touched = {}, NEW o, NEW n, Complete(o, n)
  PROVE  o.files = WantedFiles /\ o.hidden = WantedHidden
<1>1. o \in Found /\ Standing(o, n, <<>>) /\ DOMAIN asked \subseteq 1..(n - 1)
  BY DEF Complete
<1>2. FramesIn(<<>>) = {} /\ Yields(o, SeenIn(o, {}), n)
  BY CompleteParts
<1>3. ASSUME NEW p \in Node
      PROVE  p \in Got("file", SeenIn(o, {}), n) <=> p \in Regular
  <2>1. ASSUME p \in Got("file", SeenIn(o, {}), n)  PROVE p \in Regular
    <3>1. p \in Got("file", SeenIn(o, FramesIn(<<>>)), n) /\ Steady(p)
      BY <1>2, <2>1, AllSteady
    <3> QED BY <1>1, <3>1, GotRegular
  <2>2. ASSUME p \in Regular  PROVE p \in Got("file", SeenIn(o, {}), n)
    <3>1. Steady(p)
      BY AllSteady
    <3> QED BY <1>1, <2>2, <3>1, RegularGot
  <2> QED BY <2>1, <2>2
<1>4. ASSUME NEW p \in Node
      PROVE  /\ p \in o.files <=> p \in Regular /\ ~Hidden(p)
             /\ p \in o.hidden <=> p \in Regular /\ Hidden(p) /\ ~counting
  BY <1>2, <1>3, AllSteady DEF Yields
<1>5. o.files \subseteq Node /\ o.hidden \subseteq Node /\ Regular \subseteq Node
  BY <1>1 DEF Found, Regular, Met
<1> QED BY <1>4, <1>5 DEF WantedFiles, WantedHidden

LEMMA MissingFound ==
  ASSUME Inv, SteadyInv, touched = {}, NEW o, NEW n, Complete(o, n)
  PROVE  o.missing = WantedMissing
<1>1. o.missing = EntriesFor("missing", n) /\ 1..(n - 1) \subseteq DOMAIN asked
  BY CompleteParts DEF Complete, Tallied
<1>2. EntriesFor("missing", n) \subseteq WantedMissing
  BY <1>1, AnsweredSound
<1>3. ASSUME NEW e \in WantedMissing  PROVE e \in EntriesFor("missing", n)
  <2>1. e \in Open /\ e.origin # "exclusion" /\ kind[e.path] = "absent"
    BY DEF WantedMissing, Present
  <2>2. e \in Entry /\ e \in Entries /\ Clear(e) /\ kind[e.path] \in Kinds
    BY <2>1, OpenTaken
  <2>3. EntryOutcome(e) = "missing"
    BY <2>1, <2>2, EntryCases
  <2> QED BY <2>2, <2>3, CompleteParts DEF EntriesFor
<1> QED BY <1>1, <1>2, <1>3

LEMMA SpecialsFound ==
  ASSUME Inv, SteadyInv, touched = {}, NEW o, NEW n, Complete(o, n)
  PROVE  /\ Walked("special", SeenIn(o, {})) = {p \in WantedSpecials : ByWalk(p)}
         /\ Answered("special", n) = {p \in WantedSpecials : Itself(p)}
         /\ Places(o.specials) = WantedSpecials
<1>1. 1..(n - 1) \subseteq DOMAIN asked /\ FramesIn(<<>>) = {}
  BY CompleteParts
<1>2. /\ Walked("special", SeenIn(o, {})) \subseteq {p \in WantedSpecials : ByWalk(p)}
      /\ Answered("special", n) \subseteq {p \in WantedSpecials : Itself(p)}
  <2>1. Walked("special", SeenIn(o, FramesIn(<<>>)))
          \subseteq {p \in WantedSpecials : ByWalk(p)}
    BY WalkedSound DEF Complete
  <2> QED BY <1>1, <2>1, AnsweredSound
<1>3. ASSUME NEW p \in WantedSpecials
      PROVE  /\ p \in Met /\ p \in Node /\ Present(p) /\ p \notin Odd
             /\ kind[p] \in {"symlink", "fifo"} /\ ~Passed(p) /\ ~Hidden(p)
  BY DEF WantedSpecials, Met, Present
<1>4. ASSUME NEW p \in WantedSpecials, ByWalk(p)
      PROVE  p \in Walked("special", SeenIn(o, {}))
  <2>1. /\ p \in SeenIn(o, {}) /\ p \in Path /\ p \notin Git
        /\ kind[p] \in Kinds /\ Hidden(Up[p]) \in BOOLEAN
        /\ NameOutcome(p, Hidden(Up[p])) # "fail"
        /\ ~Hidden(Up[p]) /\ p \notin excl
    BY <1>3, <1>4, ByWalkSeen
  <2>2. p \notin ConfigName
    BY <1>3, <2>1, NameCases
  <2>3. NameOutcome(p, Hidden(Up[p])) = "special"
    BY <1>3, <2>1, <2>2, NameCases
  <2> QED BY <2>1, <2>3 DEF Walked
<1>5. ASSUME NEW p \in WantedSpecials, Itself(p)
      PROVE  p \in Answered("special", n)
  <2>1. PICK e \in Open : e.path = p
    BY <1>5 DEF Itself
  <2>2. EntryOutcome(e) = "special"
    BY <1>3, <2>1, OpenTaken, EntryCases
  <2> QED BY <2>1, <2>2, OpenTaken
<1>6. ASSUME NEW p \in WantedSpecials  PROVE ByWalk(p) \/ Itself(p)
  BY <1>3, MetTaken
<1>7. Places(o.specials) = Got("special", SeenIn(o, {}), n)
  BY DEF Complete, Tallied
<1>8. /\ Walked("special", SeenIn(o, {})) = {p \in WantedSpecials : ByWalk(p)}
      /\ Answered("special", n) = {p \in WantedSpecials : Itself(p)}
  BY <1>2, <1>4, <1>5
<1> QED BY <1>6, <1>7, <1>8 DEF Got

LEMMA BoundariesFound ==
  ASSUME Inv, SteadyInv, touched = {}, NEW o, NEW n, Complete(o, n)
  PROVE  /\ Walked("boundary", SeenIn(o, {})) = WalkedInto
         /\ Answered("boundary", n) = AskedFor
         /\ Places(o.boundaries) = WalkedInto \cup AskedFor
<1>1. 1..(n - 1) \subseteq DOMAIN asked /\ FramesIn(<<>>) = {}
  BY CompleteParts
<1>2. /\ Walked("boundary", SeenIn(o, {})) \subseteq WalkedInto
      /\ Answered("boundary", n) \subseteq AskedFor
  <2>1. Walked("boundary", SeenIn(o, FramesIn(<<>>))) \subseteq WalkedInto
    BY WalkedSound DEF Complete
  <2> QED BY <1>1, <2>1, AnsweredSound
<1>3. ASSUME NEW p \in Repos
      PROVE  /\ p \in Node /\ Present(p) /\ p \notin Odd /\ p # Root
             /\ kind[p] = "dir" /\ IsRepo(p)
  BY DEF Repos, Met, Present
<1>4. ASSUME NEW p \in WalkedInto  PROVE p \in Walked("boundary", SeenIn(o, {}))
  <2>1. p \in Repos /\ ByWalk(p) /\ ~Beneath(p)
    BY DEF WalkedInto
  <2>2. /\ p \in SeenIn(o, {}) /\ p \in Path /\ p \notin Git
        /\ kind[p] \in Kinds /\ Hidden(Up[p]) \in BOOLEAN
    BY <1>3, <2>1, ByWalkSeen
  <2>3. ~Hidden(Up[p])
    BY <2>1, <2>2, BeneathHidden
  <2>4. NameOutcome(p, Hidden(Up[p])) = "boundary"
    BY <1>3, <2>1, <2>2, <2>3, NameCases
  <2> QED BY <2>2, <2>4 DEF Walked
<1>5. ASSUME NEW p \in AskedFor  PROVE p \in Answered("boundary", n)
  <2>1. p \in Repos /\ Itself(p) /\ ~Hidden(p)
    BY DEF AskedFor
  <2>2. PICK e \in Open : e.path = p
    BY <2>1 DEF Itself
  <2>3. EntryOutcome(e) = DirOutcome(e) /\ EntryOutcome(e) # "fail"
    BY <1>3, <2>1, <2>2, OpenTaken, EntryCases
  <2>4. DirOutcome(e) = "boundary"
    BY <1>3, <2>1, <2>2, <2>3 DEF DirOutcome
  <2> QED BY <2>2, <2>3, <2>4, OpenTaken
<1>6. Places(o.boundaries) = Got("boundary", SeenIn(o, {}), n)
  BY DEF Complete, Tallied
<1>7. /\ Walked("boundary", SeenIn(o, {})) = WalkedInto
      /\ Answered("boundary", n) = AskedFor
  BY <1>2, <1>4, <1>5
<1> QED BY <1>6, <1>7 DEF Got

LEMMA NamedFound ==
  ASSUME Inv, SteadyInv, touched = {}, NEW o, NEW n, Complete(o, n)
  PROVE  o.named = {p \in WantedFiles \cup WantedHidden :
                      \E e \in Entries : e.path = p /\ e.origin = "named"}
<1> DEFINE N == {p \in WantedFiles \cup WantedHidden :
                   \E e \in Entries : e.path = p /\ e.origin = "named"}
<1>1. o.named = {p \in Answered("file", n) : /\ [path |-> p, origin |-> "named"] \in Entries
                                             /\ ~(counting /\ Hidden(p))}
  BY DEF Complete, Tallied
<1>2. Answered("file", n) \subseteq Regular
  BY CompleteParts, AnsweredSound
<1>3. ASSUME NEW p \in o.named  PROVE p \in N
  <2>1. /\ p \in Regular /\ ~(counting /\ Hidden(p))
        /\ [path |-> p, origin |-> "named"] \in Entries
    BY <1>1, <1>2
  <2>2. p \in WantedFiles \cup WantedHidden
    BY <2>1 DEF WantedFiles, WantedHidden
  <2>3. \E e \in Entries : e.path = p /\ e.origin = "named"
    BY <2>1
  <2> QED BY <2>2, <2>3
<1>4. ASSUME NEW p \in N  PROVE p \in o.named
  <2>1. p \in Regular /\ ~(counting /\ Hidden(p))
    BY DEF WantedFiles, WantedHidden
  <2>2. PICK e \in Entries : e.path = p /\ e.origin = "named"
    OBVIOUS
  <2>3. e \in Open /\ kind[p] = "file"
    BY <2>1, <2>2 DEF Open, Regular
  <2>4. /\ e \in Entry /\ p \in Node /\ kind[e.path] \in Kinds /\ Clear(e)
        /\ \A k : EntryOutcome(e) = k => e.path \in Answered(k, n)
    BY <2>2, <2>3, OpenTaken
  <2>5. EntryOutcome(e) = "file"
    BY <2>2, <2>3, <2>4, EntryCases
  <2>6. p \in Answered("file", n)
    BY <2>2, <2>4, <2>5
  <2>7. e = [path |-> p, origin |-> "named"]
    BY <2>2, <2>4 DEF Entry
  <2> QED BY <1>1, <2>1, <2>2, <2>6, <2>7
<1> QED BY <1>3, <1>4

LEMMA SweptFound ==
  ASSUME Inv, SteadyInv, touched = {}, NEW o, NEW n, Complete(o, n)
  PROVE  o.swept = Swept
<1>1. o.swept = {Root} \cup Entered \cup Parents(n)
  BY AllVisited DEF Complete, Tallied
<1>2. 1..(n - 1) \subseteq DOMAIN asked /\ \A e \in Entries : \E i \in 1..(n - 1) : asked[i] = e
  BY CompleteParts
<1>3. ASSUME NEW e \in Entries, e.path # Root  PROVE Up[e.path] \in Parents(n)
  <2>1. PICK i \in 1..(n - 1) : asked[i] = e
    BY <1>2
  <2>2. Up[e.path] \in Node
    BY <1>3, EntryTyped, UpNode DEF Node
  <2> QED BY <1>3, <2>1, <2>2 DEF Parents
<1>4. ASSUME NEW d \in Parents(n)
      PROVE  d \in {Up[e.path] : e \in {x \in Entries : x.path # Root}}
  BY <1>2 DEF Parents, Entries
<1> QED BY <1>1, <1>3, <1>4 DEF Swept

LEMMA KeptFound ==
  ASSUME Inv, SteadyInv, touched = {}, NEW o, NEW n, Complete(o, n)
  PROVE  Kept(o) = WantedBytes /\ Cardinality(SeenIn(o, {})) = WantedScans
<1>1. /\ Noted(o) = Cardinality({p \in WantedSpecials : ByWalk(p)})
                      + Cardinality({p \in WantedSpecials : Itself(p)})
                      + (Cardinality(WalkedInto) + Cardinality(AskedFor))
  BY SpecialsFound, BoundariesFound DEF Complete, Tallied, Tally
<1>2. /\ o.files = WantedFiles /\ o.hidden = WantedHidden /\ o.missing = WantedMissing
      /\ o.swept = Swept /\ o.visited = Entered
  BY RegularFound, MissingFound, SweptFound, AllVisited
<1> DEFINE a1 == Cardinality(WantedFiles)   a2 == Cardinality(WantedHidden)
           a3 == Cardinality(WantedMissing) a4 == Cardinality(Swept)
           a5 == Cardinality(Entered)
           a6 == Cardinality({p \in WantedSpecials : ByWalk(p)})
           a7 == Cardinality({p \in WantedSpecials : Itself(p)})
           a8 == Cardinality(WalkedInto)    a9 == Cardinality(AskedFor)
<1>3. /\ Kept(o) = 3 * a1 + 4 * a2 + a3 + (a6 + a7 + (a8 + a9)) + a4 + a5
      /\ WantedBytes = 3 * a1 + 4 * a2 + a3 + a4 + a5 + a6 + a7 + a8 + a9
  BY <1>1, <1>2 DEF Kept, WantedBytes
<1>4. /\ a1 \in Nat /\ a2 \in Nat /\ a3 \in Nat /\ a4 \in Nat /\ a5 \in Nat
      /\ a6 \in Nat /\ a7 \in Nat /\ a8 \in Nat /\ a9 \in Nat
  BY WantedFinite, FS_CardinalityType
<1> HIDE DEF a1, a2, a3, a4, a5, a6, a7, a8, a9
<1>5. Kept(o) = WantedBytes
  BY <1>3, <1>4
<1>6. SeenIn(o, {}) = Scans
  BY AllVisited
<1> QED BY <1>5, <1>6 DEF WantedScans, Scans
-----------------------------------------------------------------------------
\* Nothing that must be refused is passed over.
LEMMA TopmostUnique ==
  ASSUME NEW p \in Node, NEW a \in Topmost(p), NEW b \in Topmost(p)
  PROVE  a = b
<1>1. /\ a \in Above[p] /\ b \in Above[p] /\ a \in Barriers(p) /\ b \in Barriers(p)
      /\ Above[a] \cap Barriers(p) = {} /\ Above[b] \cap Barriers(p) = {}
  BY DEF Topmost, Barriers
<1>2. Covers(a, b) \/ Covers(b, a)
  BY <1>1, AboveComparable
<1> QED BY <1>1, <1>2 DEF Covers

LEMMA AboveLower == ASSUME NEW p \in Node, NEW a \in Above[p]  PROVE Rank(a) < Rank(p)
<1>1. a \in Node /\ Above[a] \subseteq Above[p]
  BY TreeAssumption, AboveTransitive
<1>2. a \notin Above[a]
  BY <1>1, TreeAssumption
<1>3. IsFiniteSet(Above[p]) /\ Rank(p) \in Nat /\ Rank(a) \in Nat
  BY <1>1, RankNat
<1>4. Rank(a) <= Rank(p)
  BY <1>1, <1>3, FS_Subset DEF Rank
<1>5. Rank(a) # Rank(p)
  <2> SUFFICES ASSUME Rank(p) = Rank(a)  PROVE FALSE
    OBVIOUS
  <2>1. Above[p] = Above[a]
    BY <1>1, <1>3, FS_Subset DEF Rank
  <2> QED BY <1>2, <2>1
<1> QED BY <1>3, <1>4, <1>5

LEMMA TopmostThere ==
  ASSUME NEW p \in Node, Barriers(p) # {}
  PROVE  \E b : b \in Topmost(p)
<1>1. Barriers(p) \in SUBSET Node
  BY TreeAssumption DEF Barriers
<1>2. PICK b \in Barriers(p) : \A a \in Barriers(p) : Rank(b) <= Rank(a)
  BY <1>1, Lowest
<1>3. ASSUME NEW a \in Above[b] \cap Barriers(p)  PROVE FALSE
  <2>1. a \in Node /\ b \in Node /\ Rank(b) <= Rank(a)
    BY <1>1, <1>2
  <2>2. Rank(a) < Rank(b) /\ Rank(a) \in Nat /\ Rank(b) \in Nat
    BY <2>1, AboveLower, RankNat
  <2> QED BY <2>1, <2>2
<1> QED BY <1>2, <1>3 DEF Topmost

\* A stored entry that is blocked is refused for what stands topmost.
LEMMA BlockedRefused ==
  ASSUME Inv, NEW e \in Entries \ Open
  PROVE  EntryOutcome(e) = "fail"
           <=> \/ e.origin = "managed"
               \/ \E b \in Topmost(e.path) : \/ kind[b] = "symlink"
                                             \/ kind[b] = "dir" /\ ~IsRepo(b)
<1> DEFINE p == e.path
           b == CHOOSE x \in Topmost(p) : TRUE
<1>1. e \in Entry /\ p \in Node /\ Stored(e) /\ Barriers(p) # {}
  BY EntryTyped DEF Open, Entry, Stored
<1>2. EntryOutcome(e) = BlockedOutcome(e, b)
  BY <1>1 DEF EntryOutcome
<1>3. b \in Topmost(p)
  BY <1>1, TopmostThere
<1>4. \A x \in Topmost(p) : x = b
  BY <1>1, <1>3, TopmostUnique
<1> HIDE DEF b
<1>5. BlockedOutcome(e, b) = "fail"
        <=> \/ e.origin = "managed"
            \/ kind[b] = "symlink"
            \/ kind[b] = "dir" /\ ~IsRepo(b)
  BY DEF BlockedOutcome
<1> QED BY <1>2, <1>3, <1>4, <1>5

LEMMA NotUnfollowable ==
  ASSUME Inv, SteadyInv, touched = {}, NEW o, NEW n, Complete(o, n)
  PROVE  ~Unfollowable /\ ~BadTarget
<1>1. ~Unfollowable
  BY CompleteParts, BlockedRefused DEF Unfollowable
<1>2. ~BadTarget
  <2> SUFFICES ASSUME NEW e \in Open, e.origin = "named", ~Hidden(e.path),
                      \/ kind[e.path] \in {"symlink", "fifo"}
                      \/ kind[e.path] = "dir" /\ e.path # Root /\ IsRepo(e.path)
               PROVE  FALSE
    BY DEF BadTarget
  <2>1. /\ e \in Entry /\ Clear(e) /\ EntryOutcome(e) # "fail" /\ kind[e.path] \in Kinds
    BY OpenTaken
  <2>2. CASE kind[e.path] \in {"symlink", "fifo"}
    BY <2>1, <2>2, EntryCases DEF Stored
  <2>3. CASE kind[e.path] = "dir" /\ e.path # Root /\ IsRepo(e.path)
    BY <2>1, <2>3, EntryCases DEF DirOutcome
  <2> QED BY <2>2, <2>3
<1> QED BY <1>1, <1>2

LEMMA NoBadName ==
  ASSUME Inv, SteadyInv, touched = {}, NEW o, NEW n, Complete(o, n)
  PROVE  ~BadName /\ ~NestedDomain
<1>1. ASSUME NEW p \in Met
      PROVE  /\ p \in Node /\ Present(p) /\ kind[p] \in Kinds
             /\ Itself(p) => p \notin Odd \cup ConfigName
             /\ ~Itself(p) =>
                  /\ p \in Path /\ p \notin Git /\ Hidden(Up[p]) \in BOOLEAN
                  /\ NameOutcome(p, Hidden(Up[p])) # "fail"
  <2>1. p \in Node /\ Present(p) /\ kind[p] \in Kinds
    BY DEF Met, Inv, TypeOK
  <2>2. Itself(p) => p \notin Odd \cup ConfigName
    BY EntryPath DEF Itself, Open
  <2>3. ~Itself(p) => ByWalk(p)
    BY MetTaken
  <2> QED BY <2>1, <2>2, <2>3, ByWalkSeen
<1>2. ~BadName
  <2> SUFFICES ASSUME NEW p \in Met \cap Odd, ~Beneath(p)  PROVE FALSE
    BY DEF BadName
  <2>1. p \in Path
    BY <1>1
  <2> QED BY <1>1, <2>1, NameCases, BeneathHidden
<1>3. ASSUME NEW d \in Entered \ {Root}, HasConfig(d)  PROVE FALSE
  <2>1. d \in Met /\ d \notin Odd /\ kind[d] = "dir" /\ ~IsRepo(d)
    BY <1>3 DEF Entered, Enterable
  <2>2. CASE Itself(d)
    <3>1. PICK e \in Open : e.path = d
      BY <2>2 DEF Itself
    <3>2. EntryOutcome(e) = DirOutcome(e) /\ EntryOutcome(e) # "fail"
      BY <2>1, <3>1, OpenTaken, EntryCases
    <3> QED BY <1>3, <2>1, <3>1, <3>2 DEF DirOutcome
  <2>3. CASE ~Itself(d)
    BY <1>1, <1>3, <2>1, <2>3, NameCases
  <2> QED BY <2>2, <2>3
<1>4. ASSUME NEW p \in Met \cap ConfigName, kind[p] # "dir", Up[p] # Root  PROVE FALSE
  <2>1. p \notin Odd \cup Reserved
    BY NamesAssumption
  <2>2. ~Passed(p)
    BY <1>4, <2>1 DEF Passed
  <2> QED BY <1>1, <1>4, <2>1, <2>2, NameCases
<1> QED BY <1>2, <1>3, <1>4 DEF NestedDomain

\* What an expansion that has ended has found is what there was to find.
LEMMA DoneExact ==
  ASSUME Inv, SteadyInv, touched = {}, Complete(out, next), InTurn(out, next, <<>>),
         Within, stack = <<>>, ~Twins(out.files)
  PROVE  /\ ~Refused /\ ~OverBudget /\ ~TooDeep
         /\ out.files = WantedFiles
         /\ out.hidden = WantedHidden
         /\ out.named = {p \in WantedFiles \cup WantedHidden :
                           \E e \in Entries : e.path = p /\ e.origin = "named"}
         /\ out.missing = WantedMissing
         /\ {out.specials[i] : i \in DOMAIN out.specials} = WantedSpecials
         /\ {out.boundaries[i] : i \in DOMAIN out.boundaries} = WalkedInto \cup AskedFor
         /\ out.swept = Swept
<1>1. /\ out.files = WantedFiles /\ out.hidden = WantedHidden
      /\ out.missing = WantedMissing /\ out.swept = Swept /\ out.visited = Entered
      /\ Kept(out) = WantedBytes /\ Cardinality(SeenIn(out, {})) = WantedScans
  BY RegularFound, MissingFound, SweptFound, AllVisited, KeptFound
<1>2. ~Refused
  <2>1. ~Twins(Entered)
    BY <1>1 DEF Complete, Tallied, Twins
  <2> QED BY <1>1, <2>1, NotUnfollowable, NoBadName DEF Refused
<1>3. ~OverBudget
  <2>1. /\ Cardinality(WantedFiles) <= limits.files
        /\ Cardinality(WantedHidden) <= limits.files
        /\ WantedBytes <= limits.bytes /\ WantedScans <= limits.scanned
    <3>1. SeenNow = SeenIn(out, {})
      BY CompleteParts DEF SeenNow
    <3>2. bytes = Kept(out)
      BY DEF Inv, ChargedInFull
    <3> QED BY <1>1, <3>1, <3>2 DEF Within
  <2>2. /\ Cardinality(WantedFiles) \in Nat /\ Cardinality(WantedHidden) \in Nat
        /\ WantedBytes \in Nat /\ WantedScans \in Nat
        /\ limits.files \in Nat /\ limits.bytes \in Nat /\ limits.scanned \in Nat
    <3>1. WantedBytes \in Nat
      BY <1>1, KeptNat DEF Inv, TypeOK
    <3>2. WantedScans \in Nat
      BY WantedFinite, FS_CardinalityType DEF WantedScans, Scans
    <3> QED BY <3>1, <3>2, WantedFinite, FS_CardinalityType, SizeAssumption DEF Inv, TypeOK
  <2> HIDE DEF WantedBytes, WantedScans
  <2> QED BY <2>1, <2>2 DEF OverBudget
<1>4. ~TooDeep
  <2> SUFFICES ASSUME NEW d \in Entered,
                      Levels(asked[Earliest(Reaching(d))].path, d) > limits.depth
               PROVE  FALSE
    BY DEF TooDeep
  <2>1. Levels(asked[Earliest(Reaching(d))].path, d) <= limits.depth
    BY <1>1 DEF InTurn
  <2>2. limits.depth \in Nat
    BY SizeAssumption DEF Inv, TypeOK
  <2>3. Levels(asked[Earliest(Reaching(d))].path, d) \in Int
    <3> DEFINE W == Way(asked[Earliest(Reaching(d))].path, d)
    <3>1. W \subseteq Node
      BY DEF Way
    <3> HIDE DEF W
    <3>2. Cardinality(W) \in Nat
      BY <3>1, NodesFinite, FS_Subset, FS_CardinalityType
    <3> QED BY <3>2 DEF Levels, W
  <2> DEFINE l == Levels(asked[Earliest(Reaching(d))].path, d)
  <2>4. l <= limits.depth /\ l \in Int /\ l > limits.depth
    BY <2>1, <2>3
  <2> HIDE DEF l
  <2> QED BY <2>2, <2>4
<1> QED BY <1>1, <1>2, <1>3, <1>4, NamedFound, SpecialsFound, BoundariesFound DEF Places
-----------------------------------------------------------------------------
\* What there is to find does not depend on how far an expansion is.
LEMMA SameReached ==
  ASSUME UNCHANGED <<world, given>>
  PROVE  /\ \A p : Present(p)' = Present(p)
         /\ \A d : IsRepo(d)' = IsRepo(d) /\ HasConfig(d)' = HasConfig(d)
         /\ \A d : Enterable(d)' = Enterable(d)
         /\ \A b, p : Reached(b, p)' = Reached(b, p)
         /\ Entries' = Entries /\ Open' = Open /\ Met' = Met /\ Entered' = Entered
         /\ \A p : Hidden(p)' = Hidden(p) /\ Itself(p)' = Itself(p) /\ ByWalk(p)' = ByWalk(p)
         /\ \A p : Topmost(p)' = Topmost(p) /\ Beneath(p)' = Beneath(p)
<1>1. /\ kind' = kind /\ touched' = touched /\ excl' = excl /\ asked' = asked
  BY DEF world, given
<1>2. /\ \A d : Inside(d)' = Inside(d) /\ IsRepo(d)' = IsRepo(d) /\ HasConfig(d)' = HasConfig(d)
      /\ \A p : Present(p)' = Present(p)
  BY <1>1 DEF Inside, IsRepo, HasConfig, Present
<1>3. \A d : Enterable(d)' = Enterable(d)
  BY <1>1, <1>2 DEF Enterable
<1>4. \A b, p : Reached(b, p)' = Reached(b, p)
  BY <1>2, <1>3 DEF Reached
<1>5. Open' = Open /\ \A p : Hidden(p)' = Hidden(p)
  BY SameWorld
<1>6. Met' = Met
  BY <1>2, <1>4, <1>5 DEF Met
<1>7. Entered' = Entered
  BY <1>3, <1>6 DEF Entered
<1>8. \A p : Itself(p)' = Itself(p) /\ ByWalk(p)' = ByWalk(p)
  BY <1>5, <1>7 DEF Itself, ByWalk
<1>9. \A p : Barriers(p)' = Barriers(p)
  BY <1>1, <1>2 DEF Barriers
<1>10. \A p : Topmost(p)' = Topmost(p) /\ Beneath(p)' = Beneath(p)
  BY <1>1, <1>9 DEF Topmost, Beneath
<1>11. Entries' = Entries
  BY <1>1 DEF Entries
<1> QED BY <1>2, <1>3, <1>4, <1>5, <1>6, <1>7, <1>8, <1>10, <1>11

LEMMA SameLevels ==
  ASSUME UNCHANGED <<world, given>>
  PROVE  /\ \A d : Levels(asked[Earliest(Reaching(d))].path, d)'
                     = Levels(asked[Earliest(Reaching(d))].path, d)
         /\ limits' = limits
<1>1. asked' = asked /\ limits' = limits
  BY DEF given
<1>2. \A d : Reaching(d)' = Reaching(d)
  BY <1>1, SameReached DEF Reaching
<1> QED BY <1>1, <1>2 DEF Levels, Earliest

LEMMA SameWanted ==
  ASSUME UNCHANGED <<world, given>>
  PROVE  /\ WantedFiles' = WantedFiles /\ WantedHidden' = WantedHidden
         /\ WantedBytes' = WantedBytes /\ WantedScans' = WantedScans
<1>1. kind' = kind /\ counting' = counting
  BY DEF world, given
<1>2. Regular' = Regular
  BY <1>1, SameReached DEF Regular
<1>3. WantedFiles' = WantedFiles /\ WantedHidden' = WantedHidden
  BY <1>1, <1>2, SameReached DEF WantedFiles, WantedHidden
<1>4. WantedMissing' = WantedMissing
  BY <1>1, SameReached DEF WantedMissing
<1>5. WantedSpecials' = WantedSpecials
  BY <1>1, SameReached DEF WantedSpecials
<1>6. Repos' = Repos
  BY <1>1, SameReached DEF Repos
<1>7. WalkedInto' = WalkedInto /\ AskedFor' = AskedFor
  BY <1>6, SameReached DEF WalkedInto, AskedFor
<1>8. Swept' = Swept
  BY SameReached DEF Swept
<1>9. /\ {p \in WantedSpecials : ByWalk(p)}' = {p \in WantedSpecials : ByWalk(p)}
      /\ {p \in WantedSpecials : Itself(p)}' = {p \in WantedSpecials : Itself(p)}
  BY <1>5, SameReached
<1>10. WantedBytes' = WantedBytes
  BY <1>3, <1>4, <1>7, <1>8, <1>9, SameReached DEF WantedBytes
<1>11. WantedScans' = WantedScans
  BY SameReached DEF WantedScans
<1> QED BY <1>3, <1>10, <1>11

LEMMA SameReason == ASSUME UNCHANGED <<world, given>>  PROVE Reason' = Reason
<1>1. kind' = kind /\ limits' = limits
  BY DEF world, given
<1>2. Unfollowable' = Unfollowable
  BY <1>1, SameReached DEF Unfollowable
<1>3. BadTarget' = BadTarget
  BY <1>1, SameReached DEF BadTarget
<1>4. BadName' = BadName
  BY SameReached DEF BadName
<1>5. NestedDomain' = NestedDomain
  BY <1>1, SameReached DEF NestedDomain
<1>6. Refused' = Refused
  BY <1>2, <1>3, <1>4, <1>5, SameReached, SameWanted DEF Refused, Twins
<1>7. OverBudget' = OverBudget
  BY <1>1, SameWanted DEF OverBudget
<1>8. TooDeep' = TooDeep
  BY <1>1, SameReached, SameLevels DEF TooDeep
<1> QED BY <1>6, <1>7, <1>8 DEF Reason

LEMMA MeasuredOn ==
  ASSUME Inv, SteadyInv, UNCHANGED <<world, given>>,
         NEW q, NEW n, NEW s, Measured(q, n, s), out' = q, next' = n, stack' = s
  PROVE  /\ Measured(out, next, stack)'
         /\ SeenNow' = SeenIn(q, FramesIn(s))
<1>1. /\ kind' = kind /\ asked' = asked /\ counting' = counting /\ limits' = limits
  BY DEF world, given
<1>2. SeenIn(out, FramesIn(stack))' = SeenIn(q, FramesIn(s))
  BY <1>1 DEF SeenIn, FramesIn, Present
<1>3. Standing(out, next, stack)'
  <2>1. SteadyInv'
    BY StandsOn DEF Measured
  <2> QED BY <2>1 DEF SteadyInv
<1>4. Tallied(out, SeenIn(out, FramesIn(stack)), next)'
  <2>1. \A k : Answered(k, next)' = Answered(k, n)
    BY <1>1, SameWorld DEF Answered
  <2>2. \A k : Walked(k, SeenIn(out, FramesIn(stack)))' = Walked(k, SeenIn(q, FramesIn(s)))
    BY <1>2, SameWorld DEF Walked
  <2>3. \A k : EntriesFor(k, next)' = EntriesFor(k, n)
    BY <1>1, SameWorld, SameReached DEF EntriesFor
  <2>4. Parents(next)' = Parents(n)
    BY <1>1 DEF Parents
  <2>5. Tallied(q, SeenIn(q, FramesIn(s)), n)
    BY DEF Measured
  <2>6. /\ (Places(out.specials) = Got("special", SeenIn(out, FramesIn(stack)), next))'
        /\ (Places(out.boundaries) = Got("boundary", SeenIn(out, FramesIn(stack)), next))'
        /\ (Noted(out) = Tally("special", SeenIn(out, FramesIn(stack)), next)
                           + Tally("boundary", SeenIn(out, FramesIn(stack)), next))'
    <3>1. /\ Places(out.specials)' = Places(q.specials)
          /\ Places(out.boundaries)' = Places(q.boundaries)
          /\ Noted(out)' = Noted(q)
      BY DEF Places, Noted
    <3>2. \A k : /\ Got(k, SeenIn(out, FramesIn(stack)), next)' = Got(k, SeenIn(q, FramesIn(s)), n)
                 /\ Tally(k, SeenIn(out, FramesIn(stack)), next)' = Tally(k, SeenIn(q, FramesIn(s)), n)
      BY <2>1, <2>2 DEF Got, Tally
    <3> QED BY <2>5, <3>1, <3>2 DEF Tallied
  <2>7. /\ (out.missing = EntriesFor("missing", next))'
        /\ (out.swept = {Root} \cup out.visited \cup Parents(next))'
        /\ (\A u, v \in out.visited : u # v => Inode[u] # Inode[v])'
        /\ (\A i \in 1..(next - 1) : EntryOutcome(asked[i]) # "fail")'
    BY <1>1, <2>3, <2>4, <2>5, SameWorld DEF Tallied
  <2>8. (out.named = {p \in Answered("file", next) :
                         /\ [path |-> p, origin |-> "named"] \in Entries
                         /\ ~(counting /\ Hidden(p))})'
    BY <1>1, <2>1, <2>5, SameWorld, SameReached DEF Tallied
  <2> QED BY <2>6, <2>7, <2>8 DEF Tallied
<1>5. InTurn(out, next, stack)'
  <2>1. InTurn(q, n, s)
    BY DEF Measured
  <2>2. FramesIn(stack)' = FramesIn(s)
    BY DEF FramesIn
  <2>3. (\A d \in out.visited : Levels(asked[Earliest(Reaching(d))].path, d) <= limits.depth)'
    BY <2>1, SameLevels DEF InTurn
  <2>4. (\A f \in FramesIn(stack) :
            /\ Reached(asked[next - 1].path, f.dir)
            /\ f.depth = Levels(asked[next - 1].path, f.dir)
            /\ f.read \subseteq f.listed
            /\ f.listed \subseteq Listing(f.dir))' \/ stack' = <<>>
    BY <1>1, <2>1, <2>2, SameReached, SameWorld DEF InTurn, Levels
  <2>5. (\A i \in 1..(next - 2), d \in Entered :
            asked[i] \in Open /\ Reached(asked[i].path, d) => d \in out.visited)'
          \/ stack' = <<>>
    BY <1>1, <2>1, SameReached DEF InTurn
  <2>6. (next - 1 \in DOMAIN asked /\ asked[next - 1] \in Open)' \/ stack' = <<>>
    BY <1>1, <2>1, SameReached DEF InTurn
  <2> QED BY <2>3, <2>4, <2>5, <2>6 DEF InTurn
<1> QED BY <1>2, <1>3, <1>4, <1>5 DEF Measured, SeenNow
-----------------------------------------------------------------------------
\* A step that finds something keeps within the budgets, or fails for a reason.
LEMMA FailsFor ==
  ASSUME Fail, Reason
  PROVE  ExactInv'
<1>1. status' = "failed" /\ UNCHANGED <<world, given>>
  BY DEF Fail
<1>2. Reason'
  BY <1>1, SameReason
<1> QED BY <1>1, <1>2 DEF ExactInv

LEMMA LimitsNat ==
  ASSUME Inv
  PROVE  /\ limits.files \in Nat /\ limits.bytes \in Nat
         /\ limits.scanned \in Nat /\ limits.depth \in Nat
  BY SizeAssumption DEF Inv, TypeOK

LEMMA GoesOnWithin ==
  ASSUME Inv, SteadyInv, touched = {}, status = "expanding",
         NEW r, NEW n, NEW s, GoOn(r, n, s), Keeping(out, r), Measured(r.out, n, s),
         scanned' = Cardinality(SeenIn(r.out, FramesIn(s))), scanned' <= limits.scanned
  PROVE  ExactInv'
<1> DEFINE q == r.out
<1>1. q \in Found /\ FiniteOut(q) /\ bytes + r.charge = Kept(q)
  BY DEF Keeping, Inv, ChargedInFull
<1> HIDE DEF q
<1>2. CASE ~Affordable(r)
  <2>1. /\ Cardinality(q.files) <= Cardinality(WantedFiles)
        /\ Cardinality(q.hidden) <= Cardinality(WantedHidden)
        /\ Kept(q) <= WantedBytes
    <3>1. Standing(q, n, s) /\ Tallied(q, SeenIn(q, FramesIn(s)), n)
      BY DEF Measured, q
    <3> QED BY <1>1, <3>1, Bounded
  <2>2. \/ ~(Kept(q) <= limits.bytes)
        \/ ~(Cardinality(q.files) <= limits.files)
        \/ ~(Cardinality(q.hidden) <= limits.files)
    BY <1>1, <1>2 DEF Affordable, q
  <2>3. /\ Cardinality(q.files) \in Nat /\ Cardinality(q.hidden) \in Nat /\ Kept(q) \in Nat
        /\ limits.files \in Nat /\ limits.bytes \in Nat
    BY <1>1, LimitsNat, KeptNat, FS_CardinalityType DEF FiniteOut
  <2>4. /\ Cardinality(WantedFiles) \in Nat /\ Cardinality(WantedHidden) \in Nat
        /\ WantedBytes \in Nat
    <3> DEFINE a1 == Cardinality(WantedFiles)   a2 == Cardinality(WantedHidden)
               a3 == Cardinality(WantedMissing) a4 == Cardinality(Swept)
               a5 == Cardinality(Entered)
               a6 == Cardinality({p \in WantedSpecials : ByWalk(p)})
               a7 == Cardinality({p \in WantedSpecials : Itself(p)})
               a8 == Cardinality(WalkedInto)    a9 == Cardinality(AskedFor)
    <3>1. /\ a1 \in Nat /\ a2 \in Nat /\ a3 \in Nat /\ a4 \in Nat /\ a5 \in Nat
          /\ a6 \in Nat /\ a7 \in Nat /\ a8 \in Nat /\ a9 \in Nat
      BY WantedFinite, FS_CardinalityType
    <3>2. WantedBytes = 3 * a1 + 4 * a2 + a3 + a4 + a5 + a6 + a7 + a8 + a9
      BY DEF WantedBytes
    <3>3. WantedBytes \in Nat
      <4> HIDE DEF a1, a2, a3, a4, a5, a6, a7, a8, a9
      <4> QED BY <3>1, <3>2
    <3> QED BY <3>1, <3>3
  <2>5. OverBudget
    <3> HIDE DEF WantedBytes, WantedScans
    <3>1. \/ Cardinality(WantedFiles) > limits.files
          \/ Cardinality(WantedHidden) > limits.files
          \/ WantedBytes > limits.bytes
      BY <2>1, <2>2, <2>3, <2>4
    <3> QED BY <3>1 DEF OverBudget
  <2>6. Fail
    BY <1>2 DEF GoOn
  <2> QED BY <2>5, <2>6, FailsFor DEF Reason
<1>3. CASE Affordable(r)
  <2>1. /\ out' = q /\ bytes' = bytes + r.charge /\ next' = n /\ stack' = s
        /\ UNCHANGED <<world, given, status>>
    BY <1>3 DEF GoOn, q
  <2>2. Measured(out, next, stack)' /\ SeenNow' = SeenIn(q, FramesIn(s))
    BY <2>1, MeasuredOn DEF q
  <2>3. Within'
    <3>1. limits' = limits
      BY <2>1 DEF given
    <3> QED BY <1>3, <2>1, <2>2, <3>1 DEF Within, Affordable, q
  <2> QED BY <2>1, <2>2, <2>3 DEF ExactInv
<1> QED BY <1>2, <1>3

\* Directories are walked from the first entry that reaches them.
LEMMA EarliestIs ==
  ASSUME Inv, NEW i \in DOMAIN asked, NEW d, asked[i] \in Open, Reached(asked[i].path, d),
         \A j \in 1..(i - 1) : asked[j] \in Open => ~Reached(asked[j].path, d)
  PROVE  Earliest(Reaching(d)) = i
<1> DEFINE R == Reaching(d)
<1>1. DOMAIN asked \subseteq Nat \ {0}
  BY DEF Inv, TypeOK
<1>2. i \in R /\ R \subseteq DOMAIN asked
  BY DEF Reaching
<1>3. ASSUME NEW j \in R  PROVE i <= j
  <2>1. j \in Nat \ {0} /\ i \in Nat \ {0} /\ asked[j] \in Open /\ Reached(asked[j].path, d)
    BY <1>1, <1>2 DEF Reaching
  <2>2. j \notin 1..(i - 1)
    BY <2>1
  <2> QED BY <2>1, <2>2
<1> HIDE DEF R
<1>4. \A j \in R : (\A k \in R : j <= k) => j = i
  BY <1>1, <1>2, <1>3
<1>5. Earliest(R) = i
  BY <1>2, <1>3, <1>4 DEF Earliest
<1> QED BY <1>5 DEF R

LEMMA LevelsNat ==
  ASSUME NEW b \in Node, NEW d \in Node, Covers(b, d)
  PROVE  /\ Levels(b, d) \in Nat
         /\ \A p \in Path : Up[p] = d => Levels(b, p) = Levels(b, d) + 1
<1>1. Way(b, d) \subseteq Node /\ b \in Way(b, d)
  BY WayEnds DEF Way
<1>2. IsFiniteSet(Way(b, d))
  BY <1>1, NodesFinite, FS_Subset
<1>3. Cardinality(Way(b, d)) \in Nat \ {0}
  <2>1. Cardinality(Way(b, d)) \in Nat
    BY <1>2, FS_CardinalityType
  <2>2. Cardinality(Way(b, d)) # 0
    BY <1>1, <1>2, FS_EmptySet
  <2> QED BY <2>1, <2>2
<1>4. ASSUME NEW p \in Path, Up[p] = d
      PROVE  Cardinality(Way(b, p)) = Cardinality(Way(b, d)) + 1
  <2>1. Way(b, p) = Way(b, d) \cup {p} /\ p \notin Way(b, d)
    BY <1>4, WayUp
  <2> QED BY <1>2, <2>1, FS_AddElement
<1> DEFINE c == Cardinality(Way(b, d))
<1>5. c \in Nat \ {0} /\ Levels(b, d) = c - 1
  BY <1>3 DEF Levels
<1>6. \A p \in Path : Up[p] = d => Levels(b, p) = (c + 1) - 1
  BY <1>4 DEF Levels
<1> HIDE DEF c
<1> QED BY <1>5, <1>6

LEMMA LevelsItself == ASSUME NEW d \in Node  PROVE Levels(d, d) = 0
  BY WayItself, FS_Singleton DEF Levels
-----------------------------------------------------------------------------
\* What taking up p with outcome k notes down.
One(b) == IF b THEN 1 ELSE 0
With(b, p) == IF b THEN {p} ELSE {}

Puts(o, q, p, k) ==
  /\ Places(q.specials) = Places(o.specials) \cup With(k = "special", p)
  /\ Places(q.boundaries) = Places(o.boundaries) \cup With(k = "boundary", p)
  /\ Noted(q) = Noted(o) + One(k \in {"special", "boundary"})

LEMMA PlacesMore ==
  ASSUME NEW s \in Seq(Node), NEW p \in Node
  PROVE  Places(Append(s, p)) = Places(s) \cup {p} /\ Append(s, p) \in Seq(Node)
<1> DEFINE t == Append(s, p)
           m == Len(s) + 1
<1>1. /\ DOMAIN t = DOMAIN s \cup {m}
      /\ \A i \in DOMAIN s : t[i] = s[i]
      /\ t[m] = p /\ t \in Seq(Node)
  <2>1. /\ DOMAIN t = 1..(Len(s) + 1)
        /\ \A i \in 1..Len(s) : t[i] = s[i]
        /\ t[Len(s) + 1] = p /\ t \in Seq(Node)
        /\ DOMAIN s = 1..Len(s) /\ Len(s) \in Nat
    OBVIOUS
  <2>2. 1..(Len(s) + 1) = 1..Len(s) \cup {Len(s) + 1}
    BY <2>1
  <2> QED BY <2>1, <2>2
<1> HIDE DEF t, m
<1>2. Places(t) = Places(s) \cup {p}
  BY <1>1 DEF Places
<1> QED BY <1>1, <1>2 DEF t

LEMMA SpecialPuts ==
  ASSUME NEW o \in Found, FiniteOut(o), NEW p \in Node
  PROVE  /\ Puts(o, SkipSpecial(o, p).out, p, "special")
         /\ SkipSpecial(o, p).out.swept = o.swept /\ SkipSpecial(o, p).out.named = o.named
<1> DEFINE q == SkipSpecial(o, p).out
<1>1. /\ q.specials = Append(o.specials, p) /\ q.boundaries = o.boundaries
      /\ q.swept = o.swept /\ q.named = o.named
  BY DEF SkipSpecial, Found
<1>2. Places(q.specials) = Places(o.specials) \cup {p}
  BY <1>1, PlacesMore DEF Found
<1>3. Noted(q) = Noted(o) + 1
  <2>1. Len(q.specials) = Len(o.specials) + 1 /\ Len(o.specials) \in Nat
    BY <1>1 DEF Found
  <2>2. Len(q.boundaries) = Len(o.boundaries) /\ Len(o.boundaries) \in Nat
    BY <1>1 DEF Found
  <2> DEFINE a == Len(o.specials)
             b == Len(o.boundaries)
  <2>3. Noted(q) = (a + 1) + b /\ Noted(o) = a + b /\ a \in Nat /\ b \in Nat
    BY <2>1, <2>2, Zenon DEF Noted
  <2> HIDE DEF a, b, q
  <2> QED BY <2>3
<1> HIDE DEF q
<1>4. Puts(o, q, p, "special")
  BY <1>1, <1>2, <1>3 DEF Puts, One, With
<1> QED BY <1>1, <1>4 DEF q

LEMMA BoundaryPuts ==
  ASSUME NEW o \in Found, FiniteOut(o), NEW p \in Node
  PROVE  /\ Puts(o, SkipBoundary(o, p).out, p, "boundary")
         /\ SkipBoundary(o, p).out.swept = o.swept /\ SkipBoundary(o, p).out.named = o.named
<1> DEFINE q == SkipBoundary(o, p).out
<1>1. /\ q.boundaries = Append(o.boundaries, p) /\ q.specials = o.specials
      /\ q.swept = o.swept /\ q.named = o.named
  BY DEF SkipBoundary, Found
<1>2. Places(q.boundaries) = Places(o.boundaries) \cup {p}
  BY <1>1, PlacesMore DEF Found
<1>3. Noted(q) = Noted(o) + 1
  <2>1. Len(q.boundaries) = Len(o.boundaries) + 1 /\ Len(o.boundaries) \in Nat
    BY <1>1 DEF Found
  <2>2. Len(q.specials) = Len(o.specials) /\ Len(o.specials) \in Nat
    BY <1>1 DEF Found
  <2> DEFINE a == Len(o.specials)
             b == Len(o.boundaries)
  <2>3. Noted(q) = a + (b + 1) /\ Noted(o) = a + b /\ a \in Nat /\ b \in Nat
    BY <2>1, <2>2, Zenon DEF Noted
  <2> HIDE DEF a, b, q
  <2> QED BY <2>3
<1> HIDE DEF q
<1>4. Puts(o, q, p, "boundary")
  BY <1>1, <1>2, <1>3 DEF Puts, One, With
<1> QED BY <1>1, <1>4 DEF q

LEMMA OthersPut ==
  ASSUME NEW o \in Found, NEW q, q.specials = o.specials, q.boundaries = o.boundaries,
         NEW p, NEW k, k \notin {"special", "boundary"}
  PROVE  Puts(o, q, p, k)
<1>1. Noted(q) = Noted(o) /\ Noted(o) \in Nat
  BY NotedNat DEF Noted
<1> QED BY <1>1 DEF Puts, One, With

\* One name or one entry more.
LEMMA CountsOnce ==
  ASSUME NEW A, A \subseteq Node, NEW p, p \notin A
  PROVE  Cardinality(A \cup {p}) = Cardinality(A) + 1 /\ Cardinality(A) \in Nat
<1>1. IsFiniteSet(A)
  BY NodesFinite, FS_Subset
<1> QED BY <1>1, FS_AddElement, FS_CardinalityType

LEMMA NameTallied ==
  ASSUME NEW o, NEW q, NEW S, S \subseteq Path, NEW n, Tallied(o, S, n),
         NEW p \in Path, p \notin S, NEW k, k = NameOutcome(p, Hidden(Up[p])),
         Puts(o, q, p, k), q.missing = o.missing, q.named = o.named,
         NEW W, q.visited = o.visited \cup W, q.swept = o.swept \cup W,
         W \subseteq {p}, \A d \in W, v \in o.visited : d # v => Inode[d] # Inode[v]
  PROVE  Tallied(q, Seeing(S, p), n)
<1> DEFINE T == Seeing(S, p)
<1>1. ASSUME NEW j \in {"special", "boundary"}
      PROVE  Walked(j, T) = Walked(j, S) \cup With(k = j, p)
  BY WalkedMore DEF With
<1>2. ASSUME NEW j \in {"special", "boundary"}
      PROVE  /\ Cardinality(Walked(j, T)) = Cardinality(Walked(j, S)) + One(k = j)
             /\ Cardinality(Walked(j, S)) \in Nat
  <2>1. Walked(j, S) \subseteq Node /\ p \notin Walked(j, S)
    BY DEF Walked, Node
  <2>2. Walked(j, T) = Walked(j, S) \cup With(k = j, p)
    BY <1>1
  <2> DEFINE A == Walked(j, S)
             B == Walked(j, T)
  <2>3. A \subseteq Node /\ p \notin A /\ B = A \cup With(k = j, p)
    BY <2>1, <2>2
  <2> HIDE DEF T, A, B
  <2>4. Cardinality(B) = Cardinality(A) + One(k = j) /\ Cardinality(A) \in Nat
    <3>1. Cardinality(A \cup {p}) = Cardinality(A) + 1 /\ Cardinality(A) \in Nat
      BY <2>3, CountsOnce
    <3>2. CASE k = j
      <4>1. B = A \cup {p} /\ One(k = j) = 1
        BY <2>3, <3>2 DEF One, With
      <4> QED BY <3>1, <4>1
    <3>3. CASE k # j
      <4>1. B = A /\ One(k = j) = 0
        BY <2>3, <3>3 DEF One, With
      <4> QED BY <3>1, <4>1
    <3> QED BY <3>2, <3>3
  <2> QED BY <2>4 DEF A, B
<1> HIDE DEF T
<1>3. /\ Places(q.specials) = Got("special", T, n)
      /\ Places(q.boundaries) = Got("boundary", T, n)
  BY <1>1 DEF Tallied, Puts, Got
<1>4. Noted(q) = Tally("special", T, n) + Tally("boundary", T, n)
  <2> DEFINE a == Cardinality(Walked("special", S))
             b == Cardinality(Walked("boundary", S))
             c == Cardinality(Answered("special", n))
             d == Cardinality(Answered("boundary", n))
  <2>1. /\ Noted(q) = ((a + c) + (b + d)) + One(k \in {"special", "boundary"})
        /\ Tally("special", T, n) = (a + One(k = "special")) + c
        /\ Tally("boundary", T, n) = (b + One(k = "boundary")) + d
    BY <1>2 DEF Tallied, Puts, Tally
  <2>2. a \in Nat /\ b \in Nat /\ c \in Nat /\ d \in Nat
    <3>1. IsFiniteSet(Answered("special", n)) /\ IsFiniteSet(Answered("boundary", n))
      BY NodesFinite, FS_Subset DEF Answered
    <3> QED BY <1>2, <3>1, FS_CardinalityType
  <2> HIDE DEF a, b, c, d
  <2> QED BY <2>1, <2>2 DEF One
<1>5. /\ q.missing = EntriesFor("missing", n)
      /\ q.named = {x \in Answered("file", n) : /\ [path |-> x, origin |-> "named"] \in Entries
                                                /\ ~(counting /\ Hidden(x))}
      /\ q.swept = {Root} \cup q.visited \cup Parents(n)
      /\ \A i \in 1..(n - 1) : EntryOutcome(asked[i]) # "fail"
  BY DEF Tallied
<1>6. \A u, v \in q.visited : u # v => Inode[u] # Inode[v]
  BY DEF Tallied
<1> QED BY <1>3, <1>4, <1>5, <1>6 DEF Tallied, T

\* Two entries of one path are one entry.
LEMMA SamePath ==
  ASSUME Inv, Asked, NEW e \in Entries, NEW f \in Entries, e.path = f.path
  PROVE  e = f
<1>1. e \in Entry /\ f \in Entry
  BY EntryTyped
<1>2. Stored(e) = Stored(f)
  BY DEF Asked
<1>3. e.origin = f.origin
  <2>1. /\ e.origin = "managed" => ~Hidden(e.path)
        /\ e.origin = "exclusion" => Hidden(e.path)
        /\ f.origin = "managed" => ~Hidden(e.path)
        /\ f.origin = "exclusion" => Hidden(e.path)
    BY DEF Asked
  <2> QED BY <1>1, <1>2, <2>1 DEF Stored, Entry
<1> QED BY <1>1, <1>3 DEF Entry

LEMMA EntryTallied ==
  ASSUME Inv, Asked, NEW o, NEW q, NEW S, NEW n \in DOMAIN asked,
         1..(n - 1) \subseteq DOMAIN asked, Tallied(o, S, n),
         S \subseteq Path,
         \A i \in 1..(n - 1) : asked[i] # asked[n],
         NEW p, p = asked[n].path, NEW k, k = EntryOutcome(asked[n]), k # "fail",
         Puts(o, q, p, k),
         q.missing = o.missing \cup With(k = "missing", asked[n]),
         q.named = o.named \cup With(/\ k = "file" /\ asked[n].origin = "named"
                                     /\ ~(counting /\ Hidden(p)), p),
         NEW W, q.visited = o.visited \cup W,
         q.swept = o.swept \cup With(p # Root, Up[p]) \cup W,
         W \subseteq {p}, \A d \in W, v \in o.visited : d # v => Inode[d] # Inode[v]
  PROVE  Tallied(q, S, n + 1)
<1> DEFINE m == n + 1
           e == asked[n]
<1>1. n \in Nat \ {0} /\ e \in Entries /\ e \in Entry /\ p \in Node /\ e.path = p
  BY EntryAt DEF Inv, TypeOK
<1>2. 1..(m - 1) = 1..(n - 1) \cup {n}
  BY <1>1
<1>3. ASSUME NEW j  PROVE Answered(j, m) = Answered(j, n) \cup With(k = j, p)
  BY <1>1, AnsweredMore DEF With
<1>4. \A i \in 1..(n - 1) : asked[i].path # p
  <2> SUFFICES ASSUME NEW i \in 1..(n - 1), asked[i].path = p  PROVE FALSE
    OBVIOUS
  <2>1. asked[i] \in Entries
    BY EntryAt
  <2> QED BY <1>1, <2>1, SamePath
<1>5. \A j : p \notin Answered(j, n)
  BY <1>4 DEF Answered
<1>6. ASSUME NEW j \in {"special", "boundary"}
      PROVE  /\ Cardinality(Answered(j, m)) = Cardinality(Answered(j, n)) + One(k = j)
             /\ Cardinality(Answered(j, n)) \in Nat
  <2>1. Answered(j, n) \subseteq Node /\ p \notin Answered(j, n)
    BY <1>5 DEF Answered
  <2>2. Answered(j, m) = Answered(j, n) \cup With(k = j, p)
    BY <1>3
  <2> DEFINE A == Answered(j, n)
             B == Answered(j, m)
  <2>3. A \subseteq Node /\ p \notin A /\ B = A \cup With(k = j, p)
    BY <2>1, <2>2
  <2> HIDE DEF m, A, B
  <2>4. Cardinality(B) = Cardinality(A) + One(k = j) /\ Cardinality(A) \in Nat
    <3>1. Cardinality(A \cup {p}) = Cardinality(A) + 1 /\ Cardinality(A) \in Nat
      BY <2>3, CountsOnce
    <3>2. CASE k = j
      <4>1. B = A \cup {p} /\ One(k = j) = 1
        BY <2>3, <3>2 DEF One, With
      <4> QED BY <3>1, <4>1
    <3>3. CASE k # j
      <4>1. B = A /\ One(k = j) = 0
        BY <2>3, <3>3 DEF One, With
      <4> QED BY <3>1, <4>1
    <3> QED BY <3>2, <3>3
  <2> QED BY <2>4 DEF A, B
<1> HIDE DEF m
<1>7. /\ Places(q.specials) = Got("special", S, m)
      /\ Places(q.boundaries) = Got("boundary", S, m)
  BY <1>3 DEF Tallied, Puts, Got
<1>8. Noted(q) = Tally("special", S, m) + Tally("boundary", S, m)
  <2> DEFINE a == Cardinality(Walked("special", S))
             b == Cardinality(Walked("boundary", S))
             c == Cardinality(Answered("special", n))
             d == Cardinality(Answered("boundary", n))
  <2>1. /\ Noted(q) = ((a + c) + (b + d)) + One(k \in {"special", "boundary"})
        /\ Tally("special", S, m) = a + (c + One(k = "special"))
        /\ Tally("boundary", S, m) = b + (d + One(k = "boundary"))
    BY <1>6 DEF Tallied, Puts, Tally
  <2>2. a \in Nat /\ b \in Nat /\ c \in Nat /\ d \in Nat
    <3>1. Walked("special", S) \subseteq Node /\ Walked("boundary", S) \subseteq Node
      BY DEF Walked, Node
    <3>2. IsFiniteSet(Walked("special", S)) /\ IsFiniteSet(Walked("boundary", S))
      BY <3>1, NodesFinite, FS_Subset
    <3> QED BY <1>6, <3>2, FS_CardinalityType
  <2> HIDE DEF a, b, c, d
  <2> QED BY <2>1, <2>2 DEF One
<1>9. q.missing = EntriesFor("missing", m)
  <2>1. EntriesFor("missing", m) = EntriesFor("missing", n) \cup With(k = "missing", e)
    BY <1>1, <1>2 DEF EntriesFor, With
  <2> QED BY <2>1 DEF Tallied
<1>10. q.named = {x \in Answered("file", m) : /\ [path |-> x, origin |-> "named"] \in Entries
                                              /\ ~(counting /\ Hidden(x))}
  <2>1. [path |-> p, origin |-> "named"] \in Entries <=> e.origin = "named"
    <3>1. ASSUME e.origin = "named"  PROVE [path |-> p, origin |-> "named"] \in Entries
      <4>1. e = [path |-> p, origin |-> "named"]
        BY <1>1, <3>1 DEF Entry
      <4> QED BY <1>1, <4>1
    <3>2. ASSUME [path |-> p, origin |-> "named"] \in Entries  PROVE e.origin = "named"
      <4> DEFINE f == [path |-> p, origin |-> "named"]
      <4>1. f \in Entries /\ f.path = p /\ f.origin = "named"
        BY <3>2
      <4> HIDE DEF f, e
      <4>2. f = e
        BY <1>1, <4>1, SamePath
      <4> QED BY <4>1, <4>2
    <3> QED BY <3>1, <3>2
  <2>2. o.named = {x \in Answered("file", n) : /\ [path |-> x, origin |-> "named"] \in Entries
                                               /\ ~(counting /\ Hidden(x))}
    BY DEF Tallied
  <2>3. Answered("file", m) = Answered("file", n) \cup With(k = "file", p)
    BY <1>3
  <2>4. q.named = o.named \cup With(/\ k = "file" /\ e.origin = "named"
                                    /\ ~(counting /\ Hidden(p)), p)
    OBVIOUS
  <2> HIDE DEF e
  <2> QED BY <2>1, <2>2, <2>3, <2>4 DEF With
<1>11. q.swept = {Root} \cup q.visited \cup Parents(m)
  <2>1. p # Root => Up[p] \in Node
    BY <1>1, UpNode DEF Node
  <2>2. Parents(m) = Parents(n) \cup With(p # Root, Up[p])
    BY <1>2, <2>1 DEF Parents, With
  <2> QED BY <2>2 DEF Tallied
<1>12. \A i \in 1..(m - 1) : EntryOutcome(asked[i]) # "fail"
  BY <1>2 DEF Tallied
<1>13. \A u, v \in q.visited : u # v => Inode[u] # Inode[v]
  BY DEF Tallied
<1> QED BY <1>7, <1>8, <1>9, <1>10, <1>11, <1>12, <1>13 DEF Tallied, m
-----------------------------------------------------------------------------
\* A name that is read, in a tree that nobody disturbs.
LEMMA ReadFacts ==
  ASSUME Inv, SteadyInv, touched = {}, Measured(out, next, stack), stack # <<>>,
         NEW p \in Returnable
  PROVE  /\ p \in Path /\ p \in Node /\ p # Root /\ Up[p] = Top.dir /\ p \in Top.listed
         /\ Present(p) /\ p \notin Respelled /\ kind[p] \in Kinds /\ p \notin SeenNow
         /\ Top.dir \in Entered /\ Top.dir \in Node
         /\ p \notin Git => p \in Met
         /\ Seeing(SeenNow, p) \subseteq Scans
         /\ Cardinality(Seeing(SeenNow, p)) = Cardinality(SeenNow) + 1
         /\ Cardinality(SeenNow) \in Nat
<1>1. p \in Path /\ Up[p] = Top.dir /\ p \notin Respelled
  BY ReadParts
<1>2. FramesIn(stack) = FramesIn(Below) \cup {Top} /\ Top.dir \in out.visited
  BY TopParts
<1>3. Top.listed = Listing(Top.dir)
  <2>1. Top.listed \subseteq Listing(Top.dir)
    BY <1>2 DEF Measured, InTurn
  <2>2. Listing(Top.dir) \subseteq Top.listed
    BY <1>2, AllSteady DEF SteadyInv, Standing, Listed
  <2> QED BY <2>1, <2>2
<1>4. p \in Top.listed /\ p \notin Top.read /\ Present(p)
  BY <1>3 DEF Returnable, Listing, Inside
<1>5. p \notin SeenNow
  BY <1>1, <1>2, <1>4 DEF SeenNow, SeenIn
<1>6. /\ Top.dir \in Entered /\ SeenNow \subseteq Scans
  <2>1. out \in Found /\ Standing(out, next, stack)
    BY DEF Inv, TypeOK, SteadyInv
  <2> QED BY <1>2, <2>1, FoundSound DEF SeenNow, Scans
<1>7. p \in Node /\ p # Root /\ kind[p] \in Kinds /\ Top.dir \in Node
  BY <1>1, UpNode DEF Inv, TypeOK
<1>8. p \notin Git => p \in Met
  BY <1>1, <1>4, <1>6, SeenMet
<1>9. Seeing(SeenNow, p) = SeenNow \cup {p}
  BY <1>4 DEF Seeing
<1>10. p \in Scans
  BY <1>1, <1>4, <1>6 DEF Scans
<1>11. /\ Cardinality(SeenNow \cup {p}) = Cardinality(SeenNow) + 1
       /\ Cardinality(SeenNow) \in Nat
  <2>1. IsFiniteSet(SeenNow)
    BY <1>6, WantedFinite, FS_Subset
  <2> QED BY <1>5, <2>1, FS_AddElement, FS_CardinalityType
<1> QED BY <1>1, <1>4, <1>5, <1>6, <1>7, <1>8, <1>9, <1>10, <1>11

\* A directory that is met for the first time is met from the entry last taken up.
LEMMA ReadTurn ==
  ASSUME Inv, SteadyInv, touched = {}, Measured(out, next, stack), stack # <<>>,
         NEW p \in Returnable, p \notin out.visited,
         NameOutcome(p, Top.hidden) = "walk"
  PROVE  /\ p \in Entered
         /\ next - 1 \in DOMAIN asked /\ asked[next - 1] \in Open
         /\ Reached(asked[next - 1].path, p)
         /\ Levels(asked[next - 1].path, p) = Top.depth + 1
         /\ Earliest(Reaching(p)) = next - 1
<1> DEFINE b == asked[next - 1].path
<1>1. /\ p \in Path /\ p \in Node /\ Up[p] = Top.dir /\ Present(p) /\ p \notin Respelled
      /\ kind[p] \in Kinds /\ Top.dir \in Entered /\ Top.dir \in Node
      /\ p \notin Git => p \in Met
  BY ReadFacts
<1>2. FramesIn(stack) = FramesIn(Below) \cup {Top}
  BY TopParts
<1>3. /\ next - 1 \in DOMAIN asked /\ asked[next - 1] \in Open
      /\ Reached(b, Top.dir) /\ Top.depth = Levels(b, Top.dir)
      /\ \A i \in 1..(next - 2), d \in Entered :
            asked[i] \in Open /\ Reached(asked[i].path, d) => d \in out.visited
  BY <1>2 DEF Measured, InTurn
<1>4. p \notin Git \cup Odd /\ kind[p] = "dir" /\ ~IsRepo(p)
  BY <1>1, HiddenName, NameCases
<1>5. p \in Entered
  BY <1>1, <1>4 DEF Entered, Enterable
<1>6. b \in Node /\ Covers(b, Top.dir)
  BY <1>3, EntryAt DEF Reached
<1>7. Reached(b, p)
  BY <1>1, <1>3, <1>4, <1>6, ReachedBelow DEF Entered
<1>8. Levels(b, p) = Top.depth + 1
  BY <1>1, <1>3, <1>6, LevelsNat
<1>9. Earliest(Reaching(p)) = next - 1
  <2>1. (next - 1) - 1 = next - 2
    BY DEF Inv, TypeOK
  <2> DEFINE m == next - 1
  <2>2. \A j \in 1..(m - 1) : asked[j] \in Open => ~Reached(asked[j].path, p)
    BY <1>3, <1>5, <2>1
  <2>3. m \in DOMAIN asked /\ asked[m] \in Open /\ Reached(asked[m].path, p)
    BY <1>3, <1>7
  <2> HIDE DEF m
  <2>4. Earliest(Reaching(p)) = m
    BY <2>2, <2>3, EarliestIs
  <2> QED BY <2>4 DEF m
<1> QED BY <1>3, <1>5, <1>7, <1>8, <1>9

LEMMA ReadInTurn ==
  ASSUME Inv, SteadyInv, touched = {}, Measured(out, next, stack), stack # <<>>,
         NEW p \in Returnable, NEW q
  PROVE  /\ q.visited = out.visited => InTurn(q, next, ReadStack(p))
         /\ /\ q.visited = out.visited \cup {p} /\ p \notin out.visited
            /\ NameOutcome(p, Top.hidden) = "walk" /\ Top.depth + 1 <= limits.depth
            => \A h \in BOOLEAN :
                 InTurn(q, next, Append(ReadStack(p), OpenFrame(p, h, Top.depth + 1)))
<1> DEFINE s == ReadStack(p)
           g == ReadFrame(p)
           b == asked[next - 1].path
           F == FramesIn(Below)
<1>1. /\ s \in Seq(Frame) /\ Distinct(s) /\ FramesIn(s) = F \cup {g}
      /\ Listed(out, FramesIn(s))
  BY ReadParts
<1>2. FramesIn(stack) = F \cup {Top} /\ Top \in Frame
  BY TopParts
<1>3. /\ g.dir = Top.dir /\ g.depth = Top.depth /\ g.listed = Top.listed
      /\ g.read = Top.read \cup {p}
  BY <1>2 DEF ReadFrame, Frame
<1>4. p \in Top.listed /\ p \in Node
  BY ReadFacts
<1>5. InTurn(out, next, stack)
  BY DEF Measured
<1> HIDE DEF g, s, F
<1>6. \A f \in FramesIn(s) :
        /\ Reached(b, f.dir) /\ f.depth = Levels(b, f.dir)
        /\ f.read \subseteq f.listed /\ f.listed \subseteq Listing(f.dir)
  BY <1>1, <1>2, <1>3, <1>4, <1>5 DEF InTurn
<1>7. ASSUME q.visited = out.visited  PROVE InTurn(q, next, s)
  BY <1>5, <1>6, <1>7 DEF InTurn
<1>8. ASSUME q.visited = out.visited \cup {p}, p \notin out.visited,
             NameOutcome(p, Top.hidden) = "walk", Top.depth + 1 <= limits.depth,
             NEW h \in BOOLEAN
      PROVE  InTurn(q, next, Append(s, OpenFrame(p, h, Top.depth + 1)))
  <2> DEFINE f == OpenFrame(p, h, Top.depth + 1)
             t == Append(s, f)
  <2>1. /\ f.dir = p /\ f.depth = Top.depth + 1 /\ f.read = {} /\ f.listed = Listing(p)
        /\ f \in Frame
    BY <1>2, <1>4 DEF OpenFrame, Frame, Listing, Inside
  <2>2. \A x \in FramesIn(s) : x.dir # f.dir
    BY <1>1, <1>8, <2>1 DEF Listed
  <2> HIDE DEF f
  <2>3. FramesIn(t) = FramesIn(s) \cup {f}
    BY <1>1, <2>1, <2>2, PushFrames
  <2> HIDE DEF t
  <2>4. /\ Reached(b, p) /\ Levels(b, p) = Top.depth + 1 /\ Earliest(Reaching(p)) = next - 1
    BY <1>8, ReadTurn
  <2>5. \A d \in q.visited : Levels(asked[Earliest(Reaching(d))].path, d) <= limits.depth
    BY <1>5, <1>8, <2>4 DEF InTurn
  <2>6. \A x \in FramesIn(t) :
          /\ Reached(b, x.dir) /\ x.depth = Levels(b, x.dir)
          /\ x.read \subseteq x.listed /\ x.listed \subseteq Listing(x.dir)
    BY <1>6, <2>1, <2>3, <2>4
  <2>7. /\ next - 1 \in DOMAIN asked /\ asked[next - 1] \in Open
        /\ \A i \in 1..(next - 2), d \in Entered :
             asked[i] \in Open /\ Reached(asked[i].path, d) => d \in q.visited
    BY <1>5, <1>8 DEF InTurn
  <2> QED BY <2>5, <2>6, <2>7 DEF InTurn, t, f
<1> QED BY <1>7, <1>8 DEF s
-----------------------------------------------------------------------------
LEMMA FilePuts ==
  ASSUME NEW o \in Found, NEW p, NEW b \in BOOLEAN
  PROVE  LET q == AddFile(o, p, b).out
         IN  /\ q.specials = o.specials /\ q.boundaries = o.boundaries
             /\ q.missing = o.missing /\ q.swept = o.swept /\ q.visited = o.visited
             /\ b => q.named = o.named \cup {p}
             /\ ~b => q.named = o.named
  BY DEF AddFile, Found

LEMMA ExcludedPuts ==
  ASSUME NEW o \in Found, NEW p, NEW b \in BOOLEAN
  PROVE  LET q == AddExcluded(o, p, b).out
         IN  /\ q.specials = o.specials /\ q.boundaries = o.boundaries
             /\ q.missing = o.missing /\ q.swept = o.swept /\ q.visited = o.visited
             /\ b /\ ~counting => q.named = o.named \cup {p}
             /\ ~b \/ counting => q.named = o.named
  BY DEF AddExcluded, Nil, Found

LEMMA NamePuts ==
  ASSUME Inv, SteadyInv, stack # <<>>, NEW p \in Returnable,
         NameOutcome(p, Top.hidden) \notin {"walk", "fail"}
  PROVE  /\ Keeping(out, NameFound(p))
         /\ Puts(out, NameFound(p).out, p, NameOutcome(p, Top.hidden))
         /\ NameFound(p).out.missing = out.missing
         /\ NameFound(p).out.named = out.named
         /\ NameFound(p).out.swept = out.swept
         /\ NameFound(p).out.visited = out.visited
<1> DEFINE k == NameOutcome(p, Top.hidden)
           q == NameFound(p).out
<1>1. out \in Found /\ FiniteOut(out) /\ p \in Node
  BY ReadParts DEF Inv, TypeOK, Node
<1>2. CASE k = "file" /\ ~Hidden(p)
  <2> DEFINE b == FALSE
  <2>0. b \in BOOLEAN /\ ~b
    OBVIOUS
  <2>1. NameFound(p) = AddFile(out, p, b)
    BY <1>2, HiddenName DEF NameFound
  <2> HIDE DEF b
  <2>2. Keeping(out, NameFound(p))
    BY <1>1, <2>0, <2>1, FileKeeps
  <2>3. /\ q.specials = out.specials /\ q.boundaries = out.boundaries
        /\ q.missing = out.missing /\ q.named = out.named /\ q.swept = out.swept
        /\ q.visited = out.visited
    <3> DEFINE r == AddFile(out, p, b)
    <3>1. /\ r.out.specials = out.specials /\ r.out.boundaries = out.boundaries
          /\ r.out.missing = out.missing /\ r.out.swept = out.swept
          /\ r.out.visited = out.visited /\ r.out.named = out.named
      BY <1>1, <2>0, FilePuts
    <3>2. NameFound(p) = r
      BY <2>1
    <3> HIDE DEF r
    <3> QED BY <3>1, <3>2
  <2>4. k \notin {"special", "boundary"}
    BY <1>2
  <2> HIDE DEF q, k
  <2>5. Puts(out, q, p, k)
    BY <1>1, <2>3, <2>4, OthersPut
  <2> QED BY <2>2, <2>3, <2>5 DEF q, k
<1>3. CASE k = "file" /\ Hidden(p)
  <2> DEFINE b == FALSE
  <2>0. b \in BOOLEAN /\ ~b
    OBVIOUS
  <2>1. NameFound(p) = AddExcluded(out, p, b)
    BY <1>3, HiddenName DEF NameFound
  <2> HIDE DEF b
  <2>2. Keeping(out, NameFound(p))
    BY <1>1, <2>0, <2>1, ExcludedKeeps
  <2>3. /\ q.specials = out.specials /\ q.boundaries = out.boundaries
        /\ q.missing = out.missing /\ q.named = out.named /\ q.swept = out.swept
        /\ q.visited = out.visited
    <3> DEFINE r == AddExcluded(out, p, b)
    <3>1. /\ r.out.specials = out.specials /\ r.out.boundaries = out.boundaries
          /\ r.out.missing = out.missing /\ r.out.swept = out.swept
          /\ r.out.visited = out.visited /\ r.out.named = out.named
      BY <1>1, <2>0, ExcludedPuts
    <3>2. NameFound(p) = r
      BY <2>1
    <3> HIDE DEF r
    <3> QED BY <3>1, <3>2
  <2>4. k \notin {"special", "boundary"}
    BY <1>3
  <2> HIDE DEF q, k
  <2>5. Puts(out, q, p, k)
    BY <1>1, <2>3, <2>4, OthersPut
  <2> QED BY <2>2, <2>3, <2>5 DEF q, k
<1>4. CASE k = "special"
  <2>1. NameFound(p) = SkipSpecial(out, p)
    BY <1>4 DEF NameFound
  <2>2. Same(out, q)
    BY <1>1, <2>1, OthersAdd
  <2> QED BY <1>1, <1>4, <2>1, <2>2, SpecialKeeps, SpecialPuts DEF Same
<1>5. CASE k = "boundary"
  <2>1. NameFound(p) = SkipBoundary(out, p)
    BY <1>5 DEF NameFound
  <2>2. Same(out, q)
    BY <1>1, <2>1, OthersAdd
  <2> QED BY <1>1, <1>5, <2>1, <2>2, BoundaryKeeps, BoundaryPuts DEF Same
<1>6. CASE k \notin {"file", "special", "boundary"}
  <2>1. NameFound(p) = Nil(out)
    BY <1>6 DEF NameFound
  <2>2. q = out
    BY <2>1 DEF Nil
  <2>3. k \notin {"special", "boundary"}
    BY <1>6
  <2> HIDE DEF k
  <2>4. Puts(out, out, p, k)
    BY <1>1, <2>3, OthersPut
  <2> QED BY <1>1, <2>1, <2>2, <2>4, NilKeeps DEF k
<1> QED BY <1>2, <1>3, <1>4, <1>5, <1>6

\* A name that is refused is one that must be.
LEMMA NameRefused ==
  ASSUME Inv, SteadyInv, touched = {}, Measured(out, next, stack), stack # <<>>,
         NEW p \in Returnable, NameOutcome(p, Top.hidden) = "fail"
  PROVE  Reason
<1>1. /\ p \in Path /\ p # Root /\ kind[p] \in Kinds /\ (p \notin Git => p \in Met)
      /\ Top.hidden = Hidden(Up[p]) /\ Top.hidden \in BOOLEAN
  BY ReadFacts, HiddenName
<1>2. Present(p) /\ p \in Met
  BY <1>1, NameCases
<1>3. CASE p \in Odd
  <2>1. ~Hidden(Up[p])
    BY <1>1, <1>2, <1>3, NameCases
  <2> QED BY <1>1, <1>2, <1>3, <2>1, BeneathHidden DEF BadName, Refused, Reason
<1>4. CASE p \notin Odd /\ kind[p] = "dir" /\ ~IsRepo(p) /\ HasConfig(p)
  BY <1>1, <1>2, <1>4 DEF Entered, Enterable, NestedDomain, Refused, Reason
<1>5. CASE p \notin Odd /\ kind[p] # "dir" /\ ~Passed(p) /\ p \in ConfigName
  BY <1>1, <1>2, <1>5 DEF Passed, NestedDomain, Refused, Reason
<1>6. p \notin Git
  BY <1>1, NameCases
<1> QED BY <1>1, <1>2, <1>3, <1>4, <1>5, <1>6, NameCases

\* A directory that is refused, though its name and what it holds are not.
LEMMA WalkRefused ==
  ASSUME Inv, SteadyInv, touched = {}, Measured(out, next, stack),
         NEW d \in Entered, NEW depth \in Nat,
         Levels(asked[Earliest(Reaching(d))].path, d) = depth,
         Aliased(d) \/ depth > limits.depth
  PROVE  Reason
<1>1. CASE Aliased(d)
  <2>1. PICK v \in out.visited : v # d /\ Inode[v] = Inode[d]
    BY <1>1 DEF Aliased
  <2>2. v \in Entered
    <3>1. out \in Found /\ Standing(out, next, stack)
      BY DEF Inv, TypeOK, SteadyInv
    <3> QED BY <3>1, FoundSound
  <2> QED BY <2>1, <2>2 DEF Twins, Refused, Reason
<1>2. CASE depth > limits.depth
  BY <1>2 DEF TooDeep, Reason
<1> QED BY <1>1, <1>2

\* A directory met by its name, in addition to what has been found.
LEMMA VisitParts ==
  ASSUME Inv, NEW o \in Found, FiniteOut(o), NEW d \in Node, d \notin o.visited
  PROVE  /\ Keeping(o, Visit(o, d))
         /\ Visit(o, d).out.visited = o.visited \cup {d}
         /\ Visit(o, d).out.swept = o.swept \cup {d}
         /\ Visit(o, d).out.missing = o.missing
         /\ Visit(o, d).out.named = o.named
         /\ Visit(o, d).out.files = o.files /\ Visit(o, d).out.hidden = o.hidden
         /\ Visit(o, d).out.specials = o.specials
         /\ Visit(o, d).out.boundaries = o.boundaries
<1>1. Keeping(o, Visit(o, d))
  BY VisitKeeps
<1> QED BY <1>1 DEF Visit, Sweep, Found

LEMMA ReadExact ==
  ASSUME Inv, SteadyInv, touched = {}, Measured(out, next, stack), Within,
         NEW p \in Path, ReadName(p)
  PROVE  ExactInv'
<1> DEFINE hidden == Top.hidden \/ p \in excl
           k      == NameOutcome(p, Top.hidden)
           T      == Seeing(SeenNow, p)
           s      == ReadStack(p)
<1>1. /\ stack # <<>> /\ p \in Returnable /\ status = "expanding"
      /\ scanned' = scanned + 1
      /\ \/ Fail /\ scanned' > limits.scanned
         \/ Fail /\ k = "fail"
         \/ /\ scanned' <= limits.scanned
            /\ k = "walk" /\ WalkDir(p, hidden, Top.depth + 1, Nil(out), next, s)
         \/ /\ scanned' <= limits.scanned
            /\ k \notin {"fail", "walk"} /\ GoOn(NameFound(p), next, s)
  BY DEF ReadName, Walking, ReadStack, ReadFrame, NameFound
<1>2. /\ p \in Node /\ p # Root /\ Up[p] = Top.dir /\ p \notin SeenNow
      /\ SeenNow \subseteq Path
      /\ T \subseteq Scans /\ Cardinality(T) = Cardinality(SeenNow) + 1
  BY <1>1, ReadFacts DEF SeenNow, SeenIn
<1>3. scanned' = Cardinality(T)
  BY <1>1, <1>2 DEF Within
<1>4. SeenIn(out, FramesIn(s)) = T
  BY <1>1, ReadParts
<1>5. /\ out \in Found /\ FiniteOut(out) /\ Tallied(out, SeenNow, next)
      /\ k = NameOutcome(p, Hidden(Up[p])) /\ Top.depth + 1 \in Nat /\ hidden \in BOOLEAN
  BY <1>1, TopParts, HiddenName DEF Inv, TypeOK, Measured, SeenNow, Frame
<1> HIDE DEF T, s
<1>6. CASE Fail /\ scanned' > limits.scanned
  <2>1. Cardinality(T) <= WantedScans /\ Cardinality(T) \in Nat /\ WantedScans \in Nat
    BY <1>2, WantedFinite, CardWithin DEF WantedScans, Scans
  <2>2. limits.scanned \in Nat
    BY LimitsNat
  <2> HIDE DEF WantedScans
  <2>3. WantedScans > limits.scanned
    BY <1>3, <1>6, <2>1, <2>2
  <2> QED BY <1>6, <2>3, FailsFor DEF OverBudget, Reason
<1>7. CASE Fail /\ k = "fail"
  BY <1>1, <1>7, NameRefused, FailsFor
<1>8. CASE /\ scanned' <= limits.scanned
           /\ k = "walk" /\ WalkDir(p, hidden, Top.depth + 1, Nil(out), next, s)
  <2>1. CASE p \in out.visited /\ GoOn(Nil(out), next, s)
    <3>1. Took(out, out, p, "walk")
      BY <2>1 DEF Took
    <3>2. Standing(out, next, s)
      BY <1>1, <1>8, <3>1, ReadStands DEF s
    <3>3. Puts(out, out, p, k)
      BY <1>5, <1>8, OthersPut
    <3>4. Tallied(out, T, next)
      <4>1. out.visited = out.visited \cup {} /\ out.swept = out.swept \cup {}
        OBVIOUS
      <4> HIDE DEF k
      <4> QED BY <1>2, <1>5, <3>3, <4>1, NameTallied DEF T
    <3>5. InTurn(out, next, s)
      BY <1>1, ReadInTurn DEF s
    <3>6. Nil(out).out = out /\ Keeping(out, Nil(out))
      BY <1>5, NilKeeps DEF Nil
    <3> DEFINE r == Nil(out)
    <3>7. /\ GoOn(r, next, s) /\ Keeping(out, r) /\ Measured(r.out, next, s)
          /\ scanned' = Cardinality(SeenIn(r.out, FramesIn(s)))
      BY <1>3, <1>4, <2>1, <3>2, <3>4, <3>5, <3>6 DEF Measured
    <3> HIDE DEF r
    <3> QED BY <1>1, <1>8, <3>7, GoesOnWithin
  <2>2. CASE p \notin out.visited
    <3>1. /\ p \in Entered
          /\ Levels(asked[Earliest(Reaching(p))].path, p) = Top.depth + 1
      BY <1>1, <1>8, <2>2, ReadTurn
    <3>2. CASE Fail /\ (Aliased(p) \/ Top.depth + 1 > limits.depth)
      BY <1>5, <3>1, <3>2, WalkRefused, FailsFor
    <3>3. CASE /\ ~Aliased(p) /\ Top.depth + 1 <= limits.depth
               /\ GoOn(Both(Nil(out), Visit(out, p)), next,
                       Append(s, OpenFrame(p, hidden, Top.depth + 1)))
      <4> DEFINE r == Both(Nil(out), Visit(out, p))
                 t == Append(s, OpenFrame(p, hidden, Top.depth + 1))
                 q == Visit(out, p).out
      <4>1. /\ Keeping(out, Visit(out, p)) /\ q.visited = out.visited \cup {p}
            /\ q.swept = out.swept \cup {p} /\ q.missing = out.missing
            /\ q.named = out.named /\ q.files = out.files /\ q.hidden = out.hidden
            /\ q.specials = out.specials /\ q.boundaries = out.boundaries
        BY <1>2, <1>5, <2>2, VisitParts
      <4>2. r.out = q /\ Keeping(out, r)
        <5>1. Keeping(out, Nil(out)) /\ Nil(out).out = out /\ Kept(out) \in Nat
          BY <1>5, NilKeeps, KeptNat DEF Nil
        <5>2. Keeping(out, r)
          BY <4>1, <5>1, BothKeep
        <5> QED BY <5>2 DEF Both
      <4> HIDE DEF q
      <4>3. Took(out, q, p, "walk")
        BY <4>1 DEF Took
      <4>4. Standing(q, next, t)
        <5>1. \A h \in BOOLEAN, m \in Nat :
                Standing(q, next, Append(ReadStack(p), OpenFrame(p, h, m)))
          BY <1>1, <1>8, <2>2, <4>1, <4>3, ReadStands
        <5> QED BY <1>5, <5>1 DEF s
      <4>5. InTurn(q, next, t)
        <5>1. \A h \in BOOLEAN :
                InTurn(q, next, Append(ReadStack(p), OpenFrame(p, h, Top.depth + 1)))
          BY <1>1, <1>8, <2>2, <3>3, <4>1, ReadInTurn
        <5> QED BY <1>5, <5>1 DEF s
      <4>6. SeenIn(q, FramesIn(t)) = T
        <5> DEFINE f == OpenFrame(p, hidden, Top.depth + 1)
        <5>1. /\ s \in Seq(Frame) /\ Distinct(s) /\ Listed(out, FramesIn(s))
          BY <1>1, ReadParts DEF s
        <5>2. f \in Frame /\ f.dir = p /\ f.read = {}
          BY <1>2, <1>5 DEF OpenFrame, Frame, Listing, Inside
        <5> HIDE DEF f
        <5>3. \A g \in FramesIn(s) : g.dir \in out.visited /\ g.dir # f.dir
          BY <2>2, <5>1, <5>2 DEF Listed
        <5>4. FramesIn(Append(s, f)) = FramesIn(s) \cup {f}
          BY <5>1, <5>2, <5>3, PushFrames
        <5>5. SeenIn(q, FramesIn(s) \cup {f}) = SeenIn(out, FramesIn(s))
          BY <2>2, <4>1, <5>2, <5>3, SeenOpen
        <5> QED BY <1>4, <5>4, <5>5 DEF f
      <4>7. Tallied(q, T, next)
        <5>1. Puts(out, q, p, k)
          BY <1>5, <1>8, <4>1, OthersPut
        <5>2. \A d \in {p}, v \in out.visited : d # v => Inode[d] # Inode[v]
          BY <3>3 DEF Aliased
        <5> DEFINE W == {p}
        <5>3. /\ W \subseteq {p} /\ q.visited = out.visited \cup W
              /\ q.swept = out.swept \cup W
              /\ \A d \in W, v \in out.visited : d # v => Inode[d] # Inode[v]
          BY <4>1, <5>2
        <5> HIDE DEF k, W
        <5> QED BY <1>2, <1>5, <4>1, <5>1, <5>3, NameTallied DEF T
      <4>8. Measured(q, next, t)
        BY <4>4, <4>5, <4>6, <4>7 DEF Measured
      <4>9. /\ GoOn(r, next, t) /\ Keeping(out, r) /\ Measured(r.out, next, t)
            /\ scanned' = Cardinality(SeenIn(r.out, FramesIn(t)))
        BY <1>3, <3>3, <4>2, <4>6, <4>8
      <4> HIDE DEF r, t
      <4> QED BY <1>1, <1>8, <4>9, GoesOnWithin
    <3> QED BY <1>8, <2>2, <3>2, <3>3 DEF WalkDir, Nil
  <2> QED BY <1>8, <2>1, <2>2 DEF WalkDir
<1>9. CASE /\ scanned' <= limits.scanned
           /\ k \notin {"fail", "walk"} /\ GoOn(NameFound(p), next, s)
  <2> DEFINE r == NameFound(p)
             q == NameFound(p).out
  <2>1. /\ Keeping(out, r) /\ Puts(out, q, p, k) /\ q.missing = out.missing
        /\ q.named = out.named /\ q.swept = out.swept /\ q.visited = out.visited
    BY <1>1, <1>9, NamePuts
  <2>2. Took(out, q, p, k)
    BY <1>1, <1>9, NameTook
  <2> HIDE DEF q, r
  <2>3. Standing(q, next, s) /\ InTurn(q, next, s)
    BY <1>1, <1>9, <2>1, <2>2, ReadStands, ReadInTurn DEF s
  <2>4. SeenIn(q, FramesIn(s)) = T
    BY <1>4, <2>1, SeenSame
  <2>5. Tallied(q, T, next)
    <3> DEFINE W == {}
    <3>1. /\ W \subseteq {p} /\ q.visited = out.visited \cup W
          /\ q.swept = out.swept \cup W
          /\ \A d \in W, v \in out.visited : d # v => Inode[d] # Inode[v]
      BY <2>1
    <3> HIDE DEF k, W
    <3> QED BY <1>2, <1>5, <2>1, <3>1, NameTallied DEF T
  <2>6. Measured(q, next, s)
    BY <2>3, <2>4, <2>5 DEF Measured
  <2>7. /\ GoOn(r, next, s) /\ Measured(r.out, next, s)
        /\ scanned' = Cardinality(SeenIn(r.out, FramesIn(s)))
    BY <1>3, <1>9, <2>4, <2>6 DEF q, r
  <2> QED BY <1>1, <1>9, <2>1, <2>7, GoesOnWithin
<1> QED BY <1>1, <1>6, <1>7, <1>8, <1>9
-----------------------------------------------------------------------------
\* An entry that is taken up, in a tree that nobody disturbs.
LEMMA ParentParts ==
  ASSUME Inv, NEW p \in Node
  PROVE  LET o == WithParent(p).out
         IN  /\ Keeping(out, WithParent(p))
             /\ o.swept = out.swept \cup With(p # Root, Up[p])
             /\ o.specials = out.specials /\ o.boundaries = out.boundaries
             /\ o.missing = out.missing /\ o.named = out.named
             /\ o.visited = out.visited /\ o.files = out.files /\ o.hidden = out.hidden
<1>1. out \in Found /\ FiniteOut(out)
  BY DEF Inv, TypeOK
<1>2. CASE p = Root
  <2>1. Keeping(out, WithParent(p))
    BY <1>1, <1>2, NilKeeps DEF WithParent
  <2> QED BY <1>2, <2>1 DEF WithParent, Nil, With
<1>3. CASE p # Root
  <2>1. Up[p] \in Node
    BY <1>3, UpNode DEF Node
  <2>2. WithParent(p) = Sweep(out, {Up[p]})
    BY <1>3 DEF WithParent
  <2>3. Keeping(out, WithParent(p))
    BY <1>1, <2>1, <2>2, SweepKeeps
  <2>4. WithParent(p).out = [out EXCEPT !.swept = @ \cup {Up[p]}]
    BY <2>2 DEF Sweep
  <2> QED BY <1>1, <1>3, <2>3, <2>4 DEF Found, With
<1> QED BY <1>2, <1>3

LEMMA PutsAfter ==
  ASSUME NEW o, NEW r, NEW q, NEW p, NEW k,
         r.specials = o.specials, r.boundaries = o.boundaries, Puts(r, q, p, k)
  PROVE  Puts(o, q, p, k)
<1>1. Noted(r) = Noted(o)
  BY DEF Noted
<1> QED BY <1>1 DEF Puts

LEMMA EntryPuts ==
  ASSUME Inv, Expanding, ~Repeated, EntryOutcome(asked[next]) \notin {"walk", "fail"},
         NEW o \in Found, FiniteOut(o), o.missing = out.missing
  PROVE  LET e == asked[next]
             p == e.path
             k == EntryOutcome(e)
             q == EntryFound(o).out
         IN  /\ Keeping(o, EntryFound(o))
             /\ Puts(o, q, p, k)
             /\ q.missing = o.missing \cup With(k = "missing", e)
             /\ q.named = o.named \cup With(/\ k = "file" /\ e.origin = "named"
                                            /\ ~(counting /\ Hidden(p)), p)
             /\ q.swept = o.swept /\ q.visited = o.visited
<1> DEFINE e == asked[next]
           p == e.path
           k == EntryOutcome(e)
           b == e.origin = "named"
           r == EntryFound(o)
           q == r.out
<1>1. p \in Node /\ e \in Entry /\ e \notin o.missing /\ b \in BOOLEAN
  BY FreshEntry DEF Entry
<1>2. CASE k = "file" /\ ~Hidden(p)
  <2>1. r = AddFile(o, p, b)
    BY <1>2 DEF EntryFound
  <2> HIDE DEF b, r
  <2>2. Keeping(o, r)
    BY <1>1, <2>1, FileKeeps
  <2>3. /\ q.specials = o.specials /\ q.boundaries = o.boundaries
        /\ q.missing = o.missing /\ q.swept = o.swept /\ q.visited = o.visited
        /\ (b => q.named = o.named \cup {p}) /\ (~b => q.named = o.named)
    BY <1>1, <2>1, FilePuts
  <2>4. k \notin {"special", "boundary", "missing"} /\ k = "file"
    BY <1>2
  <2> HIDE DEF q, k
  <2>5. Puts(o, q, p, k)
    BY <2>3, <2>4, OthersPut
  <2>6. /\ q.missing = o.missing \cup With(k = "missing", e)
        /\ q.named = o.named \cup With(/\ k = "file" /\ e.origin = "named"
                                       /\ ~(counting /\ Hidden(p)), p)
    BY <1>2, <2>3, <2>4 DEF With, b
  <2> QED BY <2>2, <2>3, <2>5, <2>6 DEF q, k, r
<1>3. CASE k = "file" /\ Hidden(p)
  <2>1. r = AddExcluded(o, p, b)
    BY <1>3 DEF EntryFound
  <2> HIDE DEF b, r
  <2>2. Keeping(o, r)
    BY <1>1, <2>1, ExcludedKeeps
  <2>3. /\ q.specials = o.specials /\ q.boundaries = o.boundaries
        /\ q.missing = o.missing /\ q.swept = o.swept /\ q.visited = o.visited
        /\ (b /\ ~counting => q.named = o.named \cup {p})
        /\ (~b \/ counting => q.named = o.named)
    BY <1>1, <2>1, ExcludedPuts
  <2>4. k \notin {"special", "boundary", "missing"} /\ k = "file"
    BY <1>3
  <2> HIDE DEF q, k
  <2>5. Puts(o, q, p, k)
    BY <2>3, <2>4, OthersPut
  <2>6. /\ q.missing = o.missing \cup With(k = "missing", e)
        /\ q.named = o.named \cup With(/\ k = "file" /\ e.origin = "named"
                                       /\ ~(counting /\ Hidden(p)), p)
    BY <1>3, <2>3, <2>4 DEF With, b
  <2> QED BY <2>2, <2>3, <2>5, <2>6 DEF q, k, r
<1>4. CASE k = "missing"
  <2>1. r = AddMissing(o, e)
    BY <1>4 DEF EntryFound
  <2> HIDE DEF r
  <2>2. Keeping(o, r)
    BY <1>1, <2>1, MissingKeeps
  <2>3. /\ q.specials = o.specials /\ q.boundaries = o.boundaries
        /\ q.missing = o.missing \cup {e} /\ q.swept = o.swept /\ q.visited = o.visited
        /\ q.named = o.named
    BY <2>1 DEF AddMissing, Found
  <2> HIDE DEF q, k
  <2>5. Puts(o, q, p, k)
    BY <1>4, <2>3, OthersPut
  <2>6. /\ q.missing = o.missing \cup With(k = "missing", e)
        /\ q.named = o.named \cup With(/\ k = "file" /\ e.origin = "named"
                                       /\ ~(counting /\ Hidden(p)), p)
    BY <1>4, <2>3 DEF With
  <2> QED BY <2>2, <2>3, <2>5, <2>6 DEF q, k, r
<1>5. CASE k = "special"
  <2>1. r = SkipSpecial(o, p)
    BY <1>5 DEF EntryFound
  <2>2. Keeping(o, r) /\ Same(o, q) /\ Puts(o, q, p, k)
        /\ q.swept = o.swept /\ q.named = o.named
    BY <1>1, <1>5, <2>1, SpecialKeeps, OthersAdd, SpecialPuts
  <2> HIDE DEF q, k
  <2>6. /\ q.missing = o.missing \cup With(k = "missing", e)
        /\ q.named = o.named \cup With(/\ k = "file" /\ e.origin = "named"
                                       /\ ~(counting /\ Hidden(p)), p)
    BY <1>5, <2>2 DEF With, Same
  <2> QED BY <2>2, <2>6 DEF q, k, Same
<1>6. CASE k = "boundary"
  <2>1. r = SkipBoundary(o, p)
    BY <1>6 DEF EntryFound
  <2>2. Keeping(o, r) /\ Same(o, q) /\ Puts(o, q, p, k)
        /\ q.swept = o.swept /\ q.named = o.named
    BY <1>1, <1>6, <2>1, BoundaryKeeps, OthersAdd, BoundaryPuts
  <2> HIDE DEF q, k
  <2>6. /\ q.missing = o.missing \cup With(k = "missing", e)
        /\ q.named = o.named \cup With(/\ k = "file" /\ e.origin = "named"
                                       /\ ~(counting /\ Hidden(p)), p)
    BY <1>6, <2>2 DEF With, Same
  <2> QED BY <2>2, <2>6 DEF q, k, Same
<1>7. CASE k \notin {"file", "missing", "special", "boundary"}
  <2>1. r = Nil(o)
    BY <1>7 DEF EntryFound
  <2>2. q = o /\ Keeping(o, r)
    BY <2>1, NilKeeps DEF Nil
  <2> HIDE DEF q, k
  <2>5. Puts(o, q, p, k)
    BY <1>7, <2>2, OthersPut
  <2>6. /\ q.missing = o.missing \cup With(k = "missing", e)
        /\ q.named = o.named \cup With(/\ k = "file" /\ e.origin = "named"
                                       /\ ~(counting /\ Hidden(p)), p)
    BY <1>7, <2>2 DEF With
  <2> QED BY <2>2, <2>5, <2>6 DEF q, k
<1> QED BY <1>2, <1>3, <1>4, <1>5, <1>6, <1>7

\* An entry that is refused is one that must be.
LEMMA EntryRefused ==
  ASSUME Inv, SteadyInv, touched = {}, NEW e \in Entries, EntryOutcome(e) = "fail"
  PROVE  Reason
<1> DEFINE p == e.path
<1>1. e \in Entry /\ p \in Node /\ kind[p] \in Kinds /\ p \notin Odd
  BY EntryPath
<1>2. CASE e \notin Open
  BY <1>2, BlockedRefused DEF Unfollowable, Refused, Reason
<1>3. CASE e \in Open
  <2>1. Clear(e)
    <3>1. CASE Stored(e)
      BY <1>3, <3>1 DEF Open, Clear, Stored
    <3>2. CASE ~Stored(e)
      <4>1. e.origin = "named" /\ Steady(p)
        BY <1>1, <3>2, AllSteady DEF Entry, Stored
      <4>2. Mintable(p)
        BY <4>1 DEF SteadyInv, Asked
      <4>3. \A a \in Above[p] : a = Root \/ kind[a] \notin {"file", "fifo"}
        BY <4>2, TreeAssumption DEF Mintable, Barriers
      <4>4. kind[Root] \notin {"file", "fifo"}
        BY DEF SteadyInv
      <4> QED BY <3>2, <4>3, <4>4 DEF Clear
    <3> QED BY <3>1, <3>2
  <2>2. kind[p] \in {"dir", "symlink", "fifo"}
    BY <1>1, <2>1, EntryCases DEF Kinds
  <2>3. CASE kind[p] = "dir"
    <3>1. DirOutcome(e) = "fail"
      BY <1>1, <2>1, <2>3, EntryCases
    <3>2. p # Root
      BY <3>1 DEF DirOutcome
    <3>3. CASE IsRepo(p)
      <4>1. ~Hidden(p) /\ e.origin # "managed"
        BY <3>1, <3>2, <3>3 DEF DirOutcome
      <4>2. e.origin = "named"
        BY <1>1, <4>1 DEF SteadyInv, Asked, Entry
      <4> QED BY <1>3, <2>3, <3>2, <3>3, <4>1, <4>2 DEF BadTarget, Refused, Reason
    <3>4. CASE ~IsRepo(p)
      <4>1. HasConfig(p)
        BY <3>1, <3>4 DEF DirOutcome
      <4>2. p \in Met
        BY <1>1, <1>3, <2>3, ReachedItself DEF Met, Present
      <4>3. p \in Entered
        BY <1>1, <2>3, <3>4, <4>2 DEF Entered, Enterable
      <4> QED BY <3>2, <4>1, <4>3 DEF NestedDomain, Refused, Reason
    <3> QED BY <3>3, <3>4
  <2>4. CASE kind[p] \in {"symlink", "fifo"}
    <3>1. ~Hidden(p) /\ ~Stored(e)
      BY <1>1, <2>1, <2>4, EntryCases
    <3>2. e.origin = "named"
      BY <1>1, <3>1 DEF Entry, Stored
    <3> QED BY <1>3, <2>4, <3>1, <3>2 DEF BadTarget, Refused, Reason
  <2> QED BY <2>2, <2>3, <2>4
<1> QED BY <1>2, <1>3

\* A directory that is walked from an entry of its own, for the first time.
LEMMA EntryTurn ==
  ASSUME Inv, SteadyInv, touched = {}, Expanding,
         asked[next].path \notin out.visited, EntryOutcome(asked[next]) = "walk"
  PROVE  LET p == asked[next].path
         IN  /\ p \in Entered /\ asked[next] \in Open
             /\ Earliest(Reaching(p)) = next /\ Levels(p, p) = 0
<1> DEFINE e == asked[next]
           p == e.path
<1>1. /\ e \in Entries /\ e \in Entry /\ p \in Node /\ kind[p] \in Kinds /\ p \notin Odd
      /\ next \in DOMAIN asked /\ stack = <<>>
  BY EntryAt, EntryPath DEF Expanding
<1>2. Clear(e) /\ kind[p] = "dir" /\ DirOutcome(e) = "walk"
  BY <1>1, EntryCases DEF Kinds
<1>3. Enterable(p)
  BY <1>2, DirCases DEF Enterable
<1>4. e \in Open
  BY <1>1, <1>2 DEF Open, Clear, Stored, Entry
<1>5. p \in Entered
  BY <1>1, <1>2, <1>3, <1>4, ReachedItself DEF Entered, Met, Present
<1>6. out \in Found /\ Standing(out, next, <<>>)
  BY <1>1 DEF SteadyInv, Inv, TypeOK
<1>7. ASSUME NEW j \in 1..(next - 1), asked[j] \in Open  PROVE ~Reached(asked[j].path, p)
  BY <1>5, <1>6, <1>7, ReachedVisited
<1>8. Earliest(Reaching(p)) = next
  BY <1>1, <1>4, <1>7, ReachedItself, EarliestIs
<1> QED BY <1>1, <1>4, <1>5, <1>8, LevelsItself

LEMMA EntryInTurn ==
  ASSUME Inv, SteadyInv, touched = {}, Measured(out, next, stack), Expanding, NEW q
  PROVE  LET p == asked[next].path
         IN  /\ q.visited = out.visited => InTurn(q, next + 1, <<>>)
             /\ /\ q.visited = out.visited \cup {p} /\ p \notin out.visited
                /\ EntryOutcome(asked[next]) = "walk"
                => \A h \in BOOLEAN :
                     InTurn(q, next + 1, Append(<<>>, OpenFrame(p, h, 0)))
<1> DEFINE p == asked[next].path
<1>1. /\ next \in Nat \ {0} /\ next \in DOMAIN asked /\ p \in Node /\ stack = <<>>
      /\ limits.depth \in Nat
  BY EntryAt, LimitsNat DEF Expanding, Inv, TypeOK
<1>2. \A d \in out.visited : Levels(asked[Earliest(Reaching(d))].path, d) <= limits.depth
  BY DEF Measured, InTurn
<1>3. ASSUME q.visited = out.visited  PROVE InTurn(q, next + 1, <<>>)
  BY <1>2, <1>3 DEF InTurn
<1>4. ASSUME q.visited = out.visited \cup {p}, p \notin out.visited,
             EntryOutcome(asked[next]) = "walk", NEW h \in BOOLEAN
      PROVE  InTurn(q, next + 1, Append(<<>>, OpenFrame(p, h, 0)))
  <2> DEFINE f == OpenFrame(p, h, 0)
             z == <<>>
             t == Append(z, f)
             n == next + 1
  <2>1. /\ f.dir = p /\ f.depth = 0 /\ f.read = {} /\ f.listed = Listing(p)
        /\ f \in Frame
    BY <1>1 DEF OpenFrame, Frame, Listing, Inside
  <2>2. z \in Seq(Frame) /\ FramesIn(z) = {} /\ Distinct(z)
    BY DEF FramesIn, Distinct
  <2> HIDE DEF f, z
  <2>3. FramesIn(t) = {f}
    BY <2>1, <2>2, PushFrames
  <2>4. n - 1 = next /\ n - 2 = next - 1
    BY <1>1
  <2> HIDE DEF t, n
  <2>5. /\ p \in Entered /\ asked[next] \in Open
        /\ Earliest(Reaching(p)) = next /\ Levels(p, p) = 0
    BY <1>4, EntryTurn
  <2>6. \A d \in q.visited : Levels(asked[Earliest(Reaching(d))].path, d) <= limits.depth
    BY <1>1, <1>2, <1>4, <2>5
  <2>7. \A x \in FramesIn(t) :
          /\ Reached(p, x.dir) /\ x.depth = Levels(p, x.dir)
          /\ x.read \subseteq x.listed /\ x.listed \subseteq Listing(x.dir)
    BY <1>1, <2>1, <2>3, <2>5, ReachedItself
  <2>8. \A i \in 1..(next - 1), d \in Entered :
          asked[i] \in Open /\ Reached(asked[i].path, d) => d \in q.visited
    <3>1. out \in Found /\ Standing(out, next, <<>>)
      BY <1>1 DEF SteadyInv, Inv, TypeOK
    <3> QED BY <1>4, <3>1, ReachedVisited
  <2>9. InTurn(q, n, t)
    BY <1>1, <2>4, <2>5, <2>6, <2>7, <2>8 DEF InTurn
  <2> QED BY <2>9 DEF n, t, z, f
<1> QED BY <1>3, <1>4
-----------------------------------------------------------------------------
\* Each entry that is taken up counts once.
LEMMA EntryCounts ==
  ASSUME Inv, SteadyInv, Measured(out, next, stack), Expanding, ~Repeated, NEW q,
         NEW p, p = asked[next].path, NEW k, k = EntryOutcome(asked[next]), k # "fail",
         Puts(out, q, p, k),
         q.missing = out.missing \cup With(k = "missing", asked[next]),
         q.named = out.named \cup With(/\ k = "file" /\ asked[next].origin = "named"
                                       /\ ~(counting /\ Hidden(p)), p),
         NEW W, q.visited = out.visited \cup W,
         q.swept = out.swept \cup With(p # Root, Up[p]) \cup W,
         W \subseteq {p}, \A d \in W, v \in out.visited : d # v => Inode[d] # Inode[v]
  PROVE  Tallied(q, SeenNow, next + 1)
<1>1. /\ next \in DOMAIN asked /\ Asked /\ Tallied(out, SeenNow, next)
      /\ 1..(next - 1) \subseteq DOMAIN asked
  BY DEF Expanding, SteadyInv, Standing, Measured, SeenNow
<1>2. SeenNow \subseteq Path /\ \A i \in 1..(next - 1) : asked[i] # asked[next]
  BY DEF SeenNow, SeenIn, Repeated
<1> DEFINE S == SeenNow
           n == next
<1>3. /\ n \in DOMAIN asked /\ Tallied(out, S, n) /\ 1..(n - 1) \subseteq DOMAIN asked
      /\ S \subseteq Path /\ \A i \in 1..(n - 1) : asked[i] # asked[n]
      /\ p = asked[n].path /\ k = EntryOutcome(asked[n])
      /\ q.missing = out.missing \cup With(k = "missing", asked[n])
      /\ q.named = out.named \cup With(/\ k = "file" /\ asked[n].origin = "named"
                                       /\ ~(counting /\ Hidden(p)), p)
  BY <1>1, <1>2
<1> HIDE DEF S, n
<1>4. Tallied(q, S, n + 1)
  BY <1>1, <1>3, EntryTallied DEF With
<1> QED BY <1>4 DEF S, n

LEMMA EntryExact ==
  ASSUME Inv, SteadyInv, touched = {}, Measured(out, next, stack), Within, AddEntry
  PROVE  ExactInv'
<1> DEFINE e      == asked[next]
           p      == e.path
           k      == EntryOutcome(e)
           before == WithParent(p)
           o      == before.out
           n      == next + 1
           z      == <<>>
<1>1. /\ Expanding /\ ~Repeated /\ status = "expanding" /\ scanned' = scanned
      /\ \/ Fail /\ k = "fail"
         \/ k = "walk" /\ WalkDir(p, Hidden(p), 0, before, n, z)
         \/ /\ k \notin {"fail", "walk"}
            /\ GoOn(Both(before, EntryFound(o)), n, z)
  BY DEF AddEntry, EntryFound, Expanding
<1>2. /\ p \in Node /\ e \in Entries /\ e \in Entry /\ next \in DOMAIN asked
      /\ stack = z /\ Hidden(p) \in BOOLEAN /\ limits.depth \in Nat
  BY <1>1, EntryAt, LimitsNat DEF Expanding, Hidden
<1>3. /\ out \in Found /\ FiniteOut(out) /\ Kept(out) \in Nat
      /\ scanned = Cardinality(SeenNow) /\ scanned <= limits.scanned
  BY KeptNat DEF Inv, TypeOK, Within
<1>4. /\ Keeping(out, before) /\ o \in Found /\ FiniteOut(o) /\ Same(out, o)
      /\ o.swept = out.swept \cup With(p # Root, Up[p])
      /\ o.specials = out.specials /\ o.boundaries = out.boundaries
      /\ o.missing = out.missing /\ o.named = out.named
      /\ o.visited = out.visited /\ o.files = out.files /\ o.hidden = out.hidden
  BY <1>2, ParentParts, ParentSame
<1>5. SeenIn(out, FramesIn(z)) = SeenNow /\ FramesIn(z) = {}
  BY <1>2 DEF SeenNow, FramesIn
<1> HIDE DEF before, o, z, n
<1>6. CASE Fail /\ k = "fail"
  BY <1>2, <1>6, EntryRefused, FailsFor
<1>7. CASE k = "walk" /\ WalkDir(p, Hidden(p), 0, before, n, z)
  <2>0. k # "fail" /\ k # "missing" /\ k # "file" /\ k \notin {"special", "boundary"}
    BY <1>7
  <2>1. CASE p \in out.visited /\ GoOn(before, n, z)
    <3>1. Took(out, o, p, "walk")
      BY <1>4, <2>1, WalkTook
    <3>2. Standing(o, n, z)
      BY <1>1, <1>4, <1>7, <3>1, EntryStands DEF n, z
    <3>3. Puts(out, o, p, k)
      <4> HIDE DEF k
      <4> QED BY <1>3, <1>4, <2>0, OthersPut
    <3>4. Tallied(o, SeenNow, n)
      <4> DEFINE W == {}
      <4>1. /\ W \subseteq {p} /\ o.visited = out.visited \cup W
            /\ o.swept = out.swept \cup With(p # Root, Up[p]) \cup W
            /\ \A d \in W, v \in out.visited : d # v => Inode[d] # Inode[v]
        BY <1>4
      <4>2. /\ o.missing = out.missing \cup With(k = "missing", e)
            /\ o.named = out.named \cup With(/\ k = "file" /\ e.origin = "named"
                                             /\ ~(counting /\ Hidden(p)), p)
        BY <1>4, <2>0 DEF With
      <4> HIDE DEF W, k, p
      <4> QED BY <1>1, <2>0, <3>3, <4>1, <4>2, EntryCounts DEF n, k, p
    <3>5. InTurn(o, n, z)
      BY <1>1, <1>4, EntryInTurn DEF n, z
    <3>6. SeenIn(o, FramesIn(z)) = SeenNow
      BY <1>4, <1>5, SeenSame
    <3>7. /\ Measured(o, n, z) /\ scanned' = Cardinality(SeenIn(o, FramesIn(z)))
          /\ scanned' <= limits.scanned
      BY <1>1, <1>3, <3>2, <3>4, <3>5, <3>6 DEF Measured
    <3> QED BY <1>1, <1>4, <2>1, <3>7, GoesOnWithin DEF o
  <2>2. CASE p \notin out.visited
    <3>1. /\ p \in Entered /\ Levels(asked[Earliest(Reaching(p))].path, p) = 0
      BY <1>1, <1>7, <2>2, EntryTurn
    <3>2. CASE Fail /\ (Aliased(p) \/ 0 > limits.depth)
      BY <3>1, <3>2, WalkRefused, FailsFor
    <3>3. CASE /\ ~Aliased(p) /\ 0 <= limits.depth
               /\ GoOn(Both(before, Visit(o, p)), n, Append(z, OpenFrame(p, Hidden(p), 0)))
      <4> DEFINE r == Both(before, Visit(o, p))
                 t == Append(z, OpenFrame(p, Hidden(p), 0))
                 q == Visit(o, p).out
      <4>1. /\ Keeping(o, Visit(o, p)) /\ q.visited = out.visited \cup {p}
            /\ q.swept = o.swept \cup {p} /\ q.missing = out.missing
            /\ q.named = out.named /\ q.files = out.files /\ q.hidden = out.hidden
            /\ q.specials = out.specials /\ q.boundaries = out.boundaries
        BY <1>2, <1>4, <2>2, VisitParts
      <4>2. r.out = q /\ Keeping(out, r)
        <5>1. Keeping(out, r)
          BY <1>3, <1>4, <4>1, BothKeep DEF o
        <5> QED BY <5>1 DEF Both
      <4> HIDE DEF q
      <4>3. Took(out, q, p, k)
        BY <1>7, <4>1 DEF Took
      <4>4. Standing(q, n, t)
        <5>1. \A h \in BOOLEAN, m \in Nat :
                Standing(q, next + 1, Append(<<>>, OpenFrame(p, h, m)))
          BY <1>1, <1>7, <2>2, <4>1, <4>3, EntryStands
        <5> QED BY <1>2, <5>1 DEF n, z
      <4>5. InTurn(q, n, t)
        <5>1. \A h \in BOOLEAN :
                InTurn(q, next + 1, Append(<<>>, OpenFrame(p, h, 0)))
          BY <1>1, <1>7, <2>2, <4>1, EntryInTurn
        <5> QED BY <1>2, <5>1 DEF n, z
      <4>6. SeenIn(q, FramesIn(t)) = SeenNow
        <5> DEFINE f == OpenFrame(p, Hidden(p), 0)
        <5>1. z \in Seq(Frame) /\ Distinct(z)
          BY DEF z, Distinct
        <5>2. f \in Frame /\ f.dir = p /\ f.read = {}
          BY <1>2 DEF OpenFrame, Frame, Listing, Inside
        <5> HIDE DEF f
        <5>3. \A g \in FramesIn(z) : g.dir \in out.visited /\ g.dir # f.dir
          BY <1>5
        <5>4. FramesIn(Append(z, f)) = FramesIn(z) \cup {f}
          BY <5>1, <5>2, <5>3, PushFrames
        <5>5. SeenIn(q, FramesIn(z) \cup {f}) = SeenIn(out, FramesIn(z))
          BY <2>2, <4>1, <5>2, <5>3, SeenOpen
        <5> QED BY <1>5, <5>4, <5>5 DEF f
      <4>7. Tallied(q, SeenNow, n)
        <5>1. Puts(out, q, p, k)
          <6> HIDE DEF k
          <6> QED BY <1>3, <2>0, <4>1, OthersPut
        <5>2. \A d \in {p}, v \in out.visited : d # v => Inode[d] # Inode[v]
          BY <3>3 DEF Aliased
        <5> DEFINE W == {p}
        <5>3. /\ W \subseteq {p} /\ q.visited = out.visited \cup W
              /\ q.swept = out.swept \cup With(p # Root, Up[p]) \cup W
              /\ \A d \in W, v \in out.visited : d # v => Inode[d] # Inode[v]
          BY <1>4, <4>1, <5>2
        <5>4. /\ q.missing = out.missing \cup With(k = "missing", e)
              /\ q.named = out.named \cup With(/\ k = "file" /\ e.origin = "named"
                                               /\ ~(counting /\ Hidden(p)), p)
          BY <2>0, <4>1 DEF With
        <5> HIDE DEF W, k, p
        <5> QED BY <1>1, <2>0, <5>1, <5>3, <5>4, EntryCounts DEF n, k, p
      <4>8. /\ GoOn(r, n, t) /\ Measured(r.out, n, t)
            /\ scanned' = Cardinality(SeenIn(r.out, FramesIn(t)))
            /\ scanned' <= limits.scanned
        BY <1>1, <1>3, <3>3, <4>2, <4>4, <4>5, <4>6, <4>7 DEF Measured
      <4> HIDE DEF r, t
      <4> QED BY <1>1, <4>2, <4>8, GoesOnWithin
    <3> QED BY <1>7, <2>2, <3>2, <3>3 DEF WalkDir, o
  <2> QED BY <1>7, <2>1, <2>2 DEF WalkDir
<1>8. CASE /\ k \notin {"fail", "walk"}
           /\ GoOn(Both(before, EntryFound(o)), n, z)
  <2> DEFINE r == Both(before, EntryFound(o))
             q == EntryFound(o).out
  <2>1. /\ Keeping(o, EntryFound(o)) /\ Puts(o, q, p, k)
        /\ q.missing = o.missing \cup With(k = "missing", e)
        /\ q.named = o.named \cup With(/\ k = "file" /\ e.origin = "named"
                                       /\ ~(counting /\ Hidden(p)), p)
        /\ q.swept = o.swept /\ q.visited = o.visited
    BY <1>1, <1>4, <1>8, EntryPuts
  <2>2. Took(out, q, p, k)
    BY <1>1, <1>4, <1>8, EntryTook
  <2>3. r.out = q /\ Keeping(out, r)
    <3>1. Keeping(out, r)
      BY <1>3, <1>4, <2>1, BothKeep DEF o
    <3> QED BY <3>1 DEF Both
  <2> HIDE DEF q
  <2>4. Standing(q, n, z)
    BY <1>1, <1>4, <1>8, <2>1, <2>2, EntryStands DEF n, z
  <2>5. InTurn(q, n, z)
    BY <1>1, <1>4, <2>1, EntryInTurn DEF n, z
  <2>6. SeenIn(q, FramesIn(z)) = SeenNow
    BY <1>4, <1>5, <2>1, SeenSame
  <2>7. Tallied(q, SeenNow, n)
    <3> DEFINE W == {}
    <3>1. /\ W \subseteq {p} /\ q.visited = out.visited \cup W
          /\ q.swept = out.swept \cup With(p # Root, Up[p]) \cup W
          /\ \A d \in W, v \in out.visited : d # v => Inode[d] # Inode[v]
      BY <1>4, <2>1
    <3>2. Puts(out, q, p, k)
      <4> HIDE DEF k
      <4> QED BY <1>4, <2>1, PutsAfter
    <3>3. /\ q.missing = out.missing \cup With(k = "missing", e)
          /\ q.named = out.named \cup With(/\ k = "file" /\ e.origin = "named"
                                           /\ ~(counting /\ Hidden(p)), p)
      <4> HIDE DEF k, p, e
      <4> QED BY <1>4, <2>1
    <3>4. k # "fail"
      BY <1>8
    <3> HIDE DEF W, k, p
    <3> QED BY <1>1, <3>1, <3>2, <3>3, <3>4, EntryCounts DEF k, p, n
  <2>8. /\ GoOn(r, n, z) /\ Measured(r.out, n, z)
        /\ scanned' = Cardinality(SeenIn(r.out, FramesIn(z)))
        /\ scanned' <= limits.scanned
    BY <1>1, <1>3, <1>8, <2>3, <2>4, <2>5, <2>6, <2>7 DEF Measured
  <2> HIDE DEF r
  <2> QED BY <1>1, <2>3, <2>8, GoesOnWithin
<1> QED BY <1>1, <1>6, <1>7, <1>8
-----------------------------------------------------------------------------
LEMMA WithinStays ==
  ASSUME Within, UNCHANGED <<given, out, bytes, scanned>>, SeenNow' = SeenNow
  PROVE  Within'
  BY DEF Within, given

LEMMA SkipExact ==
  ASSUME Inv, SteadyInv, touched = {}, Measured(out, next, stack), Within, SkipRepeated
  PROVE  ExactInv'
<1> DEFINE n == next + 1
<1>1. /\ Repeated /\ next \in DOMAIN asked /\ n = next + 1 /\ stack = <<>>
      /\ status = "expanding" /\ next' = n
      /\ UNCHANGED <<world, given, stack, out, scanned, bytes, status>>
  BY DEF SkipRepeated, Expanding
<1> HIDE DEF n
<1>2. Standing(out, n, stack)
  BY <1>1, SkipStands
<1>3. /\ 1..(n - 1) = 1..(next - 1) \cup {next}
      /\ \A k : Answered(k, n) = Answered(k, next)
  BY <1>1, SkipSame
<1>4. PICK i \in 1..(next - 1) : asked[i] = asked[next]
  BY <1>1, SkipSame
<1>5. /\ \A k : EntriesFor(k, n) = EntriesFor(k, next)
      /\ Parents(n) = Parents(next)
  BY <1>3, <1>4 DEF EntriesFor, Parents
<1>6. Tallied(out, SeenNow, next) /\ InTurn(out, next, stack)
  BY DEF Measured, SeenNow
<1>7. Tallied(out, SeenNow, n)
  <2>1. \A j \in 1..(n - 1) : EntryOutcome(asked[j]) # "fail"
    BY <1>3, <1>4, <1>6 DEF Tallied
  <2>2. \A k : Got(k, SeenNow, n) = Got(k, SeenNow, next)
    BY <1>3 DEF Got
  <2>3. \A k : Tally(k, SeenNow, n) = Tally(k, SeenNow, next)
    BY <1>3 DEF Tally
  <2> QED BY <1>3, <1>5, <1>6, <2>1, <2>2, <2>3 DEF Tallied
<1>8. InTurn(out, n, stack)
  BY <1>1, <1>6 DEF InTurn
<1>9. Measured(out, n, stack)
  BY <1>2, <1>7, <1>8 DEF Measured, SeenNow
<1>10. Measured(out, next, stack)' /\ SeenNow' = SeenNow
  BY <1>1, <1>9, MeasuredOn DEF SeenNow
<1> QED BY <1>1, <1>10, WithinStays DEF ExactInv

LEMMA CloseExact ==
  ASSUME Inv, SteadyInv, touched = {}, Measured(out, next, stack), Within, CloseDir
  PROVE  ExactInv'
<1> DEFINE s == Below
<1>1. /\ stack # <<>> /\ \A p \in Top.listed \ Top.read : ~Present(p)
      /\ status = "expanding" /\ stack' = s
      /\ UNCHANGED <<world, given, next, out, scanned, bytes, status>>
  BY DEF CloseDir, Walking
<1>2. Standing(out, next, s) /\ FramesIn(s) \subseteq FramesIn(stack)
  BY <1>1, CloseStands, TopParts
<1>3. SeenIn(out, FramesIn(s)) = SeenNow
  <2>1. \A p \in Path : p \in SeenIn(out, FramesIn(s)) <=> p \in SeenNow
    BY <1>1, AllSteady, ClosedSeen
  <2>2. SeenIn(out, FramesIn(s)) \subseteq Path /\ SeenNow \subseteq Path
    BY DEF SeenIn, SeenNow
  <2> HIDE DEF s
  <2> QED BY <2>1, <2>2
<1> HIDE DEF s
<1>4. Tallied(out, SeenNow, next) /\ InTurn(out, next, stack)
  BY DEF Measured, SeenNow
<1>5. InTurn(out, next, s)
  BY <1>1, <1>2, <1>4 DEF InTurn
<1>6. Measured(out, next, s)
  BY <1>2, <1>3, <1>4, <1>5 DEF Measured
<1>7. Measured(out, next, stack)' /\ SeenNow' = SeenNow
  BY <1>1, <1>3, <1>6, MeasuredOn
<1> QED BY <1>1, <1>7, WithinStays DEF ExactInv

LEMMA FinishExact ==
  ASSUME Inv, SteadyInv, touched = {}, Measured(out, next, stack), Within, Finish
  PROVE  ExactInv'
<1>1. /\ UNCHANGED <<world, given, next, stack, out, scanned, bytes>>
      /\ status' = IF \/ \E f \in out.files : ~Present(f)
                      \/ \E f, g \in out.files : f # g /\ Inode[f] = Inode[g]
                   THEN "failed" ELSE "done"
  BY DEF Finish
<1>2. out.files \subseteq WantedFiles
  <2>1. out \in Found /\ Standing(out, next, stack)
    BY DEF Inv, TypeOK, SteadyInv
  <2> QED BY <2>1, FoundSound
<1>3. \A f \in out.files : Present(f)
  BY <1>2 DEF WantedFiles, Regular, Met
<1>4. Measured(out, next, stack)' /\ SeenNow' = SeenNow
  BY <1>1, MeasuredOn DEF SeenNow
<1>5. Within'
  BY <1>1, <1>4, WithinStays
<1>6. CASE Twins(out.files)
  <2>1. Reason
    BY <1>2, <1>6 DEF Twins, Refused, Reason
  <2>2. Reason' /\ status' = "failed"
    BY <1>1, <1>6, <2>1, SameReason DEF Twins
  <2> QED BY <2>2 DEF ExactInv
<1>7. CASE ~Twins(out.files)
  <2>1. status' = "done" /\ ~Twins(out.files)'
    BY <1>1, <1>3, <1>7 DEF Twins
  <2> QED BY <1>4, <1>5, <2>1 DEF ExactInv
<1> QED BY <1>6, <1>7

\* An expansion that ended stays as it is, in a tree that stays as it is.
LEMMA EndedExact ==
  ASSUME Inv, SteadyInv, ExactInv, UNCHANGED vars
  PROVE  ExactInv'
<1> SUFFICES ASSUME touched' = {}
             PROVE  /\ status' # "failed" => Measured(out, next, stack)' /\ Within'
                    /\ status' = "failed" => Reason'
                    /\ status' = "done" => ~Twins(out.files)'
  BY DEF ExactInv
<1>1. /\ UNCHANGED <<world, given, next, stack, out, scanned, bytes, status>>
      /\ touched = {}
  BY DEF vars, world
<1>2. ASSUME status # "failed"
      PROVE  Measured(out, next, stack)' /\ Within'
  <2>1. Measured(out, next, stack)' /\ SeenNow' = SeenNow
    BY <1>1, <1>2, MeasuredOn DEF ExactInv, SeenNow
  <2> QED BY <1>1, <1>2, <2>1, WithinStays DEF ExactInv
<1>3. status = "failed" => Reason'
  BY <1>1, SameReason DEF ExactInv
<1>4. status = "done" => ~Twins(out.files)'
  BY <1>1 DEF ExactInv, Twins
<1> QED BY <1>1, <1>2, <1>3, <1>4

LEMMA ExactAtFirst == ASSUME Inv, Init  PROVE ExactInv
<1>1. /\ stack = <<>> /\ next = 1 /\ out = Nothing /\ scanned = 0 /\ bytes = 1
      /\ status = "expanding" /\ limits \in Limits
  BY DEF Init
<1>2. /\ FramesIn(stack) = {} /\ 1..(next - 1) = {} /\ SeenNow = {}
      /\ SeenIn(out, FramesIn(stack)) = {}
  BY <1>1 DEF FramesIn, SeenNow, SeenIn, Nothing
<1>3. Standing(out, next, stack)
  BY StandsAtFirst DEF SteadyInv
<1>4. Tallied(out, {}, next)
  <2>1. /\ out.missing = {} /\ out.named = {} /\ out.specials = <<>>
        /\ out.boundaries = <<>> /\ out.swept = {Root} /\ out.visited = {}
    BY <1>1 DEF Nothing
  <2>2. \A k : /\ EntriesFor(k, next) = {} /\ Answered(k, next) = {} /\ Walked(k, {}) = {}
               /\ Got(k, {}, next) = {}
    BY <1>2 DEF EntriesFor, Answered, Walked, Got
  <2>3. Places(<<>>) = {} /\ Parents(next) = {}
    BY <1>2 DEF Places, Parents
  <2>4. Noted(out) = 0
    BY <2>1 DEF Noted
  <2>5. ASSUME NEW k  PROVE Tally(k, {}, next) = 0
    <3>1. Cardinality({}) = 0 /\ 0 + 0 = 0
      BY FS_EmptySet
    <3>2. Tally(k, {}, next) = Cardinality({}) + Cardinality({})
      BY <2>2 DEF Tally
    <3> QED BY <3>1, <3>2
  <2>6. Noted(out) = Tally("special", {}, next) + Tally("boundary", {}, next)
    BY <2>4, <2>5
  <2>7. /\ out.missing = EntriesFor("missing", next)
        /\ Places(out.specials) = Got("special", {}, next)
        /\ Places(out.boundaries) = Got("boundary", {}, next)
        /\ out.swept = {Root} \cup out.visited \cup Parents(next)
    BY <2>1, <2>2, <2>3
  <2>8. out.named = {p \in Answered("file", next) :
                       /\ [path |-> p, origin |-> "named"] \in Entries
                       /\ ~(counting /\ Hidden(p))}
    BY <2>1, <2>2
  <2> QED BY <1>2, <2>1, <2>6, <2>7, <2>8 DEF Tallied
<1>5. InTurn(out, next, stack)
  BY <1>1 DEF InTurn, Nothing
<1>6. Within
  <2>1. limits.files \in Nat /\ limits.scanned \in Nat /\ limits.bytes \in Nat /\ limits.bytes > 0
    BY <1>1, SizeAssumption
  <2>2. out.files = {} /\ out.hidden = {}
    BY <1>1 DEF Nothing
  <2> QED BY <1>1, <1>2, <2>1, <2>2, FS_EmptySet DEF Within
<1> QED BY <1>1, <1>2, <1>3, <1>4, <1>5, <1>6 DEF ExactInv, Measured

LEMMA ExactInductive == ASSUME Inv, SteadyInv, ExactInv, [Next]_vars  PROVE ExactInv'
<1> SUFFICES ASSUME touched' = {}  PROVE ExactInv'
  BY DEF ExactInv
<1>1. CASE UNCHANGED vars
  BY <1>1, EndedExact
<1>2. CASE Step
  <2>1. status = "expanding" /\ touched = {}
    BY <1>2 DEF Step, SkipRepeated, AddEntry, ReadName, CloseDir, Finish, Expanding, Walking,
                Fail, GoOn, WalkDir, world
  <2>2. Measured(out, next, stack) /\ Within
    BY <2>1 DEF ExactInv
  <2> QED BY <1>2, <2>1, <2>2, SkipExact, EntryExact, ReadExact, CloseExact, FinishExact
             DEF Step
<1>3. ASSUME NEW p \in Editable, NEW k \in Kinds, Change(p, k)  PROVE ExactInv'
  BY <1>3 DEF Change
<1> QED BY <1>1, <1>2, <1>3 DEF Next

\* An expansion that nobody disturbs selects exactly what the entries reach
\* within the limits, and fails for no other reason than those stated.
THEOREM ExpansionExact == Spec => []Exact
<1>1. Init /\ Inv => ExactInv
  BY ExactAtFirst
<1>2. Inv /\ (SteadyInv /\ Over) /\ ExactInv /\ [Next]_vars => ExactInv'
  BY ExactInductive
<1>3. ASSUME Inv, SteadyInv, Over, ExactInv  PROVE Exact
  <2>1. ASSUME touched = {}, status = "done"
        PROVE  /\ Complete(out, next) /\ InTurn(out, next, <<>>) /\ Within /\ stack = <<>>
               /\ ~Twins(out.files)
    <3>1. /\ stack = <<>> /\ DOMAIN asked \subseteq 1..(next - 1) /\ out \in Found
          /\ Measured(out, next, <<>>) /\ Within /\ ~Twins(out.files)
      BY <1>3, <2>1 DEF Over, ExactInv, Inv, TypeOK
    <3>2. FramesIn(<<>>) = {}
      BY DEF FramesIn
    <3> QED BY <3>1, <3>2 DEF Measured, Complete
  <2>2. touched = {} /\ status = "failed" => Reason
    BY <1>3 DEF ExactInv
  <2> QED BY <1>3, <2>1, <2>2, DoneExact DEF Exact, Reason
<1> QED BY <1>1, <1>2, <1>3, Always, StandsAlways, PTL DEF Spec
=============================================================================
