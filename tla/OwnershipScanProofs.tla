------------------------- MODULE OwnershipScanProofs -------------------------
(***************************************************************************)
(* Proofs about OwnershipScan: its types; that content found foreign holds *)
(* no surviving unit (IInv: what a scan has behind it did not decrypt);    *)
(* and that full decryption accepts whole ciphertexts, and all of them     *)
(* (WholeInv: what an edit can do to the cells of a ciphertext).           *)
(***************************************************************************)
EXTENDS OwnershipScan, SequenceTheorems, TLAPS

LEMMA FunctionIsSeq ==
  ASSUME NEW S, NEW n \in Nat, NEW f \in [1..n -> S]
  PROVE  f \in Seq(S)
BY SeqDef

LEMMA SingletonSeq ==
  ASSUME NEW S, NEW e \in S
  PROVE  <<e>> \in Seq(S) /\ Len(<<e>>) = 1 /\ <<e>>[1] = e
<1>1. <<>> \in Seq(S) /\ Len(<<>>) = 0
  BY EmptySeq
<1>2. Append(<<>>, e) = <<e>>
  OBVIOUS
<1> QED BY <1>1, <1>2, AppendProperties

LEMMA JunkIsCell == Shred \in Cell /\ Chaff \in Cell
<1>1. <<>> \in Seq(Nat)
  BY EmptySeq
<1> QED BY <1>1 DEF Shred, Chaff, Cell

LEMMA TextType ==
  ASSUME NEW k \in Nat, NEW n \in Nat
  PROVE  TextCiphertext(k, n) \in Content
<1> DEFINE cells == [j \in 1..n |-> UnitCell(k, 0, FALSE, 1, 1, 0)]
<1>1. UnitCell(k, 0, FALSE, 1, 1, 0) \in Cell
  <2>1. <<0>> \in Seq(Nat)
    BY SingletonSeq
  <2> QED BY <2>1 DEF UnitCell, Cell
<1>2. cells \in [1..n -> Cell]
  BY <1>1
<1>3. cells \in Seq(Cell)
  BY <1>2, FunctionIsSeq
<1> HIDE DEF cells
<1> QED BY <1>3 DEF TextCiphertext, Content, cells

\* The last chunk of a body begins at a multiple of Chunk, less than Chunk
\* cells before its end.
LEMMA DivFacts ==
  ASSUME NEW n \in Nat, NEW c \in Nat \ {0}
  PROVE  /\ n \div c \in Nat
         /\ (n \div c) * c <= n
         /\ n < (n \div c) * c + c
OBVIOUS

LEMMA BinaryType ==
  ASSUME NEW k \in Nat, NEW n \in Nat \ {0}, NEW v \in Nat
  PROVE  BinaryCiphertext(k, n, v) \in Content
<1> USE ParametersAssumption
<1> DEFINE final == (n - 1) \div Chunk
           body  == [j \in 1..n |->
                       LET i == (j - 1) \div Chunk
                       IN UnitCell(k, i, i = final,
                                   IF i = final THEN n - final * Chunk ELSE Chunk,
                                   j - i * Chunk, v)]
           sivs  == [i \in 1..(final + 1) |-> v]
<1>0. Chunk \in Nat \ {0}
  BY DEF Siv
<1>1. final \in Nat /\ n - final * Chunk \in Nat
  <2>1. n - 1 \in Nat
    OBVIOUS
  <2>2. final \in Nat /\ final * Chunk <= n - 1
    BY <1>0, <2>1, DivFacts
  <2>3. final * Chunk \in Nat
    BY <2>2, <1>0
  <2> QED BY <2>2, <2>3
<1>2. ASSUME NEW j \in 1..n PROVE body[j] \in Cell
  <2> DEFINE i == (j - 1) \div Chunk
  <2>1. j - 1 \in Nat
    OBVIOUS
  <2>2. i \in Nat /\ i * Chunk <= j - 1
    BY <1>0, <2>1, DivFacts
  <2>3. i * Chunk \in Nat
    BY <2>2, <1>0
  <2>4. j - i * Chunk \in Nat
    BY <2>2, <2>3
  <2>5. (IF i = final THEN n - final * Chunk ELSE Chunk) \in Nat
    BY <1>0, <1>1
  <2>6. <<v>> \in Seq(Nat)
    BY SingletonSeq
  <2> HIDE DEF i, final
  <2>7. UnitCell(k, i, i = final, IF i = final THEN n - final * Chunk ELSE Chunk,
                 j - i * Chunk, v) \in Cell
    BY <2>2, <2>4, <2>5, <2>6 DEF UnitCell, Cell
  <2> QED BY <2>7 DEF i
<1>3. body \in Seq(Cell)
  <2>1. body \in [1..n -> Cell]
    BY <1>2
  <2> QED BY <2>1, FunctionIsSeq
<1>4. sivs \in Seq(Nat)
  <2>1. sivs \in [1..(final + 1) -> Nat] /\ final + 1 \in Nat
    BY <1>1
  <2> QED BY <2>1, FunctionIsSeq
<1> HIDE DEF body, sivs, final
<1>5. FileTag(k, sivs) \in Cell
  <2>1. Len(sivs) \in Nat
    BY <1>4, LenProperties
  <2> QED BY <1>4, <2>1 DEF FileTag, Shred, Cell
<1>6. Append(body, FileTag(k, sivs)) \in Seq(Cell)
  BY <1>3, <1>5, AppendProperties
<1> QED BY <1>6 DEF BinaryCiphertext, Content, body, sivs, final

LEMMA CiphertextsType == Ciphertexts(1..(Keys + 1)) \subseteq Content
BY TextType, BinaryType, ParametersAssumption DEF Ciphertexts

\* What every edit leaves is content of the same shape.
LEMMA CellsChanged ==
  ASSUME NEW f \in Content, NEW s \in Seq(Cell)
  PROVE  [f EXCEPT !.cells = s] \in Content
BY DEF Content

LEMMA DamageTyped ==
  ASSUME TypeOK, NEW g \in Content, Damage(g)
  PROVE  TypeOK'
BY ParametersAssumption DEF TypeOK, Damage, scan

LEMMA EditTyped ==
  ASSUME TypeOK, Edit
  PROVE  TypeOK'
<1>0. file \in Content /\ file.cells \in Seq(Cell) /\ Len(file.cells) \in Nat
  <2>1. file \in Content /\ file.cells \in Seq(Cell)
    BY DEF TypeOK, Content
  <2> QED BY <2>1, LenProperties
<1> DEFINE s == file.cells
<1> HIDE DEF s
<1>a. s \in Seq(Cell) /\ Len(s) \in Nat /\ s = file.cells
  BY <1>0 DEF s
<1>1. CASE Truncate
  <2>1. PICK n \in 0..Len(s) : Damage([file EXCEPT !.cells = SubSeq(s, 1, n)])
    BY <1>1, <1>a DEF Truncate
  <2>2. \A i \in 1..n : s[i] \in Cell
    BY <1>a, ElementOfSeq
  <2>3. SubSeq(s, 1, n) \in Seq(Cell)
    BY <1>a, <2>2, SubSeqProperties
  <2> QED BY <1>0, <2>1, <2>3, CellsChanged, DamageTyped
<1>2. CASE Insert
  <2>1. PICK n \in Runs, j \in 0..Len(s), junk \in {Shred, Chaff} :
          Damage([file EXCEPT !.cells =
            SubSeq(s, 1, j) \o [x \in 1..n |-> junk] \o SubSeq(s, j + 1, Len(s))])
    BY <1>2, <1>a DEF Insert
  <2>2. SubSeq(s, 1, j) \in Seq(Cell) /\ SubSeq(s, j + 1, Len(s)) \in Seq(Cell)
    <3>1. \A i \in 1..Len(s) : s[i] \in Cell
      BY <1>a, ElementOfSeq
    <3>2. (\A i \in 1..j : s[i] \in Cell) /\ (\A i \in (j + 1)..Len(s) : s[i] \in Cell)
      BY <3>1, <1>a
    <3>3. SubSeq(s, 1, j) \in Seq(Cell)
      BY <3>2, <1>a, SubSeqProperties
    <3>4. SubSeq(s, j + 1, Len(s)) \in Seq(Cell)
      BY <3>2, <1>a, SubSeqProperties
    <3> QED BY <3>3, <3>4
  <2>3. [x \in 1..n |-> junk] \in Seq(Cell)
    <3>1. n \in Nat /\ [x \in 1..n |-> junk] \in [1..n -> Cell]
      BY JunkIsCell, ParametersAssumption
    <3> QED BY <3>1, FunctionIsSeq
  <2>4. SubSeq(s, 1, j) \o [x \in 1..n |-> junk] \o SubSeq(s, j + 1, Len(s)) \in Seq(Cell)
    BY <2>2, <2>3, ConcatProperties
  <2> QED BY <1>0, <2>1, <2>4, CellsChanged, DamageTyped
<1>3. CASE Destroy
  <2>1. PICK j \in 1..Len(s) : Damage([file EXCEPT !.cells[j] = Shred])
    BY <1>3, <1>a DEF Destroy
  <2>2. [file EXCEPT !.cells[j] = Shred] = [file EXCEPT !.cells = [s EXCEPT ![j] = Shred]]
    BY <1>a
  <2>3. [s EXCEPT ![j] = Shred] \in Seq(Cell)
    BY <1>a, JunkIsCell, ExceptSeq
  <2> QED BY <1>0, <2>1, <2>2, <2>3, CellsChanged, DamageTyped
<1>4. CASE SpoilHeader
  <2>1. [file EXCEPT !.head = "damaged", !.marker = 0] \in Content
    BY <1>0 DEF Content
  <2>2. [file EXCEPT !.magic = ~@] \in Content
    BY <1>0 DEF Content
  <2> QED BY <1>4, <2>1, <2>2, DamageTyped DEF SpoilHeader
<1>5. CASE MixIn
  <2>1. PICK g \in Ciphertexts(1..(Keys + 1)), i \in 0..Len(s) :
          LET size == IF file.mode = "text" THEN 1 ELSE Chunk IN
          /\ Len(g.cells) = Len(s)
          /\ Damage([file EXCEPT !.cells =
               [j \in 1..Len(s) |->
                  IF i * size < j /\ j <= (i + 1) * size THEN g.cells[j] ELSE s[j]]])
    BY <1>5, <1>a DEF MixIn
  <2> DEFINE size == IF file.mode = "text" THEN 1 ELSE Chunk
             mixed == [j \in 1..Len(s) |->
                         IF i * size < j /\ j <= (i + 1) * size THEN g.cells[j] ELSE s[j]]
  <2>2. g.cells \in Seq(Cell)
    BY CiphertextsType DEF Content
  <2>3. \A j \in 1..Len(s) : g.cells[j] \in Cell /\ s[j] \in Cell
    BY <2>1, <2>2, <1>a, ElementOfSeq
  <2>4. mixed \in [1..Len(s) -> Cell]
    BY <2>3
  <2>5. mixed \in Seq(Cell)
    BY <2>4, <1>a, FunctionIsSeq
  <2>6. Damage([file EXCEPT !.cells = mixed])
    BY <2>1
  <2> QED BY <1>0, <2>5, <2>6, CellsChanged, DamageTyped
<1> QED BY <1>1, <1>2, <1>3, <1>4, <1>5 DEF Edit

\* Every way to end a classification.
LEMMA DecideTyped ==
  ASSUME TypeOK, NEW v \in Verdict, NEW k \in 0..Keys, Decide(v, k),
         UNCHANGED <<file, damage>>
  PROVE  TypeOK'
<1>1. <<>> \in Seq(Cell)
  BY EmptySeq
<1>2. file' \in Content /\ damage' \in 0..MaxDamage
  BY DEF TypeOK
<1>3. pc' = "done" /\ verdict' \in Verdict /\ hit' \in 0..Keys
  BY DEF Decide
<1>4. seen' \in Seq(Cell) /\ at' \in Nat /\ key' \in Nat \ {0} /\ asLast' \in BOOLEAN
  <2>1. seen' = <<>> /\ at' = 0 /\ key' = 1 /\ asLast' = FALSE
    BY DEF Decide
  <2>2. 0 \in Nat /\ 1 \in Nat \ {0}
    OBVIOUS
  <2>3. seen' \in Seq(Cell)
    BY <1>1, <2>1, Zenon
  <2> QED BY <2>1, <2>2, <2>3, Zenon
<1>5. over' \in BOOLEAN /\ left' \in Nat
  BY DEF TypeOK, Decide
<1> QED BY <1>2, <1>3, <1>4, <1>5 DEF TypeOK

LEMMA NextKeyTyped ==
  ASSUME TypeOK, NextKey
  PROVE  at' \in Nat /\ key' \in Nat \ {0} /\ asLast' = FALSE
BY DEF TypeOK, NextKey

LEMMA SlotType ==
  ASSUME NEW s \in Seq(Cell), NEW i \in Nat, InGrid(s, i)
  PROVE  /\ Slot(s, i) \in Seq(Cell)
         /\ Len(Slot(s, i)) = Chunk
<1> USE ParametersAssumption DEF Siv
<1> DEFINE a == i * Chunk  b == (i + 1) * Chunk
<1>1. a \in Nat /\ b \in Nat /\ b = a + Chunk
  OBVIOUS
<1>2. b <= Len(s) /\ Len(s) \in Nat
  BY LenProperties DEF InGrid
<1> HIDE DEF a, b
<1>3. \A j \in (a + 1)..b : s[j] \in Cell
  BY <1>1, <1>2, ElementOfSeq
<1>4. /\ SubSeq(s, a + 1, b) \in Seq(Cell)
      /\ Len(SubSeq(s, a + 1, b)) = IF a + 1 <= b THEN b - (a + 1) + 1 ELSE 0
  BY <1>1, <1>3, SubSeqProperties
<1>5. a + 1 <= b /\ b - (a + 1) + 1 = Chunk
  BY <1>1
<1>6. Slot(s, i) = SubSeq(s, a + 1, b)
  BY DEF Slot, a, b
<1> QED BY <1>4, <1>5, <1>6

LEMMA MultipleAfter ==
  ASSUME NEW c \in Nat, NEW m \in Nat, NEW d \in Nat
  PROVE  (m + 1 + d) * c = (m + 1) * c + d * c
OBVIOUS

LEMMA MultiplesOrdered ==
  ASSUME NEW c \in Nat, NEW x \in Nat, NEW y \in Nat, x < y
  PROVE  (x + 1) * c <= y * c
<1>1. PICK d \in Nat : y = x + 1 + d
  <2>1. y - (x + 1) \in Nat /\ y = x + 1 + (y - (x + 1))
    OBVIOUS
  <2> QED BY <2>1
<1>2. y * c = (x + 1) * c + d * c
  BY <1>1, MultipleAfter
<1>3. d * c \in Nat /\ (x + 1) * c \in Nat
  OBVIOUS
<1> QED BY <1>2, <1>3

\* The last chunk of a layout: where it begins is unique.
LEMMA BetweenMultiples ==
  ASSUME NEW c \in Nat \ {0}, NEW b \in Nat, NEW m \in Nat, NEW n \in Nat,
         m * c < b, b <= (m + 1) * c, n * c < b, b <= (n + 1) * c
  PROVE  m = n
<1>1. \A x, y \in Nat : x < y => (x + 1) * c <= y * c
  BY MultiplesOrdered
<1>2. m * c \in Nat /\ n * c \in Nat /\ (m + 1) * c \in Nat /\ (n + 1) * c \in Nat
  OBVIOUS
<1>3. ~(m < n) /\ ~(n < m)
  BY <1>1, <1>2
<1> QED BY <1>3

LEMMA FinalFacts ==
  ASSUME NEW s \in Seq(Cell), Len(s) >= 2
  PROVE  /\ Final(s) \in Nat
         /\ Final(s) * Chunk < BodyLen(s)
         /\ BodyLen(s) <= (Final(s) + 1) * Chunk
         /\ LastChunk(s) \in Seq(Cell)
         /\ Len(LastChunk(s)) \in Nat
<1> USE ParametersAssumption DEF Siv, TagLen, BodyLen
<1> DEFINE b == BodyLen(s)
<1>1. Len(s) \in Nat /\ b \in Nat \ {0} /\ b < Len(s)
  <2>1. Len(s) \in Nat
    BY LenProperties
  <2>2. b = Len(s) - 1
    OBVIOUS
  <2> HIDE DEF b
  <2> QED BY <2>1, <2>2
<1> HIDE DEF b
<1>2. \E n \in 0..Len(s) : n * Chunk < b /\ b <= (n + 1) * Chunk
  <2> DEFINE n == (b - 1) \div Chunk
  <2>1. b - 1 \in Nat /\ Chunk \in Nat \ {0}
    BY <1>1
  <2>2. n \in Nat /\ n * Chunk <= b - 1 /\ b - 1 < n * Chunk + Chunk
    BY <2>1, DivFacts
  <2> HIDE DEF n
  <2>3. (n + 1) * Chunk = n * Chunk + Chunk /\ n * Chunk \in Nat
    BY <2>2
  <2>4. n <= n * Chunk
    <3>1. PICK d \in Nat : Chunk = 1 + d
      <4>1. Chunk - 1 \in Nat /\ Chunk = 1 + (Chunk - 1)
        OBVIOUS
      <4> QED BY <4>1
    <3>2. n * Chunk = n + n * d /\ n * d \in Nat
      BY <2>2, <3>1
    <3> QED BY <3>2, <2>2
  <2>5. n * Chunk < b /\ b <= (n + 1) * Chunk
    BY <2>2, <2>3, <1>1
  <2>6. n \in 0..Len(s)
    BY <2>2, <2>4, <2>5, <2>3, <1>1
  <2> QED BY <2>5, <2>6
<1>3. /\ Final(s) \in 0..Len(s)
      /\ Final(s) * Chunk < b
      /\ b <= (Final(s) + 1) * Chunk
  BY <1>2 DEF Final, b
<1>4. Final(s) * Chunk \in Nat
  BY <1>3, <1>1
<1>5. LastChunk(s) \in Seq(Cell)
  <2> DEFINE a == Final(s) * Chunk
  <2> HIDE DEF a
  <2>1. a \in Nat
    BY <1>4 DEF a
  <2>2. \A j \in (a + 1)..b : s[j] \in Cell
    BY <1>1, <2>1, ElementOfSeq
  <2>3. SubSeq(s, a + 1, b) \in Seq(Cell)
    BY <1>1, <2>1, <2>2, SubSeqProperties
  <2> QED BY <2>3 DEF LastChunk, a, b
<1> QED BY <1>1, <1>3, <1>5, LenProperties DEF b

\* A last chunk that survives at the end of the file is the one the layout shows.
LEMMA LastSurvivorIsInLayout ==
  ASSUME NEW s \in Seq(Cell), NEW k \in Nat, LastChunkSurvives(s, k)
  PROVE  HasLayout(s) /\ Opens(k, Final(s), TRUE, LastChunk(s))
<1> USE ParametersAssumption DEF Siv, TagLen, BodyLen
<1>0. Len(s) \in Nat
  BY LenProperties
<1>1. PICK i \in 0..Len(s), n \in 1..Chunk :
        /\ i * Chunk + n + 1 = Len(s)
        /\ n = 1 => i = 0
        /\ Opens(k, i, TRUE, SubSeq(s, i * Chunk + 1, i * Chunk + n))
  BY DEF LastChunkSurvives
<1>2. i \in Nat /\ n \in Nat /\ i * Chunk \in Nat /\ (i + 1) * Chunk = i * Chunk + Chunk
  BY <1>0
<1>3. Len(s) >= 2 /\ i * Chunk + n = BodyLen(s) /\ BodyLen(s) \in Nat
  BY <1>0, <1>1, <1>2
<1>4. i * Chunk < BodyLen(s) /\ BodyLen(s) <= (i + 1) * Chunk
  BY <1>2, <1>3
<1>5. i = Final(s)
  <2>1. /\ Final(s) \in Nat
        /\ Final(s) * Chunk < BodyLen(s)
        /\ BodyLen(s) <= (Final(s) + 1) * Chunk
    BY <1>3, FinalFacts
  <2> HIDE DEF BodyLen
  <2> QED BY <1>2, <1>3, <1>4, <2>1, BetweenMultiples
<1>6. LastChunk(s) = SubSeq(s, i * Chunk + 1, i * Chunk + n)
  BY <1>3, <1>5 DEF LastChunk
<1>7. Len(LastChunk(s)) = n
  <2> DEFINE a == i * Chunk
  <2> HIDE DEF a
  <2>1. a \in Nat /\ a + n + 1 = Len(s)
    BY <1>1, <1>2 DEF a
  <2>2. \A j \in (a + 1)..(a + n) : s[j] \in Cell
    BY <1>0, <1>2, <2>1, ElementOfSeq
  <2>3. Len(SubSeq(s, a + 1, a + n)) = IF a + 1 <= a + n THEN a + n - (a + 1) + 1 ELSE 0
    BY <1>2, <2>1, <2>2, SubSeqProperties
  <2>4. Len(SubSeq(s, a + 1, a + n)) = n
    BY <2>1, <2>3
  <2> QED BY <1>6, <2>4 DEF a
<1>8. HasLayout(s)
  BY <1>0, <1>1, <1>2, <1>3, <1>5, <1>7 DEF HasLayout
<1>9. Opens(k, Final(s), TRUE, LastChunk(s))
  BY <1>1, <1>5, <1>6, Zenon
<1> QED BY <1>8, <1>9

-----------------------------------------------------------------------------
(***************************************************************************)
(* The inductive invariant: what a scan has behind it did not decrypt.     *)
(***************************************************************************)

Missed(s, i, k) ==
  /\ ~Opens(k, i, FALSE, Slot(s, i))
  /\ i = 0 => ~Opens(k, 0, TRUE, Slot(s, 0))

Before == pc \in {"start", "read", "prefix", "decrypt"}

Cursor ==
  /\ Before => at = 0 /\ key = 1 /\ ~asLast
  /\ pc \in {"start", "read", "decrypt", "layout"} => ~over
  /\ pc = "prefix" => over
  /\ pc \in {"decrypt", "scan", "layout"} /\ ~over => seen = file.cells
  /\ pc = "scan" => key \in Ring
  /\ pc # "done" => verdict = "None"

GridBehind ==
  pc = "scan" /\ file.mode = "binary" =>
    /\ \A i \in Nat, k \in Ring : i < at => Missed(seen, i, k)
    /\ \A k \in Ring : k < key => Missed(seen, at, k)
    /\ asLast => at = 0 /\ ~Opens(key, 0, FALSE, Slot(seen, 0))

LayoutBehind ==
  pc = "layout" =>
    /\ file.mode = "binary"
    /\ HasLayout(seen)
    /\ \A i \in Nat, k \in Ring : InGrid(seen, i) => Missed(seen, i, k)
    /\ \A k \in Ring : k < key => ~Opens(k, Final(seen), TRUE, LastChunk(seen))

LinesBehind ==
  pc = "scan" /\ file.mode = "text" =>
    /\ \A j \in 1..Len(seen), k \in Ring : j <= at => ~OpensLine(k, seen[j])
    /\ \A k \in Ring : k < key => ~OpensLine(k, seen[at + 1])
    /\ key # 1 => Decodes(seen[at + 1])

IInv ==
  /\ TypeOK
  /\ Cursor
  /\ GridBehind
  /\ LayoutBehind
  /\ LinesBehind
  /\ ForeignHoldsNothing

\* Slots are in the grid from the first on.
LEMMA GridIsInitial ==
  ASSUME NEW s \in Seq(Cell), NEW i \in Nat, NEW j \in Nat, ~InGrid(s, i), InGrid(s, j)
  PROVE  j < i
<1> USE ParametersAssumption DEF Siv
<1>0. Len(s) \in Nat
  BY LenProperties
<1>1. SUFFICES ASSUME i <= j PROVE FALSE
  OBVIOUS
<1>2. PICK d \in Nat : j = i + d
  <2>1. j - i \in Nat /\ j = i + (j - i)
    BY <1>1
  <2> QED BY <2>1
<1>3. (j + 1) * Chunk = (i + 1) * Chunk + d * Chunk
  BY <1>2
<1>4. d * Chunk \in Nat /\ (i + 1) * Chunk \in Nat
  OBVIOUS
<1> QED BY <1>0, <1>3, <1>4 DEF InGrid

\* A finished search of the grid, with no layout, is a finished scan.
LEMMA NothingSurvivesInGrid ==
  ASSUME NEW f \in Content, f.mode = "binary", NEW k \in Ring,
         \A i \in Nat : InGrid(f.cells, i) => Missed(f.cells, i, k),
         ~(HasLayout(f.cells) /\ Opens(k, Final(f.cells), TRUE, LastChunk(f.cells)))
  PROVE  ~Survives(f, k)
<1> DEFINE s == f.cells
<1> HIDE DEF s
<1>0. s \in Seq(Cell) /\ Len(s) \in Nat /\ k \in Nat
  <2>1. s \in Seq(Cell)
    BY DEF Content, s
  <2> QED BY <2>1, LenProperties, ParametersAssumption DEF Ring
<1>1. \A i \in Nat : InGrid(s, i) => Missed(s, i, k)
  BY DEF s
<1>2. ~FullChunkSurvives(s, k)
  <2>1. \A i \in 0..Len(s) : i \in Nat
    BY <1>0
  <2> QED BY <1>1, <2>1, Zenon DEF FullChunkSurvives, Missed
<1>3. ~OnlyChunkSurvives(s, k)
  BY <1>1 DEF OnlyChunkSurvives, Missed
<1>4. ~LastChunkSurvives(s, k)
  BY <1>0, LastSurvivorIsInLayout DEF s
<1>5. f.mode # "text"
  OBVIOUS
<1> QED BY <1>2, <1>3, <1>4, <1>5 DEF Survives, s

LEMMA DecideFacts ==
  ASSUME NEW v, NEW k, Decide(v, k)
  PROVE  pc' = "done" /\ verdict' = v
BY DEF Decide

\* A classification that ends otherwise than in "Foreign".
LEMMA EndsUnforeign ==
  ASSUME IInv, NEW v \in Verdict \ {"Foreign"}, NEW k \in 0..Keys,
         Decide(v, k), UNCHANGED <<file, damage>>
  PROVE  IInv'
<1>1. TypeOK'
  BY DecideTyped DEF IInv
<1>2. pc' = "done" /\ verdict' # "Foreign"
  BY DecideFacts
<1> QED BY <1>1, <1>2 DEF IInv, Cursor, Before, GridBehind, LayoutBehind, LinesBehind,
                           ForeignHoldsNothing

LEMMA EndsForeign ==
  ASSUME IInv, Decide("Foreign", 0), UNCHANGED <<file, damage>>,
         file.magic => \A k \in Ring : ~Survives(file, k)
  PROVE  IInv'
<1>1. TypeOK'
  <2>1. "Foreign" \in Verdict /\ 0 \in 0..Keys
    BY ParametersAssumption DEF Verdict
  <2> QED BY <2>1, DecideTyped DEF IInv
<1>2. pc' = "done" /\ verdict' = "Foreign"
  BY DecideFacts
<1>3. ForeignHoldsNothing'
  <2>1. file' = file
    OBVIOUS
  <2> QED BY <2>1 DEF ForeignHoldsNothing, Survives
<1> QED BY <1>1, <1>2, <1>3 DEF IInv, Cursor, Before, GridBehind, LayoutBehind, LinesBehind

LEMMA InitIInv == Init => IInv
<1> SUFFICES ASSUME Init PROVE IInv
  OBVIOUS
<1>1. TypeOK
  <2>1. file \in Content
    BY CiphertextsType DEF Init
  <2>2. <<>> \in Seq(Cell)
    BY EmptySeq
  <2>3. damage \in 0..MaxDamage /\ left \in Nat /\ hit \in 0..Keys
    BY ParametersAssumption DEF Init
  <2>4. seen \in Seq(Cell) /\ at \in Nat /\ key \in Nat \ {0} /\ asLast \in BOOLEAN
    <3>1. seen = <<>> /\ at = 0 /\ key = 1 /\ asLast = FALSE
      BY DEF Init
    <3>2. 0 \in Nat /\ 1 \in Nat \ {0}
      OBVIOUS
    <3> QED BY <2>2, <3>1, <3>2, Zenon
  <2> QED BY <2>1, <2>3, <2>4 DEF Init, TypeOK, Verdict
<1> QED BY <1>1 DEF Init, IInv, Cursor, Before, GridBehind, LayoutBehind, LinesBehind,
                    ForeignHoldsNothing

\* An edit comes before the file has been read whole.
LEMMA EditKeepsIInv ==
  ASSUME IInv, Edit
  PROVE  IInv'
<1>1. TypeOK'
  BY EditTyped DEF IInv
<1>2. pc \in {"start", "read", "prefix"} /\ UNCHANGED <<pc, scan, verdict, hit>>
  BY DEF Edit, Truncate, Insert, Destroy, SpoilHeader, MixIn, Damage
<1>3. verdict = "None"
  BY <1>2 DEF IInv, Cursor
<1> QED BY <1>1, <1>2, <1>3 DEF IInv, Cursor, Before, GridBehind, LayoutBehind, LinesBehind,
                                 ForeignHoldsNothing, scan

\* The steps up to the first attempt.
LEMMA FreshScan ==
  ASSUME IInv, TypeOK', Before, pc' = "scan",
         UNCHANGED <<file, at, key, asLast, verdict>>,
         ~over' => seen' = file.cells
  PROVE  IInv'
<1>1. at' = 0 /\ key' = 1 /\ ~asLast'
  BY DEF IInv, Cursor
<1>2. 1 \in Ring /\ Ring \subseteq Nat /\ \A k \in Ring : ~(k < 1)
  BY ParametersAssumption DEF Ring
<1>3. \A i \in Nat : ~(i < 0)
  OBVIOUS
<1>4. GridBehind'
  BY <1>1, <1>2, <1>3 DEF GridBehind
<1>5. LinesBehind'
  <2>1. \A j \in 1..Len(seen') : ~(j <= 0)
    OBVIOUS
  <2> QED BY <1>1, <1>2, <2>1 DEF LinesBehind
<1>6. Cursor'
  BY <1>1, <1>2 DEF IInv, Cursor, Before
<1>7. ForeignHoldsNothing'
  BY DEF IInv, Cursor, Before, ForeignHoldsNothing
<1>8. LayoutBehind'
  BY DEF LayoutBehind
<1> QED BY <1>4, <1>5, <1>6, <1>7, <1>8 DEF IInv

LEMMA ReadingKeepsIInv ==
  ASSUME IInv, Probe \/ Read \/ ReadOverCap \/ ReadPrefix \/ DecryptWhole
  PROVE  IInv'
<1> USE DEF IInv
<1>0. file \in Content /\ file.cells \in Seq(Cell) /\ Len(file.cells) \in Nat
  <2>1. file \in Content /\ file.cells \in Seq(Cell)
    BY DEF TypeOK, Content
  <2> QED BY <2>1, LenProperties
<1>a. 0 \in 0..Keys /\ Ring \subseteq 0..Keys
  BY ParametersAssumption DEF Ring
<1>1. CASE Probe
  <2>1. CASE Decide("Plain", 0) /\ UNCHANGED <<file, damage>>
    BY <1>a, <2>1, EndsUnforeign DEF Verdict
  <2>2. CASE pc = "start" /\ pc' = "read" /\ UNCHANGED <<file, damage, scan, verdict, hit>>
    BY <2>2 DEF TypeOK, Cursor, Before, GridBehind, LayoutBehind, LinesBehind,
                ForeignHoldsNothing, scan
  <2> QED BY <1>1, <2>1, <2>2 DEF Probe
<1>2. CASE Read
  <2>1. CASE ProbeOf(file) = "Plain"
    <3>1. Decide("Foreign", 0) /\ UNCHANGED <<file, damage>>
      BY <1>2, <2>1 DEF Read
    <3>2. ~file.magic
      BY <2>1 DEF ProbeOf
    <3> QED BY <3>1, <3>2, EndsForeign
  <2>2. CASE ProbeOf(file) = "TextUnrecognized"
    <3>1. /\ pc = "read" /\ pc' = "scan" /\ seen' = file.cells
          /\ UNCHANGED <<file, damage, over, at, key, asLast, left, verdict, hit>>
      BY <1>2, <2>2 DEF Read
    <3>2. TypeOK'
      BY <1>0, <3>1 DEF TypeOK
    <3> QED BY <3>1, <3>2, FreshScan DEF Before
  <2>3. CASE ProbeOf(file) \in {"TextV1", "Binary"}
    <3>1. /\ pc = "read" /\ pc' = "decrypt" /\ seen' = file.cells
          /\ UNCHANGED <<file, damage, over, at, key, asLast, left, verdict, hit>>
      BY <1>2, <2>3 DEF Read
    <3>2. TypeOK'
      BY <1>0, <3>1 DEF TypeOK
    <3> QED BY <3>1, <3>2 DEF Cursor, Before, GridBehind, LayoutBehind, LinesBehind,
                               ForeignHoldsNothing
  <2>4. ProbeOf(file) \in {"Plain", "Binary", "TextUnrecognized", "TextV1"}
    BY DEF ProbeOf
  <2> QED BY <2>1, <2>2, <2>3, <2>4
<1>3. CASE ReadOverCap
  <2>1. TypeOK'
    BY <1>3 DEF ReadOverCap, TypeOK
  <2> QED BY <1>3, <2>1 DEF ReadOverCap, Cursor, Before, GridBehind, LayoutBehind,
                            LinesBehind, ForeignHoldsNothing
<1>4. CASE ReadPrefix
  <2>1. seen' \in Seq(Cell)
    <3>1. Window(file) \in Nat
      BY ParametersAssumption DEF Window
    <3>2. CASE Len(file.cells) <= Window(file)
      BY <1>0, <1>4, <3>2 DEF ReadPrefix
    <3>3. CASE ~(Len(file.cells) <= Window(file))
      <4>1. \A i \in 1..Window(file) : file.cells[i] \in Cell
        BY <1>0, <3>1, <3>3, ElementOfSeq
      <4>2. SubSeq(file.cells, 1, Window(file)) \in Seq(Cell)
        BY <3>1, <4>1, SubSeqProperties
      <4> QED BY <1>4, <3>3, <4>2 DEF ReadPrefix
    <3> QED BY <3>2, <3>3
  <2>2. TypeOK'
    BY <1>4, <2>1 DEF ReadPrefix, TypeOK
  <2>3. pc = "prefix" => over
    BY <1>4 DEF Cursor
  <2> QED BY <1>4, <2>2, <2>3, FreshScan DEF ReadPrefix, Before
<1>5. CASE DecryptWhole
  <2>1. CASE \E k \in Ring : Decide("Authentic", k)
    BY <1>5, <1>a, <2>1, EndsUnforeign DEF DecryptWhole, Verdict
  <2>2. CASE pc' = "scan" /\ UNCHANGED <<scan, verdict, hit>>
    <3>1. TypeOK'
      BY <1>5, <2>2 DEF DecryptWhole, TypeOK, scan
    <3>2. ~over /\ seen = file.cells
      BY <1>5 DEF DecryptWhole, Cursor
    <3> QED BY <1>5, <2>2, <3>1, <3>2, FreshScan DEF DecryptWhole, Before, scan
  <2> QED BY <1>5, <2>1, <2>2 DEF DecryptWhole
<1> QED BY <1>1, <1>2, <1>3, <1>4, <1>5

\* A finished scan: with the whole content read, nothing of it survives.
LEMMA NoMatchKeepsIInv ==
  ASSUME IInv, Decide(NoMatch, 0), UNCHANGED <<file, damage>>,
         ~over => \A k \in Ring : ~Survives(file, k)
  PROVE  IInv'
<1>1. CASE over
  <2>1. NoMatch \in Verdict \ {"Foreign"} /\ 0 \in 0..Keys
    BY <1>1, ParametersAssumption DEF NoMatch, Verdict
  <2> QED BY <2>1, EndsUnforeign
<1>2. CASE ~over
  <2>1. NoMatch = "Foreign"
    BY <1>2 DEF NoMatch
  <2> QED BY <1>2, <2>1, EndsForeign
<1> QED BY <1>1, <1>2

\* An attempt that ends the scan does not find the file foreign.
LEMMA AttemptEnds ==
  ASSUME IInv, NEW k \in Ring, Decide(Inconclusive, 0) \/ Decide("PartiallyAuthentic", k),
         UNCHANGED <<file, damage>>
  PROVE  IInv'
<1>1. 0 \in 0..Keys /\ k \in 0..Keys
  BY ParametersAssumption DEF Ring
<1>2. Inconclusive \in Verdict \ {"Foreign"} /\ "PartiallyAuthentic" \in Verdict \ {"Foreign"}
  BY DEF Inconclusive, Verdict
<1> QED BY <1>1, <1>2, EndsUnforeign

LEMMA CostType ==
  ASSUME NEW n \in Nat
  PROVE  Cost(n) \in Nat
BY ParametersAssumption DEF Cost

LEMMA TrySlotKeepsIInv ==
  ASSUME IInv, TrySlot
  PROVE  IInv'
<1> USE DEF IInv
<1> DEFINE slot == Slot(seen, at)
<1>0. /\ pc = "scan" /\ file.mode = "binary" /\ InGrid(seen, at)
      /\ UNCHANGED <<file, damage>>
      /\ at \in Nat /\ seen \in Seq(Cell) /\ key \in Ring /\ Keys \in Nat \ {0}
  BY ParametersAssumption DEF TrySlot, TypeOK, Cursor
<1>1. CASE Decide(Inconclusive, 0) \/ Decide("PartiallyAuthentic", key)
  BY <1>0, <1>1, AttemptEnds
<1>2. CASE /\ left >= Cost(Len(slot))
           /\ ~Opens(key, at, asLast, slot)
           /\ left' = left - Cost(Len(slot))
           /\ IF at = 0 /\ ~asLast THEN TryAgainAsLast ELSE NextKey
           /\ UNCHANGED <<pc, seen, over, verdict, hit>>
  <2>1. left' \in Nat
    <3>1. Cost(Len(slot)) \in Nat
      BY <1>0, SlotType, CostType, ParametersAssumption
    <3> HIDE DEF slot
    <3> QED BY <1>2, <3>1 DEF TypeOK
  <2>2. pc' = "scan" /\ UNCHANGED <<file, damage, seen, over, verdict, hit>>
    BY <1>0, <1>2
  <2>3. ForeignHoldsNothing' /\ LayoutBehind' /\ LinesBehind'
    BY <1>0, <2>2 DEF ForeignHoldsNothing, LayoutBehind, LinesBehind, Cursor
  <2>4. CASE at = 0 /\ ~asLast
    <3>1. asLast' = TRUE /\ at' = at /\ key' = key
      BY <1>2, <2>4 DEF TryAgainAsLast
    <3>2. asLast = FALSE
      BY <2>4 DEF TypeOK
    <3>3. ~Opens(key, 0, FALSE, Slot(seen, 0))
      BY <1>2, <2>4, <3>2, Zenon
    <3>4. TypeOK'
      BY <2>1, <2>2, <3>1 DEF TypeOK
    <3>5. Cursor'
      BY <1>0, <2>2, <3>1 DEF Cursor, Before
    <3>6. GridBehind'
      BY <1>0, <2>2, <2>4, <3>1, <3>3 DEF GridBehind
    <3> QED BY <2>3, <3>4, <3>5, <3>6
  <2>5. CASE ~(at = 0 /\ ~asLast)
    <3>1. NextKey
      BY <1>2, <2>5
    <3>2. at' \in Nat /\ key' \in Nat \ {0} /\ asLast' = FALSE
      BY <3>1, NextKeyTyped
    <3>3. Missed(seen, at, key)
      <4>1. CASE asLast
        <5>1. asLast = TRUE /\ at = 0
          BY <1>0, <4>1 DEF TypeOK, GridBehind
        <5>2. ~Opens(key, 0, FALSE, Slot(seen, 0))
          BY <1>0, <4>1 DEF GridBehind
        <5>3. ~Opens(key, 0, TRUE, Slot(seen, 0))
          BY <1>2, <5>1, Zenon
        <5> QED BY <5>1, <5>2, <5>3 DEF Missed
      <4>2. CASE ~asLast
        <5>1. asLast = FALSE /\ at # 0
          BY <2>5, <4>2 DEF TypeOK
        <5>2. ~Opens(key, at, FALSE, Slot(seen, at))
          BY <1>2, <5>1, Zenon
        <5> QED BY <5>1, <5>2 DEF Missed
      <4> QED BY <4>1, <4>2
    <3>4. TypeOK'
      BY <2>1, <2>2, <3>2 DEF TypeOK
    <3>5. \A k \in Ring : k < key + 1 => Missed(seen, at, k)
      BY <1>0, <3>3 DEF GridBehind, Ring
    <3>6. CASE key < Keys
      <4>1. key' = key + 1 /\ at' = at
        BY <3>1, <3>6 DEF NextKey
      <4>2. key' \in Ring
        BY <1>0, <3>6, <4>1 DEF Ring
      <4>3. Cursor'
        BY <1>0, <2>2, <4>2 DEF Cursor, Before
      <4>4. GridBehind'
        BY <1>0, <2>2, <3>2, <3>5, <4>1 DEF GridBehind
      <4> QED BY <2>3, <3>4, <4>3, <4>4
    <3>7. CASE ~(key < Keys)
      <4>1. key' = 1 /\ at' = at + 1
        BY <3>1, <3>7 DEF NextKey
      <4>2. key' \in Ring /\ \A k \in Ring : ~(k < 1)
        BY <1>0, <4>1 DEF Ring
      <4>3. \A k \in Ring : Missed(seen, at, k)
        <5>1. \A k \in Ring : k < key + 1
          BY <1>0, <3>7 DEF Ring
        <5> QED BY <3>5, <5>1
      <4>4. \A i \in Nat, k \in Ring : i < at + 1 => Missed(seen, i, k)
        <5>1. \A i \in Nat : i < at + 1 => i < at \/ i = at
          BY <1>0
        <5> QED BY <1>0, <4>3, <5>1 DEF GridBehind
      <4>5. Cursor'
        BY <1>0, <2>2, <4>2 DEF Cursor, Before
      <4>6. GridBehind'
        BY <1>0, <2>2, <3>2, <4>1, <4>2, <4>4 DEF GridBehind
      <4> QED BY <2>3, <3>4, <4>5, <4>6
    <3> QED BY <3>6, <3>7
  <2> QED BY <2>4, <2>5
<1> QED BY <1>1, <1>2 DEF TrySlot, Attempt

LEMMA GridDoneKeepsIInv ==
  ASSUME IInv, GridDone
  PROVE  IInv'
<1> USE DEF IInv
<1>0. /\ pc = "scan" /\ file.mode = "binary" /\ ~InGrid(seen, at)
      /\ UNCHANGED <<file, damage>>
      /\ at \in Nat /\ seen \in Seq(Cell) /\ file \in Content
      /\ ~over => seen = file.cells
  BY DEF GridDone, TypeOK, Cursor
<1>1. \A i \in Nat, k \in Ring : InGrid(seen, i) => Missed(seen, i, k)
  BY <1>0, GridIsInitial DEF GridBehind
<1>2. CASE UsesLayout(seen)
  <2>1. /\ pc' = "layout" /\ key' = 1
        /\ UNCHANGED <<seen, over, at, asLast, left, verdict, hit>>
    BY <1>2 DEF GridDone
  <2>2. ~over /\ HasLayout(seen)
    BY <1>2 DEF UsesLayout
  <2>3. TypeOK'
    BY <1>0, <2>1 DEF TypeOK
  <2>4. Cursor'
    BY <1>0, <2>1, <2>2 DEF Cursor, Before
  <2>5. LayoutBehind'
    <3>1. \A k \in Ring : ~(k < 1)
      BY DEF Ring
    <3> QED BY <1>0, <1>1, <2>1, <2>2, <3>1 DEF LayoutBehind
  <2>6. GridBehind' /\ LinesBehind' /\ ForeignHoldsNothing'
    BY <1>0, <2>1 DEF GridBehind, LinesBehind, ForeignHoldsNothing, Cursor
  <2> QED BY <2>3, <2>4, <2>5, <2>6
<1>3. CASE ~UsesLayout(seen)
  <2>1. Decide(NoMatch, 0)
    BY <1>3 DEF GridDone
  <2>2. ASSUME ~over, NEW k \in Ring PROVE ~Survives(file, k)
    <3>1. ~HasLayout(file.cells)
      BY <1>0, <1>3, <2>2 DEF UsesLayout
    <3>2. \A i \in Nat : InGrid(file.cells, i) => Missed(file.cells, i, k)
      BY <1>0, <1>1, <2>2
    <3> QED BY <1>0, <3>1, <3>2, NothingSurvivesInGrid
  <2> QED BY <1>0, <2>1, <2>2, NoMatchKeepsIInv
<1> QED BY <1>2, <1>3

LEMMA TryLastKeepsIInv ==
  ASSUME IInv, TryLast
  PROVE  IInv'
<1> USE DEF IInv
<1> DEFINE unit == LastChunk(seen)
<1>0. /\ pc = "layout" /\ file.mode = "binary" /\ ~over /\ HasLayout(seen)
      /\ UNCHANGED <<file, damage>>
      /\ seen \in Seq(Cell) /\ file \in Content /\ key \in Nat \ {0} /\ Keys \in Nat \ {0}
      /\ seen = file.cells
  BY ParametersAssumption DEF TryLast, TypeOK, Cursor, LayoutBehind
<1>1. CASE key <= Keys
  <2>0. key \in Ring
    BY <1>0, <1>1 DEF Ring
  <2>1. CASE Decide(Inconclusive, 0) \/ Decide("PartiallyAuthentic", key)
    BY <1>0, <2>0, <2>1, AttemptEnds
  <2>2. CASE /\ left >= Cost(Len(unit))
             /\ ~Opens(key, Final(seen), TRUE, unit)
             /\ left' = left - Cost(Len(unit))
             /\ key' = key + 1 /\ UNCHANGED <<at, asLast>>
             /\ UNCHANGED <<pc, seen, over, verdict, hit>>
    <3>1. left' \in Nat
      <4>1. Len(seen) >= 2
        BY <1>0 DEF HasLayout, Siv, TagLen
      <4>2. Cost(Len(unit)) \in Nat
        BY <1>0, <4>1, FinalFacts, CostType
      <4> HIDE DEF unit
      <4> QED BY <2>2, <4>2 DEF TypeOK
    <3>2. TypeOK'
      BY <1>0, <2>2, <3>1 DEF TypeOK
    <3>3. Cursor'
      BY <1>0, <2>2 DEF Cursor, Before
    <3>4. LayoutBehind'
      <4>1. \A k \in Ring : k < key + 1 => k < key \/ k = key
        BY <1>0 DEF Ring
      <4> QED BY <1>0, <2>2, <4>1 DEF LayoutBehind
    <3>5. GridBehind' /\ LinesBehind' /\ ForeignHoldsNothing'
      BY <1>0, <2>2 DEF GridBehind, LinesBehind, ForeignHoldsNothing, Cursor
    <3> QED BY <3>2, <3>3, <3>4, <3>5
  <2> QED BY <1>1, <2>1, <2>2 DEF TryLast, Attempt
<1>2. CASE ~(key <= Keys)
  <2>1. Decide(NoMatch, 0)
    BY <1>2 DEF TryLast
  <2>2. ASSUME NEW k \in Ring PROVE ~Survives(file, k)
    <3>1. ~Opens(k, Final(seen), TRUE, LastChunk(seen))
      <4>1. k < key
        BY <1>0, <1>2 DEF Ring
      <4> QED BY <1>0, <4>1 DEF LayoutBehind
    <3>2. \A i \in Nat : InGrid(seen, i) => Missed(seen, i, k)
      BY <1>0 DEF LayoutBehind
    <3> QED BY <1>0, <3>1, <3>2, NothingSurvivesInGrid
  <2> QED BY <1>0, <2>1, <2>2, NoMatchKeepsIInv
<1> QED BY <1>1, <1>2

\* What does not decode is no unit.
LEMMA UndecodableIsNoUnit ==
  ASSUME NEW c \in Cell, ~Decodes(c), NEW k \in Ring
  PROVE  ~OpensLine(k, c)
<1>1. Len(<<c>>) = 1 /\ <<c>>[1] = c
  BY SingletonSeq
<1>2. c.len # 1
  BY DEF Decodes, Cell
<1> QED BY <1>1, <1>2 DEF OpensLine, Opens

LEMMA TryLineKeepsIInv ==
  ASSUME IInv, TryLine
  PROVE  IInv'
<1> USE DEF IInv
<1> DEFINE line == seen[at + 1]
<1>0. /\ pc = "scan" /\ file.mode = "text" /\ at < Len(seen)
      /\ UNCHANGED <<file, damage>>
      /\ at \in Nat /\ seen \in Seq(Cell) /\ key \in Ring /\ Keys \in Nat \ {0}
      /\ Len(seen) \in Nat
  <2>1. seen \in Seq(Cell) /\ Len(seen) \in Nat
    BY LenProperties DEF TypeOK
  <2> QED BY <2>1, ParametersAssumption DEF TryLine, TypeOK, Cursor
<1>1. line \in Cell /\ at + 1 \in 1..Len(seen)
  BY <1>0, ElementOfSeq
<1> HIDE DEF line
\* A line none of the ring authenticates is behind.
<1>2. ASSUME at' = at + 1, \A k \in Ring : ~OpensLine(k, line),
             key' = 1,
             left' \in Nat, asLast' \in BOOLEAN,
             UNCHANGED <<pc, seen, over, verdict, hit>>
      PROVE  IInv'
  <2>1. \A j \in 1..Len(seen), k \in Ring : j <= at + 1 => ~OpensLine(k, seen[j])
    <3>1. \A j \in 1..Len(seen) : j <= at + 1 => j <= at \/ j = at + 1
      BY <1>0
    <3> QED BY <1>0, <1>2, <3>1 DEF LinesBehind, line
  <2>2. LinesBehind'
    <3>1. \A k \in Ring : ~(k < 1)
      BY DEF Ring
    <3> QED BY <1>0, <1>2, <2>1, <3>1 DEF LinesBehind
  <2>3. TypeOK'
    <3>1. at' \in Nat /\ key' \in Nat \ {0}
      BY <1>0, <1>2
    <3> QED BY <1>0, <1>2, <3>1 DEF TypeOK
  <2>4. Cursor'
    BY <1>0, <1>2 DEF Cursor, Before, Ring
  <2>5. GridBehind' /\ LayoutBehind' /\ ForeignHoldsNothing'
    BY <1>0, <1>2 DEF GridBehind, LayoutBehind, ForeignHoldsNothing, Cursor
  <2> QED BY <2>2, <2>3, <2>4, <2>5
<1>3. CASE Decodes(line)
  <2>1. CASE Decide(Inconclusive, 0) \/ Decide("PartiallyAuthentic", key)
    BY <1>0, <2>1, AttemptEnds
  <2>2. CASE /\ left >= Cost(Len(<<line>>))
             /\ ~Opens(key, 0, FALSE, <<line>>)
             /\ left' = left - Cost(Len(<<line>>))
             /\ NextKey
             /\ UNCHANGED <<pc, seen, over, verdict, hit>>
    <3>1. left' \in Nat
      <4>1. Cost(Len(<<line>>)) \in Nat
        BY <1>1, SingletonSeq, CostType
      <4> QED BY <2>2, <4>1 DEF TypeOK
    <3>2. at' \in Nat /\ key' \in Nat \ {0} /\ asLast' = FALSE
      BY <2>2, NextKeyTyped
    <3>3. \A k \in Ring : k < key + 1 => ~OpensLine(k, line)
      <4>1. \A k \in Ring : k < key + 1 => k < key \/ k = key
        BY <1>0 DEF Ring
      <4>2. ~OpensLine(key, line)
        BY <2>2, Zenon DEF OpensLine
      <4> QED BY <1>0, <4>1, <4>2 DEF LinesBehind, line
    <3>4. CASE key < Keys
      <4>1. key' = key + 1 /\ at' = at
        BY <2>2, <3>4 DEF NextKey
      <4>2. key' \in Ring
        BY <1>0, <3>4, <4>1 DEF Ring
      <4>3. TypeOK'
        BY <1>0, <2>2, <3>1, <3>2 DEF TypeOK
      <4>4. Cursor'
        BY <1>0, <2>2, <4>2 DEF Cursor, Before
      <4>5. LinesBehind'
        BY <1>0, <1>3, <2>2, <3>3, <4>1 DEF LinesBehind, line
      <4>6. GridBehind' /\ LayoutBehind' /\ ForeignHoldsNothing'
        BY <1>0, <2>2 DEF GridBehind, LayoutBehind, ForeignHoldsNothing, Cursor
      <4> QED BY <4>3, <4>4, <4>5, <4>6
    <3>5. CASE ~(key < Keys)
      <4>1. key' = 1 /\ at' = at + 1
        BY <2>2, <3>5 DEF NextKey
      <4>2. \A k \in Ring : k < key + 1
        BY <1>0, <3>5, <4>1 DEF Ring
      <4> QED BY <1>2, <2>2, <3>1, <3>2, <3>3, <4>1, <4>2
    <3> QED BY <3>4, <3>5
  <2> QED BY <1>3, <2>1, <2>2 DEF TryLine, Attempt, line
<1>4. CASE ~Decodes(line)
  <2>1. at' = at + 1 /\ UNCHANGED <<pc, seen, over, key, asLast, left, verdict, hit>>
    BY <1>4 DEF TryLine, line
  <2>2. \A k \in Ring : ~OpensLine(k, line)
    BY <1>1, <1>4, UndecodableIsNoUnit
  <2>3. key = 1
    BY <1>0, <1>4 DEF LinesBehind, line
  <2>4. left' \in Nat /\ asLast' \in BOOLEAN
    BY <2>1 DEF TypeOK
  <2> QED BY <1>2, <2>1, <2>2, <2>3, <2>4
<1> QED BY <1>3, <1>4

LEMMA LinesDoneKeepsIInv ==
  ASSUME IInv, LinesDone
  PROVE  IInv'
<1> USE DEF IInv
<1>0. /\ pc = "scan" /\ file.mode = "text" /\ at >= Len(seen)
      /\ UNCHANGED <<file, damage>> /\ Decide(NoMatch, 0)
      /\ at \in Nat /\ seen \in Seq(Cell) /\ Len(seen) \in Nat
      /\ ~over => seen = file.cells
  <2>1. seen \in Seq(Cell) /\ Len(seen) \in Nat
    BY LenProperties DEF TypeOK
  <2> QED BY <2>1 DEF LinesDone, TypeOK, Cursor
<1>1. ASSUME ~over, NEW k \in Ring PROVE ~Survives(file, k)
  <2>1. \A j \in 1..Len(seen) : j <= at
    BY <1>0
  <2>2. ~LineSurvives(file.cells, k)
    BY <1>0, <1>1, <2>1 DEF LinesBehind, LineSurvives
  <2> QED BY <1>0, <2>2 DEF Survives
<1> QED BY <1>0, <1>1, NoMatchKeepsIInv

LEMMA StepIInv == IInv /\ [Next]_vars => IInv'
<1> SUFFICES ASSUME IInv, [Next]_vars PROVE IInv'
  OBVIOUS
<1>1. CASE UNCHANGED vars
  BY <1>1 DEF vars, scan, IInv, TypeOK, Cursor, Before, GridBehind, LayoutBehind,
              LinesBehind, ForeignHoldsNothing
<1>2. CASE Edit
  BY <1>2, EditKeepsIInv
<1>3. CASE Probe \/ Read \/ ReadOverCap \/ ReadPrefix \/ DecryptWhole
  BY <1>3, ReadingKeepsIInv
<1>4. CASE TrySlot
  BY <1>4, TrySlotKeepsIInv
<1>5. CASE GridDone
  BY <1>5, GridDoneKeepsIInv
<1>6. CASE TryLast
  BY <1>6, TryLastKeepsIInv
<1>7. CASE TryLine
  BY <1>7, TryLineKeepsIInv
<1>8. CASE LinesDone
  BY <1>8, LinesDoneKeepsIInv
<1> QED BY <1>1, <1>2, <1>3, <1>4, <1>5, <1>6, <1>7, <1>8 DEF Next

LEMMA IInvHolds == Spec => []IInv
BY InitIInv, StepIInv, PTL DEF Spec

\* The variables keep their types, for a ring, a chunk size, a cap and a
\* budget of any value.
THEOREM ScanTypes == Spec => []TypeOK
<1>1. IInv => TypeOK
  BY DEF IInv
<1> QED BY <1>1, IInvHolds, PTL

\* Whatever was done to the file, and whatever the work budget, content that
\* classify_excluded_ciphertext or classify_oversize_excluded finds foreign has
\* no surviving unit under any key of the ring: nothing that `rekey --prune'
\* could strand, the shapes named at Survives aside.
THEOREM ForeignIsForeign == Spec => []ForeignHoldsNothing
<1>1. IInv => ForeignHoldsNothing
  BY DEF IInv
<1> QED BY <1>1, IInvHolds, PTL

-----------------------------------------------------------------------------
(***************************************************************************)
(* What full decryption accepts.  The invariant: every cell of a binary    *)
(* file that is not junk was made by `encrypt' and has never come nearer   *)
(* to the start than where it was made; and the cells of one chunk that    *)
(* are where they were made belong to one plaintext.                       *)
(***************************************************************************)

Fit == {m \in Sizes : /\ m > 0 /\ m + TagLen <= Cap
                      /\ m > Chunk => (m - Siv) % Chunk # 0}

LastAt(n) == (n - 1) \div Chunk

MadeOf(k, n, v) == {BinaryCiphertext(k, n, v).cells[x] : x \in 1..(n + 1)}
Made == UNION {MadeOf(k, n, v) : k \in 1..(Keys + 1), n \in Fit, v \in Versions}

\* Where a cell of a chunk was made.
Home(c) == c.at * Chunk + c.part
Near(c, j) == c.part # 0 => Home(c) <= j

Origins(s) ==
  /\ \A j \in 1..Len(s) : s[j] = Shred \/ (s[j] \in Made /\ Near(s[j], j))
  /\ \A i, j \in 1..Len(s) :
       /\ s[i].part # 0 /\ Home(s[i]) = i
       /\ s[j].part # 0 /\ Home(s[j]) = j
       /\ s[i].at = s[j].at
       => s[i].bind = s[j].bind

FileOrigins == file.mode = "binary" => Origins(file.cells) /\ file.marker = 0

WholeInv ==
  /\ FileOrigins
  /\ pc = "decrypt" => file.magic
  /\ verdict = "Authentic" => pc = "done" /\ hit \in Ring /\ (Untouched(hit) \/ LinesOf(hit))
  /\ pc \in {"scan", "layout", "done"} /\ verdict # "Authentic" /\ ~over =>
       \A k \in Ring : ~Untouched(k)

LEMMA ChunkPositive == Chunk \in Nat \ {0} /\ Chunk > 1 /\ Siv = 1 /\ TagLen = 1
  BY ParametersAssumption DEF Siv, TagLen

LEMMA FitNat == Fit \subseteq Nat \ {0} /\ Versions \subseteq Nat
<1>1. \A m \in Fit : m \in Sizes /\ m > 0
  BY Zenon DEF Fit
<1>2. Sizes \subseteq Nat /\ Versions \subseteq Nat
  BY ParametersAssumption
<1>3. ASSUME NEW m \in Fit  PROVE m \in Nat \ {0}
  <2>1. m \in Nat /\ m > 0
    BY <1>1, <1>2
  <2> QED BY <2>1
<1> QED BY <1>2, <1>3

\* The place of a cell in its chunk is unique.
LEMMA InSlot ==
  ASSUME NEW i \in Nat, NEW j \in Nat \ {0}
  PROVE  /\ i * Chunk < j /\ j <= (i + 1) * Chunk <=> i = (j - 1) \div Chunk
         /\ i * Chunk \in Nat /\ (i + 1) * Chunk = i * Chunk + Chunk
<1>1. Chunk \in Nat \ {0}
  BY ChunkPositive
<1> DEFINE q == (j - 1) \div Chunk
<1>2. q \in Nat /\ q * Chunk <= j - 1 /\ j - 1 < q * Chunk + Chunk
  BY <1>1, DivFacts
<1> HIDE DEF q
<1>3. /\ q * Chunk \in Nat /\ (q + 1) * Chunk = q * Chunk + Chunk
      /\ i * Chunk \in Nat /\ (i + 1) * Chunk = i * Chunk + Chunk
  BY <1>1, <1>2
<1>4. q * Chunk < j /\ j <= (q + 1) * Chunk
  <2> DEFINE a == q * Chunk
  <2>1. a \in Nat /\ a <= j - 1 /\ j - 1 < a + Chunk /\ (q + 1) * Chunk = a + Chunk
    BY <1>2, <1>3
  <2> HIDE DEF a
  <2>2. a < j /\ j <= a + Chunk
    BY <1>1, <2>1
  <2> QED BY <2>1, <2>2 DEF a
<1>5. ASSUME i * Chunk < j, j <= (i + 1) * Chunk  PROVE i = q
  BY <1>1, <1>2, <1>4, <1>5, BetweenMultiples
<1> QED BY <1>3, <1>4, <1>5 DEF q

\* The cells of a binary ciphertext.
BinaryShape(s, k, n, v, f) ==
  /\ s \in Seq(Cell) /\ Len(s) = n + 1 /\ f \in Nat
  /\ f * Chunk < n /\ n <= (f + 1) * Chunk
  /\ s[n + 1] = FileTag(k, [i \in 1..(f + 1) |-> v])
  /\ \A j \in 1..n : \A i \in Nat :
       i * Chunk < j /\ j <= (i + 1) * Chunk =>
         /\ i <= f
         /\ s[j] = UnitCell(k, i, i = f, IF i = f THEN n - f * Chunk ELSE Chunk,
                            j - i * Chunk, v)

LEMMA BinaryCells ==
  ASSUME NEW k \in Nat, NEW n \in Nat \ {0}, NEW v \in Nat
  PROVE  BinaryShape(BinaryCiphertext(k, n, v).cells, k, n, v, LastAt(n))
<1> DEFINE s == BinaryCiphertext(k, n, v).cells
           f == LastAt(n)
<1>0. s = BinaryCiphertext(k, n, v).cells /\ f = LastAt(n)
  OBVIOUS
<1> HIDE DEF s, f
<1> DEFINE body == [j \in 1..n |->
                      LET i == (j - 1) \div Chunk
                      IN UnitCell(k, i, i = LastAt(n),
                                  IF i = LastAt(n) THEN n - LastAt(n) * Chunk ELSE Chunk,
                                  j - i * Chunk, v)]
           tag  == FileTag(k, [i \in 1..(LastAt(n) + 1) |-> v])
<1>1. Chunk \in Nat \ {0}
  BY ChunkPositive
<1>2. f \in Nat /\ f = (n - 1) \div Chunk
  <2>1. n - 1 \in Nat
    OBVIOUS
  <2>2. f = (n - 1) \div Chunk
    BY <1>0, Zenon DEF LastAt
  <2>3. (n - 1) \div Chunk \in Nat
    BY <1>1, <2>1, DivFacts
  <2> QED BY <2>2, <2>3, Zenon
<1>3. f * Chunk < n /\ n <= (f + 1) * Chunk
  <2> HIDE DEF body, tag
  <2> QED BY <1>2, InSlot
<1>4. s \in Seq(Cell) /\ s = Append(body, tag)
  <2>1. BinaryCiphertext(k, n, v) \in Content
    BY BinaryType
  <2>2. s = Append(body, tag)
    BY <1>0, Zenon DEF BinaryCiphertext, LastAt
  <2>3. s \in Seq(Cell)
    BY <1>0, <2>1, Zenon DEF Content
  <2> QED BY <2>2, <2>3, Zenon
<1>5. DOMAIN body = 1..n
  OBVIOUS
<1>6. Len(s) = n + 1 /\ s[n + 1] = tag /\ \A j \in 1..n : s[j] = body[j]
  <2> DEFINE T == {body[j] : j \in 1..n} \cup {tag}
  <2>1. body \in [1..n -> T] /\ tag \in T
    OBVIOUS
  <2> HIDE DEF T, body, tag
  <2>2. body \in Seq(T)
    BY <2>1, FunctionIsSeq
  <2>3. Len(body) = n
    BY <1>5, <2>2, LenProperties
  <2> QED BY <1>4, <2>1, <2>2, <2>3, AppendProperties
<1>7. ASSUME NEW j \in 1..n, NEW i \in Nat, i * Chunk < j, j <= (i + 1) * Chunk
      PROVE  /\ i <= f
             /\ s[j] = UnitCell(k, i, i = f, IF i = f THEN n - f * Chunk ELSE Chunk,
                                j - i * Chunk, v)
  <2>1. i = (j - 1) \div Chunk
    BY <1>7, InSlot
  <2>2. i <= f
    <3> SUFFICES ASSUME f < i  PROVE FALSE
      BY <1>2
    <3>1. PICK d \in Nat : i = f + 1 + d
      <4>1. i - (f + 1) \in Nat /\ i = f + 1 + (i - (f + 1))
        BY <1>2
      <4> QED BY <4>1
    <3>2. i * Chunk = (f + 1) * Chunk + d * Chunk
      BY <1>1, <1>2, <3>1, MultipleAfter
    <3>3. d * Chunk \in Nat /\ (f + 1) * Chunk \in Nat /\ i * Chunk \in Nat
      BY <1>1, <1>2
    <3> DEFINE x == i * Chunk  y == (f + 1) * Chunk  z == d * Chunk
    <3>4. x = y + z /\ x \in Nat /\ y \in Nat /\ z \in Nat /\ x < j /\ n <= y /\ j <= n
      BY <1>3, <1>7, <3>2, <3>3
    <3> HIDE DEF x, y, z
    <3> QED BY <3>4
  <2>3. s[j] = body[j]
    BY <1>6
  <2>4. body[j] = UnitCell(k, i, i = f, IF i = f THEN n - f * Chunk ELSE Chunk,
                           j - i * Chunk, v)
    BY <1>0, <2>1, Zenon
  <2> QED BY <2>2, <2>3, <2>4
<1>8. s[n + 1] = FileTag(k, [i \in 1..(f + 1) |-> v])
  BY <1>0, <1>6, Zenon
<1>9. BinaryShape(s, k, n, v, f)
  <2> HIDE DEF body, tag
  <2> QED BY <1>2, <1>3, <1>4, <1>6, <1>7, <1>8, Zenon DEF BinaryShape
<1> QED BY <1>9, Zenon DEF s, f

\* The fields of a file tag.
LEMMA TagFields ==
  ASSUME NEW k, NEW vs
  PROVE  /\ FileTag(k, vs).key = k /\ FileTag(k, vs).bind = vs
         /\ FileTag(k, vs).part = 0 /\ Shred.part = 0 /\ Shred.key = 0
  BY DEF FileTag, Shred

\* A cell `encrypt' made is a file tag or a part of a chunk.
TagOf(c, k, n, v) == c = FileTag(k, [i \in 1..(LastAt(n) + 1) |-> v])
PartOf(c, k, n, v) ==
  /\ c.key = k
  /\ c.at \in 0..LastAt(n)
  /\ c.last <=> c.at = LastAt(n)
  /\ c.len = IF c.at = LastAt(n) THEN n - LastAt(n) * Chunk ELSE Chunk
  /\ c.part \in 1..Chunk
  /\ c.bind = <<v>>

LEMMA TagIsNoPart ==
  ASSUME NEW c, NEW k, NEW n, NEW v, TagOf(c, k, n, v)
  PROVE  c.part = 0
<1> DEFINE vs == [i \in 1..(LastAt(n) + 1) |-> v]
<1>1. c = FileTag(k, vs)
  BY DEF TagOf
<1> HIDE DEF vs
<1> QED BY <1>1 DEF FileTag, Shred

LEMMA CellsOfCiphertext ==
  ASSUME NEW k \in Nat, NEW n \in Nat \ {0}, NEW v \in Nat
  PROVE  /\ Len(BinaryCiphertext(k, n, v).cells) = n + 1
         /\ \A j \in 1..(n + 1) :
              \/ TagOf(BinaryCiphertext(k, n, v).cells[j], k, n, v)
              \/ /\ PartOf(BinaryCiphertext(k, n, v).cells[j], k, n, v)
                 /\ Home(BinaryCiphertext(k, n, v).cells[j]) = j
<1> DEFINE s == BinaryCiphertext(k, n, v).cells
           f == LastAt(n)
<1>0. s = BinaryCiphertext(k, n, v).cells /\ f = LastAt(n)
  OBVIOUS
<1> HIDE DEF s, f
<1>1. Chunk \in Nat \ {0}
  BY ChunkPositive
<1>2. /\ Len(s) = n + 1
      /\ f \in Nat /\ f * Chunk < n /\ n <= (f + 1) * Chunk
      /\ s[n + 1] = FileTag(k, [i \in 1..(f + 1) |-> v])
      /\ \A x \in 1..n : \A i \in Nat :
              i * Chunk < x /\ x <= (i + 1) * Chunk =>
                /\ i <= f
                /\ s[x] = UnitCell(k, i, i = f, IF i = f THEN n - f * Chunk ELSE Chunk,
                                   x - i * Chunk, v)
  <2>1. BinaryShape(s, k, n, v, f)
    BY <1>0, BinaryCells, Zenon
  <2> QED BY <2>1, Zenon DEF BinaryShape
<1>3. ASSUME NEW j \in 1..(n + 1)
      PROVE  TagOf(s[j], k, n, v) \/ (PartOf(s[j], k, n, v) /\ Home(s[j]) = j)
  <2>3. CASE j = n + 1
    BY <1>0, <1>2, <2>3, Zenon DEF TagOf
  <2>4. CASE j \in 1..n
    <3> DEFINE i == (j - 1) \div Chunk
               b == i = f
               m == IF i = f THEN n - f * Chunk ELSE Chunk
               p == j - i * Chunk
    <3>1. i \in Nat
      BY <1>1, <2>4, DivFacts
    <3> HIDE DEF i
    <3>2. i * Chunk < j /\ j <= (i + 1) * Chunk /\ i * Chunk \in Nat
          /\ (i + 1) * Chunk = i * Chunk + Chunk
      BY <2>4, <3>1, InSlot DEF i
    <3>3. i <= f /\ s[j] = UnitCell(k, i, b, m, p, v)
      BY <1>2, <2>4, <3>1, <3>2
    <3>4. p \in 1..Chunk /\ i * Chunk + p = j
      <4> DEFINE a == i * Chunk
      <4>1. a \in Nat /\ a < j /\ j <= a + Chunk
        BY <3>2
      <4> HIDE DEF a
      <4>2. j - a \in 1..Chunk /\ a + (j - a) = j
        BY <1>1, <2>4, <4>1
      <4> QED BY <4>2 DEF a
    <3> HIDE DEF b, m, p
    <3>5. /\ s[j].key = k /\ s[j].at = i /\ s[j].last = b /\ s[j].len = m /\ s[j].part = p
          /\ s[j].bind = <<v>>
      BY <3>3 DEF UnitCell
    <3>6. Home(s[j]) = j
      BY <3>4, <3>5 DEF Home
    <3>7. i \in 0..f
      BY <1>2, <3>1, <3>3
    <3>8. PartOf(s[j], k, n, v)
      <4>1. s[j].last <=> s[j].at = LastAt(n)
        BY <1>0, <3>5, Zenon DEF b
      <4>2. s[j].len = IF s[j].at = LastAt(n) THEN n - LastAt(n) * Chunk ELSE Chunk
        BY <1>0, <3>5, Zenon DEF m
      <4>3. s[j].at \in 0..LastAt(n) /\ s[j].part \in 1..Chunk
        BY <1>0, <3>4, <3>5, <3>7
      <4> QED BY <3>5, <4>1, <4>2, <4>3, Zenon DEF PartOf
    <3> QED BY <3>6, <3>8
  <2>5. j = n + 1 \/ j \in 1..n
    OBVIOUS
  <2> QED BY <2>3, <2>4, <2>5, Zenon
<1> QED BY <1>2, <1>3, Zenon DEF s

LEMMA MadeParts ==
  ASSUME NEW c \in Made
  PROVE  \E k \in 1..(Keys + 1), n \in Fit, v \in Versions :
           TagOf(c, k, n, v) \/ PartOf(c, k, n, v)
<1>1. PICK k \in 1..(Keys + 1), n \in Fit, v \in Versions : c \in MadeOf(k, n, v)
  BY DEF Made
<1>2. PICK x \in 1..(n + 1) : c = BinaryCiphertext(k, n, v).cells[x]
  BY <1>1, Zenon DEF MadeOf
<1>3. k \in Nat /\ n \in Nat \ {0} /\ v \in Nat
  BY FitNat, ParametersAssumption
<1>4. TagOf(c, k, n, v) \/ PartOf(c, k, n, v)
  <2> DEFINE s == BinaryCiphertext(k, n, v).cells
  <2>1. c = s[x]
    BY <1>2
  <2> HIDE DEF s
  <2>2. TagOf(s[x], k, n, v) \/ PartOf(s[x], k, n, v)
    BY <1>3, CellsOfCiphertext, Zenon DEF s
  <2> QED BY <2>1, <2>2, Zenon
<1> QED BY <1>4

\* A part of a chunk was made in the chunk its index names.
LEMMA HomeSlot ==
  ASSUME NEW c \in Made, c.part # 0
  PROVE  /\ c.at \in Nat /\ c.part \in 1..Chunk
         /\ c.at * Chunk < Home(c) /\ Home(c) <= (c.at + 1) * Chunk /\ Home(c) \in Nat
<1>1. PICK k \in 1..(Keys + 1), n \in Fit, v \in Versions :
        TagOf(c, k, n, v) \/ PartOf(c, k, n, v)
  BY MadeParts
<1>2. ~TagOf(c, k, n, v)
  BY TagIsNoPart
<1>3. c.at \in 0..LastAt(n) /\ c.part \in 1..Chunk
  BY <1>1, <1>2, Zenon DEF PartOf
<1> DEFINE i == c.at  p == c.part  a == i * Chunk
<1>4. i \in Nat /\ p \in 1..Chunk
  BY <1>3
<1>5. Home(c) = a + p
  BY DEF Home
<1> HIDE DEF i, p
<1>6. a \in Nat /\ (i + 1) * Chunk = a + Chunk /\ Chunk \in Nat
  BY <1>4, ChunkPositive
<1> HIDE DEF a
<1>7. a < a + p /\ a + p <= a + Chunk /\ a + p \in Nat
  BY <1>4, <1>6
<1> QED BY <1>4, <1>5, <1>6, <1>7 DEF i, p, a

LEMMA BinaryOrigins ==
  ASSUME NEW k \in 1..(Keys + 1), NEW n \in Fit, NEW v \in Versions
  PROVE  LET s == BinaryCiphertext(k, n, v).cells IN
         /\ Origins(s)
         /\ \A j \in 1..Len(s) : s[j] \in Made /\ Near(s[j], j)
         /\ \A j \in 1..Len(s) : s[j].part # 0 => s[j].bind = <<v>>
<1> DEFINE s == BinaryCiphertext(k, n, v).cells
<1>0. s = BinaryCiphertext(k, n, v).cells
  OBVIOUS
<1> HIDE DEF s
<1>1. k \in Nat /\ n \in Nat \ {0} /\ v \in Nat
  BY FitNat, ParametersAssumption
<1>2. /\ Len(s) = n + 1
      /\ \A j \in 1..(n + 1) :
           TagOf(s[j], k, n, v) \/ (PartOf(s[j], k, n, v) /\ Home(s[j]) = j)
  BY <1>0, <1>1, CellsOfCiphertext, Zenon
<1>3. ASSUME NEW j \in 1..Len(s)
      PROVE  s[j] \in Made /\ Near(s[j], j) /\ (s[j].part # 0 => s[j].bind = <<v>>)
  <2>0. j \in 1..(n + 1) /\ j <= j
    BY <1>1, <1>2
  <2>1. s[j] \in MadeOf(k, n, v)
    BY <1>0, <2>0, Zenon DEF MadeOf
  <2>2. s[j] \in Made
    BY <2>1 DEF Made
  <2>3. TagOf(s[j], k, n, v) \/ (PartOf(s[j], k, n, v) /\ Home(s[j]) = j)
    BY <1>2, <2>0
  <2>4. CASE TagOf(s[j], k, n, v)
    <3>1. s[j].part = 0
      BY <2>4, TagIsNoPart
    <3> QED BY <2>2, <3>1 DEF Near
  <2>5. CASE PartOf(s[j], k, n, v) /\ Home(s[j]) = j
    <3>1. s[j].bind = <<v>>
      BY <2>5, Zenon DEF PartOf
    <3>2. Near(s[j], j)
      BY <2>0, <2>5, Zenon DEF Near
    <3> QED BY <2>2, <3>1, <3>2
  <2> QED BY <2>3, <2>4, <2>5
<1> QED BY <1>3, Zenon DEF Origins, s

\* A piece of a sequence of cells.
LEMMA PieceOf ==
  ASSUME NEW s \in Seq(Cell), NEW a \in Nat, NEW b \in Nat, b <= Len(s)
  PROVE  /\ SubSeq(s, a + 1, b) \in Seq(Cell)
         /\ Len(SubSeq(s, a + 1, b)) = IF a < b THEN b - a ELSE 0
         /\ \A j \in Nat \ {0} : a + j <= b => SubSeq(s, a + 1, b)[j] = s[a + j]
<1>1. \A i \in (a + 1)..b : s[i] \in Cell
  <2>1. Len(s) \in Nat
    BY LenProperties
  <2>2. \A i \in (a + 1)..b : i \in 1..Len(s)
    BY <2>1
  <2> QED BY <2>2, ElementOfSeq
<1> DEFINE t == SubSeq(s, a + 1, b)
<1>2. /\ t \in Seq(Cell)
      /\ Len(t) = IF a + 1 <= b THEN b - (a + 1) + 1 ELSE 0
      /\ \A i \in 1..(b - (a + 1) + 1) : t[i] = s[(a + 1) + i - 1]
  BY <1>1, SubSeqProperties
<1> HIDE DEF t
<1>3. Len(t) = IF a < b THEN b - a ELSE 0
  BY <1>2
<1>4. ASSUME NEW j \in Nat \ {0}, a + j <= b  PROVE t[j] = s[a + j]
  <2>1. j \in 1..(b - (a + 1) + 1) /\ (a + 1) + j - 1 = a + j
    BY <1>4
  <2> QED BY <1>2, <2>1
<1> QED BY <1>2, <1>3, <1>4 DEF t

\* What an edit other than MixIn may do: cells are made junk, dropped, or come
\* later.  None gets to where it was made that was not there before.
LEMMA LaterKeepsOrigins ==
  ASSUME NEW s \in Seq(Cell), NEW t \in Seq(Cell), Origins(s),
         \A j \in 1..Len(t) : t[j] = Shred \/ \E i \in 1..Len(s) : i <= j /\ t[j] = s[i]
  PROVE  Origins(t)
<1> DEFINE n == Len(s)  m == Len(t)
<1>0. n \in Nat /\ m \in Nat
  BY LenProperties
<1>1. /\ \A j \in 1..m : t[j] = Shred \/ \E i \in 1..n : i <= j /\ t[j] = s[i]
      /\ \A j \in 1..n : s[j] = Shred \/ (s[j] \in Made /\ Near(s[j], j))
      /\ \A i, j \in 1..n :
           /\ s[i].part # 0 /\ Home(s[i]) = i
           /\ s[j].part # 0 /\ Home(s[j]) = j
           /\ s[i].at = s[j].at
           => s[i].bind = s[j].bind
  BY DEF Origins
<1> HIDE DEF n, m
<1>2. ASSUME NEW j \in 1..m  PROVE t[j] = Shred \/ (t[j] \in Made /\ Near(t[j], j))
  <2>1. CASE t[j] = Shred
    BY <2>1
  <2>2. CASE \E i \in 1..n : i <= j /\ t[j] = s[i]
    <3>1. PICK i \in 1..n : i <= j /\ t[j] = s[i]
      BY <2>2
    <3>2. CASE s[i] = Shred
      BY <3>1, <3>2
    <3>3. CASE s[i] \in Made /\ Near(s[i], i)
      <4>1. t[j] \in Made
        BY <3>1, <3>3, Zenon
      <4>2. ASSUME t[j].part # 0  PROVE Home(t[j]) <= j
        <5>1. s[i].part # 0 /\ Home(t[j]) = Home(s[i])
          BY <3>1, <4>2, Zenon
        <5>2. Home(s[i]) <= i /\ Home(s[i]) \in Nat
          BY <3>3, <5>1, HomeSlot DEF Near
        <5> QED BY <3>1, <5>1, <5>2
      <4> QED BY <4>1, <4>2, Zenon DEF Near
    <3> QED BY <1>1, <3>2, <3>3
  <2> QED BY <1>1, <2>1, <2>2
<1>3. ASSUME NEW j \in 1..m, t[j].part # 0, Home(t[j]) = j
      PROVE  j \in 1..n /\ t[j] = s[j]
  <2>1. t[j] # Shred
    BY <1>3 DEF Shred
  <2>2. PICK i \in 1..n : i <= j /\ t[j] = s[i]
    BY <1>1, <2>1
  <2>3. s[i].part # 0 /\ s[i] # Shred /\ Home(s[i]) = j
    BY <1>3, <2>1, <2>2, Zenon
  <2>4. Home(s[i]) <= i
    BY <1>1, <2>3, Zenon DEF Near
  <2>5. i = j
    BY <2>2, <2>3, <2>4
  <2> QED BY <2>2, <2>5
<1>4. ASSUME NEW i \in 1..m, NEW j \in 1..m, t[i].part # 0, Home(t[i]) = i,
             t[j].part # 0, Home(t[j]) = j, t[i].at = t[j].at
      PROVE  t[i].bind = t[j].bind
  <2>1. i \in 1..n /\ t[i] = s[i] /\ j \in 1..n /\ t[j] = s[j]
    BY <1>3, <1>4
  <2> QED BY <1>1, <1>4, <2>1, Zenon
<1> QED BY <1>2, <1>4, Zenon DEF Origins, m

\* A cell that is where it was made is in the chunk its index names.
LEMMA AtHome ==
  ASSUME NEW c \in Made, c.part # 0, NEW j \in Nat \ {0}, Home(c) = j, NEW i \in Nat
  PROVE  i * Chunk < j /\ j <= (i + 1) * Chunk <=> c.at = i
<1>1. c.at \in Nat /\ c.at * Chunk < j /\ j <= (c.at + 1) * Chunk
  BY HomeSlot
<1>2. c.at = (j - 1) \div Chunk
  BY <1>1, InSlot
<1>3. i * Chunk < j /\ j <= (i + 1) * Chunk <=> i = (j - 1) \div Chunk
  BY InSlot
<1> QED BY <1>2, <1>3

\* MixIn takes a chunk as a whole, so that the cells of one chunk that are
\* where they were made are all from before or all from the other ciphertext.
LEMMA MixedKeepsOrigins ==
  ASSUME NEW s \in Seq(Cell), Origins(s),
         NEW g \in Seq(Cell), NEW t \in Seq(Cell), Len(t) = Len(s), NEW i \in Nat, NEW b,
         \A j \in 1..Len(s) : g[j] \in Made /\ Near(g[j], j),
         \A j \in 1..Len(s) : g[j].part # 0 => g[j].bind = b,
         \A j \in 1..Len(s) :
           t[j] = IF i * Chunk < j /\ j <= (i + 1) * Chunk THEN g[j] ELSE s[j]
  PROVE  Origins(t)
<1> DEFINE m == Len(s)
           In(j) == i * Chunk < j /\ j <= (i + 1) * Chunk
<1>0. m \in Nat
  BY LenProperties
<1>1. /\ \A j \in 1..m : t[j] = IF In(j) THEN g[j] ELSE s[j]
      /\ \A j \in 1..m : s[j] = Shred \/ (s[j] \in Made /\ Near(s[j], j))
      /\ \A x, j \in 1..m :
           /\ s[x].part # 0 /\ Home(s[x]) = x
           /\ s[j].part # 0 /\ Home(s[j]) = j
           /\ s[x].at = s[j].at
           => s[x].bind = s[j].bind
  BY Zenon DEF Origins
<1>2. /\ \A j \in 1..m : g[j] \in Made /\ Near(g[j], j)
      /\ \A j \in 1..m : g[j].part # 0 => g[j].bind = b
  OBVIOUS
<1>m. m = Len(t)
  OBVIOUS
<1> HIDE DEF m
<1>3. ASSUME NEW j \in 1..m  PROVE t[j] = Shred \/ (t[j] \in Made /\ Near(t[j], j))
  BY <1>1, <1>2, <1>3, Zenon
<1>4. ASSUME NEW j \in 1..m, t[j].part # 0, Home(t[j]) = j  PROVE In(j) <=> t[j].at = i
  <2>1. t[j] \in Made
    <3>1. t[j] # Shred
      BY <1>4 DEF Shred
    <3> QED BY <1>3, <3>1
  <2>2. j \in Nat \ {0}
    BY <1>0
  <2> QED BY <1>4, <2>1, <2>2, AtHome
<1> HIDE DEF In
<1>5. ASSUME NEW x \in 1..m, NEW j \in 1..m, t[x].part # 0, Home(t[x]) = x,
             t[j].part # 0, Home(t[j]) = j, t[x].at = t[j].at
      PROVE  t[x].bind = t[j].bind
  <2>1. In(x) <=> In(j)
    BY <1>4, <1>5, Zenon
  <2>2. CASE In(x)
    <3>1. t[x] = g[x] /\ t[j] = g[j]
      BY <1>1, <2>1, <2>2, Zenon
    <3> QED BY <1>2, <1>5, <3>1, Zenon
  <2>3. CASE ~In(x)
    <3>1. t[x] = s[x] /\ t[j] = s[j]
      BY <1>1, <2>1, <2>3, Zenon
    <3> QED BY <1>1, <1>5, <3>1, Zenon
  <2> QED BY <2>2, <2>3
<1> QED BY <1>m, <1>3, <1>5, Zenon DEF Origins

LEMMA CellsDamaged ==
  ASSUME file \in Content, NEW t, Damage([file EXCEPT !.cells = t]), FileOrigins,
         file.mode = "binary" => Origins(t)
  PROVE  FileOrigins'
<1>1. file' = [file EXCEPT !.cells = t]
  BY DEF Damage
<1>2. file'.mode = file.mode /\ file'.cells = t /\ file'.marker = file.marker
  BY <1>1 DEF Content
<1> QED BY <1>2, Zenon DEF FileOrigins

LEMMA EditKeepsOrigins ==
  ASSUME TypeOK, FileOrigins, Edit
  PROVE  FileOrigins'
<1> DEFINE s == file.cells
<1>0. file \in Content /\ s \in Seq(Cell) /\ Len(s) \in Nat /\ s = file.cells
  <2>1. file \in Content /\ file.cells \in Seq(Cell)
    BY DEF TypeOK, Content
  <2> QED BY <2>1, LenProperties
<1>b. file.mode = "binary" => Origins(s)
  BY DEF FileOrigins
<1> HIDE DEF s
<1>1. CASE Truncate
  <2>1. PICK n \in 0..Len(s) : Damage([file EXCEPT !.cells = SubSeq(s, 1, n)])
    BY <1>0, <1>1 DEF Truncate
  <2> DEFINE t == SubSeq(s, 0 + 1, n)
  <2>2. /\ t \in Seq(Cell) /\ Len(t) = IF 0 < n THEN n - 0 ELSE 0
        /\ \A j \in Nat \ {0} : 0 + j <= n => t[j] = s[0 + j]
    <3>1. 0 \in Nat /\ n \in Nat /\ n <= Len(s)
      BY <1>0
    <3> HIDE DEF t
    <3> QED BY <1>0, <3>1, PieceOf DEF t
  <2>3. Damage([file EXCEPT !.cells = t])
    <3>1. 0 + 1 = 1
      OBVIOUS
    <3> QED BY <2>1, <3>1
  <2> HIDE DEF t
  <2>4. \A j \in 1..Len(t) : t[j] = Shred \/ \E i \in 1..Len(s) : i <= j /\ t[j] = s[i]
    <3> SUFFICES ASSUME NEW j \in 1..Len(t)  PROVE j \in 1..Len(s) /\ j <= j /\ t[j] = s[j]
      OBVIOUS
    <3>1. j \in 1..n /\ 0 + j <= n /\ 0 + j = j /\ j \in Nat \ {0}
      BY <1>0, <2>2
    <3>2. t[j] = s[j]
      BY <2>2, <3>1
    <3> QED BY <1>0, <3>1, <3>2
  <2>5. file.mode = "binary" => Origins(t)
    BY <1>0, <1>b, <2>2, <2>4, LaterKeepsOrigins
  <2> QED BY <1>0, <2>3, <2>5, CellsDamaged
<1>2. CASE Insert
  <2>1. PICK n \in Runs, j \in 0..Len(s),
             junk \in IF file.mode = "text" THEN {Shred, Chaff} ELSE {Shred} :
          Damage([file EXCEPT !.cells =
            SubSeq(s, 1, j) \o [x \in 1..n |-> junk] \o SubSeq(s, j + 1, Len(s))])
    BY <1>0, <1>2 DEF Insert
  <2> DEFINE a == SubSeq(s, 0 + 1, j)
             b == [x \in 1..n |-> junk]
             c == SubSeq(s, j + 1, Len(s))
             t == a \o b \o c
  <2>2. n \in Nat /\ j \in Nat /\ j <= Len(s)
    BY <1>0, <2>1, ParametersAssumption
  <2>3. /\ a \in Seq(Cell) /\ Len(a) = j
        /\ \A x \in Nat \ {0} : x <= j => a[x] = s[x]
    <3>1. /\ a \in Seq(Cell) /\ Len(a) = IF 0 < j THEN j - 0 ELSE 0
          /\ \A x \in Nat \ {0} : 0 + x <= j => a[x] = s[0 + x]
      <4>1. 0 \in Nat
        OBVIOUS
      <4> HIDE DEF a, b, c, t
      <4> QED BY <1>0, <2>2, <4>1, PieceOf DEF a
    <3> HIDE DEF a
    <3> QED BY <2>2, <3>1
  <2>4. b \in Seq(Cell) /\ Len(b) = n /\ \A x \in 1..n : b[x] = junk
    <3>1. b \in [1..n -> Cell] /\ DOMAIN b = 1..n
      BY JunkIsCell
    <3>2. b \in Seq(Cell)
      BY <2>2, <3>1, FunctionIsSeq
    <3>3. Len(b) \in Nat /\ DOMAIN b = 1..Len(b)
      BY <3>2, LenProperties
    <3>4. \A x \in 1..n : b[x] = junk
      OBVIOUS
    <3> HIDE DEF b
    <3>5. Len(b) = n
      BY <2>2, <3>1, <3>3
    <3> QED BY <3>2, <3>4, <3>5
  <2>5. /\ c \in Seq(Cell) /\ Len(c) = Len(s) - j
        /\ \A x \in Nat \ {0} : j + x <= Len(s) => c[x] = s[j + x]
    <3>1. /\ c \in Seq(Cell) /\ Len(c) = IF j < Len(s) THEN Len(s) - j ELSE 0
          /\ \A x \in Nat \ {0} : j + x <= Len(s) => c[x] = s[j + x]
      <4>1. Len(s) \in Nat /\ Len(s) <= Len(s)
        BY <1>0
      <4> HIDE DEF a, b, c, t
      <4> QED BY <1>0, <2>2, <4>1, PieceOf DEF c
    <3> HIDE DEF c
    <3> QED BY <1>0, <2>2, <3>1
  <2>6. Damage([file EXCEPT !.cells = t])
    <3>1. 0 + 1 = 1
      OBVIOUS
    <3> QED BY <2>1, <3>1
  <2>7. /\ t \in Seq(Cell) /\ Len(t) = Len(s) + n
        /\ \A x \in 1..Len(t) : t[x] = IF x <= j THEN a[x]
                                       ELSE IF x <= j + n THEN b[x - j] ELSE c[x - (j + n)]
    <3> DEFINE ab == a \o b
    <3> HIDE DEF a, b, c
    <3>1. /\ ab \in Seq(Cell) /\ Len(ab) = j + n
          /\ \A x \in 1..(j + n) : ab[x] = IF x <= j THEN a[x] ELSE b[x - j]
      <4>1. /\ ab \in Seq(Cell) /\ Len(ab) = Len(a) + Len(b)
            /\ \A x \in 1..(Len(a) + Len(b)) : ab[x] = IF x <= Len(a) THEN a[x] ELSE b[x - Len(a)]
        BY <2>3, <2>4, ConcatProperties
      <4> QED BY <2>3, <2>4, <4>1
    <3> HIDE DEF ab
    <3>2. /\ ab \o c \in Seq(Cell) /\ Len(ab \o c) = Len(ab) + Len(c)
          /\ \A x \in 1..(Len(ab) + Len(c)) :
               (ab \o c)[x] = IF x <= Len(ab) THEN ab[x] ELSE c[x - Len(ab)]
      BY <2>5, <3>1, ConcatProperties
    <3>3. t = ab \o c
      BY DEF ab
    <3> HIDE DEF t
    <3>4. t \in Seq(Cell) /\ Len(t) = Len(s) + n
      <4> DEFINE x == Len(ab)  y == Len(c)  z == Len(ab \o c)  l == Len(s)
      <4>1. x = j + n /\ y = l - j /\ z = x + y /\ l \in Nat /\ j \in Nat /\ n \in Nat
        BY <1>0, <2>2, <2>5, <3>1, <3>2
      <4> HIDE DEF x, y, z, l
      <4>2. z = l + n
        BY <4>1
      <4> QED BY <3>2, <3>3, <4>2, Zenon DEF z, l
    <3>5. ASSUME NEW x \in 1..Len(t)
          PROVE  t[x] = IF x <= j THEN a[x]
                        ELSE IF x <= j + n THEN b[x - j] ELSE c[x - (j + n)]
      <4>1. Len(ab) = j + n /\ Len(ab) + Len(c) = Len(t) /\ Len(t) \in Nat
        BY <1>0, <2>2, <2>5, <3>1, <3>4
      <4>2. t[x] = IF x <= j + n THEN ab[x] ELSE c[x - (j + n)]
        BY <3>2, <3>3, <4>1
      <4>3. x <= j + n => x \in 1..(j + n)
        BY <2>2, <4>1
      <4> QED BY <2>2, <3>1, <4>1, <4>2, <4>3
    <3> QED BY <3>4, <3>5
  <2> HIDE DEF a, b, c, t
  <2>8. ASSUME file.mode = "binary"  PROVE Origins(t)
    <3>1. junk = Shred
      BY <2>1, <2>8
    <3>2. ASSUME NEW x \in 1..Len(t)
          PROVE  t[x] = Shred \/ \E i \in 1..Len(s) : i <= x /\ t[x] = s[i]
      <4>0. x \in Nat \ {0} /\ x <= Len(s) + n
        BY <1>0, <2>2, <2>7
      <4>1. CASE x <= j
        <5>1. t[x] = s[x] /\ x \in 1..Len(s) /\ x <= x
          BY <1>0, <2>2, <2>3, <2>7, <4>0, <4>1
        <5> QED BY <5>1
      <4>2. CASE ~(x <= j) /\ x <= j + n
        <5>1. x - j \in 1..n
          BY <2>2, <4>0, <4>2
        <5>2. t[x] = b[x - j]
          BY <2>7, <4>2
        <5> QED BY <2>4, <3>1, <5>1, <5>2
      <4>3. CASE ~(x <= j) /\ ~(x <= j + n)
        <5>1. /\ x - (j + n) \in Nat \ {0} /\ j + (x - (j + n)) = x - n
              /\ x - n \in 1..Len(s) /\ x - n <= x
          BY <1>0, <2>2, <4>0, <4>3
        <5>2. t[x] = c[x - (j + n)]
          BY <2>7, <4>3
        <5>3. c[x - (j + n)] = s[j + (x - (j + n))]
          <6>1. j + (x - (j + n)) <= Len(s)
            BY <1>0, <5>1
          <6> QED BY <2>5, <5>1, <6>1
        <5>4. t[x] = s[x - n]
          BY <5>1, <5>2, <5>3
        <5> QED BY <5>1, <5>4
      <4> QED BY <4>1, <4>2, <4>3
    <3> QED BY <1>0, <1>b, <2>7, <2>8, <3>2, LaterKeepsOrigins
  <2> QED BY <1>0, <2>6, <2>8, CellsDamaged
<1>3. CASE Destroy
  <2>1. PICK j \in 1..Len(s) : Damage([file EXCEPT !.cells[j] = Shred])
    BY <1>0, <1>3 DEF Destroy
  <2> DEFINE t == [s EXCEPT ![j] = Shred]
  <2>2. [file EXCEPT !.cells[j] = Shred] = [file EXCEPT !.cells = t]
    BY <1>0
  <2>3. /\ t \in Seq(Cell) /\ Len(t) = Len(s)
        /\ \A x \in 1..Len(s) : t[x] = IF x = j THEN Shred ELSE s[x]
    BY <1>0, JunkIsCell, ExceptSeq
  <2> HIDE DEF t
  <2>4. \A x \in 1..Len(t) : t[x] = Shred \/ \E i \in 1..Len(s) : i <= x /\ t[x] = s[i]
    <3>1. ASSUME NEW x \in 1..Len(t)
          PROVE  t[x] = Shred \/ \E i \in 1..Len(s) : i <= x /\ t[x] = s[i]
      <4>1. x \in 1..Len(s) /\ x <= x
        BY <1>0, <2>3
      <4> QED BY <2>3, <4>1
    <3> QED BY <3>1
  <2>5. file.mode = "binary" => Origins(t)
    BY <1>0, <1>b, <2>3, <2>4, LaterKeepsOrigins
  <2> QED BY <1>0, <2>1, <2>2, <2>5, CellsDamaged
<1>4. CASE SpoilHeader
  <2>1. CASE Damage([file EXCEPT !.head = "damaged", !.marker = 0])
    <3>1. file'.mode = file.mode /\ file'.cells = file.cells /\ file'.marker = 0
      BY <1>0, <2>1 DEF Damage, Content
    <3> QED BY <3>1, Zenon DEF FileOrigins
  <2>2. CASE Damage([file EXCEPT !.magic = ~@])
    <3>1. file'.mode = file.mode /\ file'.cells = file.cells /\ file'.marker = file.marker
      BY <1>0, <2>2 DEF Damage, Content
    <3> QED BY <3>1, Zenon DEF FileOrigins
  <2> QED BY <1>4, <2>1, <2>2 DEF SpoilHeader
<1>5. CASE MixIn
  <2>1. PICK g \in Ciphertexts(1..(Keys + 1)), i \in 0..Len(s) :
          LET size == IF file.mode = "text" THEN 1 ELSE Chunk IN
          /\ g.mode = file.mode
          /\ Len(g.cells) = Len(s)
          /\ Damage([file EXCEPT !.cells =
               [j \in 1..Len(s) |->
                  IF i * size < j /\ j <= (i + 1) * size THEN g.cells[j] ELSE s[j]]])
    BY <1>0, <1>5 DEF MixIn
  <2> DEFINE size == IF file.mode = "text" THEN 1 ELSE Chunk
             t == [j \in 1..Len(s) |->
                         IF i * size < j /\ j <= (i + 1) * size THEN g.cells[j] ELSE s[j]]
  <2>2. g.mode = file.mode /\ Len(g.cells) = Len(s) /\ Damage([file EXCEPT !.cells = t])
    BY <2>1
  <2>3. ASSUME file.mode = "binary"  PROVE Origins(t)
    <3>1. size = Chunk
      BY <2>3
    <3>2. PICK k \in 1..(Keys + 1), n \in Fit, v \in Versions :
            g = BinaryCiphertext(k, n, v)
      <4>1. g.mode = "binary"
        BY <2>2, <2>3
      <4>2. \A k, n : TextCiphertext(k, n).mode = "text"
        BY DEF TextCiphertext
      <4> QED BY <4>1, <4>2 DEF Ciphertexts, Fit
    <3>3. g.cells \in Seq(Cell)
      BY CiphertextsType DEF Content
    <3>0. t \in Seq(Cell) /\ Len(t) = Len(s)
      <4>1. \A j \in 1..Len(s) : g.cells[j] \in Cell /\ s[j] \in Cell
        BY <1>0, <2>2, <3>3, ElementOfSeq
      <4>2. t \in [1..Len(s) -> Cell]
        BY <4>1
      <4>3. t \in Seq(Cell)
        BY <1>0, <4>2, FunctionIsSeq
      <4>4. DOMAIN t = 1..Len(s) /\ Len(t) \in Nat /\ DOMAIN t = 1..Len(t)
        BY <4>2, <4>3, LenProperties
      <4> HIDE DEF t
      <4> QED BY <1>0, <4>3, <4>4
    <3>4. \A j \in 1..Len(s) :
            t[j] = IF i * Chunk < j /\ j <= (i + 1) * Chunk THEN g.cells[j] ELSE s[j]
      BY <3>1
    <3> HIDE DEF t, size
    <3> DEFINE h == g.cells
    <3>5. /\ h \in Seq(Cell) /\ h = BinaryCiphertext(k, n, v).cells
          /\ Len(h) = Len(s) /\ i \in Nat
      BY <1>0, <2>2, <3>2, <3>3
    <3>6. \A j \in 1..Len(s) :
            t[j] = IF i * Chunk < j /\ j <= (i + 1) * Chunk THEN h[j] ELSE s[j]
      BY <3>4
    <3>7. /\ \A j \in 1..Len(s) : h[j] \in Made /\ Near(h[j], j)
          /\ \A j \in 1..Len(s) : h[j].part # 0 => h[j].bind = <<v>>
      <4>1. /\ \A j \in 1..Len(h) : h[j] \in Made /\ Near(h[j], j)
            /\ \A j \in 1..Len(h) : h[j].part # 0 => h[j].bind = <<v>>
        <5> DEFINE B == BinaryCiphertext(k, n, v).cells
        <5>1. h = B
          BY <3>5
        <5>2. /\ \A j \in 1..Len(B) : B[j] \in Made /\ Near(B[j], j)
              /\ \A j \in 1..Len(B) : B[j].part # 0 => B[j].bind = <<v>>
          BY BinaryOrigins, Zenon
        <5> HIDE DEF B
        <5> QED BY <5>1, <5>2, Zenon
      <4> QED BY <3>5, <4>1, Zenon
    <3> DEFINE b == <<v>>
    <3>8. /\ \A j \in 1..Len(s) : h[j] \in Made /\ Near(h[j], j)
          /\ \A j \in 1..Len(s) : h[j].part # 0 => h[j].bind = b
      BY <3>7
    <3>9. Origins(s) /\ s \in Seq(Cell) /\ t \in Seq(Cell) /\ Len(t) = Len(s)
          /\ h \in Seq(Cell) /\ i \in Nat
      BY <1>0, <1>b, <2>3, <3>0, <3>5
    <3> HIDE DEF b
    <3> HIDE DEF h
    <3> QED BY <3>6, <3>8, <3>9, MixedKeepsOrigins
  <2> HIDE DEF t
  <2> QED BY <1>0, <2>2, <2>3, CellsDamaged
<1> QED BY <1>1, <1>2, <1>3, <1>4, <1>5 DEF Edit

LEMMA InitOrigins == Init => FileOrigins
<1> SUFFICES ASSUME Init, file.mode = "binary"  PROVE Origins(file.cells) /\ file.marker = 0
  BY DEF FileOrigins
<1>1. PICK k \in 1..(Keys + 1), n \in Fit, v \in Versions : file = BinaryCiphertext(k, n, v)
  <2>1. \A k, n : TextCiphertext(k, n).mode = "text"
    BY DEF TextCiphertext
  <2> QED BY <2>1 DEF Init, Ciphertexts, Fit
<1>2. file.marker = 0
  BY <1>1 DEF BinaryCiphertext
<1>3. Origins(file.cells)
  BY <1>1, BinaryOrigins, Zenon
<1> QED BY <1>2, <1>3

\* The cells of a body all of whose chunks decrypt.
BodyOpens(s, k, n, f) ==
  /\ s \in Seq(Cell) /\ k \in Nat /\ n \in Nat /\ n >= 1 /\ Len(s) = n + 1
  /\ f \in Nat /\ f = Final(s)
  /\ \A i \in 0..f : i < f => Opens(k, i, FALSE, Slot(s, i))
  /\ Opens(k, f, TRUE, LastChunk(s))

LEMMA DecryptedBody ==
  ASSUME NEW s, NEW k, NEW n, NEW f, BodyOpens(s, k, n, f), NEW j \in 1..n, NEW i \in Nat, i * Chunk < j, j <= (i + 1) * Chunk
  PROVE  /\ f * Chunk < n /\ n <= (f + 1) * Chunk
         /\ i <= f
         /\ s[j].key = k /\ s[j].at = i /\ s[j].part = j - i * Chunk
         /\ s[j].last = (i = f)
         /\ s[j].len = IF i = f THEN n - f * Chunk ELSE Chunk
         /\ Home(s[j]) = j
<1> DEFINE a == i * Chunk  e == f * Chunk
<1>0. Chunk \in Nat \ {0}
  BY ChunkPositive
<1>b. /\ s \in Seq(Cell) /\ k \in Nat /\ n \in Nat /\ n >= 1 /\ Len(s) = n + 1
      /\ f \in Nat /\ f = Final(s)
      /\ \A x \in 0..f : x < f => Opens(k, x, FALSE, Slot(s, x))
      /\ Opens(k, f, TRUE, LastChunk(s))
  BY Zenon DEF BodyOpens
<1>1. BodyLen(s) = n
  BY <1>b DEF BodyLen, TagLen
<1>2. /\ e < n /\ n <= (f + 1) * Chunk
  <2>1. Len(s) >= 2
    BY <1>b
  <2> QED BY <1>b, <1>1, <2>1, FinalFacts
<1>3. /\ a \in Nat /\ e \in Nat /\ (i + 1) * Chunk = a + Chunk /\ (f + 1) * Chunk = e + Chunk
  BY <1>b, <1>0
<1>4. i <= f
  <2> SUFFICES ASSUME f < i  PROVE FALSE
    BY <1>b
  <2>1. (f + 1) * Chunk <= i * Chunk
    BY <1>b, <1>0, MultiplesOrdered
  <2> QED BY <1>b, <1>0, <1>2, <1>3, <2>1
<1>5. a < j /\ j <= a + Chunk
  BY <1>b, <1>3
<1>6. CASE i < f
  <2>1. a + Chunk <= e
    <3>1. (i + 1) * Chunk <= f * Chunk
      BY <1>b, <1>0, <1>6, MultiplesOrdered
    <3> QED BY <1>b, <1>3, <3>1
  <2> DEFINE u == SubSeq(s, a + 1, a + Chunk)
  <2>2. u = Slot(s, i)
    BY <1>b, <1>3 DEF Slot
  <2>3. Opens(k, i, FALSE, u)
    <3>1. i \in 0..f
      BY <1>b, <1>6
    <3> HIDE DEF u
    <3> QED BY <1>b, <1>6, <2>2, <3>1, Zenon
  <2> HIDE DEF a, e
  <2>4. Len(u) = Chunk /\ u[j - a] = s[j] /\ j - a \in 1..Chunk
    <3>1. a + Chunk \in Nat /\ a + Chunk <= Len(s) /\ a < a + Chunk
      BY <1>b, <1>0, <1>2, <1>3, <2>1
    <3>2. /\ Len(u) = IF a < a + Chunk THEN (a + Chunk) - a ELSE 0
          /\ \A x \in Nat \ {0} : a + x <= a + Chunk => u[x] = s[a + x]
      BY <1>b, <1>3, <3>1, PieceOf
    <3>3. j - a \in Nat \ {0} /\ a + (j - a) = j /\ a + (j - a) <= a + Chunk
      BY <1>b, <1>0, <1>3, <1>5
    <3> HIDE DEF u
    <3>4. u[j - a] = s[j]
      BY <1>b, <3>2, <3>3
    <3>5. (a + Chunk) - a = Chunk /\ j - a \in 1..Chunk
      BY <1>b, <1>0, <1>3, <1>5
    <3> QED BY <1>b, <3>1, <3>2, <3>4, <3>5
  <2> HIDE DEF u
  <2>5. /\ s[j].key = k /\ s[j].at = i /\ s[j].last = FALSE /\ s[j].len = Chunk
        /\ s[j].part = j - a
    <3>1. \A p \in 1..Len(u) :
            /\ u[p].key = k /\ u[p].at = i /\ u[p].last = FALSE
            /\ u[p].len = Len(u) /\ u[p].part = p
      BY <1>b, <2>3, Zenon DEF Opens
    <3>2. j - a \in 1..Len(u)
      BY <1>b, <2>4
    <3> DEFINE p == j - a
    <3>3. u[p] = s[j] /\ p \in 1..Len(u)
      BY <1>b, <2>4, <3>2
    <3> HIDE DEF p
    <3>4. /\ u[p].key = k /\ u[p].at = i /\ u[p].last = FALSE
          /\ u[p].len = Len(u) /\ u[p].part = p
      BY <1>b, <3>1, <3>3, Zenon
    <3>5. Len(u) = Chunk
      BY <1>b, <2>4
    <3> QED BY <1>b, <3>3, <3>4, <3>5, Zenon DEF p
  <2>6. a + (j - a) = j
    BY <1>b, <1>3
  <2>7. Home(s[j]) = j
    BY <1>b, <2>5, <2>6 DEF Home, a
  <2>8. i # f
    BY <1>b, <1>6
  <2>9. s[j].last = (i = f)
    BY <1>b, <2>5, <2>8, Zenon
  <2> QED BY <1>b, <1>2, <1>4, <2>5, <2>7, <2>8, <2>9, Zenon DEF a, e
<1>7. CASE i = f
  <2> DEFINE u == SubSeq(s, e + 1, n)
  <2>2. u = LastChunk(s)
    BY <1>b, <1>1 DEF LastChunk
  <2>3. Opens(k, f, TRUE, u)
    <3> HIDE DEF u
    <3> QED BY <1>b, <2>2, Zenon
  <2>a. a = e
    BY <1>b, <1>7
  <2> HIDE DEF a, e
  <2>4. Len(u) = n - e /\ u[j - a] = s[j] /\ j - a \in 1..(n - e)
    <3>1. n <= Len(s)
      BY <1>b
    <3>2. /\ Len(u) = IF e < n THEN n - e ELSE 0
          /\ \A x \in Nat \ {0} : e + x <= n => u[x] = s[e + x]
      BY <1>b, <1>3, <3>1, PieceOf
    <3>3. j - a \in Nat \ {0} /\ e + (j - a) = j /\ e + (j - a) <= n
      BY <1>b, <1>0, <1>3, <1>5, <2>a
    <3> HIDE DEF u
    <3>4. u[j - a] = s[j]
      BY <1>b, <3>2, <3>3
    <3>5. j - a \in 1..(n - e)
      BY <1>b, <1>0, <1>3, <1>5, <2>a
    <3> QED BY <1>b, <1>2, <3>2, <3>4, <3>5
  <2> HIDE DEF u
  <2>5. /\ s[j].key = k /\ s[j].at = f /\ s[j].last = TRUE /\ s[j].len = n - e
        /\ s[j].part = j - a
    <3>1. \A p \in 1..Len(u) :
            /\ u[p].key = k /\ u[p].at = f /\ u[p].last = TRUE
            /\ u[p].len = Len(u) /\ u[p].part = p
      BY <1>b, <2>3, Zenon DEF Opens
    <3>2. j - a \in 1..Len(u)
      BY <1>b, <2>4
    <3> DEFINE p == j - a
    <3>3. u[p] = s[j] /\ p \in 1..Len(u)
      BY <1>b, <2>4, <3>2
    <3> HIDE DEF p
    <3>4. /\ u[p].key = k /\ u[p].at = f /\ u[p].last = TRUE
          /\ u[p].len = Len(u) /\ u[p].part = p
      BY <1>b, <3>1, <3>3, Zenon
    <3>5. Len(u) = n - e
      BY <1>b, <2>4
    <3> QED BY <1>b, <3>3, <3>4, <3>5, Zenon DEF p
  <2>6. a + (j - a) = j
    BY <1>b, <1>3
  <2>7. Home(s[j]) = j
    BY <1>b, <1>7, <2>5, <2>6 DEF Home, a
  <2>9. s[j].last = (i = f)
    BY <1>b, <1>7, <2>5, Zenon
  <2> QED BY <1>b, <1>2, <1>4, <1>7, <2>5, <2>7, <2>9, Zenon DEF a, e
<1> QED BY <1>b, <1>4, <1>6, <1>7

LEMMA SameUnit ==
  ASSUME NEW c \in Cell, NEW k, NEW i, NEW b \in BOOLEAN, NEW n, NEW p, NEW v,
         c.key = k, c.at = i, c.last = b, c.len = n, c.part = p, c.bind = <<v>>
  PROVE  c = UnitCell(k, i, b, n, p, v)
BY DEF Cell, UnitCell

\* What decrypts as a whole is a ciphertext as `encrypt' wrote it.
LEMMA AcceptedIsWhole ==
  ASSUME NEW g \in Content, g.mode = "binary", g.magic, g.marker = 0, Origins(g.cells),
         NEW k \in Ring, BinaryDecrypts(g, k)
  PROVE  g \in Ciphertexts({k})
<1> DEFINE s == g.cells
           f == Final(s)
           n == Len(s) - 1
           sivs == [i \in 1..(f + 1) |-> s[(i - 1) * Chunk + 1].bind[1]]
<1>0. Chunk \in Nat \ {0} /\ Chunk > 1 /\ k \in Nat /\ k # 0
  BY ChunkPositive, ParametersAssumption DEF Ring
<1>1. /\ g.head = "v1"
      /\ HasLayout(s)
      /\ \A i \in 0..f : i < f => Opens(k, i, FALSE, Slot(s, i))
      /\ Opens(k, f, TRUE, LastChunk(s))
      /\ s[Len(s)] = FileTag(k, sivs)
  BY Zenon DEF BinaryDecrypts
<1>2. s \in Seq(Cell) /\ Len(s) \in Nat /\ Len(s) >= 2
  <2>1. s \in Seq(Cell)
    BY DEF Content
  <2> QED BY <1>1, <2>1, LenProperties DEF HasLayout, Siv, TagLen
<1>o. Origins(s)
  OBVIOUS
<1>f. f \in Nat /\ f = Final(s)
  BY <1>2, FinalFacts
<1>t. sivs = [i \in 1..(f + 1) |-> s[(i - 1) * Chunk + 1].bind[1]]
  OBVIOUS
<1>g. g.cells = s
  OBVIOUS
<1> HIDE DEF s, f, sivs
<1>3. n \in Nat /\ n >= 1 /\ Len(s) = n + 1
  BY <1>2
<1> HIDE DEF n
<1>4. ASSUME NEW j \in 1..n, NEW i \in Nat, i * Chunk < j, j <= (i + 1) * Chunk
      PROVE  /\ f * Chunk < n /\ n <= (f + 1) * Chunk
             /\ i <= f
             /\ s[j].key = k /\ s[j].at = i /\ s[j].part = j - i * Chunk
             /\ s[j].last = (i = f)
             /\ s[j].len = IF i = f THEN n - f * Chunk ELSE Chunk
             /\ Home(s[j]) = j
  <2>1. BodyOpens(s, k, n, f)
    BY <1>0, <1>1, <1>2, <1>3, <1>f, Zenon DEF BodyOpens
  <2> QED BY <1>4, <2>1, DecryptedBody
\* The chunk of a cell.
<1>5. ASSUME NEW j \in 1..n
      PROVE  \E i \in Nat : i * Chunk < j /\ j <= (i + 1) * Chunk
  <2> DEFINE i == (j - 1) \div Chunk
  <2>1. j - 1 \in Nat /\ j \in Nat \ {0}
    OBVIOUS
  <2>2. i \in Nat
    BY <1>0, <2>1, DivFacts
  <2> HIDE DEF i
  <2>3. i = (j - 1) \div Chunk
    BY DEF i
  <2> QED BY <2>1, <2>2, <2>3, InSlot
<1>6. ASSUME NEW j \in 1..Len(s), s[j].key # 0  PROVE s[j] \in Made
  <2>1. s[j] # Shred
    BY <1>6, TagFields, Zenon
  <2> QED BY <1>o, <2>1, Zenon DEF Origins
\* A cell of the body is a part of a chunk.
<1>7. ASSUME NEW j \in 1..n
      PROVE  \E x \in 1..(Keys + 1), m \in Fit, w \in Versions : PartOf(s[j], x, m, w)
  <2>1. PICK i \in Nat : i * Chunk < j /\ j <= (i + 1) * Chunk
    BY <1>5
  <2>2. s[j].key = k /\ s[j].part = j - i * Chunk
    BY <1>4, <2>1
  <2>3. s[j].part # 0
    <3> DEFINE a == i * Chunk
    <3>1. a \in Nat /\ a < j /\ s[j].part = j - a
      BY <1>0, <2>1, <2>2
    <3> HIDE DEF a
    <3>2. j - a # 0
      BY <3>1
    <3> QED BY <3>1, <3>2
  <2>4. s[j] \in Made
    <3>1. j \in 1..Len(s)
      BY <1>3
    <3> QED BY <1>0, <1>6, <2>2, <3>1
  <2>5. PICK x \in 1..(Keys + 1), m \in Fit, w \in Versions :
          TagOf(s[j], x, m, w) \/ PartOf(s[j], x, m, w)
    BY <2>4, MadeParts
  <2>6. ~TagOf(s[j], x, m, w)
    BY <2>3, TagIsNoPart
  <2> QED BY <2>5, <2>6
\* The file tag names one plaintext.
<1>8. PICK v \in Versions : \A i \in 1..(f + 1) : sivs[i] = v
  <2> DEFINE c == s[Len(s)]
  <2>1. c = FileTag(k, sivs)
    BY <1>1
  <2>2. c.key = k /\ c.bind = sivs /\ c.part = 0
    <3> HIDE DEF c
    <3> QED BY <2>1 DEF FileTag, Shred
  <2>3. c \in Made
    <3>1. Len(s) \in 1..Len(s)
      BY <1>2
    <3> QED BY <1>0, <1>6, <2>2, <3>1
  <2> HIDE DEF c
  <2>4. PICK x \in 1..(Keys + 1), m \in Fit, w \in Versions :
          TagOf(c, x, m, w) \/ PartOf(c, x, m, w)
    BY <2>3, MadeParts
  <2>5. ~PartOf(c, x, m, w)
    <3>1. ~(0 \in 1..Chunk)
      BY <1>0
    <3> QED BY <2>2, <3>1, Zenon DEF PartOf
  <2> DEFINE ws == [i \in 1..(LastAt(m) + 1) |-> w]
  <2>6. c = FileTag(x, ws)
    BY <2>4, <2>5, Zenon DEF TagOf
  <2>7. sivs = ws
    <3> HIDE DEF ws
    <3>1. c.bind = ws
      BY <2>6, TagFields, Zenon
    <3> QED BY <2>2, <3>1
  <2>8. \A i \in 1..(f + 1) : sivs[i] = w
    <3>1. DOMAIN sivs = 1..(f + 1)
      BY <1>t
    <3>2. \A i \in DOMAIN ws : ws[i] = w
      OBVIOUS
    <3> HIDE DEF ws
    <3> QED BY <2>7, <3>1, <3>2
  <2> QED BY <2>8
\* So does every cell.
<1>9. ASSUME NEW j \in 1..n  PROVE s[j].bind = <<v>>
  <2>1. PICK i \in Nat : i * Chunk < j /\ j <= (i + 1) * Chunk
    BY <1>5
  <2> DEFINE a == i * Chunk
  <2>2. a \in Nat /\ a < j /\ (i + 1) * Chunk = a + Chunk
    BY <1>0, <2>1
  <2>3. a < a + 1 /\ a + 1 <= (i + 1) * Chunk /\ a + 1 \in 1..n
    <3> HIDE DEF a
    <3> QED BY <1>0, <1>3, <2>2
  <2>4. i <= f /\ s[j].at = i /\ Home(s[j]) = j /\ s[j].part = j - a
    BY <1>4, <2>1
  <2>5. s[a + 1].at = i /\ Home(s[a + 1]) = a + 1 /\ s[a + 1].part = (a + 1) - a
    BY <1>4, <2>3
  <2>6. s[j].bind = s[a + 1].bind
    <3> HIDE DEF a
    <3>1. s[j].part # 0 /\ s[a + 1].part # 0
      BY <2>2, <2>4, <2>5
    <3>2. j \in 1..Len(s) /\ a + 1 \in 1..Len(s)
      BY <1>3, <2>3
    <3>3. \A x \in 1..Len(s) : s[x].part # 0 /\ Home(s[x]) = x /\ s[x].at = s[j].at
                                => s[j].bind = s[x].bind
      BY <1>o, <2>4, <3>1, <3>2, Zenon DEF Origins
    <3>4. s[a + 1].at = s[j].at
      BY <2>4, <2>5, Zenon
    <3> QED BY <2>5, <3>1, <3>2, <3>3, <3>4, Zenon
  <2>7. sivs[i + 1] = s[a + 1].bind[1] /\ sivs[i + 1] = v
    <3>1. i + 1 \in 1..(f + 1) /\ (i + 1) - 1 = i
      BY <1>f, <2>4
    <3> QED BY <1>8, <1>t, <3>1
  <2>8. s[a + 1].bind = <<v>>
    <3> HIDE DEF a
    <3>1. PICK x \in 1..(Keys + 1), m \in Fit, w \in Versions : PartOf(s[a + 1], x, m, w)
      BY <1>7, <2>3
    <3>2. s[a + 1].bind = <<w>>
      BY <3>1, Zenon DEF PartOf
    <3>3. <<w>>[1] = w
      OBVIOUS
    <3> QED BY <2>7, <3>2, <3>3, Zenon
  <2> QED BY <2>6, <2>8, Zenon
<1>10. n \in 1..n
  BY <1>3
<1>11. f * Chunk < n /\ n <= (f + 1) * Chunk /\ f = LastAt(n)
  <2>1. PICK i \in Nat : i * Chunk < n /\ n <= (i + 1) * Chunk
    BY <1>5, <1>10
  <2>2. f * Chunk < n /\ n <= (f + 1) * Chunk
    BY <1>4, <1>10, <2>1
  <2>3. f = (n - 1) \div Chunk
    <3>1. n \in Nat \ {0}
      BY <1>3
    <3> QED BY <1>f, <2>2, <3>1, InSlot
  <2> QED BY <2>2, <2>3 DEF LastAt
\* The length is one that `encrypt' writes: the last cell tells it.
<1>12. n \in Fit
  <2>1. s[n].at = f /\ s[n].last = (f = f) /\ s[n].len = n - f * Chunk
    <3>1. /\ s[n].at = f /\ s[n].last = (f = f)
          /\ s[n].len = IF f = f THEN n - f * Chunk ELSE Chunk
      BY <1>4, <1>10, <1>11, <1>f
    <3> QED BY <3>1
  <2>2. PICK x \in 1..(Keys + 1), m \in Fit, w \in Versions : PartOf(s[n], x, m, w)
    BY <1>7, <1>10
  <2>3. s[n].last
    BY <2>1, Zenon
  <2>4. s[n].at = LastAt(m)
    BY <2>2, <2>3, Zenon DEF PartOf
  <2>5. s[n].len = m - LastAt(m) * Chunk
    BY <2>2, <2>4, Zenon DEF PartOf
  <2> DEFINE e == f * Chunk
  <2>6. e \in Nat /\ n - e = m - e /\ m \in Nat
    <3>1. LastAt(m) = f
      BY <2>1, <2>4
    <3>2. m \in Nat
      BY FitNat
    <3> QED BY <1>0, <1>f, <2>1, <2>5, <3>1, <3>2
  <2> HIDE DEF e
  <2>7. n = m
    BY <1>3, <2>6
  <2> QED BY <2>7
<1>13. BinaryCiphertext(k, n, v).cells = s
  <2> DEFINE t == BinaryCiphertext(k, n, v).cells
             h == LastAt(n)
  <2>0. t = BinaryCiphertext(k, n, v).cells /\ h = LastAt(n) /\ h = f
    BY <1>11
  <2> HIDE DEF t, h
  <2>v. v \in Nat /\ n \in Nat \ {0}
    BY <1>3, FitNat
  <2>w. /\ k \in Nat /\ n \in Nat \ {0} /\ v \in Nat
        /\ t = BinaryCiphertext(k, n, v).cells /\ h = LastAt(n)
    BY <1>0, <2>0, <2>v
  <2>1. /\ t \in Seq(Cell) /\ Len(t) = n + 1
        /\ t[n + 1] = FileTag(k, [i \in 1..(h + 1) |-> v])
        /\ \A j \in 1..n : \A i \in Nat :
             i * Chunk < j /\ j <= (i + 1) * Chunk =>
               /\ i <= h
               /\ t[j] = UnitCell(k, i, i = h, IF i = h THEN n - h * Chunk ELSE Chunk,
                                  j - i * Chunk, v)
    <3>1. BinaryShape(t, k, n, v, h)
      BY <2>w, BinaryCells, Zenon
    <3> QED BY <3>1, Zenon DEF BinaryShape
  <2>2. s[n + 1] = t[n + 1]
    <3>1. sivs = [i \in 1..(h + 1) |-> v]
      BY <1>8, <1>t, <2>0
    <3>2. s[n + 1] = FileTag(k, sivs)
      BY <1>1, <1>3
    <3> QED BY <2>1, <3>1, <3>2, Zenon
  <2>3. ASSUME NEW j \in 1..n  PROVE s[j] = t[j]
    <3>1. PICK i \in Nat : i * Chunk < j /\ j <= (i + 1) * Chunk
      BY <1>5
    <3> DEFINE b == i = f
               m == IF i = f THEN n - f * Chunk ELSE Chunk
               p == j - i * Chunk
    <3>2. t[j] = UnitCell(k, i, b, m, p, v)
      BY <2>0, <2>1, <3>1, Zenon
    <3>3. /\ s[j].key = k /\ s[j].at = i /\ s[j].part = p
          /\ s[j].last = b
          /\ s[j].len = m
      BY <1>4, <3>1
    <3>4. s[j] \in Cell /\ b \in BOOLEAN
      BY <1>2, <1>3, ElementOfSeq
    <3> HIDE DEF b, m, p
    <3>5. s[j] = UnitCell(k, i, b, m, p, v)
      BY <1>9, <3>3, <3>4, SameUnit
    <3> QED BY <3>2, <3>5, Zenon
  <2>4. \A j \in 1..Len(s) : s[j] = t[j]
    <3>1. \A j \in 1..Len(s) : j \in 1..n \/ j = n + 1
      BY <1>3
    <3> QED BY <2>2, <2>3, <3>1, Zenon
  <2>5. s = t
    BY <1>2, <1>3, <2>1, <2>4, SeqEqual
  <2> QED BY <2>5 DEF t
<1>14. g = BinaryCiphertext(k, n, v)
  <2> DEFINE B == BinaryCiphertext(k, n, v)
  <2>1. /\ B.mode = "binary" /\ B.magic = TRUE /\ B.head = "v1" /\ B.marker = 0
        /\ B = [mode |-> B.mode, magic |-> B.magic, head |-> B.head,
                marker |-> B.marker, cells |-> B.cells]
    BY DEF BinaryCiphertext
  <2>2. g.magic = TRUE
    BY DEF Content
  <2>3. g = [mode |-> g.mode, magic |-> g.magic, head |-> g.head,
             marker |-> g.marker, cells |-> g.cells]
    BY DEF Content
  <2>4. B.cells = g.cells
    BY <1>13, <1>g
  <2> HIDE DEF B
  <2>5. g = B
    BY <1>1, <2>1, <2>2, <2>3, <2>4
  <2> QED BY <2>5 DEF B
<1>15. g \in {BinaryCiphertext(x, m, w) : x \in {k}, w \in Versions, m \in Fit}
  BY <1>12, <1>14
<1> QED BY <1>15 DEF Ciphertexts, Fit

LEMMA ModFacts ==
  ASSUME NEW n \in Nat, NEW c \in Nat \ {0}, n = (n \div c) * c
  PROVE  n % c = 0
OBVIOUS

\* Every chunk of a ciphertext decrypts, and its layout is as it was made.
WholeCells(s, k, n, v) ==
  /\ Len(s) = n + 1
  /\ Final(s) \in Nat
  /\ HasLayout(s)
  /\ \A i \in 0..Final(s) : i < Final(s) => Opens(k, i, FALSE, Slot(s, i))
  /\ Opens(k, Final(s), TRUE, LastChunk(s))
  /\ s[n + 1] = FileTag(k, [i \in 1..(Final(s) + 1) |-> v])
  /\ \A i \in 0..Final(s) : s[i * Chunk + 1].bind = <<v>>

LEMMA WholeBody ==
  ASSUME NEW k \in Nat, NEW n \in Nat \ {0}, n \in Fit, NEW v \in Nat
  PROVE  WholeCells(BinaryCiphertext(k, n, v).cells, k, n, v)
<1> DEFINE s == BinaryCiphertext(k, n, v).cells
           f == LastAt(n)  e == f * Chunk
<1>0. /\ Chunk \in Nat \ {0} /\ Chunk > 1
      /\ k \in Nat /\ n \in Nat \ {0} /\ v \in Nat /\ s = BinaryCiphertext(k, n, v).cells
      /\ f = LastAt(n)
  BY ChunkPositive, FitNat, ParametersAssumption DEF Ring
<1>f. f = (n - 1) \div Chunk
  BY Zenon DEF LastAt
<1> HIDE DEF f, s
<1>1. /\ s \in Seq(Cell) /\ Len(s) = n + 1 /\ f \in Nat
      /\ f * Chunk < n /\ n <= (f + 1) * Chunk
      /\ s[n + 1] = FileTag(k, [i \in 1..(f + 1) |-> v])
      /\ \A j \in 1..n : \A i \in Nat :
           i * Chunk < j /\ j <= (i + 1) * Chunk =>
             /\ i <= f
             /\ s[j] = UnitCell(k, i, i = f, IF i = f THEN n - f * Chunk ELSE Chunk,
                                j - i * Chunk, v)
  <2>1. /\ k \in Nat /\ n \in Nat \ {0} /\ v \in Nat
        /\ s = BinaryCiphertext(k, n, v).cells /\ f = LastAt(n)
    BY <1>0
  <2>2. BinaryShape(s, k, n, v, f)
    BY <2>1, BinaryCells, Zenon
  <2> QED BY <2>2, Zenon DEF BinaryShape
<1>2. n \in Nat /\ n >= 1 /\ Len(s) >= 2 /\ BodyLen(s) = n
  BY <1>0, <1>1 DEF BodyLen, TagLen
<1>3. Final(s) = f
  <2>1. /\ Final(s) \in Nat
        /\ Final(s) * Chunk < BodyLen(s)
        /\ BodyLen(s) <= (Final(s) + 1) * Chunk
    BY <1>1, <1>2, FinalFacts
  <2> DEFINE x == Final(s)
  <2>2. x \in Nat /\ x * Chunk < n /\ n <= (x + 1) * Chunk
    BY <1>2, <2>1
  <2> HIDE DEF x
  <2>3. x = f
    BY <1>0, <1>1, <1>2, <2>2, BetweenMultiples
  <2> QED BY <2>3 DEF x
<1>4. e \in Nat /\ e < n /\ n <= e + Chunk /\ (f + 1) * Chunk = e + Chunk
  BY <1>0, <1>1
\* A cell of chunk i.
<1>5. ASSUME NEW i \in 0..f, NEW p \in 1..Chunk, i * Chunk + p <= n
      PROVE  /\ s[i * Chunk + p] = UnitCell(k, i, i = f, IF i = f THEN n - f * Chunk ELSE Chunk, p, v)
             /\ i * Chunk + p \in 1..n
  <2> DEFINE a == i * Chunk
  <2>1. a \in Nat /\ (i + 1) * Chunk = a + Chunk /\ i \in Nat
    BY <1>0, <1>1
  <2>2. a + p \in 1..n /\ a < a + p /\ a + p <= (i + 1) * Chunk /\ (a + p) - a = p
    <3> HIDE DEF a
    <3> QED BY <1>0, <1>5, <2>1 DEF a
  <2>3. s[a + p] = UnitCell(k, i, i = f, IF i = f THEN n - f * Chunk ELSE Chunk,
                            (a + p) - a, v)
    BY <1>1, <2>1, <2>2
  <2> HIDE DEF a
  <2>4. s[a + p] = UnitCell(k, i, i = f, IF i = f THEN n - f * Chunk ELSE Chunk, p, v)
    BY <2>2, <2>3, Zenon
  <2> QED BY <2>2, <2>4, Zenon DEF a
<1>6. ASSUME NEW i \in 0..f, i < f  PROVE Opens(k, i, FALSE, Slot(s, i))
  <2> DEFINE a == i * Chunk
             u == SubSeq(s, a + 1, a + Chunk)
  <2>1. a \in Nat /\ (i + 1) * Chunk = a + Chunk /\ i \in Nat
    BY <1>0, <1>1
  <2>2. a + Chunk <= e
    <3>1. (i + 1) * Chunk <= f * Chunk
      BY <1>0, <1>1, <1>6, <2>1, MultiplesOrdered
    <3> QED BY <2>1, <3>1
  <2>3. u = Slot(s, i)
    BY <2>1 DEF Slot
  <2>a. a = i * Chunk
    OBVIOUS
  <2> HIDE DEF a, e
  <2>4. Len(u) = Chunk /\ \A p \in 1..Chunk : u[p] = s[a + p]
    <3>1. a + Chunk \in Nat /\ a + Chunk <= Len(s) /\ a < a + Chunk
      BY <1>0, <1>1, <1>4, <2>1, <2>2
    <3>2. /\ Len(u) = IF a < a + Chunk THEN (a + Chunk) - a ELSE 0
          /\ \A x \in Nat \ {0} : a + x <= a + Chunk => u[x] = s[a + x]
      BY <1>1, <2>1, <3>1, PieceOf
    <3> HIDE DEF u
    <3>3. \A p \in 1..Chunk : p \in Nat \ {0} /\ a + p <= a + Chunk
      BY <1>0, <2>1
    <3>4. (a + Chunk) - a = Chunk
      BY <1>0, <2>1
    <3> QED BY <3>1, <3>2, <3>3, <3>4
  <2> HIDE DEF u
  <2>5. ASSUME NEW p \in 1..Chunk
        PROVE  u[p].key = k /\ u[p].at = i /\ u[p].last = FALSE /\ u[p].len = Chunk
               /\ u[p].part = p
    <3>1. i * Chunk + p <= n
      <4>1. a + p <= n
        BY <1>0, <1>4, <2>1, <2>2
      <4> QED BY <2>a, <4>1
    <3> DEFINE b == i = f
               m == IF i = f THEN n - f * Chunk ELSE Chunk
    <3>2. s[a + p] = UnitCell(k, i, b, m, p, v)
      BY <1>5, <2>a, <3>1
    <3>3. b = FALSE /\ m = Chunk
      BY <1>1, <1>6, <2>1
    <3> HIDE DEF b, m
    <3>4. u[p] = UnitCell(k, i, FALSE, Chunk, p, v)
      BY <2>4, <3>2, <3>3, Zenon
    <3> QED BY <3>4 DEF UnitCell
  <2>6. Len(u) > 0
    BY <1>0, <2>4
  <2>7. Opens(k, i, FALSE, u)
    BY <2>4, <2>5, <2>6, Zenon DEF Opens
  <2> QED BY <2>3, <2>7, Zenon
<1> DEFINE w == LastChunk(s)
<1>7. Len(w) = n - e /\ \A p \in 1..(n - e) : w[p] = s[e + p]
  <2>1. w = SubSeq(s, e + 1, n)
    BY <1>2, <1>3 DEF LastChunk
  <2> HIDE DEF e, w
  <2>2. n <= Len(s)
    BY <1>1, <1>2
  <2>3. /\ Len(SubSeq(s, e + 1, n)) = IF e < n THEN n - e ELSE 0
        /\ \A x \in Nat \ {0} : e + x <= n => SubSeq(s, e + 1, n)[x] = s[e + x]
    BY <1>1, <1>2, <1>4, <2>2, PieceOf
  <2>4. \A p \in 1..(n - e) : p \in Nat \ {0} /\ e + p <= n
    BY <1>2, <1>4
  <2> QED BY <1>4, <2>1, <2>3, <2>4
<1>e. e = f * Chunk
  OBVIOUS
<1> HIDE DEF e, w
<1>8. Opens(k, f, TRUE, w)
  <2>1. ASSUME NEW p \in 1..(n - e)
        PROVE  w[p].key = k /\ w[p].at = f /\ w[p].last = TRUE /\ w[p].len = n - e
               /\ w[p].part = p
    <3>1. f * Chunk + p <= n /\ p \in 1..Chunk /\ f \in 0..f
      <4>1. e + p <= n /\ p \in 1..Chunk
        BY <1>0, <1>2, <1>4
      <4> QED BY <1>1, <1>e, <4>1
    <3> DEFINE b == f = f
               m == IF f = f THEN n - f * Chunk ELSE Chunk
    <3>2. s[e + p] = UnitCell(k, f, b, m, p, v)
      BY <1>5, <1>e, <3>1
    <3>3. b = TRUE /\ m = n - e
      BY <1>e
    <3> HIDE DEF b, m
    <3>4. w[p] = UnitCell(k, f, TRUE, n - e, p, v)
      BY <1>7, <3>2, <3>3, Zenon
    <3> QED BY <3>4 DEF UnitCell
  <2>2. Len(w) > 0 /\ Len(w) = n - e
    BY <1>2, <1>4, <1>7
  <2> QED BY <2>1, <2>2, Zenon DEF Opens
<1>9. ASSUME NEW i \in 0..f  PROVE s[i * Chunk + 1].bind = <<v>>
  <2>1. i * Chunk <= e
    <3>1. CASE i = f
      BY <1>4, <1>e, <3>1
    <3>2. CASE i < f
      <4>1. (i + 1) * Chunk <= f * Chunk
        <5>1. i \in Nat /\ f \in Nat /\ Chunk \in Nat
          BY <1>0, <1>1
        <5> QED BY <3>2, <5>1, MultiplesOrdered
      <4>2. (i + 1) * Chunk = i * Chunk + Chunk /\ i * Chunk \in Nat
        BY <1>0, <1>1
      <4> QED BY <1>0, <1>4, <1>e, <4>1, <4>2
    <3> QED BY <1>1, <3>1, <3>2
  <2>2. i * Chunk + 1 <= n /\ 1 \in 1..Chunk
    <3> DEFINE a == i * Chunk
    <3>1. a \in Nat /\ a <= e
      BY <1>0, <1>1, <2>1
    <3> HIDE DEF a
    <3>2. a + 1 <= n
      BY <1>2, <1>4, <3>1
    <3> QED BY <1>0, <3>2 DEF a
  <2> DEFINE b == i = f
             m == IF i = f THEN n - f * Chunk ELSE Chunk
  <2>3. s[i * Chunk + 1] = UnitCell(k, i, b, m, 1, v)
    BY <1>5, <2>2
  <2> HIDE DEF b, m
  <2> QED BY <2>3 DEF UnitCell
\* No ciphertext has a last chunk of its SIV alone after another chunk.
<1>10. n - e = 1 => f = 0
  <2> SUFFICES ASSUME n - e = 1, f # 0  PROVE FALSE
    OBVIOUS
  <2>1. n - 1 \in Nat /\ n - 1 = e
    BY <1>2, <1>4
  <2>2. n - 1 = ((n - 1) \div Chunk) * Chunk
    BY <1>e, <1>f, <2>1
  <2>3. (n - 1) % Chunk = 0
    BY <1>0, <2>1, <2>2, ModFacts
  <2>4. n > Chunk
    <3>1. 0 < f /\ 0 \in Nat
      BY <1>1
    <3>2. (0 + 1) * Chunk <= f * Chunk
      BY <1>0, <1>1, <3>1, MultiplesOrdered
    <3>3. (0 + 1) * Chunk = Chunk
      BY <1>0
    <3> QED BY <1>0, <1>2, <1>4, <1>e, <3>2, <3>3
  <2>5. n > Chunk => (n - Siv) % Chunk # 0
    BY Zenon DEF Fit
  <2>6. Siv = 1
    BY DEF Siv
  <2> QED BY <2>3, <2>4, <2>5, <2>6, Zenon
<1>11. HasLayout(s)
  <2>1. Len(LastChunk(s)) = n - e
    BY <1>7 DEF w
  <2>2. Siv = 1 /\ TagLen = 1 /\ 1 + 1 = 2
    BY DEF Siv, TagLen
  <2>3. Len(s) >= Siv + TagLen
    BY <1>2, <2>2
  <2>4. Len(LastChunk(s)) = Siv => Final(s) = 0
    BY <1>3, <1>10, <2>1, <2>2, Zenon
  <2> QED BY <2>3, <2>4, Zenon DEF HasLayout
<1>12. Len(s) = n + 1 /\ Final(s) \in Nat
  BY <1>1, <1>3
<1>13. /\ \A i \in 0..Final(s) : i < Final(s) => Opens(k, i, FALSE, Slot(s, i))
       /\ Opens(k, Final(s), TRUE, LastChunk(s))
  BY <1>3, <1>6, <1>8, Zenon DEF w
<1>14. /\ s[n + 1] = FileTag(k, [i \in 1..(Final(s) + 1) |-> v])
       /\ \A i \in 0..Final(s) : s[i * Chunk + 1].bind = <<v>>
  BY <1>1, <1>3, <1>9, Zenon
<1> QED BY <1>11, <1>12, <1>13, <1>14, Zenon DEF WholeCells, s

\* decrypt refuses no file as `encrypt' wrote it, and the probe finds them all.
LEMMA UntouchedDecrypts ==
  ASSUME NEW k \in Ring, NEW g \in Ciphertexts({k})
  PROVE  Decrypts(g, k) /\ ProbeOf(g) \in {"TextV1", "Binary"}
<1>0. k \in Nat /\ k # 0
  BY ParametersAssumption DEF Ring
<1>1. \/ \E n \in LineCounts : g = TextCiphertext(k, n)
      \/ \E n \in Fit, v \in Versions : g = BinaryCiphertext(k, n, v)
  BY DEF Ciphertexts, Fit
<1>2. ASSUME NEW n \in LineCounts, g = TextCiphertext(k, n)
      PROVE  Decrypts(g, k) /\ ProbeOf(g) \in {"TextV1", "Binary"}
  <2>1. n \in Nat
    BY ParametersAssumption
  <2> DEFINE s == [j \in 1..n |-> UnitCell(k, 0, FALSE, 1, 1, 0)]
  <2>2. /\ g.mode = "text" /\ g.magic = TRUE /\ g.cells = s
        /\ g.head = IF n = 0 THEN "marker" ELSE "v1"
        /\ g.marker = IF n = 0 THEN k ELSE 0
    BY <1>2 DEF TextCiphertext
  <2>3. s \in Seq(Cell) /\ DOMAIN s = 1..n /\ \A j \in 1..n : s[j] = UnitCell(k, 0, FALSE, 1, 1, 0)
    <3>1. g \in Content
      BY <1>0, <1>2, <2>1, TextType
    <3>2. s \in Seq(Cell)
      BY <2>2, <3>1 DEF Content
    <3> QED BY <3>2
  <2>4. Len(s) = n
    <3> HIDE DEF s
    <3>1. Len(s) \in Nat /\ DOMAIN s = 1..Len(s)
      BY <2>3, LenProperties
    <3> QED BY <2>1, <2>3, <3>1
  <2> HIDE DEF s
  <2>5. ProbeOf(g) \in {"TextV1", "Binary"}
    BY <2>2 DEF ProbeOf
  <2>6. CASE n = 0
    <3>1. s = <<>>
      <4>1. Len(s) = 0 /\ <<>> \in Seq(Cell) /\ Len(<<>>) = 0
        BY <2>4, <2>6, EmptySeq
      <4> QED BY <2>3, <4>1, EmptySeq
    <3>2. TextDecrypts(g, k)
      BY <2>2, <2>6, <3>1, Zenon DEF TextDecrypts
    <3> QED BY <2>2, <2>5, <3>2, Zenon DEF Decrypts
  <2>7. CASE n # 0
    <3>1. s # <<>>
      <4>1. Len(<<>>) = 0
        BY EmptySeq
      <4> QED BY <2>4, <2>7, <4>1
    <3>2. ASSUME NEW j \in 1..Len(g.cells)  PROVE OpensLine(k, g.cells[j])
      <4> DEFINE c == g.cells[j]
      <4>1. c = UnitCell(k, 0, FALSE, 1, 1, 0)
        <5>1. j \in 1..n
          BY <2>2, <2>4
        <5> QED BY <2>2, <2>3, <5>1
      <4>2. c.key = k /\ c.at = 0 /\ c.last = FALSE /\ c.len = 1 /\ c.part = 1
        <5> HIDE DEF c
        <5> QED BY <4>1 DEF UnitCell
      <4> HIDE DEF c
      <4>3. Len(<<c>>) = 1 /\ <<c>>[1] = c
        OBVIOUS
      <4>4. \A p \in 1..Len(<<c>>) : p = 1
        BY <4>3
      <4>5. Len(<<c>>) > 0
        BY <4>3
      <4>6. Opens(k, 0, FALSE, <<c>>)
        BY <4>2, <4>3, <4>4, <4>5, Zenon DEF Opens
      <4> QED BY <4>6, Zenon DEF OpensLine, c
    <3>3. TextDecrypts(g, k)
      BY <2>2, <2>7, <3>1, <3>2, Zenon DEF TextDecrypts
    <3> QED BY <2>2, <2>5, <3>3, Zenon DEF Decrypts
  <2> QED BY <2>6, <2>7
<1>3. ASSUME NEW n \in Fit, NEW v \in Versions, g = BinaryCiphertext(k, n, v)
      PROVE  Decrypts(g, k) /\ ProbeOf(g) \in {"TextV1", "Binary"}
  <2>1. g.mode = "binary" /\ g.magic = TRUE /\ g.head = "v1"
    BY <1>3 DEF BinaryCiphertext
  <2> DEFINE s == g.cells
             f == Final(s)
             sivs == [i \in 1..(f + 1) |-> s[(i - 1) * Chunk + 1].bind[1]]
  <2>2. /\ Len(s) = n + 1 /\ f \in Nat /\ HasLayout(s)
        /\ \A i \in 0..f : i < f => Opens(k, i, FALSE, Slot(s, i))
        /\ Opens(k, f, TRUE, LastChunk(s))
        /\ s[n + 1] = FileTag(k, [i \in 1..(f + 1) |-> v])
        /\ \A i \in 0..f : s[i * Chunk + 1].bind = <<v>>
    <3>1. s = BinaryCiphertext(k, n, v).cells
      BY <1>3
    <3>2. k \in Nat /\ n \in Nat \ {0} /\ n \in Fit /\ v \in Nat
      BY <1>0, FitNat
    <3>3. WholeCells(BinaryCiphertext(k, n, v).cells, k, n, v)
      BY <3>2, WholeBody
    <3>4. WholeCells(s, k, n, v)
      <4> HIDE DEF s
      <4> QED BY <3>1, <3>3, Zenon
    <3> HIDE DEF s
    <3> QED BY <3>4, Zenon DEF WholeCells
  <2>3. sivs = [i \in 1..(f + 1) |-> v]
    <3> HIDE DEF s, f
    <3>1. ASSUME NEW i \in 1..(f + 1)  PROVE s[(i - 1) * Chunk + 1].bind[1] = v
      <4>1. i - 1 \in 0..f
        BY <2>2
      <4>2. s[(i - 1) * Chunk + 1].bind = <<v>>
        BY <2>2, <4>1
      <4>3. <<v>>[1] = v
        OBVIOUS
      <4> QED BY <4>2, <4>3, Zenon
    <3> QED BY <3>1
  <2> HIDE DEF sivs
  <2>4. s[Len(s)] = FileTag(k, sivs)
    BY <2>2, <2>3, Zenon
  <2>5. BinaryDecrypts(g, k)
    BY <2>1, <2>2, <2>4, Zenon DEF BinaryDecrypts, sivs
  <2>6. g.mode # "text"
    BY <2>1
  <2>7. ProbeOf(g) = "Binary"
    BY <2>1 DEF ProbeOf
  <2> QED BY <2>5, <2>6, <2>7 DEF Decrypts
<1> QED BY <1>1, <1>2, <1>3

\* The other way round: what decrypts was not touched, lines aside.
LEMMA DecryptsIsWhole ==
  ASSUME TypeOK, FileOrigins, file.magic, NEW k \in Ring, Decrypts(file, k)
  PROVE  Untouched(k) \/ LinesOf(k)
<1>0. file \in Content
  BY DEF TypeOK
<1>1. CASE file.mode = "text"
  <2>1. TextDecrypts(file, k)
    BY <1>1, Zenon DEF Decrypts
  <2>2. CASE file.cells = <<>>
    <3>1. Len(file.cells) = 0
      BY <2>2, EmptySeq
    <3>2. \A j \in 1..Len(file.cells) : FALSE
      BY <3>1
    <3> QED BY <1>1, <3>2, Zenon DEF LinesOf
  <2>3. CASE file.cells # <<>>
    BY <1>1, <2>1, <2>3, Zenon DEF TextDecrypts, LinesOf
  <2> QED BY <2>2, <2>3
<1>2. CASE file.mode = "binary"
  <2>1. BinaryDecrypts(file, k)
    <3>1. file.mode # "text"
      BY <1>2
    <3> QED BY <3>1, Zenon DEF Decrypts
  <2>2. Origins(file.cells) /\ file.marker = 0
    BY <1>2 DEF FileOrigins
  <2> DEFINE g == file
  <2>3. g \in Content /\ g.mode = "binary" /\ g.magic /\ g.marker = 0 /\ Origins(g.cells)
        /\ BinaryDecrypts(g, k)
    BY <1>0, <1>2, <2>1, <2>2
  <2> HIDE DEF g
  <2>4. g \in Ciphertexts({k})
    BY <2>3, AcceptedIsWhole
  <2> QED BY <2>4 DEF Untouched, g
<1> QED BY <1>0, <1>1, <1>2 DEF Content

\* While the scan goes on and when it ends, the file is as it was.
LEMMA ScanKeepsWhole ==
  ASSUME IInv, WholeInv, pc \in {"scan", "layout"}, UNCHANGED <<file, over>>,
         pc' \in {"scan", "layout", "done"}, verdict' # "Authentic"
  PROVE  WholeInv'
<1>1. FileOrigins'
  BY DEF WholeInv, FileOrigins
<1>2. verdict # "Authentic"
  BY DEF IInv, Cursor
<1>3. ASSUME ~over  PROVE \A k \in Ring : ~(file' \in Ciphertexts({k}))
  BY <1>2, <1>3 DEF WholeInv, Untouched
<1> QED BY <1>1, <1>3 DEF WholeInv, Untouched

LEMMA StepWholeInv == IInv /\ WholeInv /\ [Next]_vars => WholeInv'
<1> SUFFICES ASSUME IInv, WholeInv, [Next]_vars  PROVE WholeInv'
  OBVIOUS
<1>0. TypeOK /\ FileOrigins /\ Cursor /\ (verdict = "Authentic" => pc = "done")
      /\ (pc \in {"decrypt", "scan", "layout", "start", "read", "prefix"} => verdict = "None")
  BY DEF IInv, WholeInv, Cursor
\* A step that leaves no state the invariant speaks of.
<1>a. ASSUME UNCHANGED file, pc' \in {"read", "prefix"}, verdict' = "None"  PROVE WholeInv'
  BY <1>0, <1>a DEF WholeInv, FileOrigins
\* A verdict other than "Authentic" on a file that is no ciphertext.
<1>b. ASSUME UNCHANGED file, pc' \in {"scan", "done"}, verdict' # "Authentic",
             \A k \in Ring : ~Untouched(k)
      PROVE  WholeInv'
  BY <1>0, <1>b DEF WholeInv, FileOrigins, Untouched
<1>1. CASE UNCHANGED vars
  BY <1>1 DEF vars, scan, WholeInv, FileOrigins, Untouched, LinesOf
<1>2. CASE Edit
  <2>1. FileOrigins'
    BY <1>0, <1>2, EditKeepsOrigins
  <2>2. pc' = pc /\ pc \in {"start", "read", "prefix"} /\ verdict' = verdict
    BY <1>2 DEF Edit, Truncate, Insert, Destroy, SpoilHeader, MixIn, Damage
  <2> QED BY <1>0, <2>1, <2>2 DEF WholeInv
<1>3. CASE Probe
  <2>1. pc = "start" /\ UNCHANGED file
    BY <1>3 DEF Probe
  <2>2. CASE ProbeOf(file) = "Plain"
    <3>1. pc' = "done" /\ verdict' = "Plain"
      BY <1>3, <2>2 DEF Probe, Decide
    <3>2. \A k \in Ring : ~Untouched(k)
      BY <2>2, UntouchedDecrypts DEF Untouched
    <3> QED BY <1>b, <2>1, <3>1, <3>2
  <2>3. CASE ProbeOf(file) # "Plain"
    <3>1. pc' = "read" /\ verdict' = "None"
      BY <1>0, <1>3, <2>1, <2>3 DEF Probe
    <3> QED BY <1>a, <2>1, <3>1
  <2> QED BY <2>2, <2>3
<1>4. CASE Read
  <2>1. pc = "read" /\ UNCHANGED file /\ verdict = "None"
    BY <1>0, <1>4 DEF Read
  <2>2. CASE ProbeOf(file) = "Plain" \/ ProbeOf(file) = "TextUnrecognized"
    <3>1. pc' \in {"scan", "done"} /\ verdict' # "Authentic"
      <4>1. CASE ProbeOf(file) = "Plain"
        BY <1>4, <4>1 DEF Read, Decide
      <4>2. CASE ProbeOf(file) = "TextUnrecognized"
        BY <1>4, <2>1, <4>2 DEF Read
      <4> QED BY <2>2, <4>1, <4>2
    <3>2. \A k \in Ring : ~Untouched(k)
      BY <2>2, UntouchedDecrypts DEF Untouched
    <3> QED BY <1>b, <2>1, <3>1, <3>2
  <2>3. CASE ProbeOf(file) \in {"TextV1", "Binary"}
    <3>1. pc' = "decrypt" /\ verdict' = verdict
      BY <1>4, <2>3 DEF Read
    <3>2. file.magic
      BY <2>3 DEF ProbeOf
    <3> QED BY <1>0, <2>1, <3>1, <3>2 DEF WholeInv, FileOrigins
  <2>4. ProbeOf(file) \in {"Plain", "TextUnrecognized", "TextV1", "Binary"}
    BY DEF ProbeOf
  <2> QED BY <2>2, <2>3, <2>4
<1>5. CASE ReadOverCap
  <2>1. UNCHANGED file /\ pc' = "prefix" /\ verdict' = "None"
    BY <1>0, <1>5 DEF ReadOverCap
  <2> QED BY <1>a, <2>1
<1>6. CASE ReadPrefix
  <2>1. UNCHANGED <<file, over>> /\ pc' = "scan" /\ verdict' = "None" /\ over
    BY <1>0, <1>6 DEF ReadPrefix, Cursor
  <2>2. FileOrigins'
    BY <1>0, <2>1 DEF FileOrigins
  <2> QED BY <2>1, <2>2 DEF WholeInv
<1>7. CASE DecryptWhole
  <2>1. pc = "decrypt" /\ UNCHANGED file /\ file.magic /\ verdict = "None"
    BY <1>0, <1>7 DEF DecryptWhole, WholeInv
  <2>2. CASE \E k \in Ring : Decrypts(file, k) /\ Decide("Authentic", k)
    <3>1. PICK k \in Ring : Decrypts(file, k) /\ Decide("Authentic", k)
      BY <2>2
    <3>2. Untouched(k) \/ LinesOf(k)
      BY <1>0, <2>1, <3>1, DecryptsIsWhole
    <3>3. pc' = "done" /\ verdict' = "Authentic" /\ hit' = k
      BY <3>1 DEF Decide
    <3>4. hit' \in Ring /\ (Untouched(hit)' \/ LinesOf(hit)')
      BY <2>1, <3>2, <3>3 DEF Untouched, LinesOf
    <3>5. FileOrigins'
      BY <1>0, <2>1 DEF FileOrigins
    <3> QED BY <3>3, <3>4, <3>5 DEF WholeInv
  <2>3. CASE /\ \A k \in Ring : ~Decrypts(file, k)
             /\ pc' = "scan"
             /\ UNCHANGED <<scan, verdict, hit>>
    <3>1. \A k \in Ring : ~Untouched(k)
      BY <2>3, UntouchedDecrypts DEF Untouched
    <3> QED BY <1>b, <2>1, <2>3, <3>1
  <2> QED BY <1>7, <2>2, <2>3 DEF DecryptWhole
<1>8. CASE TrySlot \/ GridDone \/ TryLast \/ TryLine \/ LinesDone
  <2>1. pc \in {"scan", "layout"} /\ verdict = "None"
    BY <1>0, <1>8 DEF TrySlot, GridDone, TryLast, TryLine, LinesDone
  <2>2. UNCHANGED <<file, over>>
    BY <1>8 DEF TrySlot, GridDone, TryLast, TryLine, LinesDone, Attempt, Decide
  <2>3. pc' \in {"scan", "layout", "done"} /\ verdict' # "Authentic"
    BY <1>8, <2>1 DEF TrySlot, GridDone, TryLast, TryLine, LinesDone, Attempt, Decide,
                      NoMatch, Inconclusive
  <2> QED BY <2>1, <2>2, <2>3, ScanKeepsWhole
<1> QED BY <1>1, <1>2, <1>3, <1>4, <1>5, <1>6, <1>7, <1>8 DEF Next

LEMMA InitWholeInv == Init => WholeInv
<1>1. Init => FileOrigins
  BY InitOrigins
<1> QED BY <1>1 DEF Init, WholeInv

LEMMA WholeInvHolds == Spec => []WholeInv
BY InitWholeInv, StepWholeInv, IInvHolds, PTL DEF Spec

\* Full decryption in the classification accepts a binary file only as it was
\* written: no chunk of another version, none missing, none added.  It refuses
\* no ciphertext that came through untouched, whatever the budget is.
THEOREM WholeIsAuthentic == Spec => []AuthenticIsWhole
<1>1. WholeInv => AuthenticIsWhole
  <2> SUFFICES ASSUME WholeInv  PROVE AuthenticIsWhole
    OBVIOUS
  <2>1. verdict = "Authentic" => hit \in Ring /\ (Untouched(hit) \/ LinesOf(hit))
    BY DEF WholeInv
  <2>2. pc = "done" /\ (\E k \in Ring : Untouched(k)) => verdict = "Authentic" \/ over
    BY DEF WholeInv
  <2> QED BY <2>1, <2>2, Zenon DEF AuthenticIsWhole
<1> QED BY <1>1, WholeInvHolds, PTL
=============================================================================
