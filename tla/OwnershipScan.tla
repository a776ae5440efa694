---------------------------- MODULE OwnershipScan ----------------------------
(***************************************************************************)
(* Whose ciphertext is this?  The classification of an excluded file that  *)
(* looks encrypted (scan_excluded_ciphertext in src/ops/keychange.rs, the  *)
(* two classifiers of src/ops/mod.rs, the unit scans of src/textmode.rs    *)
(* and src/binmode.rs, ScanBudget of src/crypto.rs).  `rekey --prune' and  *)
(* `--continue' go on only past content found foreign, so a file wrongly   *)
(* found foreign loses the key it needs.  DomainOps takes the answer as    *)
(* given (OwnCiphertext); here it is worked out, one decryption attempt    *)
(* per step, on content that was damaged before it was read.               *)
(*                                                                         *)
(* Bytes are cells.  A chunk is a run of cells and a text line is one.  A  *)
(* cell says which unit it comes from and where it was in it, so that a    *)
(* unit decrypts when all its cells are there, in order, under its own     *)
(* key and associated data: what authenticated encryption promises.        *)
(***************************************************************************)
EXTENDS Naturals, Sequences, FiniteSets

CONSTANTS
  Keys,       \* length of the key ring; other domains have keys above it
  Chunk,      \* CHUNK_DISK, in cells
  Cap,        \* MAX_FILE_SIZE, in cells
  Overhead,   \* SCAN_ATTEMPT_OVERHEAD
  Budgets,    \* work budgets a scan may start with
  Sizes,      \* bound: cells of a binary ciphertext, header and file tag aside
  LineCounts, \* bound: lines of a text ciphertext
  Versions,   \* bound: plaintexts of the same size, as numbers
  Runs,       \* bound: lengths of the runs of junk one edit puts in
  MaxDamage   \* bound: edits of the file

\* The synthetic IV that begins each chunk, and the file tag: a cell each.
Siv == 1
TagLen == 1

ASSUME ParametersAssumption ==
  /\ Keys \in Nat \ {0}
  /\ Chunk \in Nat /\ Chunk > Siv
  /\ Cap \in Nat \ {0}
  /\ Overhead \in Nat
  /\ Budgets \subseteq Nat
  /\ Sizes \subseteq Nat
  /\ LineCounts \subseteq Nat
  /\ Versions \subseteq Nat
  /\ Runs \subseteq Nat
  /\ MaxDamage \in Nat

Ring == 1..Keys

\* Part `part' of a unit of `len' cells, made under `key' with associated data
\* (at, last).  `bind' stands for the plaintext: one version number in a chunk,
\* those of all the chunks in a file tag, whose part is 0.
Cell == [key : Nat, at : Nat, last : BOOLEAN, len : Nat, part : Nat,
         bind : Seq(Nat)]

UnitCell(k, i, last, n, p, v) ==
  [key |-> k, at |-> i, last |-> last, len |-> n, part |-> p, bind |-> <<v>>]

\* Junk that does not decode as a unit, and junk that does (in a binary file
\* all junk is the same).
Shred == [key |-> 0, at |-> 0, last |-> FALSE, len |-> 0, part |-> 0, bind |-> <<>>]
Chaff == [Shred EXCEPT !.len = 1]

\* file_tag binds the number of chunks and their SIVs, in order.
FileTagOfCount(k, vs) ==
  [Shred EXCEPT !.key = k, !.at = Len(vs), !.last = TRUE]
FileTag(k, vs) ==
  [Shred EXCEPT !.key = k, !.at = Len(vs), !.last = TRUE, !.bind = vs]

\* The ciphertexts `encrypt' writes, cell by cell.  The header is not among the
\* cells: of the text one (mode, magic, head) is kept and, when it is the
\* marker of an empty file, the key of the marker; of the binary one whether
\* its magic and its other fields are intact.
Content == [mode : {"text", "binary"}, magic : BOOLEAN,
            head : {"v1", "marker", "damaged"}, marker : Nat, cells : Seq(Cell)]

TextCiphertext(k, n) ==
  [mode |-> "text", magic |-> TRUE, head |-> IF n = 0 THEN "marker" ELSE "v1",
   marker |-> IF n = 0 THEN k ELSE 0,
   cells |-> [j \in 1..n |-> UnitCell(k, 0, FALSE, 1, 1, 0)]]

\* All chunks but the last are full.  A chunk of only its SIV is the whole body.
BinaryCiphertext(k, n, v) ==
  LET final == (n - 1) \div Chunk
      body  == [j \in 1..n |->
                  LET i == (j - 1) \div Chunk
                  IN UnitCell(k, i, i = final,
                              IF i = final THEN n - final * Chunk ELSE Chunk,
                              j - i * Chunk, v)]
      tag   == FileTag(k, [i \in 1..(final + 1) |-> v])
  IN [mode |-> "binary", magic |-> TRUE, head |-> "v1", marker |-> 0,
      cells |-> Append(body, tag)]

Ciphertexts(K) ==
  {TextCiphertext(k, n) : k \in K, n \in {m \in LineCounts : m <= Cap}}
  \cup {BinaryCiphertext(k, n, v) :
          k \in K, v \in Versions,
          n \in {m \in Sizes : /\ m > 0 /\ m + TagLen <= Cap
                               /\ m > Chunk => (m - Siv) % Chunk # 0}}

VARIABLES
  file,    \* the excluded file
  damage,  \* edits so far
  pc,      \* where the classification is: "start" ... "done"
  seen,    \* the cells that were read: all of them, or a prefix
  over,    \* the file was above the cap when it was read
  at,      \* the unit being tried: a chunk's index, or a line's number
  key,     \* the ring entry it is being tried under
  asLast,  \* chunk 0 is being tried as a last chunk
  left,    \* ScanBudget.remaining
  verdict, \* ExcludedCiphertext, "Plain" for a file that is no probe hit
  hit      \* the ring entry the verdict names, or 0

scan == <<seen, over, at, key, asLast, left>>
vars == <<file, damage, pc, scan, verdict, hit>>

Verdict == {"None", "Plain", "Authentic", "PartiallyAuthentic", "Ambiguous", "Foreign"}

TypeOK ==
  /\ file \in Content
  /\ damage \in 0..MaxDamage
  /\ pc \in {"start", "read", "prefix", "decrypt", "scan", "layout", "done"}
  /\ seen \in Seq(Cell)
  /\ over \in BOOLEAN
  /\ at \in Nat
  /\ key \in Nat \ {0}
  /\ asLast \in BOOLEAN
  /\ left \in Nat
  /\ verdict \in Verdict
  /\ hit \in 0..Keys

Init ==
  /\ file \in Ciphertexts(1..(Keys + 1))
  /\ damage = 0
  /\ pc = "start"
  /\ seen = <<>>
  /\ over = FALSE
  /\ at = 0
  /\ key = 1
  /\ asLast = FALSE
  /\ left \in Budgets
  /\ verdict = "None"
  /\ hit = 0

-----------------------------------------------------------------------------
(***************************************************************************)
(* What happens to the file until it has been read: a truncated transfer,  *)
(* an editor, a merge that takes part of another version.  Nothing that    *)
(* happens to it later reaches the classification.                         *)
(***************************************************************************)

\* probe.
ProbeOf(f) ==
  IF ~f.magic THEN "Plain"
  ELSE IF f.mode = "binary" THEN "Binary"
  ELSE IF f.head = "damaged" THEN "TextUnrecognized" ELSE "TextV1"

Damage(g) ==
  /\ pc \in {"start", "read", "prefix"}
  /\ damage < MaxDamage
  /\ g # file
  /\ damage' = damage + 1
  /\ file' = g
  /\ UNCHANGED <<pc, scan, verdict, hit>>

\* A cut leaves what may be part of a unit.
Truncate ==
  \E n \in 0..Len(file.cells) :
    Damage([file EXCEPT !.cells = SubSeq(@, 1, n)])

\* Lines of junk, or bytes: at the end, in the middle, or right after the header.
Insert ==
  \E n \in Runs, j \in 0..Len(file.cells),
     junk \in IF file.mode = "text" THEN {Shred, Chaff} ELSE {Shred} :
    Damage([file EXCEPT !.cells = SubSeq(@, 1, j) \o [x \in 1..n |-> junk]
                                    \o SubSeq(@, j + 1, Len(@))])

Destroy ==
  \E j \in 1..Len(file.cells) :
    Damage([file EXCEPT !.cells[j] = Shred])

SpoilHeader ==
  \/ Damage([file EXCEPT !.head = "damaged", !.marker = 0])
  \/ Damage([file EXCEPT !.magic = ~@])

\* A line or a chunk from another ciphertext of the same path and size.
MixIn ==
  \E g \in Ciphertexts(1..(Keys + 1)), i \in 0..Len(file.cells) :
    LET size == IF file.mode = "text" THEN 1 ELSE Chunk IN
    /\ g.mode = file.mode
    /\ Len(g.cells) = Len(file.cells)
    /\ Damage([file EXCEPT !.cells =
         [j \in 1..Len(@) |->
            IF i * size < j /\ j <= (i + 1) * size THEN g.cells[j] ELSE @[j]]])

-----------------------------------------------------------------------------
(***************************************************************************)
(* unit_decrypt, and full decryption.                                      *)
(***************************************************************************)

Opens(k, i, last, unit) ==
  /\ Len(unit) > 0
  /\ \A p \in 1..Len(unit) :
       /\ unit[p].key = k
       /\ unit[p].at = i
       /\ unit[p].last = last
       /\ unit[p].len = Len(unit)
       /\ unit[p].part = p

\* All the lines of a text carry the same associated data.
OpensLine(k, cell) == Opens(k, 0, FALSE, <<cell>>)

\* Chunk i of the fixed grid, there only when it is full.
Slot(s, i)     == SubSeq(s, i * Chunk + 1, (i + 1) * Chunk)
InGrid(s, i)   == (i + 1) * Chunk <= Len(s)

\* parse_layout: the last chunk begins where no full chunk is left that has
\* something after it.
BodyLen(s)     == Len(s) - TagLen
Final(s)       == CHOOSE n \in 0..Len(s) :
                    n * Chunk < BodyLen(s) /\ BodyLen(s) <= (n + 1) * Chunk
LastChunk(s)   == SubSeq(s, Final(s) * Chunk + 1, BodyLen(s))
HasLayout(s)   == /\ Len(s) >= Siv + TagLen
                  /\ Len(LastChunk(s)) = Siv => Final(s) = 0

\* decrypt: every unit under the key of the first, and in a binary file the
\* header's fields and a file tag that binds just these chunks.
TextDecrypts(f, k) ==
  \/ /\ f.head = "marker"
     /\ f.cells = <<>>
     /\ f.marker = k
  \/ /\ f.head = "v1"
     /\ f.cells # <<>>
     /\ \A j \in 1..Len(f.cells) : OpensLine(k, f.cells[j])

BinaryDecrypts(f, k) ==
  LET s    == f.cells
      sivs == [i \in 1..(Final(s) + 1) |-> s[(i - 1) * Chunk + 1].bind[1]]
  IN
  /\ f.head = "v1"
  /\ HasLayout(s)
  /\ \A i \in 0..Final(s) : i < Final(s) => Opens(k, i, FALSE, Slot(s, i))
  /\ Opens(k, Final(s), TRUE, LastChunk(s))
  /\ s[Len(s)] = FileTag(k, sivs)

Decrypts(f, k) == IF f.mode = "text" THEN TextDecrypts(f, k) ELSE BinaryDecrypts(f, k)

-----------------------------------------------------------------------------
(***************************************************************************)
(* scan_excluded_ciphertext, up to the scan of units.                      *)
(***************************************************************************)

Decide(v, k) ==
  /\ pc' = "done"
  /\ verdict' = v
  /\ hit' = k
  /\ seen' = <<>>
  /\ at' = 0
  /\ key' = 1
  /\ asLast' = FALSE
  /\ UNCHANGED <<over, left>>

\* read_prefix and the first probe.
Probe ==
  /\ pc = "start"
  /\ IF ProbeOf(file) = "Plain"
       THEN Decide("Plain", 0)
       ELSE /\ pc' = "read"
            /\ UNCHANGED <<scan, verdict, hit>>
  /\ UNCHANGED <<file, damage>>

\* read_capped, and a second probe, of what was read.
Read ==
  /\ pc = "read"
  /\ Len(file.cells) <= Cap
  /\ CASE ProbeOf(file) = "Plain" -> Decide("Foreign", 0)
       [] ProbeOf(file) = "TextUnrecognized" ->
            /\ pc' = "scan"
            /\ seen' = file.cells
            /\ UNCHANGED <<over, at, key, asLast, left, verdict, hit>>
       [] ProbeOf(file) \in {"TextV1", "Binary"} ->
            /\ pc' = "decrypt"
            /\ seen' = file.cells
            /\ UNCHANGED <<over, at, key, asLast, left, verdict, hit>>
  /\ UNCHANGED <<file, damage>>

ReadOverCap ==
  /\ pc = "read"
  /\ Len(file.cells) > Cap
  /\ pc' = "prefix"
  /\ over' = TRUE
  /\ UNCHANGED <<file, damage, seen, at, key, asLast, left, verdict, hit>>

\* classify_oversize_excluded reads the file again: a header and one chunk of a
\* binary file, as much as the cap allows of a text.
Window(f) == IF f.mode = "binary" THEN Chunk ELSE Cap

ReadPrefix ==
  /\ pc = "prefix"
  /\ pc' = "scan"
  /\ seen' = IF Len(file.cells) <= Window(file) THEN file.cells
             ELSE SubSeq(file.cells, 1, Window(file))
  /\ UNCHANGED <<file, damage, over, at, key, asLast, left, verdict, hit>>

DecryptWhole ==
  /\ pc = "decrypt"
  /\ \/ \E k \in Ring : Decrypts(file, k) /\ Decide("Authentic", k)
     \/ /\ \A k \in Ring : ~Decrypts(file, k)
        /\ pc' = "scan"
        /\ UNCHANGED <<scan, verdict, hit>>
  /\ UNCHANGED <<file, damage>>

-----------------------------------------------------------------------------
(***************************************************************************)
(* authenticate_any: one attempt per step.  ScanBudget.charge pays for an  *)
(* attempt before it is made or the scan is over.                          *)
(***************************************************************************)

Cost(len)   == len + Overhead

\* scan_verdict, and its counterpart above the cap.
InconclusiveIsForeign == "Foreign"
NoMatch      == IF over THEN "Ambiguous" ELSE "Foreign"
Inconclusive == "Ambiguous"

\* One unit under one entry; what follows when it does not authenticate is
\* Onward.
Attempt(k, i, last, unit, Onward) ==
  \/ /\ left < Cost(Len(unit))
     /\ Decide(Inconclusive, 0)
  \/ /\ left >= Cost(Len(unit))
     /\ Opens(k, i, last, unit)
     /\ Decide("PartiallyAuthentic", k)
  \/ /\ left >= Cost(Len(unit))
     /\ ~Opens(k, i, last, unit)
     /\ left' = left - Cost(Len(unit))
     /\ Onward
     /\ UNCHANGED <<pc, seen, over, verdict, hit>>

NextKey ==
  /\ asLast' = FALSE
  /\ IF key < Keys THEN key' = key + 1 /\ at' = at
     ELSE key' = 1 /\ at' = at + 1

\* authenticate_grid: slot 0 is also tried as a full last chunk.
TryAgainAsLast == asLast' = TRUE /\ UNCHANGED <<at, key>>

TrySlot ==
  /\ pc = "scan"
  /\ file.mode = "binary"
  /\ InGrid(seen, at)
  /\ Attempt(key, at, asLast, Slot(seen, at),
             IF at = 0 /\ ~asLast THEN TryAgainAsLast ELSE NextKey)
  /\ UNCHANGED <<file, damage>>

\* The layout is taken from the length alone and only for the last chunk, and
\* not above the cap (authenticate_any_prefix).
UsesLayout(s) == ~over /\ HasLayout(s)

GridDone ==
  /\ pc = "scan"
  /\ file.mode = "binary"
  /\ ~InGrid(seen, at)
  /\ IF UsesLayout(seen)
       THEN /\ pc' = "layout"
            /\ key' = 1
            /\ UNCHANGED <<seen, over, at, asLast, left, verdict, hit>>
       ELSE Decide(NoMatch, 0)
  /\ UNCHANGED <<file, damage>>

TryLast ==
  /\ pc = "layout"
  /\ IF key <= Keys
       THEN Attempt(key, Final(seen), TRUE, LastChunk(seen),
                    key' = key + 1 /\ UNCHANGED <<at, asLast>>)
       ELSE Decide(NoMatch, 0)
  /\ UNCHANGED <<file, damage>>

\* The lines after the first; those that do not decode cost nothing.
Decodes(cell) == cell.len > 0

TryLine ==
  /\ pc = "scan"
  /\ file.mode = "text"
  /\ at < Len(seen)
  /\ IF Decodes(seen[at + 1])
       THEN Attempt(key, 0, FALSE, <<seen[at + 1]>>, NextKey)
       ELSE /\ at' = at + 1
            /\ UNCHANGED <<pc, seen, over, key, asLast, left, verdict, hit>>
  /\ UNCHANGED <<file, damage>>

LinesDone ==
  /\ pc = "scan"
  /\ file.mode = "text"
  /\ at >= Len(seen)
  /\ Decide(NoMatch, 0)
  /\ UNCHANGED <<file, damage>>

Edit == Truncate \/ Insert \/ Destroy \/ SpoilHeader \/ MixIn

Next ==
  \/ Edit
  \/ Probe \/ Read \/ ReadOverCap \/ ReadPrefix \/ DecryptWhole
  \/ TrySlot \/ GridDone \/ TryLast \/ TryLine \/ LinesDone

Spec == Init /\ [][Next]_vars

-----------------------------------------------------------------------------
(***************************************************************************)
(* Properties.                                                             *)
(***************************************************************************)

\* A unit of the file that is still there, wherever the scan may have looked:
\* any line; any full chunk at its place; the last chunk, if it is the only one
\* and full, or if nothing was cut off or added after it.
LineSurvives(s, k) == \E j \in 1..Len(s) : OpensLine(k, s[j])
FullChunkSurvives(s, k) ==
  \E i \in 0..Len(s) : InGrid(s, i) /\ Opens(k, i, FALSE, Slot(s, i))
OnlyChunkSurvives(s, k) == InGrid(s, 0) /\ Opens(k, 0, TRUE, Slot(s, 0))
LastChunkSurvives(s, k) ==
  \E i \in 0..Len(s), n \in 1..Chunk :
    /\ i * Chunk + n + TagLen = Len(s)
    /\ n = Siv => i = 0
    /\ Opens(k, i, TRUE, SubSeq(s, i * Chunk + 1, i * Chunk + n))

Survives(f, k) ==
  IF f.mode = "text" THEN LineSurvives(f.cells, k)
  ELSE \/ FullChunkSurvives(f.cells, k)
       \/ OnlyChunkSurvives(f.cells, k)
       \/ LastChunkSurvives(f.cells, k)

\* Content is found foreign only when no unit of this domain survives in the
\* whole of it under any ring key: not by an exhausted budget, not from a
\* prefix, not because of a damaged header and not because the boundaries
\* moved.  Otherwise `rekey --prune' drops the key that unit needs.
ForeignHoldsNothing ==
  verdict = "Foreign" /\ file.magic => \A k \in Ring : ~Survives(file, k)

\* Full decryption accepts nothing but an untouched ciphertext in a binary file
\* (no chunk of another version, none missing, none added), nothing but lines of
\* one key in a text, and refuses no file as `encrypt' wrote it.
Untouched(k) == file \in Ciphertexts({k})
LinesOf(k)   == file.mode = "text" /\ \A j \in 1..Len(file.cells) : OpensLine(k, file.cells[j])

AuthenticIsWhole ==
  /\ verdict = "Authentic" => hit \in Ring /\ (Untouched(hit) \/ LinesOf(hit))
  /\ pc = "done" /\ (\E k \in Ring : Untouched(k)) => verdict = "Authentic" \/ over
=============================================================================
