----------------------------- MODULE GatesProofs -----------------------------
(***************************************************************************)
(* Theorems about Gates: the scans disturb none of what DomainProofs shows *)
(* of the commands, and what they report holds, for any number of files,   *)
(* keys, commands and scans.                                               *)
(***************************************************************************)
EXTENDS Gates, DomainProofs

USE GatesAssumption

\* Beside scans the commands, the machine and the user do what they do alone.
LEMMA Beside == ASSUME [GatesNext]_allVars PROVE [Next]_vars
<1>1. CASE GatesNext
  BY <1>1 DEF GatesNext, Next
<1>2. CASE UNCHANGED allVars
  BY <1>2 DEF allVars
<1> QED BY <1>1, <1>2

\* The domain with scans implements the domain without: all theorems on Spec
\* carry over (the scans of ops/scan.rs write nothing).
THEOREM ReadOnly == GatesSpec => Spec
<1>1. GatesInit => Init
  BY DEF GatesInit
<1>2. [GatesNext]_allVars => [Next]_vars
  BY Beside
<1> QED BY <1>1, <1>2, PTL DEF GatesSpec, Spec

\* So no interleaving with scans strands a ciphertext.
THEOREM StrandingBeside == ASSUME FaultModel PROVE GatesSpec => []NothingStranded
  BY ReadOnly, Stranding, FaultModel, PTL

------------------------------------------------------------------------------
\* The inductive invariant.

Looked(j) == j.work \cup j.hidden

\* What a file with content v deserves, read once and whole.
LineOf(j, f, v) ==
  IF ~ToAuthenticate(j, f, v) THEN PrefixVerdict(j, f, v)
  ELSE IF f \in j.hidden THEN IF OwnCiphertext(j.mem, v) THEN "FAILED" ELSE "ignored"
  ELSE IF ~Opens(Ring(j.mem), v) THEN "FAILED"
  ELSE IF v.head = j.mem.cur THEN "verified" ELSE "pending"

\* Without a file, f gets a line.
Gone(j, f) == /\ f \in ScanEntries(j)
              /\ j.cmd # "check"
              /\ j.args # {} \/ f \notin j.mem.excl

\* A file with content v that nobody has touched since the scan began.
FileOK(j, f, v) ==
  /\ f \in Looked(j) => /\ f \in ScanEntries(j)
                        /\ f \in j.hidden <=> f \in j.mem.excl
                        /\ Exists(v)
  /\ f \in ScanEntries(j) \ Looked(j) =>
       ~Exists(v) \/ (j.cmd = "check" /\ f \in j.mem.excl)
  /\ f \notin Looked(j) => j.found[f] = IF Gone(j, f) THEN "missing" ELSE ""
  /\ f \in j.todo => j.found[f] = ""
  /\ f \in Looked(j) \ j.todo => j.found[f] \in {"error", LineOf(j, f, v)}
  /\ j.hand = f => /\ ToAuthenticate(j, f, v)
                   /\ j.kind = IF v.mode = "binary" THEN "binary" ELSE "text"

ScanOK(j) ==
  /\ j.pc = "idle" => j = NoJob
  /\ j.pc = "opened" => /\ j.hand = NoFile
                        /\ j.found = [f \in File |-> ""]
  /\ j.pc # "idle" => /\ j.cmd \in {"status", "check", "verify"}
                      /\ j.mem \in Config
  /\ j.pc \in {"scan", "done"} => /\ j.todo \subseteq Looked(j)
                                  /\ j.hand # NoFile => j.hand \in j.todo
                                  /\ j.pc = "done" => j.todo = {}

ReaderOK(r) ==
  /\ ScanOK(job[r])
  /\ job[r].pc # "idle" => /\ LockFree
                           /\ job[r].replaced \/ job[r].mem = config
  /\ job[r].pc \in {"scan", "done"} =>
       \A f \in Untouched(r) : FileOK(job[r], f, content[f])

GInv == GatesTypeOK /\ \A r \in Reader : ReaderOK(r)

Base == TypeOK /\ LockInv /\ TargetInv

LEMMA NoJobType == NoJob \in Job
  BY DEF NoJob, Job, Line

LEMMA NoJobOK == ScanOK(NoJob) /\ NoJob.pc = "idle"
  BY DEF NoJob, ScanOK

\* Only what has taken the lock takes steps.
LEMMA StepsAtWork ==
  ASSUME NEW p \in Proc, Step(p) PROVE pc[p] # "idle"
<1>1. ASSUME NEW f \in File, PrecheckFile(p, f) \/ ReadFile(p, f) \/ VerifyFile(p, f)
      PROVE  pc[p] # "idle"
  BY <1>1 DEF PrecheckFile, ReadFile, VerifyFile
<1>2. CASE Expand(p) \/ Register(p) \/ StartDecrypt(p) \/ ScanExcluded(p) \/ Mint(p)
  BY <1>2 DEF Expand, Register, StartDecrypt, ScanExcluded, Mint
<1>3. CASE SyncConfig(p) \/ SkipFile(p) \/ WriteFile(p) \/ FailFile(p)
  BY <1>3 DEF SyncConfig, SkipFile, WriteFile, FailFile
<1>4. CASE SyncFile(p) \/ FinishPass(p) \/ Converge(p) \/ Close(p)
  BY <1>4 DEF SyncFile, FinishPass, Converge, Close
<1> QED BY <1>1, <1>2, <1>3, <1>4 DEF Step

\* One scan goes on and nothing else does.
LEMMA OneScans ==
  ASSUME GInv, NEW r \in Reader, NEW j \in Job, Becomes(r, j), UNCHANGED vars,
         ReaderOK(r)'
  PROVE  GInv'
<1>1. GatesTypeOK'
  BY DEF GInv, GatesTypeOK, Becomes
<1>2. ASSUME NEW s \in Reader \ {r}
      PROVE  ReaderOK(s)'
  <2>1. job'[s] = job[s] /\ UNCHANGED <<config, content, lock>>
    BY DEF GInv, GatesTypeOK, Becomes, vars, tree
  <2> QED BY <2>1 DEF GInv, ReaderOK, Untouched, LockFree
<1> QED BY <1>1, <1>2 DEF GInv

LEMMA OpenOK ==
  ASSUME Base, GInv, NEW r \in Reader, NEW k \in ScanReports, NEW A \in SUBSET File,
         OpenScan(r, k, A), UNCHANGED vars
  PROVE  GInv'
<1> DEFINE j == [NoJob EXCEPT !.pc = "opened", !.cmd = k, !.args = A, !.mem = config]
<1>1. config \in Config /\ k \in {"status", "check", "verify"}
  BY DEF Base, TypeOK, StoreTypes
<1>2. j \in Job
  BY <1>1, NoJobType DEF Job
<1>3. /\ j.pc = "opened" /\ j.cmd = k /\ j.mem = config /\ j.hand = NoFile
      /\ j.found = [f \in File |-> ""]
  BY DEF NoJob
<1>4. Becomes(r, j) /\ LockFree
  BY DEF OpenScan
<1>5. job'[r] = j /\ UNCHANGED <<config, lock>>
  BY <1>4 DEF GInv, GatesTypeOK, Becomes, vars, tree
<1> HIDE DEF j
<1>6. ReaderOK(r)'
  BY <1>1, <1>3, <1>4, <1>5 DEF ReaderOK, ScanOK, LockFree
<1> QED BY <1>2, <1>4, <1>6, OneScans

\* A scan that goes on keeps its command, its arguments and its config.
SameScan(j, i) ==
  /\ i.cmd = j.cmd /\ i.args = j.args /\ i.mem = j.mem
  /\ i.edited = j.edited /\ i.replaced = j.replaced

LEMMA ExpandOK ==
  ASSUME Base, GInv, NEW r \in Reader, ExpandScan(r), UNCHANGED vars
  PROVE  GInv'
<1> DEFINE j     == job[r]
           there == {f \in ScanEntries(j) : Exists(content[f])}
           shut  == IF j.cmd = "check" THEN {} ELSE there \cap j.mem.excl
           gone  == IF j.cmd = "check" THEN {}
                    ELSE {f \in ScanEntries(j) \ there : j.args # {} \/ f \notin j.mem.excl}
           found == [f \in File |-> IF f \in gone THEN "missing" ELSE ""]
           i     == [j EXCEPT !.pc = "scan",
                              !.work = there \ j.mem.excl,
                              !.hidden = shut,
                              !.todo = (there \ j.mem.excl) \cup shut,
                              !.found = found]
<1>1. j \in Job /\ j.pc = "opened" /\ j.mem \in Config /\ ReaderOK(r)
  BY DEF GInv, GatesTypeOK, ExpandScan, ReaderOK, ScanOK
<1>2. ScanEntries(j) \subseteq File
  BY <1>1 DEF ScanEntries, Tracked, Config, ConfigRecord, Job
<1>3. found \in [File -> Line]
  BY DEF Line
<1>4. i \in Job
  BY <1>1, <1>2, <1>3 DEF Job
<1>5. Becomes(r, i)
  BY DEF ExpandScan
<1>6. /\ SameScan(j, i) /\ i.pc = "scan" /\ i.hand = j.hand
      /\ i.work = there \ j.mem.excl /\ i.hidden = shut
      /\ i.todo = Looked(i)
      /\ i.found = found
  BY <1>1 DEF Job, SameScan, Looked
<1>7. job'[r] = i /\ UNCHANGED <<config, lock, content>>
  BY <1>5 DEF GInv, GatesTypeOK, Becomes, vars, tree
<1> HIDE DEF i
<1>8. j.hand = NoFile /\ i.hand = NoFile
  BY <1>1, <1>6 DEF ReaderOK, ScanOK
<1>9. ScanEntries(i) = ScanEntries(j)
  BY <1>6 DEF ScanEntries, SameScan
<1>10. ASSUME NEW f \in File
       PROVE  FileOK(i, f, content[f])
  <2>1. f \in Looked(i) <=> f \in there /\ (j.cmd = "check" => f \notin j.mem.excl)
    BY <1>6 DEF Looked
  <2>2. f \in Looked(i) => (f \in i.hidden <=> f \in j.mem.excl)
    BY <1>6 DEF Looked
  <2>3. i.hand # f
    BY <1>8, NamesAssumption
  <2>4. i.found[f] = IF f \in gone THEN "missing" ELSE ""
    BY <1>6
  <2>5. f \in there <=> f \in ScanEntries(i) /\ Exists(content[f])
    BY <1>9
  <2>6. f \notin Looked(i) => i.found[f] = IF Gone(i, f) THEN "missing" ELSE ""
    BY <2>1, <2>4, <1>9, <1>6 DEF SameScan, Gone
  <2>7. f \in Looked(i) => i.found[f] = ""
    BY <2>1, <2>4
  <2> QED BY <1>6, <2>1, <2>2, <2>3, <2>5, <2>6, <2>7 DEF FileOK, SameScan
<1>11. ScanOK(i)
  BY <1>1, <1>6, <1>8 DEF ReaderOK, ScanOK, SameScan
<1>12. ReaderOK(r)'
  BY <1>1, <1>6, <1>7, <1>10, <1>11 DEF ReaderOK, SameScan, Untouched, LockFree
<1> QED BY <1>4, <1>5, <1>12, OneScans

LEMMA SameFiles ==
  ASSUME NEW i, NEW j, SameScan(j, i), i.work = j.work, i.hidden = j.hidden
  PROVE  /\ Looked(i) = Looked(j) /\ ScanEntries(i) = ScanEntries(j)
         /\ \A f : Gone(i, f) <=> Gone(j, f)
         /\ \A f, v : ToAuthenticate(i, f, v) <=> ToAuthenticate(j, f, v)
         /\ \A f, v : LineOf(i, f, v) = LineOf(j, f, v)
<1>1. Looked(i) = Looked(j) /\ ScanEntries(i) = ScanEntries(j)
  BY DEF SameScan, Looked, ScanEntries
<1>2. \A f : Gone(i, f) <=> Gone(j, f)
  BY <1>1 DEF Gone, SameScan
<1>3. \A f, v : ToAuthenticate(i, f, v) <=> ToAuthenticate(j, f, v)
  BY DEF ToAuthenticate, SameScan
<1>4. \A f, v : PrefixVerdict(i, f, v) = PrefixVerdict(j, f, v)
  BY DEF PrefixVerdict, SameScan
<1>5. \A f, v : LineOf(i, f, v) = LineOf(j, f, v)
  BY <1>3, <1>4 DEF LineOf, SameScan
<1> QED BY <1>1, <1>2, <1>3, <1>5

\* What a step of the scan does not concern.
LEMMA FileStays ==
  ASSUME NEW i, NEW j, SameScan(j, i), i.work = j.work, i.hidden = j.hidden,
         NEW f, NEW v, FileOK(j, f, v), i.hand # f,
         f \in i.todo <=> f \in j.todo, i.found[f] = j.found[f]
  PROVE  FileOK(i, f, v)
<1>1. /\ Looked(i) = Looked(j) /\ ScanEntries(i) = ScanEntries(j)
      /\ Gone(i, f) <=> Gone(j, f)
      /\ LineOf(i, f, v) = LineOf(j, f, v)
  BY SameFiles
<1>2. i.mem = j.mem /\ i.cmd = j.cmd
  BY DEF SameScan
<1>3. f \in Looked(j) => /\ f \in ScanEntries(j)
                         /\ f \in j.hidden <=> f \in j.mem.excl
                         /\ Exists(v)
  BY DEF FileOK
<1>4. f \in ScanEntries(j) \ Looked(j) =>
        ~Exists(v) \/ (j.cmd = "check" /\ f \in j.mem.excl)
  BY DEF FileOK
<1>5. /\ f \notin Looked(j) => j.found[f] = IF Gone(j, f) THEN "missing" ELSE ""
      /\ f \in j.todo => j.found[f] = ""
      /\ f \in Looked(j) \ j.todo => j.found[f] \in {"error", LineOf(j, f, v)}
  BY DEF FileOK
<1>6. /\ f \notin Looked(i) => i.found[f] = IF Gone(i, f) THEN "missing" ELSE ""
      /\ f \in i.todo => i.found[f] = ""
      /\ f \in Looked(i) \ i.todo => i.found[f] \in {"error", LineOf(i, f, v)}
  BY <1>1, <1>5
<1> QED BY <1>1, <1>2, <1>3, <1>4, <1>6 DEF FileOK

\* A line on a file that has its turn.
LEMMA ReportOK ==
  ASSUME GInv, NEW r \in Reader, NEW f \in File, NEW verdict \in Line,
         job[r].pc = "scan", f \in job[r].todo,
         job[r].hand = NoFile \/ job[r].hand = f,
         f \in Untouched(r) => verdict \in {"error", LineOf(job[r], f, content[f])},
         Report(r, f, verdict), UNCHANGED vars
  PROVE  GInv'
<1> DEFINE j == job[r]
           i == [j EXCEPT !.todo = @ \ {f}, !.hand = NoFile,
                          !.found = [@ EXCEPT ![f] = verdict]]
<1>1. j \in Job /\ ReaderOK(r)
  BY DEF GInv, GatesTypeOK
<1>2. i \in Job
  BY <1>1 DEF Job
<1>3. Becomes(r, i)
  BY DEF Report
<1>4. /\ SameScan(j, i) /\ i.pc = "scan" /\ i.hand = NoFile
      /\ i.work = j.work /\ i.hidden = j.hidden
      /\ i.todo = j.todo \ {f}
      /\ i.found = [j.found EXCEPT ![f] = verdict]
  BY <1>1 DEF Job, SameScan
<1>5. job'[r] = i /\ UNCHANGED <<config, lock, content>>
  BY <1>3 DEF GInv, GatesTypeOK, Becomes, vars, tree
<1> HIDE DEF i
<1>6. /\ Looked(i) = Looked(j) /\ ScanEntries(i) = ScanEntries(j)
      /\ \A g : Gone(i, g) <=> Gone(j, g)
      /\ \A g, v : LineOf(i, g, v) = LineOf(j, g, v)
  BY <1>4, SameFiles
<1>7. ASSUME NEW g \in Untouched(r)
      PROVE  FileOK(i, g, content[g])
  <2>1. g \in File /\ FileOK(j, g, content[g])
    BY <1>1 DEF ReaderOK, Untouched
  <2>2. i.hand # g
    BY <1>4, <2>1, NamesAssumption
  <2>3. CASE g = f
    <3>1. i.found[f] = verdict /\ f \in Looked(i) /\ f \notin i.todo
      BY <1>1, <1>4, <1>6 DEF Job, ReaderOK, ScanOK
    <3>2. verdict \in {"error", LineOf(i, f, content[f])}
      BY <1>6, <1>7, <2>3
    <3>3. /\ f \in ScanEntries(i) /\ Exists(content[f])
          /\ f \in i.hidden <=> f \in i.mem.excl
      BY <1>4, <1>6, <2>1, <2>3, <3>1 DEF FileOK, SameScan
    <3> QED BY <2>2, <2>3, <3>1, <3>2, <3>3 DEF FileOK
  <2>4. CASE g # f
    <3>1. i.found[g] = j.found[g] /\ (g \in i.todo <=> g \in j.todo)
      BY <1>1, <1>4, <2>1, <2>4 DEF Job
    <3> QED BY <1>4, <2>1, <2>2, <3>1, FileStays
  <2> QED BY <2>3, <2>4
<1>8. ScanOK(i)
  BY <1>1, <1>4, <1>6 DEF ReaderOK, ScanOK, SameScan
<1>9. ReaderOK(r)'
  BY <1>1, <1>4, <1>5, <1>7, <1>8 DEF ReaderOK, SameScan, Untouched, LockFree
<1> QED BY <1>2, <1>3, <1>9, OneScans

LEMMA ProbeOK ==
  ASSUME GInv, NEW r \in Reader, NEW f \in File, ProbeFile(r, f), UNCHANGED vars
  PROVE  GInv'
<1> DEFINE j == job[r]
           v == content[f]
<1>1. j \in Job /\ ReaderOK(r) /\ j.pc = "scan" /\ j.hand = NoFile /\ f \in j.todo
  BY DEF GInv, GatesTypeOK, ProbeFile
<1>2. CASE Unreadable(r, f)
  BY <1>1, <1>2, ReportOK DEF Unreadable, Line
<1>3. CASE ~ToAuthenticate(j, f, v) /\ Report(r, f, PrefixVerdict(j, f, v))
  <2>1. PrefixVerdict(j, f, v) \in Line
    BY DEF PrefixVerdict, KindOf, Line
  <2>2. PrefixVerdict(j, f, v) = LineOf(j, f, v)
    BY <1>3 DEF LineOf
  <2> QED BY <1>1, <1>3, <2>1, <2>2, ReportOK
<1>4. CASE /\ ToAuthenticate(j, f, v)
           /\ Becomes(r, [j EXCEPT !.hand = f,
                                   !.kind = IF v.mode = "binary" THEN "binary" ELSE "text"])
  <2> DEFINE i == [j EXCEPT !.hand = f,
                            !.kind = IF v.mode = "binary" THEN "binary" ELSE "text"]
  <2>1. i \in Job
    BY <1>1 DEF Job
  <2>2. /\ SameScan(j, i) /\ i.pc = "scan" /\ i.hand = f
        /\ i.work = j.work /\ i.hidden = j.hidden /\ i.todo = j.todo
        /\ i.found = j.found
        /\ i.kind = IF v.mode = "binary" THEN "binary" ELSE "text"
    BY <1>1 DEF Job, SameScan
  <2>3. job'[r] = i /\ UNCHANGED <<config, lock, content>>
    BY <1>4 DEF GInv, GatesTypeOK, Becomes, vars, tree
  <2>4. Becomes(r, i)
    BY <1>4
  <2> HIDE DEF i
  <2>5. /\ Looked(i) = Looked(j) /\ ScanEntries(i) = ScanEntries(j)
        /\ \A g : Gone(i, g) <=> Gone(j, g)
        /\ \A g, w : LineOf(i, g, w) = LineOf(j, g, w)
        /\ \A g, w : ToAuthenticate(i, g, w) <=> ToAuthenticate(j, g, w)
    BY <2>2, SameFiles
  <2>6. ASSUME NEW g \in Untouched(r)
        PROVE  FileOK(i, g, content[g])
    <3>1. g \in File /\ FileOK(j, g, content[g])
      BY <1>1 DEF ReaderOK, Untouched
    <3>2. CASE g # f
      BY <2>2, <3>1, <3>2, FileStays
    <3>3. CASE g = f
      <4>1. ToAuthenticate(i, f, v) /\ f \in i.todo /\ f \in Looked(i)
        BY <1>1, <1>4, <2>2, <2>5 DEF ReaderOK, ScanOK
      <4>2. /\ f \in ScanEntries(i) /\ Exists(v) /\ i.found[f] = ""
            /\ f \in i.hidden <=> f \in i.mem.excl
        BY <1>1, <2>2, <2>5, <3>1, <3>3, <4>1 DEF FileOK, SameScan
      <4> QED BY <2>2, <3>3, <4>1, <4>2 DEF FileOK
    <3> QED BY <3>2, <3>3
  <2>7. ScanOK(i)
    BY <1>1, <2>2, <2>5 DEF ReaderOK, ScanOK, SameScan
  <2>8. ReaderOK(r)'
    BY <1>1, <2>2, <2>3, <2>6, <2>7 DEF ReaderOK, SameScan, Untouched, LockFree
  <2> QED BY <2>1, <2>4, <2>8, OneScans
<1> QED BY <1>2, <1>3, <1>4 DEF ProbeFile

\* What the second read finds of a file that has not changed since the first
\* is the verdict on both.
LEMMA AuthenticateOK ==
  ASSUME GInv, NEW r \in Reader, Authenticate(r), UNCHANGED vars
  PROVE  GInv'
<1> DEFINE j == job[r]
           f == j.hand
           v == content[f]
<1>1. j \in Job /\ ReaderOK(r) /\ j.pc = "scan" /\ f \in j.todo /\ f \in File
  BY DEF GInv, GatesTypeOK, Authenticate, ReaderOK, ScanOK, Job
<1>2. CASE Unreadable(r, f)
  BY <1>1, <1>2, ReportOK DEF Unreadable, Line
<1>3. CASE Report(r, f, WholeVerdict(j, f, v))
  <2>1. WholeVerdict(j, f, v) \in Line
    BY DEF WholeVerdict, Line
  <2>2. f \in Untouched(r) => WholeVerdict(j, f, v) = LineOf(j, f, v)
    <3>1. SUFFICES ASSUME f \in Untouched(r)
                   PROVE  WholeVerdict(j, f, v) = LineOf(j, f, v)
      OBVIOUS
    <3>2. FileOK(j, f, v)
      BY <1>1, <3>1 DEF ReaderOK
    <3>3. ToAuthenticate(j, f, v) /\ j.kind = IF v.mode = "binary" THEN "binary" ELSE "text"
      BY <3>2 DEF FileOK
    <3>4. Encrypted(v) => v.mode = j.kind
      BY <3>3 DEF Encrypted
    <3>5. (Opens(Ring(j.mem), v) \/ OwnCiphertext(j.mem, v)) => Encrypted(v)
      BY DEF Opens, OwnCiphertext
    <3> QED BY <3>3, <3>4, <3>5 DEF WholeVerdict, LineOf
  <2> QED BY <1>1, <1>3, <2>1, <2>2, ReportOK
<1> QED BY <1>2, <1>3 DEF Authenticate

LEMMA FinishOK ==
  ASSUME GInv, NEW r \in Reader, FinishScan(r), UNCHANGED vars
  PROVE  GInv'
<1> DEFINE j == job[r]
           i == [j EXCEPT !.pc = "done"]
<1>1. j \in Job /\ ReaderOK(r) /\ j.pc = "scan" /\ j.todo = {} /\ Becomes(r, i)
  BY DEF GInv, GatesTypeOK, FinishScan
<1>2. i \in Job
  BY <1>1 DEF Job
<1>3. /\ SameScan(j, i) /\ i.pc = "done" /\ i.hand = j.hand /\ i.todo = j.todo
      /\ i.work = j.work /\ i.hidden = j.hidden /\ i.found = j.found
  BY <1>1 DEF Job, SameScan
<1>4. job'[r] = i /\ UNCHANGED <<config, lock, content>>
  BY <1>1 DEF GInv, GatesTypeOK, Becomes, vars, tree
<1> HIDE DEF i
<1>5. j.hand = NoFile
  BY <1>1 DEF ReaderOK, ScanOK
<1>6. ASSUME NEW f \in Untouched(r)
      PROVE  FileOK(i, f, content[f])
  <2>1. f \in File /\ FileOK(j, f, content[f]) /\ i.hand # f
    BY <1>1, <1>3, <1>5, NamesAssumption DEF ReaderOK, Untouched
  <2> QED BY <1>3, <2>1, FileStays
<1>7. ScanOK(i)
  BY <1>1, <1>3, <1>5, SameFiles DEF ReaderOK, ScanOK, SameScan
<1>8. ReaderOK(r)'
  BY <1>1, <1>3, <1>4, <1>6, <1>7 DEF ReaderOK, SameScan, Untouched, LockFree
<1> QED BY <1>1, <1>2, <1>8, OneScans

LEMMA CloseOK ==
  ASSUME GInv, NEW r \in Reader, CloseScan(r), UNCHANGED vars
  PROVE  GInv'
<1>1. job'[r] = NoJob /\ Becomes(r, NoJob)
  BY DEF CloseScan, GInv, GatesTypeOK, Becomes
<1>2. ReaderOK(r)'
  BY <1>1, NoJobOK DEF ReaderOK
<1> QED BY <1>1, <1>2, NoJobType, OneScans

\* While nobody scans, anything may happen.
LEMMA NobodyScans ==
  ASSUME GInv, NoScan, UNCHANGED job
  PROVE  GInv'
<1>1. GatesTypeOK'
  BY DEF GInv, GatesTypeOK
<1>2. ASSUME NEW r \in Reader
      PROVE  ReaderOK(r)'
  <2>1. job'[r] = NoJob
    BY DEF GInv, NoScan, ReaderOK, ScanOK
  <2> QED BY <2>1, NoJobOK DEF ReaderOK
<1> QED BY <1>1, <1>2 DEF GInv

\* The shared lock: a command at work means that nobody scans.
LEMMA CommandsExclude ==
  ASSUME Base, GInv, NEW p \in Proc, pc[p] # "idle"
  PROVE  NoScan
  BY NamesAssumption DEF Base, LockInv, WorkOK, GInv, ReaderOK, LockFree, NoScan

\* The user may touch a file the scan has read, or is about to read; what is
\* left alone stays judged.
LEMMA UserOK ==
  ASSUME Base, GInv, User, Watch
  PROVE  GInv'
<1>1. lock' = lock
  BY DEF User, Edit, Stash, Return, Merge, Replace, CommitAll, Checkout
<1>2. content' \in [File -> Content] /\ content \in [File -> Content]
  BY UserTyped DEF Base, TypeOK, StoreTypes
<1>3. ASSUME NEW r \in Reader
      PROVE  job'[r] \in Job /\ ReaderOK(r)'
  <2> DEFINE j == job[r]
             i == [j EXCEPT !.edited   = @ \cup {f \in File : content'[f] # content[f]},
                            !.replaced = @ \/ config' # config]
  <2>1. j \in Job /\ ReaderOK(r)
    BY DEF GInv, GatesTypeOK
  <2>2. CASE j.pc = "idle"
    <3>1. job'[r] = j /\ j = NoJob
      BY <2>1, <2>2 DEF Watch, ReaderOK, ScanOK
    <3> QED BY <3>1, NoJobOK, NoJobType DEF ReaderOK
  <2>3. CASE j.pc # "idle"
    <3>1. job'[r] = i
      BY <2>3 DEF Watch
    <3>2. i \in Job
      BY <2>1 DEF Job
    <3>3. /\ i.pc = j.pc /\ i.cmd = j.cmd /\ i.args = j.args /\ i.mem = j.mem
          /\ i.work = j.work /\ i.hidden = j.hidden /\ i.todo = j.todo
          /\ i.hand = j.hand /\ i.kind = j.kind /\ i.found = j.found
          /\ i.edited = j.edited \cup {f \in File : content'[f] # content[f]}
          /\ i.replaced = (j.replaced \/ config' # config)
      BY <2>1 DEF Job
    <3> HIDE DEF i
    <3>4. ScanOK(i)
      BY <2>1, <2>3, <3>3 DEF ReaderOK, ScanOK, Looked
    <3>5. i.replaced \/ i.mem = config'
      BY <2>1, <2>3, <3>3 DEF ReaderOK
    <3>6. ASSUME NEW f \in File \ i.edited, j.pc \in {"scan", "done"}
          PROVE  FileOK(i, f, content'[f])
      <4>1. f \in Untouched(r) /\ content'[f] = content[f]
        BY <3>3, <3>6 DEF Untouched
      <4>2. FileOK(j, f, content[f])
        BY <2>1, <3>6, <4>1 DEF ReaderOK
      <4>3. /\ Looked(i) = Looked(j) /\ ScanEntries(i) = ScanEntries(j)
            /\ Gone(i, f) <=> Gone(j, f)
        BY <3>3 DEF Looked, ScanEntries, Gone
      <4>4. /\ ToAuthenticate(i, f, content[f]) <=> ToAuthenticate(j, f, content[f])
            /\ LineOf(i, f, content[f]) = LineOf(j, f, content[f])
        BY <3>3 DEF ToAuthenticate, LineOf, PrefixVerdict
      <4> QED BY <3>3, <4>1, <4>2, <4>3, <4>4 DEF FileOK
    <3>7. LockFree'
      BY <1>1, <2>1, <2>3 DEF ReaderOK, LockFree
    <3>8. ReaderOK(r)'
      BY <3>1, <3>3, <3>4, <3>5, <3>6, <3>7 DEF ReaderOK, Untouched
    <3> QED BY <3>1, <3>2, <3>8
  <2> QED BY <2>2, <2>3
<1>4. GatesTypeOK'
  BY <1>3 DEF Watch, GatesTypeOK
<1> QED BY <1>3, <1>4 DEF GInv

LEMMA ScanStep ==
  ASSUME Base, GInv, NEW r \in Reader, Scan(r), UNCHANGED vars
  PROVE  GInv'
  BY OpenOK, ExpandOK, ProbeOK, AuthenticateOK, FinishOK, CloseOK DEF Scan

LEMMA GatesStep ==
  ASSUME Base, GInv, [GatesNext]_allVars
  PROVE  GInv'
<1>1. ASSUME NEW p \in Proc, NoScan, Invoke(p), UNCHANGED job
      PROVE  GInv'
  BY <1>1, NobodyScans
<1>2. ASSUME NEW p \in Proc, Step(p) \/ Interrupt(p), UNCHANGED job
      PROVE  GInv'
  <2>1. pc[p] # "idle"
    BY <1>2, StepsAtWork DEF Interrupt
  <2> QED BY <1>2, <2>1, CommandsExclude, NobodyScans
<1>3. CASE PowerLoss /\ job' = [r \in Reader |-> NoJob]
  <2>1. GatesTypeOK'
    BY <1>3, NoJobType DEF GatesTypeOK
  <2>2. ASSUME NEW r \in Reader PROVE ReaderOK(r)'
    <3>1. job'[r] = NoJob
      BY <1>3
    <3> QED BY <3>1, NoJobOK DEF ReaderOK
  <2> QED BY <2>1, <2>2 DEF GInv
<1>4. CASE UNCHANGED allVars
  BY <1>4 DEF allVars, vars, tree, GInv, GatesTypeOK, ReaderOK, Untouched, LockFree
<1> QED BY <1>1, <1>2, <1>3, <1>4, UserOK, ScanStep DEF GatesNext

THEOREM GatesInductive == GatesSpec => [](Base /\ GInv)
<1>1. GatesInit => Base /\ GInv
  <2> SUFFICES ASSUME GatesInit
               PROVE  Base /\ GInv
    OBVIOUS
  <2>1. Base
    BY InitTyped DEF GatesInit, Base
  <2>2. GatesTypeOK
    BY NoJobType DEF GatesInit, GatesTypeOK
  <2>3. ASSUME NEW r \in Reader PROVE ReaderOK(r)
    <3>1. job[r] = NoJob
      BY DEF GatesInit
    <3> QED BY <3>1, NoJobOK DEF ReaderOK
  <2> QED BY <2>1, <2>2, <2>3 DEF GInv
<1>2. Base /\ GInv /\ [GatesNext]_allVars => (Base /\ GInv)'
  BY Beside, NextTyped, NextTargets, GatesStep DEF Base
<1> QED BY <1>1, <1>2, PTL DEF GatesSpec

------------------------------------------------------------------------------
\* What the reports mean.

\* No file goes unmentioned that a line was due on, whatever the user, the
\* machine and other scans did meanwhile.
THEOREM Thorough == GatesSpec => []NothingUnsaid
<1>1. GInv => NothingUnsaid
  <2> SUFFICES ASSUME GInv, NEW r \in Reader, job[r].pc = "done",
                      NEW f \in Untouched(r), Due(job[r], f)
               PROVE  job[r].found[f] # ""
    BY DEF NothingUnsaid
  <2> DEFINE j == job[r]
  <2>1. /\ f \in File /\ f \in ScanEntries(j) /\ f \notin j.todo
        /\ FileOK(j, f, content[f])
    BY DEF GInv, ReaderOK, ScanOK, Untouched, Due
  <2>2. CASE f \in Looked(j)
    <3>1. j.found[f] \in {"error", LineOf(j, f, content[f])}
      BY <2>1, <2>2 DEF FileOK
    <3>2. LineOf(j, f, content[f]) # ""
      <4>1. f \in j.hidden <=> f \in j.mem.excl
        BY <2>1, <2>2 DEF FileOK
      <4>2. f \in j.hidden => KindOf(content[f]) # "plaintext"
        BY <2>1, <2>2, <4>1 DEF Due, KindOf, FileOK
      <4> QED BY <4>2 DEF LineOf, PrefixVerdict, KindOf
    <3> QED BY <3>1, <3>2
  <2>3. CASE f \notin Looked(j)
    <3>1. ~Exists(content[f]) \/ (j.cmd = "check" /\ f \in j.mem.excl)
      BY <2>1, <2>3 DEF FileOK
    <3>2. Gone(j, f)
      BY <2>1, <3>1 DEF Due, Gone, ProbeHit, Encrypted, Exists
    <3> QED BY <2>1, <2>3, <3>2 DEF FileOK
  <2> QED BY <2>2, <2>3
<1> QED BY <1>1, GatesInductive, PTL

\* verify never fails a file for what a command at work does to it.
THEOREM Truthful == GatesSpec => []NoFalseAlarm
<1>1. GInv => NoFalseAlarm
  <2> SUFFICES ASSUME GInv, NEW r \in Reader, NEW f \in File,
                      job[r].found[f] = "FAILED", f \notin job[r].edited,
                      ~job[r].replaced
               PROVE  IF f \in config.excl THEN OwnCiphertext(config, content[f])
                      ELSE ProbeHit(content[f]) /\ ~Opens(Ring(config), content[f])
    BY DEF NoFalseAlarm
  <2> DEFINE j == job[r]
  <2>1. j.pc \in {"scan", "done"}
    <3>1. NoJob.found[f] = ""
      BY DEF NoJob
    <3> QED BY <3>1 DEF GInv, GatesTypeOK, Job, ReaderOK, ScanOK
  <2>2. j.mem = config /\ FileOK(j, f, content[f])
    BY <2>1 DEF GInv, ReaderOK, Untouched
  <2>3. f \in Looked(j) /\ f \notin j.todo
    BY <2>2 DEF FileOK
  <2>4. LineOf(j, f, content[f]) = "FAILED" /\ (f \in j.hidden <=> f \in config.excl)
    BY <2>2, <2>3 DEF FileOK
  <2> QED BY <2>2, <2>4
          DEF LineOf, PrefixVerdict, ToAuthenticate, KindOf, ProbeHit, Opens
<1> QED BY <1>1, GatesInductive, PTL

\* What a clean verify of the whole domain says of an unchanged file.
LEMMA CleanFile ==
  ASSUME Base, GInv, NEW r \in Reader, Finished(r, "verify"), job[r].args = {},
         Outcome(job[r]) = "clean", NEW f \in File \ job[r].edited,
         f \in Tracked(job[r].mem), Exists(content[f])
  PROVE  IF f \in job[r].mem.excl
         THEN ~OwnCiphertext(job[r].mem, content[f])
         ELSE /\ ProbeHit(content[f]) => Opens(Ring(job[r].mem), content[f])
              /\ /\ ProbeHit(content[f])
                 /\ content[f].head # job[r].mem.cur
                 => job[r].found[f] = "pending"
<1> DEFINE j == job[r]
           v == content[f]
<1>1. /\ j.pc = "done" /\ j.cmd = "verify" /\ j.todo = {}
      /\ FileOK(j, f, v)
  BY DEF Finished, GInv, ReaderOK, ScanOK, Untouched
<1>2. f \in ScanEntries(j)
  BY <1>1 DEF ScanEntries
<1>3. f \in Looked(j) /\ (f \in j.hidden <=> f \in j.mem.excl)
  BY <1>1, <1>2 DEF FileOK
<1>4. j.found[f] \in {"error", LineOf(j, f, v)}
  BY <1>1, <1>3 DEF FileOK
<1>5. j.found[f] # "error" /\ j.found[f] # "FAILED"
  BY <1>1 DEF Outcome, Failing
<1>6. j.found[f] = LineOf(j, f, v) /\ LineOf(j, f, v) # "FAILED"
  BY <1>4, <1>5
<1>7. CASE f \in j.mem.excl
  BY <1>1, <1>3, <1>6, <1>7 DEF LineOf, ToAuthenticate, OwnCiphertext, ProbeHit
<1>8. CASE f \notin j.mem.excl
  <2>1. ASSUME ProbeHit(v) PROVE ToAuthenticate(j, f, v)
    BY <1>1, <1>3, <1>6, <1>8, <2>1
       DEF LineOf, PrefixVerdict, ToAuthenticate, KindOf
  <2> QED BY <1>3, <1>6, <1>8, <2>1 DEF LineOf
<1> QED BY <1>7, <1>8

LEMMA ListedFiles ==
  ASSUME Base
  PROVE  /\ Tracked(config) \subseteq File
         /\ config.paths \cap config.excl = {}
         /\ config.paths \subseteq Tracked(config)
         /\ config.excl \subseteq Tracked(config)
  BY DEF Base, TypeOK, StoreTypes, Config, ConfigRecord, Tracked

\* A clean verify vouches that rotation can complete.
THEOREM Vouching == GatesSpec => []VerifyVouches
<1>1. Base /\ GInv => VerifyVouches
  <2> SUFFICES ASSUME Base, GInv, NEW r \in Reader, Finished(r, "verify"),
                      job[r].args = {}, Outcome(job[r]) = "clean",
                      ~job[r].replaced, job[r].edited = {}
               PROVE  ~Obstacle
    BY DEF VerifyVouches
  <2>1. job[r].mem = config
    BY DEF Finished, GInv, ReaderOK
  <2>2. ASSUME NEW f \in config.paths, Exists(content[f]), ProbeHit(content[f])
        PROVE  Opens(Ring(config), content[f])
    BY <2>1, <2>2, CleanFile, ListedFiles
  <2>3. ASSUME NEW f \in config.excl
        PROVE  ~OwnCiphertext(config, content[f])
    <3>1. OwnCiphertext(config, content[f]) => Exists(content[f])
      BY DEF OwnCiphertext, Encrypted, Exists
    <3> QED BY <2>1, <2>3, <3>1, CleanFile, ListedFiles
  <2> QED BY <2>2, <2>3 DEF Obstacle
<1> QED BY <1>1, GatesInductive, PTL

\* And if nothing is pending or missing, prune has nothing to refuse.
THEOREM Agreement == GatesSpec => []VerifyAgreesWithPrune
<1>1. Base /\ GInv => VerifyAgreesWithPrune
  <2> SUFFICES ASSUME Base, GInv, NEW r \in Reader, Finished(r, "verify"),
                      job[r].args = {}, Outcome(job[r]) = "clean",
                      \A f \in File : job[r].found[f] \notin {"pending", "missing"},
                      ~job[r].replaced, job[r].edited = {}
               PROVE  /\ Missing(config) = {}
                      /\ \A f \in config.excl : ~OwnCiphertext(config, content[f])
                      /\ \A f \in config.paths : Verified(config, content[f])
    BY DEF VerifyAgreesWithPrune
  <2>1. job[r].mem = config
    BY DEF Finished, GInv, ReaderOK
  <2>2. ASSUME NEW f \in config.excl
        PROVE  ~OwnCiphertext(config, content[f])
    <3>1. OwnCiphertext(config, content[f]) => Exists(content[f])
      BY DEF OwnCiphertext, Encrypted, Exists
    <3> QED BY <2>1, <2>2, <3>1, CleanFile, ListedFiles
  <2>3. ASSUME NEW f \in config.paths
        PROVE  Exists(content[f]) /\ Verified(config, content[f])
    <3>1. Exists(content[f])
      <4>1. /\ f \in File /\ f \in ScanEntries(job[r]) /\ f \notin job[r].mem.excl
            /\ FileOK(job[r], f, content[f]) /\ job[r].cmd = "verify"
        BY <2>1, <2>3, ListedFiles
           DEF Finished, GInv, ReaderOK, Untouched, ScanEntries
      <4> QED BY <4>1 DEF FileOK, Gone
    <3>2. ProbeHit(content[f]) => /\ Opens(Ring(config), content[f])
                                  /\ content[f].head = config.cur
      BY <2>1, <2>3, <3>1, CleanFile, ListedFiles
    <3> QED BY <3>1, <3>2 DEF Verified, Opens
  <2> QED BY <2>2, <2>3 DEF Missing
<1> QED BY <1>1, GatesInductive, PTL

\* check and verify together are the gate: what both pass is ciphertext that
\* opens.
THEOREM Completeness == GatesSpec => []GateIsComplete
<1>1. Base /\ GInv => GateIsComplete
  <2> SUFFICES ASSUME Base, GInv, NEW r \in Reader, NEW s \in Reader,
                      Finished(r, "check"), job[r].args = {}, Outcome(job[r]) = "clean",
                      Finished(s, "verify"), job[s].args = {}, Outcome(job[s]) = "clean",
                      job[r].mem = job[s].mem,
                      NEW f \in job[r].mem.paths \ (job[r].edited \cup job[s].edited),
                      Exists(content[f])
               PROVE  Opens(Ring(job[r].mem), content[f])
    BY DEF GateIsComplete
  <2> DEFINE j == job[r]
             v == content[f]
  <2>1. /\ j.pc = "done" /\ j.cmd = "check" /\ j.todo = {} /\ j.mem \in Config
    BY DEF Finished, GInv, ReaderOK, ScanOK
  <2>2. f \in File /\ f \notin j.mem.excl /\ f \in ScanEntries(j)
    BY <2>1 DEF Config, ConfigRecord, ScanEntries
  <2>3. FileOK(j, f, v)
    BY <2>1, <2>2 DEF GInv, ReaderOK, Untouched
  <2>4. f \in Looked(j) /\ f \notin j.hidden
    BY <2>1, <2>2, <2>3 DEF FileOK
  <2>5. j.found[f] \in {"error", PrefixVerdict(j, f, v)}
    BY <2>1, <2>3, <2>4 DEF FileOK, LineOf, ToAuthenticate
  <2>6. j.found[f] \notin {"error", "plaintext", "unrecognized"}
    BY <2>1, <2>2 DEF Outcome, Failing
  <2>7. KindOf(v) = "encrypted"
    BY <2>1, <2>4, <2>5, <2>6 DEF PrefixVerdict, KindOf
  <2>8. ProbeHit(v)
    BY <2>7 DEF KindOf, ProbeHit
  <2> QED BY <2>1, <2>2, <2>8, CleanFile DEF Tracked
<1> QED BY <1>1, GatesInductive, PTL
==============================================================================
