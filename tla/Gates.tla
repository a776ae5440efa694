-------------------------------- MODULE Gates --------------------------------
(***************************************************************************)
(* The read-only scans `status', `check' and `verify' (src/ops/scan.rs)    *)
(* beside the commands of DomainOps.  Scans share the lock of the domain   *)
(* root with one another, but not with a command that may write.  The user *)
(* takes no lock: files and config may change under a scan, which reads    *)
(* one file after the other and ends with an exit code.                    *)
(*                                                                         *)
(* `verify' reads a file twice, a prefix to probe it and then the whole.   *)
(* Symlinks and nested repositories, which scans report too, are left out, *)
(* as in DomainOps; so is the password, short of which `verify' gives up.  *)
(***************************************************************************)
EXTENDS DomainProps

CONSTANTS
  Reader,      \* invocations of a scan
  Headed,      \* colliding texts that begin with an exact text header
  ScanReports, \* the scans that are run
  ReadCanFail  \* reading a file that is there may fail

ASSUME GatesAssumption ==
  /\ Headed \subseteq Colliding
  /\ ScanReports \subseteq {"status", "check", "verify"}
  /\ ReadCanFail \in BOOLEAN

VARIABLE job   \* [Reader -> Job]

allVars == <<vars, job>>

\* What a line of the report says of a path; "" if there is no line.
Line == {"", "missing", "plaintext", "unrecognized", "encrypted", "excluded",
         "verified", "pending", "FAILED", "ignored", "error"}

Job == [pc : {"idle", "opened", "scan", "done"},
        cmd : {"none", "status", "check", "verify"},
        args : SUBSET File,
        mem : Config \cup {NoConfig},     \* the config as loaded
        work : SUBSET File,               \* the targets selected
        hidden : SUBSET File,             \* the excluded files found
        todo : SUBSET File,
        hand : File \cup {NoFile},        \* probed as ciphertext, to be read
        kind : {"text", "binary"},        \* what it probed as
        found : [File -> Line],
        edited : SUBSET File,             \* history: changed by the user,
        replaced : BOOLEAN]               \* and the config

NoJob == [pc |-> "idle", cmd |-> "none", args |-> {}, mem |-> NoConfig,
          work |-> {}, hidden |-> {}, todo |-> {}, hand |-> NoFile,
          kind |-> "text", found |-> [f \in File |-> ""], edited |-> {},
          replaced |-> FALSE]

GatesTypeOK == job \in [Reader -> Job]

GatesInit == Init /\ job = [r \in Reader |-> NoJob]

\* probe on a prefix.
KindOf(v) == IF Encrypted(v) \/ (v.mode = "plain" /\ v.text \in Headed)
             THEN "encrypted"
             ELSE IF ProbeHit(v) THEN "unrecognized" ELSE "plaintext"

------------------------------------------------------------------------------
\* One scan.

Becomes(r, j) == job' = [job EXCEPT ![r] = j]

\* open_domain with the shared lock, then the config.
OpenScan(r, k, A) ==
  /\ job[r].pc = "idle"
  /\ LockFree
  /\ k = "status" => A = {}
  /\ Becomes(r, [NoJob EXCEPT !.pc = "opened", !.cmd = k, !.args = A, !.mem = config])

\* scan_entries; check neither expands exclusions nor keeps them.
ScanEntriesManaged(j) == IF j.args # {} THEN j.args ELSE j.mem.paths
ScanEntries(j) ==
  IF j.args # {} THEN j.args
  ELSE IF j.cmd = "check" THEN j.mem.paths ELSE Tracked(j.mem)

\* Expansion, and the lines on what is missing: an exclusion of the config may
\* be, and `check' ignores all of it.
ExpandScan(r) ==
  LET j     == job[r]
      there == {f \in ScanEntries(j) : Exists(content[f])}
      shut  == IF j.cmd = "check" THEN {} ELSE there \cap j.mem.excl
      gone  == IF j.cmd = "check" THEN {}
               ELSE {f \in ScanEntries(j) \ there : j.args # {} \/ f \notin j.mem.excl}
  IN
  /\ j.pc = "opened"
  /\ Becomes(r, [j EXCEPT !.pc = "scan",
                          !.work = there \ j.mem.excl,
                          !.hidden = shut,
                          !.todo = (there \ j.mem.excl) \cup shut,
                          !.found = [f \in File |-> IF f \in gone THEN "missing"
                                                    ELSE ""]])

\* The line on f, or none, and on to the next file.
Report(r, f, verdict) ==
  Becomes(r, [job[r] EXCEPT !.todo = @ \ {f}, !.hand = NoFile,
                            !.found = [@ EXCEPT ![f] = verdict]])

\* The file is gone, or cannot be read: an error, which ends `status'.
Unreadable(r, f) ==
  /\ ~Exists(content[f]) \/ ReadCanFail
  /\ job[r].cmd # "status"
  /\ Report(r, f, "error")

\* What the prefix alone decides.
PrefixVerdict(j, f, v) ==
  IF f \in j.hidden
  THEN IF KindOf(v) = "plaintext" THEN "" ELSE "excluded"
  ELSE IF j.cmd = "verify" /\ KindOf(v) = "unrecognized" THEN "FAILED" ELSE KindOf(v)

ToAuthenticate(j, f, v) ==
  /\ j.cmd = "verify"
  /\ KindOf(v) = "encrypted" \/ (f \in j.hidden /\ ProbeHit(v))

ProbeFile(r, f) ==
  LET j == job[r]
      v == content[f]
  IN
  /\ j.pc = "scan"
  /\ j.hand = NoFile
  /\ f \in j.todo
  /\ \/ Unreadable(r, f)
     \/ /\ Exists(v)
        /\ ToAuthenticate(j, f, v)
        /\ Becomes(r, [j EXCEPT !.hand = f,
                                !.kind = IF v.mode = "binary" THEN "binary" ELSE "text"])
     \/ /\ Exists(v)
        /\ ~ToAuthenticate(j, f, v)
        /\ Report(r, f, PrefixVerdict(j, f, v))

\* The verdict on the whole of v, read as what its prefix probed as.
WholeVerdictByHead(j, f, v) ==
  IF f \in j.hidden
  THEN IF v.mode = j.kind /\ OwnCiphertext(j.mem, v) THEN "FAILED" ELSE "ignored"
  ELSE IF v.mode # j.kind \/ ~HeadOpens(j.mem, v) THEN "FAILED"
  ELSE IF v.head = j.mem.cur THEN "verified" ELSE "pending"
WholeVerdictForeign(j, f, v) ==
  IF ~OwnCiphertext(j.mem, v) THEN "ignored"
  ELSE IF f \in j.hidden \/ v.mode # j.kind \/ ~Opens(Ring(j.mem), v) THEN "FAILED"
  ELSE IF v.head = j.mem.cur THEN "verified" ELSE "pending"
WholeVerdictByCurrent(j, f, v) ==
  IF f \in j.hidden
  THEN IF v.mode = j.kind /\ OwnCiphertext(j.mem, v) THEN "FAILED" ELSE "ignored"
  ELSE IF v.mode = j.kind /\ Opens({j.mem.cur}, v) THEN "verified" ELSE "FAILED"
WholeVerdict(j, f, v) ==
  IF f \in j.hidden
  THEN IF v.mode = j.kind /\ OwnCiphertext(j.mem, v) THEN "FAILED" ELSE "ignored"
  ELSE IF v.mode # j.kind \/ ~Opens(Ring(j.mem), v) THEN "FAILED"
  ELSE IF v.head = j.mem.cur THEN "verified" ELSE "pending"

Authenticate(r) ==
  LET j == job[r]
      f == j.hand
  IN
  /\ j.pc = "scan"
  /\ f # NoFile
  /\ \/ Unreadable(r, f)
     \/ Exists(content[f]) /\ Report(r, f, WholeVerdict(j, f, content[f]))

FinishScan(r) ==
  /\ job[r].pc = "scan"
  /\ job[r].todo = {}
  /\ Becomes(r, [job[r] EXCEPT !.pc = "done"])

\* ScanOutcome; the exit code of `status' says nothing of states.
Failing(j) == CASE j.cmd = "check"  -> {"plaintext", "unrecognized"}
                [] j.cmd = "verify" -> {"FAILED"}
                [] OTHER            -> {}
Outcome(j) ==
  IF \E f \in File : j.found[f] = "error" THEN "operational"
  ELSE IF \E f \in File : j.found[f] \in Failing(j) THEN "violations" ELSE "clean"

\* The process ends, also for an error before the scan, a wrong password or a
\* signal; its lock is released.
CloseScan(r) ==
  /\ job[r].pc # "idle"
  /\ Becomes(r, NoJob)

Scan(r) ==
  \/ \E k \in ScanReports, A \in SUBSET File : OpenScan(r, k, A)
  \/ ExpandScan(r)
  \/ \E f \in File : ProbeFile(r, f)
  \/ Authenticate(r)
  \/ FinishScan(r)
  \/ CloseScan(r)

------------------------------------------------------------------------------
\* Beside the commands.

\* Nobody holds the lock in shared mode.
NoScan == \A r \in Reader : job[r].pc = "idle"

\* What the user does under the eyes of the scans that run.
Watch ==
  job' = [r \in Reader |->
            IF job[r].pc = "idle" THEN job[r]
            ELSE [job[r] EXCEPT
                    !.edited   = @ \cup {f \in File : content'[f] # content[f]},
                    !.replaced = @ \/ config' # config]]

GatesNext ==
  \/ \E p \in Proc : \/ NoScan /\ Invoke(p) /\ UNCHANGED job
                     \/ (Step(p) \/ Interrupt(p)) /\ UNCHANGED job
  \/ PowerLoss /\ job' = [r \in Reader |-> NoJob]
  \/ User /\ Watch
  \/ \E r \in Reader : Scan(r) /\ UNCHANGED vars

GatesSpec == GatesInit /\ [][GatesNext]_allVars

------------------------------------------------------------------------------
\* A scan that has come to its end, of the whole domain or of its arguments.
Finished(r, k) == job[r].pc = "done" /\ job[r].cmd = k
Untouched(r)   == File \ job[r].edited

\* A line is due on f: check is silent on what is missing or excluded, and all
\* are on excluded plaintext and on exclusions without a file.
Due(j, f) ==
  /\ f \in ScanEntries(j)
  /\ IF f \in j.mem.excl
     THEN j.cmd # "check" /\ (ProbeHit(content[f]) \/ (~Exists(content[f]) /\ j.args # {}))
     ELSE j.cmd = "check" => Exists(content[f])

\* No target goes without its line: whatever happens around it, a scan that
\* comes to its end has spoken of every file it was to look at and that nobody
\* touched ("these examine everything and report all findings").
NothingUnsaid ==
  \A r \in Reader : job[r].pc = "done" =>
    \A f \in Untouched(r) : Due(job[r], f) => job[r].found[f] # ""

\* What verify reports as FAILED is so: of a file the user did not touch, no
\* command that runs at the same time makes a scan see half a migration or a
\* ring that lacks the key (the shared lock).
NoFalseAlarm ==
  \A r \in Reader, f \in File :
    /\ job[r].found[f] = "FAILED"
    /\ f \notin job[r].edited
    /\ ~job[r].replaced
    => IF f \in config.excl THEN OwnCiphertext(config, content[f])
       ELSE ProbeHit(content[f]) /\ ~Opens(Ring(config), content[f])

\* A clean verify of the whole domain: nothing that has not changed since can
\* keep `rekey --continue' from completing.
VerifyVouches ==
  \A r \in Reader :
    /\ Finished(r, "verify")
    /\ job[r].args = {}
    /\ Outcome(job[r]) = "clean"
    /\ ~job[r].replaced
    /\ job[r].edited = {}
    => ~Obstacle

\* If it has found nothing pending or missing either, prune refuses nothing:
\* the two judge by the same measure (src/ops/keychange.rs).
VerifyAgreesWithPrune ==
  \A r \in Reader :
    /\ Finished(r, "verify")
    /\ job[r].args = {}
    /\ Outcome(job[r]) = "clean"
    /\ \A f \in File : job[r].found[f] \notin {"pending", "missing"}
    /\ ~job[r].replaced
    /\ job[r].edited = {}
    => /\ Missing(config) = {}
       /\ \A f \in config.excl : ~OwnCiphertext(config, content[f])
       /\ \A f \in config.paths : Verified(config, content[f])

\* "The complete CI gate is `check && verify': encryptedness and authenticity":
\* if both are clean, every managed file that exists is ciphertext that opens,
\* plaintext that looks like ciphertext included.
GateIsComplete ==
  \A r, s \in Reader :
    /\ Finished(r, "check") /\ job[r].args = {} /\ Outcome(job[r]) = "clean"
    /\ Finished(s, "verify") /\ job[s].args = {} /\ Outcome(job[s]) = "clean"
    /\ job[r].mem = job[s].mem
    => \A f \in job[r].mem.paths \ (job[r].edited \cup job[s].edited) :
         Exists(content[f]) => Opens(Ring(job[r].mem), content[f])
==============================================================================
