------------------------------ MODULE DomainOps ------------------------------
(***************************************************************************)
(* One encryption domain and the commands that rewrite it: `encrypt',      *)
(* `decrypt' and the three forms of `rekey' (src/ops/encrypt.rs,           *)
(* decrypt.rs, keychange.rs), over the shared plumbing of ops/mod.rs, the  *)
(* config rewrite of config.rs and the atomic replacement of fsops.rs.     *)
(*                                                                         *)
(* Actors: the invocations in Proc, which exclude one another through an   *)
(* advisory lock; the user, who edits, stashes, merges and checks files    *)
(* out without asking for that lock; and the machine, which may interrupt  *)
(* a run, fail an fsync or lose power.                                     *)
(*                                                                         *)
(* Data abstraction.  A ciphertext is two authenticated units, `head' (the *)
(* unit the cheap check authenticates) and `tail' (every other one), each  *)
(* under some domain key.  Every path has an entry of its own in the       *)
(* config; directory entries are the business of target selection.  The    *)
(* key ring is its current key and the set of its older ones: the order    *)
(* among older entries is observable only through their wrapping.          *)
(* A snapshot (dev, inode, size, times, mode, links) is modelled by what   *)
(* comparing it decides: whether somebody else replaced the object since.  *)
(***************************************************************************)
EXTENDS Naturals, FiniteSets

CONSTANTS
  File,          \* canonical relative paths
  Key,           \* domain keys
  Text,          \* contents a user may give a file
  Proc,          \* invocations of the program
  NoKey, NoText, NoFile, NoProc,
  Lost,          \* what a file reads as when its text cannot be recovered
  Colliding,     \* texts that look like ciphertext to the probe
  NulText,       \* texts with a NUL byte, which select binary mode
  ForceBinary,   \* paths the config marks force_binary
  DirOf,         \* [File -> directory], for which fsync covers which rename
  RootDir,       \* the directory the config lives in
  MaxRing,       \* MAX_RING_LEN
  Commands,      \* the commands that are run
  MaxEdits,      \* bound: interventions of the user
  MaxFaults,     \* bound: interruptions, fsync failures and power losses
  CanKill,       \* a run may be killed between a rename and its fsync
  SyncCanFail,   \* the fsync after a rename may fail
  PowerCanFail,  \* the machine may lose power
  ReturnsMidRun  \* older ciphertext may come back while a command runs

\* "assume" is encrypt --assume-plaintext, "require" decrypt
\* --require-encrypted, and the last three are the forms of rekey.
AllCommands == {"encrypt", "assume", "decrypt", "require",
                "fresh", "continue", "prune"}
Encrypting  == {"encrypt", "assume"}
Decrypting  == {"decrypt", "require"}
Rekeying    == {"fresh", "continue", "prune"}

ASSUME NamesAssumption ==
  /\ NoKey \notin Key
  /\ NoText \notin Text
  /\ Lost \notin Text
  /\ NoText # Lost
  /\ NoFile \notin File
  /\ NoProc \notin Proc

ASSUME ParametersAssumption ==
  /\ Colliding \subseteq Text
  /\ NulText \subseteq Text
  /\ ForceBinary \subseteq File
  /\ MaxRing \in Nat \ {0}
  /\ Commands \subseteq AllCommands
  /\ MaxEdits \in Nat
  /\ MaxFaults \in Nat
  /\ {CanKill, SyncCanFail, PowerCanFail, ReturnsMidRun} \subseteq BOOLEAN

------------------------------------------------------------------------------
\* Contents of a path.

Absent          == [mode |-> "absent", head |-> NoKey, tail |-> NoKey,
                    text |-> NoText]
Plain(t)        == [mode |-> "plain", head |-> NoKey, tail |-> NoKey,
                    text |-> t]
Cipher(m, k, t) == [mode |-> m, head |-> k, tail |-> k, text |-> t]

Content ==
  {Absent}
  \cup [mode : {"plain"}, head : {NoKey}, tail : {NoKey}, text : Text \cup {Lost}]
  \cup [mode : {"text", "binary"}, head : Key, tail : Key, text : Text \cup {Lost}]

Exists(v)    == v.mode # "absent"
Encrypted(v) == v.mode \in {"text", "binary"}
KeysOf(v)    == {v.head, v.tail} \ {NoKey}

\* probe: the first bytes look like ciphertext of this tool.
ProbeHit(v) == Encrypted(v) \/ (v.mode = "plain" /\ v.text \in Colliding)

------------------------------------------------------------------------------
\* The config: the key ring and the two path lists.

ConfigRecord == [cur : Key, old : SUBSET Key,
                 paths : SUBSET File, excl : SUBSET File]
NoConfig     == [cur |-> NoKey, old |-> {}, paths |-> {}, excl |-> {}]

Ring(c)    == {c.cur} \cup c.old
Tracked(c) == c.paths \cup c.excl

\* What parse accepts: a ring of at most MaxRing entries, and no path both
\* managed and excluded.
Config == {c \in ConfigRecord : /\ c.cur \notin c.old
                               /\ IsFiniteSet(c.old)
                               /\ Cardinality(Ring(c)) <= MaxRing
                               /\ c.paths \cap c.excl = {}}

\* authenticate_first: the first unit selects a ring key.
HeadOpens(c, v) == Encrypted(v) /\ v.head \in Ring(c)

\* textmode/binmode::decrypt: every unit authenticates under the selected key.
OpensByHead(ring, v) == Encrypted(v) /\ v.head \in ring
Opens(ring, v) == Encrypted(v) /\ v.head \in ring /\ v.tail = v.head

\* pick_mode, for the text t of path f.
PickMode(f, t) == IF f \in ForceBinary \/ t \in NulText THEN "binary" ELSE "text"

\* What decrypting the units of v under the key of its head yields.
Decrypted(v) == IF v.head = v.tail THEN v.text ELSE Lost

\* encrypt_content.  Encrypting what already is ciphertext buries its text.
Encryption(c, f, v) ==
  LET t == IF Encrypted(v) THEN Lost ELSE v.text
  IN  Cipher(PickMode(f, t), c.cur, t)

\* plan: what the encrypt pass does with content v of path f.
PlanByProbe(c, f, v, assume) == IF ProbeHit(v) THEN "skip" ELSE "encrypt"
PlanAssumesFirst(c, f, v, assume) ==
  IF assume \/ ~ProbeHit(v) THEN "encrypt"
  ELSE IF ~HeadOpens(c, v) THEN "fail"
  ELSE IF v.head = c.cur THEN "skip" ELSE "migrate"
PlanNeverMigrates(c, f, v, assume) ==
  IF HeadOpens(c, v) THEN "skip" ELSE IF ProbeHit(v) THEN "fail" ELSE "encrypt"
Plan(c, f, v, assume) ==
  IF HeadOpens(c, v)
  THEN IF \/ v.mode = "binary" /\ v.head = c.cur
          \/ v.mode = "text" /\ v.head = c.cur /\ f \notin ForceBinary
       THEN "skip" ELSE "migrate"
  ELSE IF ~ProbeHit(v) \/ assume THEN "encrypt" ELSE "fail"

\* classify_excluded_ciphertext: some unit authenticates under a ring key.
OwnCiphertext(c, v) == Encrypted(v) /\ KeysOf(v) \cap Ring(c) # {}

\* What may be on disk together: config c can open every unit of v, and
\* knows the path of every ciphertext.
Fits(c, f, v) ==
  Encrypted(v) => /\ KeysOf(v) \subseteq Ring(c)
                  /\ f \in Tracked(c)

------------------------------------------------------------------------------
VARIABLES
  config,    \* the config file as any program sees it
  cfgLimbo,  \* the configs a power loss may leave, config among them
  content,   \* [File -> Content] as any program sees it
  limbo,     \* [File -> set of contents a power loss may leave]
  away,      \* [File -> Content] taken away by a stash, Absent if none
  commit,    \* the version history holds: [config, content]
  minted,    \* keys ever generated
  edits,     \* interventions of the user so far
  faults,    \* faults so far
  lock,      \* who holds the lock of the domain root, or NoProc
  pc,        \* [Proc -> what the invocation does next]
  cmd,       \* [Proc -> its command]
  args,      \* [Proc -> its explicit targets, {} for the managed list]
  mem,       \* [Proc -> its LoadedConfig]
  stale,     \* [Proc -> the config was replaced since it was loaded]
  work,      \* [Proc -> the files it expanded its targets to]
  hidden,    \* [Proc -> the excluded files it found]
  todo,      \* [Proc -> files the running pass has not processed]
  cur,       \* [Proc -> the file in hand]
  buf,       \* [Proc -> its content as read]
  moved      \* [Proc -> files somebody else changed since it read them]

tree  == <<config, cfgLimbo, content, limbo>>
user  == <<away, commit, edits>>
goals == <<cmd, args>>
files == <<work, hidden, todo>>
hand  == <<cur, buf>>
view  == <<mem, stale, moved>>
local == <<pc, goals, files, hand, view>>
vars  == <<tree, user, minted, faults, lock, local>>

Active  == {p \in Proc : pc[p] # "idle"}
Syncing == {"syncFile", "syncCfg"}

StoreTypes ==
  /\ config \in Config
  /\ cfgLimbo \in SUBSET Config
  /\ content \in [File -> Content]
  /\ limbo \in [File -> SUBSET Content]
  /\ away \in [File -> Content]
  /\ commit \in [config : Config, content : [File -> Content]]
  /\ minted \in SUBSET Key
  /\ edits \in Nat
  /\ faults \in Nat

LocalTypes ==
  /\ lock \in Proc \cup {NoProc}
  /\ pc \in [Proc -> {"idle", "opened", "expanded", "precheck", "pass", "read",
                      "verify", "done"} \cup Syncing]
  /\ cmd \in [Proc -> AllCommands \cup {"none"}]
  /\ args \in [Proc -> SUBSET File]
  /\ mem \in [Proc -> Config \cup {NoConfig}]
  /\ stale \in [Proc -> BOOLEAN]
  /\ work \in [Proc -> SUBSET File]
  /\ hidden \in [Proc -> SUBSET File]
  /\ todo \in [Proc -> SUBSET File]
  /\ cur \in [Proc -> File \cup {NoFile}]
  /\ buf \in [Proc -> Content]
  /\ moved \in [Proc -> SUBSET File]

TypeOK == StoreTypes /\ LocalTypes

\* Any consistent domain: the ring opens every ciphertext, whose path is
\* listed, and the working tree is what history holds.
Init ==
  /\ config \in Config
  /\ content \in [File -> Content]
  /\ \A f \in File : Fits(config, f, content[f])
  /\ cfgLimbo = {config}
  /\ limbo = [f \in File |-> {content[f]}]
  /\ away = [f \in File |-> Absent]
  /\ commit = [config |-> config, content |-> content]
  /\ minted = Ring(config)
  /\ edits = 0
  /\ faults = 0
  /\ lock = NoProc
  /\ pc = [p \in Proc |-> "idle"]
  /\ cmd = [p \in Proc |-> "none"]
  /\ args = [p \in Proc |-> {}]
  /\ mem = [p \in Proc |-> NoConfig]
  /\ stale = [p \in Proc |-> FALSE]
  /\ work = [p \in Proc |-> {}]
  /\ hidden = [p \in Proc |-> {}]
  /\ todo = [p \in Proc |-> {}]
  /\ cur = [p \in Proc |-> NoFile]
  /\ buf = [p \in Proc |-> Absent]
  /\ moved = [p \in Proc |-> {}]

------------------------------------------------------------------------------
\* Shared plumbing.

Goto(p, label) == pc' = [pc EXCEPT ![p] = label]

\* Everybody with a snapshot of these files, but for their author, will find
\* them changed.
FilesReplaced(F, author) ==
  moved' = [q \in Proc |->
             IF q \in Active \ {author} THEN moved[q] \cup F ELSE moved[q]]

ConfigReplaced(author) ==
  stale' = [q \in Proc |-> stale[q] \/ q \in Active \ {author}]

Reset(f, P, default) == [p \in Proc |-> IF p \in P THEN default ELSE f[p]]

\* The invocations in P end: their memory goes, their lock is released.
End(P) ==
  /\ lock' = IF lock \in P THEN NoProc ELSE lock
  /\ pc' = Reset(pc, P, "idle")
  /\ cmd' = Reset(cmd, P, "none")
  /\ args' = Reset(args, P, {})
  /\ mem' = Reset(mem, P, NoConfig)
  /\ stale' = Reset(stale, P, FALSE)
  /\ work' = Reset(work, P, {})
  /\ hidden' = Reset(hidden, P, {})
  /\ todo' = Reset(todo, P, {})
  /\ cur' = Reset(cur, P, NoFile)
  /\ buf' = Reset(buf, P, Absent)
  /\ moved' = Reset(moved, P, {})

\* An error exit, which changes nothing on disk.
Refuse(p) == End({p}) /\ UNCHANGED <<tree, user, faults>>

\* LoadedConfig::rewrite up to the rename: refused if the config is no longer
\* the one loaded; otherwise visible to all, and not yet durable.
Rewrite(p, c) ==
  \/ /\ stale[p]
     /\ Refuse(p)
  \/ /\ ~stale[p]
     /\ config' = c
     /\ cfgLimbo' = cfgLimbo \cup {c}
     /\ mem' = [mem EXCEPT ![p] = c]
     /\ ConfigReplaced(p)
     /\ todo' = [todo EXCEPT ![p] = work[p]]
     /\ Goto(p, "syncCfg")
     /\ UNCHANGED <<content, limbo, user, faults, lock, goals, work, hidden,
                    hand, moved>>

\* An fsync of directory d: every rename in it, old or new, is durable.
SettleNothing(d) == UNCHANGED <<limbo, cfgLimbo>>
Settle(d) ==
  /\ limbo' = [f \in File |-> IF DirOf[f] = d THEN {content[f]} ELSE limbo[f]]
  /\ cfgLimbo' = IF d = RootDir THEN {config} ELSE cfgLimbo

Fault == /\ faults < MaxFaults
         /\ faults' = faults + 1

------------------------------------------------------------------------------
\* Opening a domain.

LockIgnored == TRUE
LockFree == lock = NoProc

\* open_domain: take the exclusive lock (or fail at once) and then load the
\* config.  Bound: `rekey' is run only while Key has a key left to generate.
Open(p, k, A) ==
  /\ pc[p] = "idle"
  /\ LockFree
  /\ A # {} => k \notin Rekeying
  /\ k = "assume" => A # {}
  /\ k \in Encrypting => A \cap config.excl = {}
  /\ k = "fresh" => Key \ minted # {}
  /\ lock' = p
  /\ Goto(p, "opened")
  /\ cmd' = [cmd EXCEPT ![p] = k]
  /\ args' = [args EXCEPT ![p] = A]
  /\ mem' = [mem EXCEPT ![p] = config]
  /\ UNCHANGED <<tree, user, minted, faults, files, hand, stale, moved>>

\* audit_entries for the commands that look at exclusions, else the managed
\* list, else the targets named.
EntriesListed(p) == IF args[p] # {} THEN args[p] ELSE mem[p].paths
Entries(p) ==
  IF args[p] # {} THEN args[p]
  ELSE IF cmd[p] \in Encrypting THEN mem[p].paths ELSE Tracked(mem[p])

\* select::expand.  What is missing is left out: for good, even if it comes
\* back while the password is being typed.
Expand(p) ==
  LET there    == {f \in Entries(p) : Exists(content[f])}
      targets  == there \ mem[p].excl
      excluded == {f \in there \cap mem[p].excl :
                     cmd[p] \in Rekeying \/ ProbeHit(content[f])}
  IN
  /\ pc[p] = "opened"
  /\ \/ /\ args[p] \ there # {}
        /\ Refuse(p)
     \/ /\ args[p] \subseteq there
        /\ work' = [work EXCEPT ![p] = targets]
        /\ hidden' = [hidden EXCEPT ![p] = excluded]
        /\ todo' = [todo EXCEPT ![p] = targets]
        /\ Goto(p, IF cmd[p] \in Rekeying \/ targets \cup excluded # {}
                   THEN "expanded" ELSE "done")
        /\ UNCHANGED <<tree, user, faults, lock, goals, hand, view>>
  /\ UNCHANGED minted

------------------------------------------------------------------------------
\* From the password prompt to the pass over the files.

\* encrypt_pass registers every unlisted explicit target in one rewrite
\* before it encrypts any of them.
AddedNone(p) == {}
Added(p) == (work[p] \cap args[p]) \ mem[p].paths

Register(p) ==
  LET added == Added(p)
  IN
  /\ pc[p] = "expanded"
  /\ cmd[p] \in Encrypting
  /\ \/ /\ added = {}
        /\ Goto(p, "pass")
        /\ UNCHANGED <<tree, user, faults, lock, goals, files, hand, view>>
     \/ /\ added # {}
        /\ Rewrite(p, [mem[p] EXCEPT !.paths = @ \cup added])
  /\ UNCHANGED minted

StartDecrypt(p) ==
  /\ pc[p] = "expanded"
  /\ cmd[p] \in Decrypting
  /\ Goto(p, "pass")
  /\ UNCHANGED <<tree, user, minted, faults, lock, goals, files, hand, view>>

\* Managed entries that are not on disk: their ciphertext may come back.
MissingIgnored(c) == {}
Missing(c) == {f \in c.paths : ~Exists(content[f])}

\* scan_excluded_ciphertext, then what each form of rekey refuses before it
\* looks at any managed file.
ScanExcluded(p) ==
  LET c       == mem[p]
      gone    == \E f \in hidden[p] : ~Exists(content[f])
      hit     == \E f \in hidden[p] : OwnCiphertext(c, content[f])
      single  == c.old = {}
      refused == \/ gone
                 \/ cmd[p] = "continue" /\ hit
                 \/ cmd[p] = "prune" /\ ~single /\ (Missing(c) # {} \/ hit)
  IN
  /\ pc[p] = "expanded"
  /\ cmd[p] \in Rekeying
  /\ \/ /\ refused
        /\ Refuse(p)
     \/ /\ ~refused
        /\ Goto(p, CASE cmd[p] = "continue" -> "pass"
                     [] cmd[p] = "fresh" -> "precheck"
                     [] cmd[p] = "prune" -> IF single THEN "done" ELSE "verify")
        /\ todo' = [todo EXCEPT ![p] =
                      IF cmd[p] = "fresh" /\ single THEN {} ELSE work[p]]
        /\ UNCHANGED <<tree, user, faults, lock, goals, work, hidden, hand, view>>
  /\ UNCHANGED minted

\* find_old_epoch_file: a fresh rekey stops at an unfinished rotation.
PrecheckFile(p, f) ==
  LET v   == content[f]
      bad == \/ ~Exists(v)
             \/ ProbeHit(v) /\ ~(Encrypted(v) /\ v.head = mem[p].cur)
  IN
  /\ pc[p] = "precheck"
  /\ f \in todo[p]
  /\ \/ bad /\ Refuse(p)
     \/ /\ ~bad
        /\ todo' = [todo EXCEPT ![p] = @ \ {f}]
        /\ UNCHANGED <<tree, user, faults, lock, pc, goals, work, hidden, hand,
                       view>>
  /\ UNCHANGED minted

\* The ring the fresh key is put in front of: all of it, which is what keeps
\* an interrupted rotation readable.
RetainedNone(c) == {}
Retained(c) == Ring(c)

RingFullOffByOne(c) == Cardinality(Ring(c)) > MaxRing
RingFull(c) == Cardinality(Ring(c)) >= MaxRing

\* The fresh key is put in front of the ring and the config committed before
\* any file is touched.
Mint(p) ==
  /\ pc[p] = "precheck"
  /\ todo[p] = {}
  /\ \/ /\ RingFull(mem[p])
        /\ Refuse(p)
        /\ UNCHANGED minted
     \/ /\ ~RingFull(mem[p])
        /\ \E k \in Key \ minted :
             /\ minted' = minted \cup {k}
             /\ Rewrite(p, [mem[p] EXCEPT !.cur = k, !.old = Retained(mem[p])])

\* rewrite after the rename.  An unconfirmed rewrite ends the command, with
\* the new config visible.
SyncConfig(p) ==
  /\ pc[p] = "syncCfg"
  /\ \/ /\ Settle(RootDir)
        /\ Goto(p, IF cmd[p] = "prune" THEN "done" ELSE "pass")
        /\ UNCHANGED <<config, content, faults, lock, goals, files, hand, view>>
     \/ /\ SyncCanFail
        /\ Fault
        /\ End({p})
        /\ UNCHANGED <<config, content>>
        /\ Settle(RootDir) \/ UNCHANGED <<cfgLimbo, limbo>>
  /\ UNCHANGED <<user, minted>>

------------------------------------------------------------------------------
\* The pass over the files: run_serial, stopping at the first error.

ReadFile(p, f) ==
  /\ pc[p] = "pass"
  /\ f \in todo[p]
  /\ \/ ~Exists(content[f]) /\ Refuse(p)
     \/ /\ Exists(content[f])
        /\ cur' = [cur EXCEPT ![p] = f]
        /\ buf' = [buf EXCEPT ![p] = content[f]]
        /\ moved' = [moved EXCEPT ![p] = @ \ {f}]
        /\ Goto(p, "read")
        /\ UNCHANGED <<tree, user, faults, lock, goals, files, mem, stale>>
  /\ UNCHANGED minted

\* What becomes of the file in hand: recover_excluded for an excluded path,
\* the body of decrypt's pass, or the plan of the encrypt pass, whose
\* migration decrypts the whole file in memory first.
Verdict(p) ==
  LET c     == mem[p]
      v     == buf[p]
      plan  == Plan(c, cur[p], v, cmd[p] = "assume")
      opens == Opens(Ring(c), v)
  IN
  IF cmd[p] \in Decrypting
  THEN IF cur[p] \in c.excl THEN IF opens THEN "write" ELSE "skip"
       ELSE IF ~ProbeHit(v) THEN IF cmd[p] = "require" THEN "fail" ELSE "skip"
       ELSE IF opens THEN "write" ELSE "fail"
  ELSE IF plan = "encrypt" \/ (plan = "migrate" /\ opens) THEN "write"
       ELSE IF plan = "skip" THEN "skip" ELSE "fail"

ResultExposing(p) == Plain(Decrypted(buf[p]))
Result(p) ==
  IF cmd[p] \in Decrypting THEN Plain(Decrypted(buf[p]))
  ELSE IF Opens(Ring(mem[p]), buf[p])
       THEN Encryption(mem[p], cur[p], Plain(Decrypted(buf[p])))
       ELSE Encryption(mem[p], cur[p], buf[p])

SkipFile(p) ==
  /\ pc[p] = "read"
  /\ Verdict(p) = "skip"
  /\ todo' = [todo EXCEPT ![p] = @ \ {cur[p]}]
  /\ cur' = [cur EXCEPT ![p] = NoFile]
  /\ buf' = [buf EXCEPT ![p] = Absent]
  /\ Goto(p, "pass")
  /\ UNCHANGED <<tree, user, minted, faults, lock, goals, work, hidden, view>>

\* ensure_fresh of the config, and atomic_replace's own check of the file.
FreshFileOnly(p, f)   == f \notin moved[p]
FreshConfigOnly(p, f) == ~stale[p]
Fresh(p, f) == ~stale[p] /\ f \notin moved[p]

\* ensure_fresh, then atomic_replace up to the rename.  Both compare a
\* snapshot and refuse on a difference; what may still happen between the
\* two comparisons and the rename is the window the design accepts.
WriteFile(p) ==
  LET f == cur[p]
  IN
  /\ pc[p] = "read"
  /\ Verdict(p) = "write"
  /\ \/ ~Fresh(p, f) /\ Refuse(p)
     \/ /\ Fresh(p, f)
        /\ content' = [content EXCEPT ![f] = Result(p)]
        /\ limbo' = [limbo EXCEPT ![f] = @ \cup {Result(p)}]
        /\ FilesReplaced({f}, p)
        /\ todo' = [todo EXCEPT ![p] = @ \ {f}]
        /\ buf' = [buf EXCEPT ![p] = Absent]
        /\ Goto(p, "syncFile")
        /\ UNCHANGED <<config, cfgLimbo, user, faults, lock, goals, work, hidden,
                       cur, mem, stale>>
  /\ UNCHANGED minted

FailFile(p) ==
  /\ pc[p] = "read"
  /\ Verdict(p) = "fail"
  /\ Refuse(p)
  /\ UNCHANGED minted

\* atomic_replace after the rename.  For a file of the pass a failed fsync is
\* a warning, and the pass goes on.
SyncFile(p) ==
  /\ pc[p] = "syncFile"
  /\ \/ /\ Settle(DirOf[cur[p]])
        /\ UNCHANGED faults
     \/ /\ SyncCanFail
        /\ Fault
        /\ UNCHANGED <<cfgLimbo, limbo>>
  /\ cur' = [cur EXCEPT ![p] = NoFile]
  /\ Goto(p, "pass")
  /\ UNCHANGED <<config, content, user, minted, lock, goals, files, buf, view>>

\* The pass is over; decrypt goes on to the excluded files that looked
\* encrypted, rekey --continue to its full check.
FinishPass(p) ==
  LET recover == cmd[p] \in Decrypting /\ hidden[p] # {}
  IN
  /\ pc[p] = "pass"
  /\ todo[p] = {}
  /\ \/ /\ recover
        /\ todo' = [todo EXCEPT ![p] = hidden[p]]
        /\ hidden' = [hidden EXCEPT ![p] = {}]
        /\ UNCHANGED pc
     \/ /\ ~recover
        /\ todo' = [todo EXCEPT ![p] = IF cmd[p] = "continue" THEN work[p] ELSE {}]
        /\ Goto(p, IF cmd[p] = "continue" THEN "verify" ELSE "done")
        /\ UNCHANGED hidden
  /\ UNCHANGED <<tree, user, minted, faults, lock, goals, work, hand, view>>

------------------------------------------------------------------------------
\* ensure_all_current: every unit of every managed ciphertext is under the
\* current key.  Then --continue is complete, and --prune drops the old keys.

VerifiedByHead(c, v) == ProbeHit(v) => OpensByHead({c.cur}, v)
Verified(c, v) == ProbeHit(v) => Opens({c.cur}, v)

VerifyFile(p, f) ==
  LET ok == Exists(content[f]) /\ Verified(mem[p], content[f])
  IN
  /\ pc[p] = "verify"
  /\ f \in todo[p]
  /\ \/ ~ok /\ Refuse(p)
     \/ /\ ok
        /\ todo' = [todo EXCEPT ![p] = @ \ {f}]
        /\ moved' = [moved EXCEPT ![p] = @ \ {f}]
        /\ UNCHANGED <<tree, user, faults, lock, pc, goals, work, hidden, hand,
                       mem, stale>>
  /\ UNCHANGED minted

Converge(p) ==
  /\ pc[p] = "verify"
  /\ todo[p] = {}
  /\ \/ /\ cmd[p] = "continue"
        /\ Goto(p, "done")
        /\ UNCHANGED <<tree, user, faults, lock, goals, files, hand, view>>
     \/ /\ cmd[p] = "prune"
        /\ Rewrite(p, [mem[p] EXCEPT !.old = {}])
  /\ UNCHANGED minted

Close(p) ==
  /\ pc[p] = "done"
  /\ Refuse(p)
  /\ UNCHANGED minted

------------------------------------------------------------------------------
\* The machine.

\* An I/O error, a wrong password or a signal ends a run wherever it is.
Interrupt(p) ==
  /\ pc[p] # "idle"
  /\ pc[p] \in Syncing => CanKill
  /\ Fault
  /\ End({p})
  /\ UNCHANGED <<tree, user, minted>>

\* Renames not known to be durable stay or are rolled back, each on its own.
PowerLoss ==
  /\ PowerCanFail
  /\ Fault
  /\ config' \in cfgLimbo
  /\ content' \in {g \in [File -> UNION {limbo[f] : f \in File}] :
                    \A f \in File : g[f] \in limbo[f]}
  /\ cfgLimbo' = {config'}
  /\ limbo' = [f \in File |-> {content'[f]}]
  /\ End(Proc)
  /\ UNCHANGED <<user, minted>>

------------------------------------------------------------------------------
\* The user and git, who take no lock.  What they do is taken to be durable.

Intervene == /\ edits < MaxEdits
             /\ edits' = edits + 1

Replace(f, v) ==
  /\ content' = [content EXCEPT ![f] = v]
  /\ limbo' = [limbo EXCEPT ![f] = {v}]
  /\ FilesReplaced({f}, NoProc)
  /\ UNCHANGED <<config, cfgLimbo, minted, faults, lock, pc, goals, files, hand,
                 mem, stale>>

\* Older ciphertext comes back only between commands, unless ReturnsMidRun.
MayReturn == lock = NoProc \/ ReturnsMidRun

Edit(f, t) ==
  /\ Intervene
  /\ away[f] = Absent
  /\ content[f] # Plain(t)
  /\ Replace(f, Plain(t))
  /\ UNCHANGED <<away, commit>>

\* A file goes with a stash.  Excluded ciphertext taken out of the tree is
\* beyond the documented reach of the tool.
Stash(f) ==
  /\ Intervene
  /\ Exists(content[f])
  /\ f \in config.excl => ~Encrypted(content[f])
  /\ away' = [away EXCEPT ![f] = content[f]]
  /\ Replace(f, Absent)
  /\ UNCHANGED commit

Return(f) ==
  /\ Intervene
  /\ MayReturn
  /\ Exists(away[f])
  /\ ~Exists(content[f])
  /\ away' = [away EXCEPT ![f] = Absent]
  /\ Replace(f, away[f])
  /\ UNCHANGED commit

\* A line-level merge of two text ciphertexts: a head from one and a tail
\* from the other, both under keys of the ring.
Merge(f) ==
  LET v == content[f]
      w == commit.content[f]
  IN
  /\ Intervene
  /\ MayReturn
  /\ v.mode = "text" /\ w.mode = "text"
  /\ {v.head, w.tail} \subseteq Ring(config)
  /\ v.head # w.tail
  /\ \/ Replace(f, [v EXCEPT !.tail = w.tail])
     \/ Replace(f, [v EXCEPT !.head = w.tail, !.tail = v.head])
  /\ UNCHANGED <<away, commit>>

CommitAll ==
  /\ Intervene
  /\ commit' = [config |-> config, content |-> content]
  /\ UNCHANGED <<tree, away, minted, faults, lock, local>>

\* git checkout: config and files together go back to what was committed, and
\* what is as committed is not touched.
Checkout ==
  /\ Intervene
  /\ MayReturn \/ config # commit.config
  /\ away = [f \in File |-> Absent]
  /\ config' = commit.config
  /\ cfgLimbo' = {commit.config}
  /\ content' = commit.content
  /\ limbo' = [f \in File |-> {commit.content[f]}]
  /\ FilesReplaced({f \in File : content[f] # commit.content[f]}, NoProc)
  /\ IF config = commit.config THEN UNCHANGED stale ELSE ConfigReplaced(NoProc)
  /\ UNCHANGED <<away, commit, minted, faults, lock, pc, goals, files, hand, mem>>

------------------------------------------------------------------------------
\* What the code of a running invocation does next.
Step(p) ==
  \/ Expand(p)
  \/ Register(p)
  \/ StartDecrypt(p)
  \/ ScanExcluded(p)
  \/ \E f \in File : PrecheckFile(p, f) \/ ReadFile(p, f) \/ VerifyFile(p, f)
  \/ Mint(p)
  \/ SyncConfig(p)
  \/ SkipFile(p)
  \/ WriteFile(p)
  \/ FailFile(p)
  \/ SyncFile(p)
  \/ FinishPass(p)
  \/ Converge(p)
  \/ Close(p)

Invoke(p) == \E k \in Commands, A \in SUBSET File : Open(p, k, A)

User ==
  \/ \E f \in File, t \in Text : Edit(f, t)
  \/ \E f \in File : Stash(f) \/ Return(f) \/ Merge(f)
  \/ CommitAll
  \/ Checkout

Next ==
  \/ \E p \in Proc : Invoke(p) \/ Step(p) \/ Interrupt(p)
  \/ PowerLoss
  \/ User

Spec == Init /\ [][Next]_vars
==============================================================================
