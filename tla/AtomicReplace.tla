---------------------------- MODULE AtomicReplace ----------------------------
(***************************************************************************)
(* One directory, one target in it, and the invocations that replace the   *)
(* target (src/fsops.rs): sweep stale temporary files, read the target     *)
(* between two looks at its metadata, write and sync a temporary file,     *)
(* compare metadata once more, rename, restore the permissions, sync.      *)
(* Every system call is a step, so that a kill, a power loss, a failing    *)
(* call and another program's change may come between any two of them.     *)
(*                                                                         *)
(* Files are inodes.  What an inode holds and what a name refers to may    *)
(* lag behind on disk until synced: `safe' and `dirSafe' hold what a power *)
(* loss may leave.  Inode numbers are reused.  Times are ticks of the file *)
(* system's clock, which may not advance between two changes.  All         *)
(* contents are taken to have one length, the case in which the size tells *)
(* nothing; link counts move the ctime and are not modelled beyond that.   *)
(***************************************************************************)
EXTENDS Naturals, FiniteSets

CONSTANTS
  Proc,      \* invocations of the program
  Root,      \* domain roots whose managed entries reach the directory
  RootOf,    \* [Proc -> Root], whose lock the invocation takes
  Inode,
  Temp,      \* names of the temporary namespace
  Target,    \* the name being replaced
  Text,      \* whole contents, plaintext or ciphertext
  Turned,    \* [Text -> Text], what encrypting or decrypting makes of them
  Torn,      \* what a file holds when not all of it was written
  NoInode, NoTemp, NoSnap,
  MaxClock,  \* bound: ticks of the clock
  MaxEdits,  \* bound: changes by other programs
  MaxFaults, \* bound: kills, power losses and failing calls
  Exposed    \* the permission bits grant others to read: {TRUE, FALSE} or less

ASSUME NamesAssumption ==
  /\ NoInode \notin Inode
  /\ NoTemp \notin Temp
  /\ Target \notin Temp
  /\ Torn \notin Text
  /\ Turned \in [Text -> Text]
  /\ NoSnap \notin [ino : Inode, open : BOOLEAN, mtime : Nat, ctime : Nat]
  /\ RootOf \in [Proc -> Root]

ASSUME BoundsAssumption ==
  /\ MaxClock \in Nat \ {0}
  /\ {MaxEdits, MaxFaults} \subseteq Nat
  /\ Exposed \subseteq BOOLEAN

Name == Temp \cup {Target}

\* A content is whole or Torn.
Data == Text \cup {Torn}

\* Encrypting or decrypting what was read.
Product(v) == IF v = Torn THEN Torn ELSE Turned[v]

\* `open' says whether others may read.
Stored   == [data : Data, open : BOOLEAN]
Snapshot == [ino : Inode, open : BOOLEAN, mtime : 0..MaxClock, ctime : 0..MaxClock]

\* From taking the lock to returning the outcome.
Label == {"idle", "list", "sweep", "read", "restat", "create", "write", "fsync",
          "recheck", "rename", "chmod", "syncFile", "syncDir", "readback", "done"}

VARIABLES
  inode,   \* [Inode -> content, permissions, times, what a power loss leaves]
  dir,     \* [Name -> inode or NoInode], as any program sees it
  dirSafe, \* [Name -> what the entry may be after a power loss]
  clock,
  edits,   \* changes by other programs so far
  faults,  \* faults so far
  pc,      \* [Proc -> what the invocation does next]
  listed,  \* [Proc -> temporary names its sweep has yet to remove]
  fd,      \* [Proc -> the inode it has open]
  snap,    \* [Proc -> the snapshot it compares with]
  buf,     \* [Proc -> the content it read]
  temp,    \* [Proc -> its temporary name]
  durable, \* [Proc -> no sync after the rename has failed]
  granted, \* history: the user last let others read the target; or a power
           \* loss brought back, or a replacement put in the place of what the
           \* user changed in its window, a file they could read
  during,  \* history: [Proc -> steps at which another program changed the
           \* target, "inPlace" if the new file was, before its metadata were
           \* read back, "sweep" if the sweep failed to remove something]
  blurred  \* history: one tick saw an inode changed twice

disk  == <<inode, dir, dirSafe>>
world == <<clock, edits, granted, blurred>>
hand  == <<listed, fd, snap, buf, temp, durable>>
vars  == <<disk, world, faults, pc, hand, during>>

Record == [data : Data, open : BOOLEAN, mtime : 0..MaxClock,
           ctime : 0..MaxClock, safe : SUBSET Stored]

TypeOK ==
  /\ inode \in [Inode -> Record]
  /\ dir \in [Name -> Inode \cup {NoInode}]
  /\ dirSafe \in [Name -> SUBSET (Inode \cup {NoInode})]
  /\ clock \in 0..MaxClock
  /\ edits \in Nat
  /\ faults \in Nat
  /\ pc \in [Proc -> Label]
  /\ listed \in [Proc -> SUBSET Temp]
  /\ fd \in [Proc -> Inode \cup {NoInode}]
  /\ snap \in [Proc -> Snapshot \cup {NoSnap}]
  /\ buf \in [Proc -> Data]
  /\ temp \in [Proc -> Temp \cup {NoTemp}]
  /\ durable \in [Proc -> BOOLEAN]
  /\ granted \in BOOLEAN
  /\ during \in [Proc -> SUBSET (Label \cup {"inPlace"})]
  /\ blurred \in BOOLEAN

\* The target is there, whole and durable.
Init ==
  /\ \E i \in Inode, v \in Text, o \in Exposed :
       /\ inode = [j \in Inode |->
            IF j = i THEN [data |-> v, open |-> o, mtime |-> 0, ctime |-> 0,
                           safe |-> {[data |-> v, open |-> o]}]
            ELSE [data |-> Torn, open |-> FALSE, mtime |-> 0, ctime |-> 0, safe |-> {}]]
       /\ dir = [n \in Name |-> IF n = Target THEN i ELSE NoInode]
       /\ granted = o
  /\ dirSafe = [n \in Name |-> {dir[n]}]
  /\ buf = [p \in Proc |-> Torn]
  /\ clock = 1
  /\ edits = 0
  /\ faults = 0
  /\ pc = [p \in Proc |-> "idle"]
  /\ listed = [p \in Proc |-> {}]
  /\ fd = [p \in Proc |-> NoInode]
  /\ snap = [p \in Proc |-> NoSnap]
  /\ temp = [p \in Proc |-> NoTemp]
  /\ durable = [p \in Proc |-> TRUE]
  /\ during = [p \in Proc |-> {}]
  /\ blurred = FALSE

------------------------------------------------------------------------------
\* Snapshot::of, Snapshot::matches.
Stat(i) == [ino |-> i, open |-> inode[i].open,
            mtime |-> inode[i].mtime, ctime |-> inode[i].ctime]

MatchesByMtime(s, i) ==
  i # NoInode /\ s # NoSnap /\ [Stat(i) EXCEPT !.ctime = s.ctime] = s
Matches(s, i) == i # NoInode /\ s # NoSnap /\ Stat(i) = s

Goto(p, label) == pc' = [pc EXCEPT ![p] = label]

Fault == faults < MaxFaults /\ faults' = faults + 1

InUse == {dir[n] : n \in Name} \cup {fd[p] : p \in Proc}
         \cup (UNION {dirSafe[n] : n \in Name})
Free  == Inode \ InUse

\* An inode gets a new content or permission bits, which reach the disk later.
Unsynced(r, v, o) ==
  [r EXCEPT !.data = v, !.open = o, !.ctime = clock,
            !.safe = @ \cup {[data |-> v, open |-> o]}]

Touched(r, time) == [r EXCEPT !.mtime = time]

\* sync_all of a file: what it holds is on disk.
SyncedNever(r) == r
Synced(r) == [r EXCEPT !.safe = {[data |-> r.data, open |-> r.open]}]

\* All that is left of a file without a name: when its inode last changed.
Freed(r) == [data |-> Torn, open |-> FALSE, mtime |-> 0, ctime |-> r.ctime,
             safe |-> {}]

\* A name refers to another inode, or to none; the directory is not synced.
Point(n, i) ==
  /\ dir' = [dir EXCEPT ![n] = i]
  /\ dirSafe' = [dirSafe EXCEPT ![n] = @ \cup {i}]

PointDurably(n, i) ==
  /\ dir' = [dir EXCEPT ![n] = i]
  /\ dirSafe' = [dirSafe EXCEPT ![n] = {i}]

\* The invocations in P end: descriptors are closed, the lock is released.
End(P) ==
  /\ pc' = [p \in Proc |-> IF p \in P THEN "idle" ELSE pc[p]]
  /\ listed' = [p \in Proc |-> IF p \in P THEN {} ELSE listed[p]]
  /\ fd' = [p \in Proc |-> IF p \in P THEN NoInode ELSE fd[p]]
  /\ snap' = [p \in Proc |-> IF p \in P THEN NoSnap ELSE snap[p]]
  /\ temp' = [p \in Proc |-> IF p \in P THEN NoTemp ELSE temp[p]]
  /\ durable' = [p \in Proc |-> durable[p] \/ p \in P]
  /\ during' = [p \in Proc |-> IF p \in P THEN {} ELSE during[p]]
  /\ buf' = [p \in Proc |-> IF p \in P THEN Torn ELSE buf[p]]

Stop(p) == End({p}) /\ UNCHANGED <<disk, world>>

\* An error before the rename: TempGuard removes the temporary file on the way
\* out, and does not report that it could not.
Abandon(p) ==
  /\ End({p})
  /\ Point(temp[p], NoInode)
  /\ UNCHANGED <<inode, world>>

------------------------------------------------------------------------------
\* lock_dir and sweep_temps.

LockIgnored(p) == TRUE
LockFree(p) == \A q \in Proc : RootOf[q] = RootOf[p] => pc[q] = "idle"

Lock(p) ==
  /\ pc[p] = "idle"
  /\ LockFree(p)
  /\ Goto(p, "list")
  /\ UNCHANGED <<disk, world, faults, hand, during>>

\* read_dir: everything with the name of a temporary file is taken for stale.
List(p) ==
  /\ pc[p] = "list"
  /\ listed' = [listed EXCEPT ![p] = {t \in Temp : dir[t] # NoInode}]
  /\ Goto(p, "sweep")
  /\ UNCHANGED <<disk, world, faults, fd, snap, buf, temp, durable, during>>

\* Removing one of them, or a warning that it could not be removed.
Sweep(p, t) ==
  /\ pc[p] = "sweep"
  /\ t \in listed[p]
  /\ listed' = [listed EXCEPT ![p] = @ \ {t}]
  /\ \/ Point(t, NoInode) /\ UNCHANGED <<faults, during>>
     \/ /\ Fault
        /\ during' = [during EXCEPT ![p] = @ \cup {"sweep"}]
        /\ UNCHANGED <<dir, dirSafe>>
  /\ UNCHANGED <<inode, world, pc, fd, snap, buf, temp, durable>>

------------------------------------------------------------------------------
\* read_capped: metadata, content, metadata again, of the open descriptor.

StatTarget(p) ==
  /\ pc[p] = "sweep"
  /\ listed[p] = {}
  /\ \/ dir[Target] = NoInode /\ Stop(p)
     \/ /\ dir[Target] # NoInode
        /\ fd' = [fd EXCEPT ![p] = dir[Target]]
        /\ snap' = [snap EXCEPT ![p] = Stat(dir[Target])]
        /\ Goto(p, "read")
        /\ UNCHANGED <<disk, world, listed, buf, temp, durable, during>>
  /\ UNCHANGED faults

ReadTarget(p) ==
  /\ pc[p] = "read"
  /\ buf' = [buf EXCEPT ![p] = inode[fd[p]].data]
  /\ Goto(p, "restat")
  /\ UNCHANGED <<disk, world, faults, listed, fd, snap, temp, durable, during>>

RestatTarget(p) ==
  /\ pc[p] = "restat"
  /\ \/ ~Matches(snap[p], fd[p]) /\ Stop(p)
     \/ /\ Matches(snap[p], fd[p])
        /\ fd' = [fd EXCEPT ![p] = NoInode]
        /\ Goto(p, "create")
        /\ UNCHANGED <<disk, world, listed, snap, buf, temp, durable, during>>
  /\ UNCHANGED faults

------------------------------------------------------------------------------
\* atomic_replace.

\* A temporary file is nobody else's to read, whatever the target is.
TempAsTarget(p) == snap[p].open
TempPrivate(p) == FALSE
TempOpen(p) == TempPrivate(p)

\* create_temp: O_EXCL, so the name is new.
CreateTemp(p) ==
  /\ pc[p] = "create"
  /\ \/ Fault /\ Stop(p)
     \/ \E t \in Temp, i \in Free :
          /\ dir[t] = NoInode
          /\ inode' = [inode EXCEPT ![i] =
               [data |-> Torn, open |-> TempOpen(p), mtime |-> clock,
                ctime |-> clock, safe |-> {[data |-> Torn, open |-> TempOpen(p)]}]]
          /\ Point(t, i)
          /\ fd' = [fd EXCEPT ![p] = i]
          /\ temp' = [temp EXCEPT ![p] = t]
          /\ Goto(p, "write")
          /\ UNCHANGED <<world, faults, listed, snap, buf, durable, during>>

WriteTemp(p) ==
  /\ pc[p] = "write"
  /\ \/ Fault /\ Abandon(p)
     \/ /\ inode' = [inode EXCEPT ![fd[p]] =
                       Unsynced(Touched(@, clock), Product(buf[p]), @.open)]
        /\ Goto(p, "fsync")
        /\ UNCHANGED <<dir, dirSafe, world, faults, hand, during>>

SyncTemp(p) ==
  /\ pc[p] = "fsync"
  /\ \/ Fault /\ Abandon(p)
     \/ /\ inode' = [inode EXCEPT ![fd[p]] = Synced(@)]
        /\ Goto(p, "recheck")
        /\ UNCHANGED <<dir, dirSafe, world, faults, hand, during>>

Recheck(p) ==
  /\ pc[p] = "recheck"
  /\ \/ ~Matches(snap[p], dir[Target]) /\ Abandon(p)
     \/ /\ Matches(snap[p], dir[Target])
        /\ Goto(p, "rename")
        /\ UNCHANGED <<disk, world, hand, during>>
  /\ UNCHANGED faults

\* The commit point, which works by name.
Rename(p) ==
  /\ pc[p] = "rename"
  /\ \/ Fault /\ Abandon(p)
     \/ dir[temp[p]] = NoInode /\ Abandon(p) /\ UNCHANGED faults
     \/ /\ dir[temp[p]] # NoInode
        /\ dir' = [dir EXCEPT ![Target] = dir[temp[p]], ![temp[p]] = NoInode]
        /\ dirSafe' = [dirSafe EXCEPT ![Target] = @ \cup {dir[temp[p]]},
                                      ![temp[p]] = @ \cup {NoInode}]
        /\ temp' = [temp EXCEPT ![p] = NoTemp]
        /\ Goto(p, "chmod")
        /\ UNCHANGED <<inode, world, faults, listed, fd, snap, buf, durable, during>>

\* The permission bits of the file read, through the descriptor.
RestoreMode(p) ==
  /\ pc[p] = "chmod"
  /\ \/ Fault /\ UNCHANGED <<inode, granted>>
     \/ /\ inode' = [inode EXCEPT ![fd[p]] = Unsynced(@, @.data, snap[p].open)]
        /\ granted' = (granted \/ (snap[p].open /\ {"rename", "chmod"} \cap during[p] # {}))
        /\ UNCHANGED faults
  /\ Goto(p, "syncFile")
  /\ UNCHANGED <<dir, dirSafe, clock, edits, blurred, hand, during>>

\* sync_committed_file, sync_committed_dir: failures are warnings, remembered
\* in the outcome.
SyncFailedUnnoticed(p) == Fault /\ UNCHANGED <<durable, disk>>
SyncFailed(p) ==
  /\ Fault
  /\ durable' = [durable EXCEPT ![p] = FALSE]
  /\ UNCHANGED disk

SyncTarget(p) ==
  /\ pc[p] = "syncFile"
  /\ \/ SyncFailed(p)
     \/ /\ inode' = [inode EXCEPT ![fd[p]] = Synced(@)]
        /\ UNCHANGED <<dir, dirSafe, faults, durable>>
  /\ Goto(p, "syncDir")
  /\ UNCHANGED <<world, listed, fd, snap, buf, temp, during>>

SyncDir(p) ==
  /\ pc[p] = "syncDir"
  /\ \/ SyncFailed(p)
     \/ /\ dirSafe' = [n \in Name |-> {dir[n]}]
        /\ UNCHANGED <<inode, dir, faults, durable>>
  /\ Goto(p, "readback")
  /\ UNCHANGED <<world, listed, fd, snap, buf, temp, during>>

\* The snapshot later commands of the same run compare with.
StatPath(p) == IF dir[Target] = NoInode THEN NoSnap ELSE Stat(dir[Target])
StatDescriptor(p) == Stat(fd[p])
NewSnapshot(p) == StatDescriptor(p)

ReadBack(p) ==
  /\ pc[p] = "readback"
  /\ \/ Fault /\ snap' = [snap EXCEPT ![p] = NoSnap]
     \/ snap' = [snap EXCEPT ![p] = NewSnapshot(p)] /\ UNCHANGED faults
  /\ Goto(p, "done")
  /\ UNCHANGED <<disk, world, listed, fd, buf, temp, durable, during>>

Finish(p) ==
  /\ pc[p] = "done"
  /\ Stop(p)
  /\ UNCHANGED faults

------------------------------------------------------------------------------
\* The machine.

Kill(p) ==
  /\ pc[p] # "idle"
  /\ Fault
  /\ Stop(p)

PowerLoss ==
  LET entries == {d \in [Name -> UNION {dirSafe[n] : n \in Name}] :
                    \A n \in Name : d[n] \in dirSafe[n]}
      kept(I) == {c \in [I -> UNION {inode[i].safe : i \in I}] :
                    \A i \in I : c[i] \in inode[i].safe}
  IN
  /\ Fault
  /\ \E d \in entries : \E c \in kept({d[n] : n \in Name} \ {NoInode}) :
       /\ dir' = d
       /\ dirSafe' = [n \in Name |-> {d[n]}]
       /\ inode' = [i \in Inode |->
            IF i \in DOMAIN c
            THEN [inode[i] EXCEPT !.data = c[i].data, !.open = c[i].open,
                                  !.safe = {c[i]}]
            ELSE Freed(inode[i])]
       /\ granted' = (granted \/ (d[Target] # NoInode /\ inode'[d[Target]].open))
  /\ End(Proc)
  /\ UNCHANGED <<clock, edits, blurred>>

\* The system writes back on its own, whenever it likes.
Flush ==
  /\ inode' = [i \in Inode |->
       IF i \in {dir[n] : n \in Name} \cup {fd[p] : p \in Proc}
       THEN Synced(inode[i]) ELSE Freed(inode[i])]
  /\ dirSafe' = [n \in Name |-> {dir[n]}]
  /\ UNCHANGED <<dir, world, faults, pc, hand, during>>

Tick ==
  /\ clock < MaxClock
  /\ clock' = clock + 1
  /\ UNCHANGED <<disk, edits, granted, blurred, faults, pc, hand, during>>

------------------------------------------------------------------------------
\* Other programs, which take no lock.  What they do is taken to be durable.

\* Steps past the re-check, which nothing compares with any more.
Late == {"rename", "chmod", "syncFile", "syncDir", "readback", "done"}

Intervene(note) ==
  /\ edits < MaxEdits
  /\ edits' = edits + 1
  /\ during' = [p \in Proc |->
       during[p] \cup (IF pc[p] \in Late THEN {pc[p]} ELSE {})
                 \cup (IF pc[p] \in Late \ {"rename", "done"} THEN note ELSE {})]
  /\ UNCHANGED <<clock, faults, pc, hand>>

\* In place; a program may set the mtime back, never the ctime.
EditInPlace(v, forge) ==
  LET i == dir[Target]
  IN
  /\ Intervene({"inPlace"})
  /\ i # NoInode
  /\ inode' = [inode EXCEPT ![i] =
       Synced(Unsynced(Touched(@, IF forge THEN @.mtime ELSE clock), v, @.open))]
  /\ blurred' = (blurred \/ inode[i].ctime = clock)
  /\ UNCHANGED <<dir, dirSafe, granted>>

Chmod ==
  LET i == dir[Target]
  IN
  /\ Intervene({"inPlace"})
  /\ i # NoInode
  /\ (~inode[i].open) \in Exposed
  /\ inode' = [inode EXCEPT ![i] = Synced(Unsynced(@, @.data, ~@.open))]
  /\ granted' = ~inode[i].open
  /\ blurred' = (blurred \/ inode[i].ctime = clock)
  /\ UNCHANGED <<dir, dirSafe>>

\* An editor or git puts a new file in the place of the old.
ReplaceByRename(v, o) ==
  /\ Intervene({})
  /\ \E i \in Free :
       /\ inode' = [inode EXCEPT ![i] =
                      [data |-> v, open |-> o, mtime |-> clock, ctime |-> clock,
                       safe |-> {[data |-> v, open |-> o]}]]
       /\ PointDurably(Target, i)
       /\ blurred' = (blurred \/ inode[i].ctime = clock)
  /\ granted' = o

Remove ==
  /\ Intervene({})
  /\ dir[Target] # NoInode
  /\ PointDurably(Target, NoInode)
  /\ UNCHANGED <<inode, granted, blurred>>

------------------------------------------------------------------------------
Step(p) ==
  \/ Lock(p)
  \/ List(p)
  \/ \E t \in Temp : Sweep(p, t)
  \/ StatTarget(p)
  \/ ReadTarget(p)
  \/ RestatTarget(p)
  \/ CreateTemp(p)
  \/ WriteTemp(p)
  \/ SyncTemp(p)
  \/ Recheck(p)
  \/ Rename(p)
  \/ RestoreMode(p)
  \/ SyncTarget(p)
  \/ SyncDir(p)
  \/ ReadBack(p)
  \/ Finish(p)
  \/ Kill(p)

Others ==
  \/ \E v \in Text, forge \in BOOLEAN : EditInPlace(v, forge)
  \/ Chmod
  \/ \E v \in Text, o \in Exposed : ReplaceByRename(v, o)
  \/ Remove

Next ==
  \/ \E p \in Proc : Step(p)
  \/ PowerLoss
  \/ Flush
  \/ Tick
  \/ Others

Spec == Init /\ [][Next]_vars
==============================================================================
