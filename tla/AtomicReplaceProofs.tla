------------------------- MODULE AtomicReplaceProofs -------------------------
(***************************************************************************)
(* Proofs about AtomicReplace, for any number of invocations that take the *)
(* lock of one root, any files, contents and bounds.                       *)
(***************************************************************************)
EXTENDS ReplaceProps, TLAPS

\* All invocations take one lock.
OneLock == \A p, q \in Proc : RootOf[p] = RootOf[q]

-----------------------------------------------------------------------------
(***************************************************************************)
(* The parts of the inductive invariant.                                   *)
(***************************************************************************)

HasTemp   == {"write", "fsync", "recheck", "rename"}
Committed == {"chmod", "syncFile", "syncDir", "readback", "done"}
HasFile   == {"read", "restat"} \cup HasTemp \cup Committed

Alone == \A p, q \in Proc : pc[p] # "idle" /\ pc[q] # "idle" => p = q

\* The temporary file is where its name says, and not the target yet.
Held(p) ==
  /\ temp[p] # NoTemp <=> pc[p] \in HasTemp
  /\ fd[p] # NoInode <=> pc[p] \in HasFile
  /\ pc[p] = "idle" => snap[p] = NoSnap
  /\ pc[p] \in HasTemp => dir[temp[p]] = fd[p] /\ fd[p] \notin dirSafe[Target]

\* What the sweep has yet to remove, or could not.
Swept(p) ==
  "sweep" \notin during[p] =>
    \A t \in Temp : dir[t] # NoInode =>
      \/ pc[p] \in {"idle", "list"}
      \/ pc[p] = "sweep" /\ t \in listed[p]
      \/ t = temp[p]

\* A whole content, also after a power loss.
Whole(r) ==
  /\ r.data \in Text
  /\ [data |-> r.data, open |-> r.open] \in r.safe
  /\ \A s \in r.safe : s.data \in Text

OnlyProduct(p) ==
  /\ inode[fd[p]].data = Product(buf[p])
  /\ \A s \in inode[fd[p]].safe : s.data = Product(buf[p])

Visible     == \A n \in Name : dir[n] \in dirSafe[n]
TargetWhole == \A i \in Inode : i \in dirSafe[Target] => Whole(inode[i])

\* How far the new content has got.
Written(p) ==
  /\ pc[p] \in {"restat", "create"} \cup HasTemp \cup Committed => buf[p] \in Text
  /\ pc[p] \in {"read", "restat", "recheck", "rename"} \cup Committed => Whole(inode[fd[p]])
  /\ pc[p] = "fsync" => inode[fd[p]].data = Product(buf[p])
  /\ pc[p] \in {"recheck", "rename"} => OnlyProduct(p)
  /\ pc[p] \in Committed \ {"done"} /\ "inPlace" \notin during[p] => OnlyProduct(p)
  /\ pc[p] \in Committed /\ during[p] \subseteq {"sweep", "rename"} =>
       OnlyProduct(p) /\ dir[Target] = fd[p]
  /\ pc[p] \in {"readback", "done"} /\ during[p] \subseteq {"sweep", "rename"} /\ durable[p] =>
       dirSafe[Target] = {fd[p]}

\* Times never run ahead, nor back.
Behind ==
  /\ \A i \in Inode : inode[i].ctime <= clock
  /\ \A p \in Proc : snap[p] # NoSnap => snap[p].ctime <= inode[snap[p].ino].ctime

\* What an unchanged snapshot says about the content.
Compared(p) ==
  /\ pc[p] \in {"read", "restat"} => snap[p] # NoSnap /\ snap[p].ino = fd[p]
  /\ pc[p] \in {"create", "chmod"} \cup HasTemp => snap[p] # NoSnap
  /\ pc[p] = "restat" /\ inode[fd[p]].ctime = snap[p].ctime /\ ~blurred =>
       inode[fd[p]].data = buf[p]
  /\ /\ pc[p] \in {"create", "write", "fsync", "recheck"}
     /\ dir[Target] = snap[p].ino
     /\ inode[dir[Target]].ctime = snap[p].ctime
     /\ ~blurred
     => inode[dir[Target]].data = buf[p]
  /\ pc[p] = "rename" /\ "rename" \notin during[p] /\ ~blurred =>
       dir[Target] # NoInode /\ inode[dir[Target]].data = buf[p]
  /\ pc[p] = "done" /\ snap[p] # NoSnap => snap[p].ino = fd[p]
  /\ /\ pc[p] = "done"
     /\ snap[p] # NoSnap
     /\ inode[fd[p]].ctime = snap[p].ctime
     /\ "inPlace" \notin during[p]
     /\ ~blurred
     => inode[fd[p]].data = Product(buf[p])

\* Who may read.
TargetGranted == dir[Target] # NoInode /\ inode[dir[Target]].open => granted
Private(p) ==
  /\ pc[p] \in {"rename", "chmod"} /\ snap[p].open =>
       granted \/ {"rename", "chmod"} \cap during[p] # {}
  /\ pc[p] \in HasTemp => \A s \in inode[fd[p]].safe : ~s.open
  /\ pc[p] \in HasTemp => ~inode[fd[p]].open

Busy(p) == Held(p) /\ Swept(p) /\ Written(p) /\ Compared(p) /\ Private(p)

Store == Visible /\ TargetWhole /\ Behind /\ TargetGranted

IInv == TypeOK /\ Alone /\ Store /\ \A p \in Proc : Busy(p)

-----------------------------------------------------------------------------
(***************************************************************************)
(* Operators on inodes.                                                    *)
(***************************************************************************)

LEMMA SyncedFacts ==
  ASSUME NEW r \in Record
  PROVE  /\ Synced(r) \in Record
         /\ Synced(r).data = r.data /\ Synced(r).open = r.open
         /\ Synced(r).mtime = r.mtime /\ Synced(r).ctime = r.ctime
         /\ Synced(r).safe = {[data |-> r.data, open |-> r.open]}
BY DEF Synced, Record, Stored

LEMMA UnsyncedFacts ==
  ASSUME NEW r \in Record, NEW v \in Data, NEW o \in BOOLEAN, clock \in 0..MaxClock
  PROVE  /\ Unsynced(r, v, o) \in Record
         /\ Unsynced(r, v, o).data = v /\ Unsynced(r, v, o).open = o
         /\ Unsynced(r, v, o).mtime = r.mtime /\ Unsynced(r, v, o).ctime = clock
         /\ Unsynced(r, v, o).safe = r.safe \cup {[data |-> v, open |-> o]}
<1>1. r.safe \cup {[data |-> v, open |-> o]} \in SUBSET Stored
  BY DEF Record, Stored
<1>2. /\ Unsynced(r, v, o).data = v /\ Unsynced(r, v, o).open = o
      /\ Unsynced(r, v, o).mtime = r.mtime /\ Unsynced(r, v, o).ctime = clock
      /\ Unsynced(r, v, o).safe = r.safe \cup {[data |-> v, open |-> o]}
  BY DEF Unsynced, Record
<1>3. Unsynced(r, v, o) \in Record
  <2> DEFINE a == [r EXCEPT !.data = v, !.open = o, !.ctime = clock]
  <2>1. a \in Record /\ a.safe = r.safe
    BY DEF Record
  <2>2. Unsynced(r, v, o) = [a EXCEPT !.safe = r.safe \cup {[data |-> v, open |-> o]}]
    BY DEF Unsynced, Record
  <2> HIDE DEF a
  <2> QED BY <1>1, <2>1, <2>2 DEF Record
<1> QED BY <1>2, <1>3

LEMMA TouchedFacts ==
  ASSUME NEW r \in Record, NEW t \in 0..MaxClock
  PROVE  /\ Touched(r, t) \in Record
         /\ Touched(r, t).data = r.data /\ Touched(r, t).open = r.open
         /\ Touched(r, t).ctime = r.ctime /\ Touched(r, t).safe = r.safe
BY DEF Touched, Record

LEMMA FreedFacts ==
  ASSUME NEW r \in Record
  PROVE  Freed(r) \in Record /\ Freed(r).ctime = r.ctime
BY BoundsAssumption DEF Freed, Record, Stored, Data

LEMMA StatFacts ==
  ASSUME NEW i \in Inode, inode[i] \in Record
  PROVE  /\ Stat(i) \in Snapshot
         /\ Stat(i).ino = i /\ Stat(i).open = inode[i].open
         /\ Stat(i).mtime = inode[i].mtime /\ Stat(i).ctime = inode[i].ctime
BY DEF Stat, Snapshot, Record

LEMMA ProductType ==
  ASSUME NEW v
  PROVE  /\ v \in Data => Product(v) \in Data
         /\ v \in Text => Product(v) \in Text
BY NamesAssumption DEF Product, Data

-----------------------------------------------------------------------------
(***************************************************************************)
(* Types.                                                                  *)
(***************************************************************************)

LEMMA InitTyped == Init => TypeOK
<1> SUFFICES ASSUME Init PROVE TypeOK
  OBVIOUS
<1> PICK i \in Inode, v \in Text, o \in Exposed :
      /\ inode = [j \in Inode |->
           IF j = i THEN [data |-> v, open |-> o, mtime |-> 0, ctime |-> 0,
                          safe |-> {[data |-> v, open |-> o]}]
           ELSE [data |-> Torn, open |-> FALSE, mtime |-> 0, ctime |-> 0, safe |-> {}]]
      /\ dir = [n \in Name |-> IF n = Target THEN i ELSE NoInode]
      /\ granted = o
  BY DEF Init
<1>1. o \in BOOLEAN /\ v \in Data /\ Torn \in Data /\ 0 \in 0..MaxClock /\ 1 \in 0..MaxClock
  BY BoundsAssumption DEF Data
<1>2. inode \in [Inode -> Record]
  <2>1. [data |-> v, open |-> o, mtime |-> 0, ctime |-> 0,
         safe |-> {[data |-> v, open |-> o]}] \in Record
    BY <1>1 DEF Record, Stored
  <2>2. [data |-> Torn, open |-> FALSE, mtime |-> 0, ctime |-> 0, safe |-> {}] \in Record
    BY <1>1 DEF Record, Stored
  <2> QED BY <2>1, <2>2
<1>3. dir \in [Name -> Inode \cup {NoInode}]
  OBVIOUS
<1>4. dirSafe \in [Name -> SUBSET (Inode \cup {NoInode})]
  BY <1>3 DEF Init
<1>5. pc \in [Proc -> Label] /\ buf \in [Proc -> Data]
  BY <1>1 DEF Init, Label
<1>6. /\ listed \in [Proc -> SUBSET Temp] /\ fd \in [Proc -> Inode \cup {NoInode}]
      /\ snap \in [Proc -> Snapshot \cup {NoSnap}] /\ temp \in [Proc -> Temp \cup {NoTemp}]
      /\ durable \in [Proc -> BOOLEAN] /\ during \in [Proc -> SUBSET (Label \cup {"inPlace"})]
  BY DEF Init
<1> QED BY <1>1, <1>2, <1>3, <1>4, <1>5, <1>6 DEF Init, TypeOK

DiskTypes ==
  /\ inode \in [Inode -> Record]
  /\ dir \in [Name -> Inode \cup {NoInode}]
  /\ dirSafe \in [Name -> SUBSET (Inode \cup {NoInode})]

LocalTypes ==
  /\ pc \in [Proc -> Label]
  /\ listed \in [Proc -> SUBSET Temp]
  /\ fd \in [Proc -> Inode \cup {NoInode}]
  /\ snap \in [Proc -> Snapshot \cup {NoSnap}]
  /\ buf \in [Proc -> Data]
  /\ temp \in [Proc -> Temp \cup {NoTemp}]
  /\ durable \in [Proc -> BOOLEAN]
  /\ during \in [Proc -> SUBSET (Label \cup {"inPlace"})]

WorldTypes ==
  clock \in 0..MaxClock /\ edits \in Nat /\ granted \in BOOLEAN /\ blurred \in BOOLEAN

LEMMA TypeParts == TypeOK <=> DiskTypes /\ LocalTypes /\ WorldTypes /\ faults \in Nat
BY DEF TypeOK, DiskTypes, LocalTypes, WorldTypes

LEMMA EndTypes ==
  ASSUME LocalTypes, NEW P, End(P)
  PROVE  LocalTypes'
<1>1. pc' \in [Proc -> Label] /\ listed' \in [Proc -> SUBSET Temp]
      /\ fd' \in [Proc -> Inode \cup {NoInode}]
  BY DEF End, LocalTypes, Label
<1>2. snap' \in [Proc -> Snapshot \cup {NoSnap}] /\ buf' \in [Proc -> Data]
      /\ temp' \in [Proc -> Temp \cup {NoTemp}]
  BY DEF End, LocalTypes, Data
<1>3. durable' \in [Proc -> BOOLEAN]
  BY DEF End
<1>4. during' \in [Proc -> SUBSET (Label \cup {"inPlace"})]
  BY DEF End, LocalTypes
<1> QED BY <1>1, <1>2, <1>3, <1>4 DEF LocalTypes

LEMMA StopTypes ==
  ASSUME TypeOK, NEW p \in Proc, Stop(p), faults' \in Nat
  PROVE  TypeOK'
<1>1. LocalTypes'
  BY EndTypes, TypeParts DEF Stop
<1> QED BY <1>1 DEF Stop, TypeOK, LocalTypes, disk, world

LEMMA PointTypes ==
  ASSUME DiskTypes, NEW n \in Name, NEW i \in Inode \cup {NoInode},
         Point(n, i) \/ PointDurably(n, i)
  PROVE  /\ dir' \in [Name -> Inode \cup {NoInode}]
         /\ dirSafe' \in [Name -> SUBSET (Inode \cup {NoInode})]
BY DEF Point, PointDurably, DiskTypes

LEMMA AbandonTypes ==
  ASSUME TypeOK, NEW p \in Proc, Abandon(p), temp[p] \in Temp, faults' \in Nat
  PROVE  TypeOK'
<1>1. LocalTypes'
  BY EndTypes, TypeParts DEF Abandon
<1>2. /\ dir' \in [Name -> Inode \cup {NoInode}]
      /\ dirSafe' \in [Name -> SUBSET (Inode \cup {NoInode})]
  BY PointTypes, TypeParts DEF Abandon, Name
<1> QED BY <1>1, <1>2 DEF Abandon, TypeOK, LocalTypes, world

\* Locked steps, one file and one entry at a time.
LEMMA StepTyped ==
  ASSUME IInv, NEW p \in Proc, Step(p)
  PROVE  TypeOK'
<1> TypeOK /\ Held(p)
  BY DEF IInv, Busy
<1> USE DEF Goto
<1>f. ASSUME Fault PROVE faults' \in Nat
  BY <1>f DEF Fault, TypeOK
<1>r. \A i \in Inode : inode[i] \in Record /\ Stat(i) \in Snapshot
  BY StatFacts DEF TypeOK
<1>h. /\ pc[p] \in HasTemp => temp[p] \in Temp
      /\ pc[p] \in HasFile => fd[p] \in Inode
  BY DEF Held, TypeOK
<1>1. CASE Lock(p)
  BY <1>1 DEF Lock, TypeOK, Label, disk, world, hand
<1>2. CASE List(p)
  <2>1. listed' \in [Proc -> SUBSET Temp]
    BY <1>2 DEF List, TypeOK
  <2> QED BY <1>2, <2>1 DEF List, TypeOK, Label, disk, world
<1>3. ASSUME NEW t \in Temp, Sweep(p, t) PROVE TypeOK'
  <2>1. /\ dir' \in [Name -> Inode \cup {NoInode}]
        /\ dirSafe' \in [Name -> SUBSET (Inode \cup {NoInode})]
    BY <1>3, PointTypes, TypeParts DEF Sweep, Name, DiskTypes
  <2>2. faults' \in Nat /\ during' \in [Proc -> SUBSET (Label \cup {"inPlace"})]
    BY <1>3, <1>f DEF Sweep, TypeOK, Label
  <2>3. listed' \in [Proc -> SUBSET Temp]
    BY <1>3 DEF Sweep, TypeOK
  <2> QED BY <1>3, <2>1, <2>2, <2>3 DEF Sweep, TypeOK, world
<1>4. CASE StatTarget(p)
  <2>1. CASE Stop(p)
    BY <1>4, <2>1, StopTypes DEF StatTarget, TypeOK
  <2>2. CASE ~Stop(p)
    <3>1. dir[Target] \in Inode
      BY <1>4, <2>2 DEF StatTarget, TypeOK, Name
    <3>2. fd' \in [Proc -> Inode \cup {NoInode}] /\ snap' \in [Proc -> Snapshot \cup {NoSnap}]
      BY <1>4, <2>2, <3>1, <1>r DEF StatTarget, TypeOK
    <3> QED BY <1>4, <2>2, <3>2 DEF StatTarget, TypeOK, Label, disk, world
  <2> QED BY <2>1, <2>2
<1>5. CASE ReadTarget(p)
  <2>1. inode[fd[p]].data \in Data
    BY <1>5, <1>h, <1>r DEF ReadTarget, HasFile, Record
  <2> QED BY <1>5, <2>1 DEF ReadTarget, TypeOK, Label, disk, world
<1>6. CASE RestatTarget(p)
  <2>1. CASE Stop(p)
    BY <1>6, <2>1, StopTypes DEF RestatTarget, TypeOK
  <2>2. CASE ~Stop(p)
    BY <1>6, <2>2 DEF RestatTarget, TypeOK, Label, disk, world
  <2> QED BY <2>1, <2>2
<1>7. CASE CreateTemp(p)
  <2>1. CASE Fault /\ Stop(p)
    BY <2>1, <1>f, StopTypes
  <2>2. CASE ~(Fault /\ Stop(p))
    <3> PICK t \in Temp, i \in Free :
          /\ inode' = [inode EXCEPT ![i] =
               [data |-> Torn, open |-> TempOpen(p), mtime |-> clock,
                ctime |-> clock, safe |-> {[data |-> Torn, open |-> TempOpen(p)]}]]
          /\ Point(t, i)
          /\ fd' = [fd EXCEPT ![p] = i]
          /\ temp' = [temp EXCEPT ![p] = t]
          /\ Goto(p, "write")
          /\ UNCHANGED <<world, faults, listed, snap, buf, durable, during>>
      BY <1>7, <2>2 DEF CreateTemp
    <3>1. i \in Inode
      BY DEF Free
    <3>2. [data |-> Torn, open |-> TempOpen(p), mtime |-> clock,
           ctime |-> clock, safe |-> {[data |-> Torn, open |-> TempOpen(p)]}] \in Record
      BY DEF TypeOK, Record, Stored, Data, TempOpen, TempPrivate
    <3>3. inode' \in [Inode -> Record]
      BY <3>1, <3>2 DEF TypeOK
    <3>4. /\ dir' \in [Name -> Inode \cup {NoInode}]
          /\ dirSafe' \in [Name -> SUBSET (Inode \cup {NoInode})]
      BY <3>1, PointTypes, TypeParts DEF Name
    <3> QED BY <3>1, <3>3, <3>4 DEF TypeOK, Label, world
  <2> QED BY <2>1, <2>2
<1>8. CASE WriteTemp(p)
  <2>1. CASE Fault /\ Abandon(p)
    BY <1>8, <2>1, <1>f, <1>h, AbandonTypes DEF WriteTemp, HasTemp
  <2>2. CASE ~(Fault /\ Abandon(p))
    <3>1. fd[p] \in Inode
      BY <1>8, <1>h DEF WriteTemp, HasFile, HasTemp
    <3> DEFINE r == Touched(inode[fd[p]], clock)
    <3>2. r \in Record /\ r.open \in BOOLEAN /\ r.open = inode[fd[p]].open
      BY <3>1, TouchedFacts DEF TypeOK, Record
    <3>3. Product(buf[p]) \in Data
      BY ProductType DEF TypeOK
    <3>4. inode' = [inode EXCEPT ![fd[p]] = Unsynced(r, Product(buf[p]), r.open)]
      BY <1>8, <2>2, <3>2 DEF WriteTemp
    <3>5. Unsynced(r, Product(buf[p]), r.open) \in Record
      <4> HIDE DEF r
      <4> QED BY <3>2, <3>3, UnsyncedFacts DEF TypeOK
    <3> HIDE DEF r
    <3> QED BY <1>8, <2>2, <3>1, <3>4, <3>5 DEF WriteTemp, TypeOK, Label, world, hand
  <2> QED BY <2>1, <2>2
<1>9. CASE SyncTemp(p)
  <2>1. CASE Fault /\ Abandon(p)
    BY <1>9, <2>1, <1>f, <1>h, AbandonTypes DEF SyncTemp, HasTemp
  <2>2. CASE ~(Fault /\ Abandon(p))
    <3>1. fd[p] \in Inode
      BY <1>9, <1>h DEF SyncTemp, HasFile, HasTemp
    <3>2. Synced(inode[fd[p]]) \in Record
      BY <3>1, <1>r, SyncedFacts
    <3> QED BY <1>9, <2>2, <3>1, <3>2 DEF SyncTemp, TypeOK, Label, world, hand
  <2> QED BY <2>1, <2>2
<1>10. CASE Recheck(p)
  <2>1. CASE Abandon(p)
    BY <1>10, <2>1, <1>h, AbandonTypes DEF Recheck, HasTemp, TypeOK
  <2>2. CASE ~Abandon(p)
    BY <1>10, <2>2 DEF Recheck, TypeOK, Label, disk, world, hand
  <2> QED BY <2>1, <2>2
<1>11. CASE Rename(p)
  <2>1. CASE Abandon(p)
    BY <1>11, <2>1, <1>f, <1>h, AbandonTypes DEF Rename, HasTemp, TypeOK
  <2>2. CASE ~Abandon(p)
    <3>1. temp[p] \in Name /\ Target \in Name
      BY <1>11, <1>h DEF Rename, Name, HasTemp
    <3>2. dir[temp[p]] \in Inode \cup {NoInode}
      BY <3>1 DEF TypeOK
    <3>3. dir' \in [Name -> Inode \cup {NoInode}]
      BY <1>11, <2>2, <3>1, <3>2 DEF Rename, TypeOK
    <3>4. dirSafe' \in [Name -> SUBSET (Inode \cup {NoInode})]
      BY <1>11, <2>2, <3>1, <3>2 DEF Rename, TypeOK
    <3> QED BY <1>11, <2>2, <3>3, <3>4 DEF Rename, TypeOK, Label, world
  <2> QED BY <2>1, <2>2
<1>12. CASE RestoreMode(p)
  <2>1. fd[p] \in Inode
    BY <1>12, <1>h DEF RestoreMode, HasFile, Committed
  <2>2. snap[p] \in Snapshot
    BY <1>12 DEF RestoreMode, IInv, Busy, Compared, TypeOK
  <2>3. inode[fd[p]].data \in Data /\ snap[p].open \in BOOLEAN
    BY <2>1, <2>2, <1>r DEF Record, Snapshot
  <2>4. Unsynced(inode[fd[p]], inode[fd[p]].data, snap[p].open) \in Record
    BY <2>1, <2>3, <1>r, UnsyncedFacts DEF TypeOK
  <2>5. inode' \in [Inode -> Record] /\ granted' \in BOOLEAN /\ faults' \in Nat
    BY <1>12, <2>1, <2>3, <2>4, <1>f DEF RestoreMode, TypeOK
  <2> QED BY <1>12, <2>5 DEF RestoreMode, TypeOK, Label, hand
<1>13. CASE SyncTarget(p)
  <2>1. fd[p] \in Inode
    BY <1>13, <1>h DEF SyncTarget, HasFile, Committed
  <2>2. Synced(inode[fd[p]]) \in Record
    BY <2>1, <1>r, SyncedFacts
  <2>3. inode' \in [Inode -> Record] /\ faults' \in Nat /\ durable' \in [Proc -> BOOLEAN]
        /\ UNCHANGED <<dir, dirSafe>>
    BY <1>13, <2>1, <2>2, <1>f DEF SyncTarget, SyncFailed, TypeOK, disk
  <2> QED BY <1>13, <2>3 DEF SyncTarget, TypeOK, Label, world
<1>14. CASE SyncDir(p)
  <2>1. UNCHANGED <<inode, dir>> /\ faults' \in Nat /\ durable' \in [Proc -> BOOLEAN]
    BY <1>14, <1>f DEF SyncDir, SyncFailed, TypeOK, disk
  <2>2. dirSafe' \in [Name -> SUBSET (Inode \cup {NoInode})]
    BY <1>14 DEF SyncDir, SyncFailed, TypeOK, disk
  <2> QED BY <1>14, <2>1, <2>2 DEF SyncDir, TypeOK, Label, world
<1>15. CASE ReadBack(p)
  <2>1. fd[p] \in Inode
    BY <1>15, <1>h DEF ReadBack, HasFile, Committed
  <2>2. snap' \in [Proc -> Snapshot \cup {NoSnap}] /\ faults' \in Nat
    BY <1>15, <2>1, <1>r, <1>f DEF ReadBack, NewSnapshot, StatDescriptor, TypeOK
  <2> QED BY <1>15, <2>2 DEF ReadBack, TypeOK, Label, disk, world
<1>16. CASE Finish(p)
  BY <1>16, StopTypes DEF Finish, TypeOK
<1>17. CASE Kill(p)
  BY <1>17, <1>f, StopTypes DEF Kill
<1> QED BY <1>1, <1>2, <1>3, <1>4, <1>5, <1>6, <1>7, <1>8, <1>9, <1>10, <1>11, <1>12,
           <1>13, <1>14, <1>15, <1>16, <1>17 DEF Step

LEMMA FaultTypes ==
  ASSUME TypeOK, Fault
  PROVE  faults' \in Nat
BY DEF TypeOK, Fault

LEMMA PowerLossTyped ==
  ASSUME TypeOK, PowerLoss
  PROVE  TypeOK'
<1> DEFINE entries == {d \in [Name -> UNION {dirSafe[n] : n \in Name}] :
                         \A n \in Name : d[n] \in dirSafe[n]}
           kept(I) == {c \in [I -> UNION {inode[i].safe : i \in I}] :
                         \A i \in I : c[i] \in inode[i].safe}
<1> PICK d \in entries : \E c \in kept({d[n] : n \in Name} \ {NoInode}) :
       /\ dir' = d
       /\ dirSafe' = [n \in Name |-> {d[n]}]
       /\ inode' = [i \in Inode |->
            IF i \in DOMAIN c
            THEN [inode[i] EXCEPT !.data = c[i].data, !.open = c[i].open,
                                  !.safe = {c[i]}]
            ELSE Freed(inode[i])]
       /\ granted' = (granted \/ (d[Target] # NoInode /\ inode'[d[Target]].open))
  BY DEF PowerLoss
<1> PICK c \in kept({d[n] : n \in Name} \ {NoInode}) :
       /\ dir' = d
       /\ dirSafe' = [n \in Name |-> {d[n]}]
       /\ inode' = [i \in Inode |->
            IF i \in DOMAIN c
            THEN [inode[i] EXCEPT !.data = c[i].data, !.open = c[i].open,
                                  !.safe = {c[i]}]
            ELSE Freed(inode[i])]
       /\ granted' = (granted \/ (d[Target] # NoInode /\ inode'[d[Target]].open))
  OBVIOUS
<1>1. \A n \in Name : d[n] \in Inode \cup {NoInode}
  BY DEF TypeOK
<1>2. dir' \in [Name -> Inode \cup {NoInode}]
  BY <1>1
<1>3. dirSafe' \in [Name -> SUBSET (Inode \cup {NoInode})]
  BY <1>1
<1>4. ASSUME NEW i \in Inode PROVE inode'[i] \in Record
  <2>1. CASE i \in DOMAIN c
    <3>1. c[i] \in Stored
      BY <2>1 DEF TypeOK, Record
    <3>2. c[i].data \in Data /\ c[i].open \in BOOLEAN
      BY <3>1 DEF Stored
    <3> DEFINE a == [inode[i] EXCEPT !.data = c[i].data, !.open = c[i].open]
    <3>3. a \in Record
      <4>1. inode[i] \in Record
        BY DEF TypeOK
      <4> QED BY <3>2, <4>1 DEF Record
    <3>4. [a EXCEPT !.safe = {c[i]}] \in Record
      <4> HIDE DEF a
      <4> QED BY <3>1, <3>3 DEF Record
    <3>5. inode'[i] = [a EXCEPT !.safe = {c[i]}]
      BY <2>1
    <3> QED BY <3>4, <3>5
  <2>2. CASE i \notin DOMAIN c
    <3>1. inode[i] \in Record
      BY DEF TypeOK
    <3>2. inode'[i] = Freed(inode[i])
      BY <2>2
    <3> QED BY <3>1, <3>2, FreedFacts
  <2> QED BY <2>1, <2>2
<1>5. inode' \in [Inode -> Record]
  <2>1. DOMAIN inode' = Inode /\ inode' = [i \in Inode |-> inode'[i]]
    OBVIOUS
  <2> QED BY <1>4, <2>1
<1>6. LocalTypes'
  BY EndTypes, TypeParts DEF PowerLoss
<1>7. granted' \in BOOLEAN /\ faults' \in Nat
  <2>f. Fault
    BY DEF PowerLoss
  <2>1. faults' \in Nat
    BY <2>f, FaultTypes
  <2>2. CASE d[Target] = NoInode
    BY <2>1, <2>2 DEF TypeOK
  <2>3. CASE d[Target] # NoInode
    <3>1. inode'[d[Target]].open \in BOOLEAN
      BY <1>1, <1>4, <2>3 DEF Record, Name
    <3> QED BY <2>1, <2>3, <3>1 DEF TypeOK
  <2> QED BY <2>2, <2>3
<1> QED BY <1>2, <1>3, <1>5, <1>6, <1>7 DEF PowerLoss, TypeOK, LocalTypes

LEMMA FlushTyped ==
  ASSUME TypeOK, Flush
  PROVE  TypeOK'
<1>1. \A i \in Inode : Synced(inode[i]) \in Record /\ Freed(inode[i]) \in Record
  BY SyncedFacts, FreedFacts DEF TypeOK
<1>2. inode' \in [Inode -> Record]
  BY <1>1 DEF Flush
<1>3. dirSafe' \in [Name -> SUBSET (Inode \cup {NoInode})]
  BY DEF Flush, TypeOK
<1> QED BY <1>2, <1>3 DEF Flush, TypeOK, world, hand

LEMMA InterveneTypes ==
  ASSUME TypeOK, NEW N \in SUBSET {"inPlace"}, Intervene(N)
  PROVE  /\ edits' \in Nat /\ faults' \in Nat
         /\ during' \in [Proc -> SUBSET (Label \cup {"inPlace"})]
         /\ UNCHANGED <<clock, pc, listed, fd, snap, buf, temp, durable>>
<1>1. \A q \in Proc : during[q] \subseteq Label \cup {"inPlace"} /\ pc[q] \in Label
  BY DEF TypeOK
<1>2. during' \in [Proc -> SUBSET (Label \cup {"inPlace"})]
  <2>1. \A q \in Proc : during[q] \cup (IF pc[q] \in Late THEN {pc[q]} ELSE {})
                        \cup (IF pc[q] \in Late \ {"rename", "done"} THEN N ELSE {})
                          \in SUBSET (Label \cup {"inPlace"})
    BY <1>1
  <2> QED BY <2>1 DEF Intervene
<1>3. edits' \in Nat /\ faults' \in Nat
  BY DEF Intervene, TypeOK
<1> QED BY <1>2, <1>3 DEF Intervene, hand

LEMMA OthersTyped ==
  ASSUME TypeOK, Others
  PROVE  TypeOK'
<1>r. \A i \in Inode : inode[i] \in Record
  BY DEF TypeOK
<1>t. Target \in Name
  BY DEF Name
<1> DEFINE i == dir[Target]
<1>1. ASSUME NEW v \in Text, NEW forge \in BOOLEAN, EditInPlace(v, forge)
      PROVE  TypeOK'
  <2>1. i \in Inode
    BY <1>1, <1>t DEF EditInPlace, TypeOK
  <2> DEFINE t == IF forge THEN inode[i].mtime ELSE clock
             r == Touched(inode[i], t)
  <2>2. t \in 0..MaxClock
    BY <2>1, <1>r DEF Record, TypeOK
  <2>3. r \in Record /\ r.open \in BOOLEAN /\ v \in Data /\ r.open = inode[i].open
    <3> HIDE DEF t
    <3> QED BY <2>1, <2>2, <1>r, TouchedFacts DEF Record, Data
  <2>4. Synced(Unsynced(r, v, r.open)) \in Record
    <3> HIDE DEF r
    <3> QED BY <2>3, SyncedFacts, UnsyncedFacts DEF TypeOK
  <2>5. inode' = [inode EXCEPT ![i] = Synced(Unsynced(r, v, r.open))]
    BY <1>1, <2>1, <2>3 DEF EditInPlace
  <2>6. inode' \in [Inode -> Record]
    <3> HIDE DEF r
    <3> QED BY <2>1, <2>4, <2>5 DEF TypeOK
  <2>7. blurred' \in BOOLEAN /\ UNCHANGED <<dir, dirSafe, granted>>
    BY <1>1 DEF EditInPlace, TypeOK
  <2> QED BY <1>1, <2>6, <2>7, InterveneTypes DEF EditInPlace, TypeOK
<1>2. CASE Chmod
  <2>1. i \in Inode
    BY <1>2, <1>t DEF Chmod, TypeOK
  <2>2. (~inode[i].open) \in BOOLEAN /\ inode[i].data \in Data
    BY <2>1, <1>r DEF Record
  <2>3. Synced(Unsynced(inode[i], inode[i].data, ~inode[i].open)) \in Record
    BY <2>1, <2>2, <1>r, SyncedFacts, UnsyncedFacts DEF TypeOK
  <2>4. inode' \in [Inode -> Record]
    BY <1>2, <2>1, <2>3 DEF Chmod, TypeOK
  <2>5. blurred' \in BOOLEAN /\ granted' \in BOOLEAN /\ UNCHANGED <<dir, dirSafe>>
    BY <1>2, <2>2 DEF Chmod, TypeOK
  <2> QED BY <1>2, <2>4, <2>5, InterveneTypes DEF Chmod, TypeOK
<1>3. ASSUME NEW v \in Text, NEW o \in Exposed, ReplaceByRename(v, o)
      PROVE  TypeOK'
  <2> PICK j \in Free :
        /\ inode' = [inode EXCEPT ![j] =
                       [data |-> v, open |-> o, mtime |-> clock, ctime |-> clock,
                        safe |-> {[data |-> v, open |-> o]}]]
        /\ PointDurably(Target, j)
        /\ blurred' = (blurred \/ inode[j].ctime = clock)
    BY <1>3 DEF ReplaceByRename
  <2>1. j \in Inode
    BY DEF Free
  <2>2. o \in BOOLEAN /\ v \in Data
    BY BoundsAssumption DEF Data
  <2>3. inode' \in [Inode -> Record]
    BY <2>1, <2>2 DEF TypeOK, Record, Stored
  <2>4. /\ dir' \in [Name -> Inode \cup {NoInode}]
        /\ dirSafe' \in [Name -> SUBSET (Inode \cup {NoInode})]
    BY <2>1, <1>t, PointTypes, TypeParts
  <2>5. granted' \in BOOLEAN /\ blurred' \in BOOLEAN
    BY <1>3, <2>2 DEF ReplaceByRename, TypeOK
  <2> QED BY <1>3, <2>3, <2>4, <2>5, InterveneTypes DEF ReplaceByRename, TypeOK
<1>4. CASE Remove
  <2>1. /\ dir' \in [Name -> Inode \cup {NoInode}]
        /\ dirSafe' \in [Name -> SUBSET (Inode \cup {NoInode})]
    BY <1>4, <1>t, PointTypes, TypeParts DEF Remove
  <2> QED BY <1>4, <2>1, InterveneTypes DEF Remove, TypeOK
<1> QED BY <1>1, <1>2, <1>3, <1>4 DEF Others

LEMMA NextTyped ==
  ASSUME IInv, [Next]_vars
  PROVE  TypeOK'
<1> TypeOK
  BY DEF IInv
<1>1. CASE Tick
  BY <1>1, BoundsAssumption DEF Tick, TypeOK, disk, hand
<1>2. CASE UNCHANGED vars
  BY <1>2 DEF vars, disk, world, hand, TypeOK
<1> QED BY <1>1, <1>2, StepTyped, PowerLossTyped, FlushTyped, OthersTyped DEF Next

-----------------------------------------------------------------------------
(***************************************************************************)
(* One invocation at a time.                                               *)
(***************************************************************************)

\* A step of p leaves the others where they are.
LEMMA OnlyOne ==
  ASSUME TypeOK, NEW p \in Proc, Step(p)
  PROVE  \A q \in Proc \ {p} :
           /\ pc'[q] = pc[q] /\ temp'[q] = temp[q] /\ fd'[q] = fd[q] /\ snap'[q] = snap[q]
<1> SUFFICES ASSUME NEW q \in Proc \ {p}
             PROVE  pc'[q] = pc[q] /\ temp'[q] = temp[q] /\ fd'[q] = fd[q] /\ snap'[q] = snap[q]
  OBVIOUS
<1>e. End({p}) => pc'[q] = pc[q] /\ temp'[q] = temp[q] /\ fd'[q] = fd[q] /\ snap'[q] = snap[q]
  BY DEF End
<1>1. CASE Lock(p) \/ List(p) \/ \E t \in Temp : Sweep(p, t)
  BY <1>1 DEF Lock, List, Sweep, Goto, hand, TypeOK
<1>2. CASE StatTarget(p)
  BY <1>2, <1>e DEF StatTarget, Stop, Goto, TypeOK
<1>3. CASE ReadTarget(p) \/ RestatTarget(p)
  BY <1>3, <1>e DEF ReadTarget, RestatTarget, Stop, Goto, TypeOK
<1>4. CASE CreateTemp(p)
  BY <1>4, <1>e DEF CreateTemp, Stop, Goto, TypeOK
<1>5. CASE WriteTemp(p) \/ SyncTemp(p) \/ Recheck(p)
  BY <1>5, <1>e DEF WriteTemp, SyncTemp, Recheck, Abandon, Goto, hand, TypeOK
<1>6. CASE Rename(p)
  BY <1>6, <1>e DEF Rename, Abandon, Goto, TypeOK
<1>7. CASE RestoreMode(p) \/ SyncTarget(p) \/ SyncDir(p) \/ ReadBack(p)
  BY <1>7 DEF RestoreMode, SyncTarget, SyncDir, ReadBack, Goto, hand, TypeOK
<1>8. CASE Finish(p) \/ Kill(p)
  BY <1>8, <1>e DEF Finish, Kill, Stop, TypeOK
<1> QED BY <1>1, <1>2, <1>3, <1>4, <1>5, <1>6, <1>7, <1>8 DEF Step

\* At most the one invocation that is at work takes a step.
LEMMA OthersIdle ==
  ASSUME OneLock, TypeOK, Alone, NEW p \in Proc, Step(p)
  PROVE  \A q \in Proc \ {p} : pc[q] = "idle"
<1>1. CASE pc[p] # "idle"
  BY <1>1 DEF Alone
<1>2. CASE pc[p] = "idle"
  <2>1. Lock(p)
    BY <1>2 DEF Step, List, Sweep, StatTarget, ReadTarget, RestatTarget, CreateTemp, WriteTemp,
                SyncTemp, Recheck, Rename, RestoreMode, SyncTarget, SyncDir, ReadBack, Finish, Kill
  <2> QED BY <2>1 DEF Lock, LockFree, OneLock
<1> QED BY <1>1, <1>2

LEMMA StaysAlone ==
  ASSUME OneLock, TypeOK, Alone, [Next]_vars
  PROVE  Alone'
<1>1. ASSUME NEW p \in Proc, Step(p) PROVE Alone'
  BY <1>1, OnlyOne, OthersIdle DEF Alone
<1>2. CASE PowerLoss
  BY <1>2 DEF PowerLoss, End, Alone
<1>3. CASE Flush \/ Tick \/ Others \/ UNCHANGED vars
  BY <1>3 DEF Flush, Tick, Others, EditInPlace, Chmod, ReplaceByRename, Remove, Intervene, vars, Alone
<1> QED BY <1>1, <1>2, <1>3 DEF Next

-----------------------------------------------------------------------------
(***************************************************************************)
(* Facts that the steps share.                                             *)
(***************************************************************************)

\* The files in hand, the target and the temporary file are what they seem.
LEMMA Apart ==
  ASSUME IInv, NEW p \in Proc
  PROVE  /\ Target \in Name /\ \A t \in Temp : t \in Name /\ t # Target
         /\ pc[p] \in HasTemp =>
              /\ temp[p] \in Temp /\ fd[p] \in Inode
              /\ fd[p] # dir[Target] /\ fd[p] \notin dirSafe[Target]
         /\ pc[p] \in HasFile => fd[p] \in Inode /\ fd[p] \in InUse
         /\ dir[Target] \in dirSafe[Target]
         /\ snap[p] # NoSnap =>
              snap[p] \in Snapshot /\ snap[p].ino \in Inode /\ snap[p].ino # NoInode
<1> Held(p) /\ TypeOK /\ Visible
  BY DEF IInv, Busy, Store
<1>1. Target \in Name /\ \A t \in Temp : t \in Name /\ t # Target
  BY NamesAssumption DEF Name
<1>2. dir[Target] \in dirSafe[Target]
  BY <1>1 DEF Visible
<1>3. pc[p] \in HasTemp =>
        temp[p] \in Temp /\ fd[p] \in Inode /\ fd[p] # dir[Target] /\ fd[p] \notin dirSafe[Target]
  BY <1>2 DEF Held, HasFile, TypeOK
<1>4. pc[p] \in HasFile => fd[p] \in Inode /\ fd[p] \in InUse
  <2>1. fd[p] \in InUse
    <3>1. fd[p] \in {fd[q] : q \in Proc}
      OBVIOUS
    <3> QED BY <3>1 DEF InUse
  <2> QED BY <2>1 DEF Held, TypeOK
<1>5. snap[p] # NoSnap => snap[p] \in Snapshot /\ snap[p].ino \in Inode
  BY DEF TypeOK, Snapshot
<1> QED BY <1>1, <1>2, <1>3, <1>4, <1>5, NamesAssumption

LEMMA InHand ==
  ASSUME IInv
  PROVE  \A p \in Proc : pc[p] \in HasFile => fd[p] \in Inode /\ fd[p] \in InUse
BY Apart

LEMMA StatIsSnap ==
  ASSUME TypeOK, NEW i \in Inode
  PROVE  Stat(i) # NoSnap
<1>1. Stat(i) \in [ino : Inode, open : BOOLEAN, mtime : Nat, ctime : Nat]
  BY BoundsAssumption DEF Stat, TypeOK, Record
<1> QED BY <1>1, NamesAssumption

\* Nothing is said of an invocation that is not at work.
LEMMA IdleIsBusy ==
  ASSUME NEW q \in Proc, pc'[q] = "idle", temp'[q] = NoTemp, fd'[q] = NoInode, snap'[q] = NoSnap
  PROVE  Busy(q)'
BY DEF Busy, Held, Swept, Written, Compared, Private, HasTemp, HasFile, Committed

LEMMA OthersBusy ==
  ASSUME OneLock, IInv, NEW p \in Proc, Step(p), Busy(p)'
  PROVE  \A q \in Proc : Busy(q)'
<1> SUFFICES ASSUME NEW q \in Proc \ {p} PROVE Busy(q)'
  OBVIOUS
<1>1. pc[q] = "idle" /\ Held(q)
  BY OthersIdle DEF IInv, Busy
<1>2. temp[q] = NoTemp /\ fd[q] = NoInode /\ snap[q] = NoSnap
  BY <1>1 DEF Held, HasTemp, HasFile, Committed
<1> QED BY <1>1, <1>2, OnlyOne, IdleIsBusy DEF IInv

\* The end of an invocation: everything it knew is gone.
LEMMA EndIsBusy ==
  ASSUME NEW p \in Proc, End({p})
  PROVE  Busy(p)' /\ \A q \in Proc : snap'[q] \in {snap[q], NoSnap}
<1>1. pc'[p] = "idle" /\ temp'[p] = NoTemp /\ fd'[p] = NoInode /\ snap'[p] = NoSnap
  BY DEF End
<1>2. \A q \in Proc : snap'[q] \in {snap[q], NoSnap}
  BY DEF End
<1> QED BY <1>1, <1>2, IdleIsBusy

\* Steps that leave the files as they are.
LEMMA QuietStore ==
  ASSUME Store, UNCHANGED <<inode, dir, dirSafe, clock, granted>>,
         \A q \in Proc : snap'[q] \in {snap[q], NoSnap}
  PROVE  Store'
BY DEF Store, Visible, TargetWhole, Whole, Behind, TargetGranted

\* A change of the one file j.
LEMMA InodeStore ==
  ASSUME TypeOK, Store, NEW j \in Inode, NEW r \in Record,
         inode' = [inode EXCEPT ![j] = r],
         UNCHANGED <<dir, dirSafe, clock, snap>>,
         r.ctime \in {inode[j].ctime, clock},
         j \in dirSafe[Target] => Whole(r),
         j = dir[Target] /\ r.open => granted',
         j # dir[Target] /\ granted => granted'
  PROVE  Store'
<1>1. \A i \in Inode : inode'[i] = IF i = j THEN r ELSE inode[i]
  BY DEF TypeOK
<1>2. Visible'
  BY DEF Store, Visible
<1>3. TargetWhole'
  BY <1>1 DEF Store, TargetWhole
<1>4. \A i \in Inode : /\ inode'[i].ctime <= clock
                       /\ inode[i].ctime <= inode'[i].ctime
                       /\ inode'[i].ctime \in Nat /\ inode[i].ctime \in Nat
  BY <1>1, BoundsAssumption DEF Store, Behind, TypeOK, Record
<1>5. Behind'
  <2> SUFFICES ASSUME NEW p \in Proc, snap[p] # NoSnap
               PROVE  snap[p].ctime <= inode'[snap[p].ino].ctime
    BY <1>4 DEF Behind
  <2>1. snap[p].ino \in Inode /\ snap[p].ctime \in Nat
    BY BoundsAssumption DEF TypeOK, Snapshot
  <2>2. snap[p].ctime <= inode[snap[p].ino].ctime
    BY DEF Store, Behind
  <2> QED BY <1>4, <2>1, <2>2
<1>6. TargetGranted'
  <2>1. dir[Target] # NoInode => dir[Target] \in Inode
    BY DEF TypeOK, Name
  <2> QED BY <1>1, <2>1 DEF Store, TargetGranted
<1> QED BY <1>2, <1>3, <1>5, <1>6 DEF Store

LEMMA InitIInv == Init => IInv
<1> SUFFICES ASSUME Init PROVE IInv
  OBVIOUS
<1>1. TypeOK
  BY InitTyped
<1> PICK i \in Inode, v \in Text, o \in Exposed :
      /\ inode = [j \in Inode |->
           IF j = i THEN [data |-> v, open |-> o, mtime |-> 0, ctime |-> 0,
                          safe |-> {[data |-> v, open |-> o]}]
           ELSE [data |-> Torn, open |-> FALSE, mtime |-> 0, ctime |-> 0, safe |-> {}]]
      /\ dir = [n \in Name |-> IF n = Target THEN i ELSE NoInode]
      /\ granted = o
  BY DEF Init
<1>t. Target \in Name
  BY DEF Name
<1>2. Alone
  BY DEF Init, Alone
<1>3. Visible
  BY DEF Init, Visible
<1>4. TargetWhole
  <2>1. dirSafe[Target] = {i}
    BY <1>t DEF Init
  <2>2. Whole(inode[i])
    BY DEF Whole
  <2> QED BY <2>1, <2>2 DEF TargetWhole
<1>5. Behind
  <2>1. \A j \in Inode : inode[j].ctime = 0
    OBVIOUS
  <2> QED BY <2>1 DEF Init, Behind
<1>6. TargetGranted
  BY <1>t DEF TargetGranted
<1>7. \A p \in Proc : Busy(p)
  BY DEF Init, Busy, Held, Swept, Written, Compared, Private, HasTemp, HasFile, Committed
<1> QED BY <1>1, <1>2, <1>3, <1>4, <1>5, <1>6, <1>7 DEF IInv, Store

-----------------------------------------------------------------------------
(***************************************************************************)
(* The invariant is preserved, action by action.                           *)
(***************************************************************************)

LEMMA StopKeeps ==
  ASSUME IInv, NEW p \in Proc, Stop(p)
  PROVE  Store' /\ Busy(p)'
BY EndIsBusy, QuietStore DEF IInv, Stop, disk, world

LEMMA AbandonKeeps ==
  ASSUME IInv, NEW p \in Proc, Abandon(p), temp[p] \in Temp
  PROVE  Store' /\ Busy(p)'
<1>1. Busy(p)' /\ \A q \in Proc : snap'[q] \in {snap[q], NoSnap}
  BY EndIsBusy DEF Abandon
<1>2. temp[p] \in Name /\ temp[p] # Target /\ Target \in Name
  BY Apart
<1>3. dir'[Target] = dir[Target] /\ dirSafe'[Target] = dirSafe[Target]
  BY <1>2 DEF Abandon, Point, IInv, TypeOK
<1>4. Visible'
  BY <1>2 DEF IInv, Store, Visible, Abandon, Point, TypeOK
<1>5. TargetWhole' /\ TargetGranted'
  BY <1>3 DEF IInv, Store, TargetWhole, Whole, TargetGranted, Abandon, world
<1>6. Behind'
  BY <1>1 DEF IInv, Store, Behind, Abandon, world
<1> QED BY <1>1, <1>4, <1>5, <1>6 DEF Store

LEMMA LockKeeps ==
  ASSUME IInv, NEW p \in Proc, Lock(p)
  PROVE  Store' /\ Busy(p)'
<1>1. Store'
  BY QuietStore DEF IInv, Lock, disk, world, hand
<1>2. pc'[p] = "list"
  BY DEF Lock, Goto, IInv, TypeOK
<1>3. Held(p)'
  BY <1>2 DEF IInv, Busy, Held, Lock, hand, HasTemp, HasFile, Committed
<1>4. (Swept(p) /\ Written(p) /\ Compared(p) /\ Private(p))'
  BY <1>2 DEF Swept, Written, Compared, Private, HasTemp, Committed
<1> QED BY <1>1, <1>3, <1>4 DEF Busy

LEMMA ListKeeps ==
  ASSUME IInv, NEW p \in Proc, List(p)
  PROVE  Store' /\ Busy(p)'
<1>1. Store'
  BY QuietStore DEF IInv, List, disk, world
<1>2. pc[p] = "list" /\ pc'[p] = "sweep" /\ listed'[p] = {t \in Temp : dir[t] # NoInode}
  BY DEF List, Goto, IInv, TypeOK
<1>3. Held(p)'
  BY <1>2 DEF IInv, Busy, Held, List, HasTemp, HasFile, Committed
<1>4. Swept(p)'
  BY <1>2 DEF Swept, List, disk
<1>5. (Written(p) /\ Compared(p) /\ Private(p))'
  BY <1>2 DEF Written, Compared, Private, HasTemp, Committed
<1> QED BY <1>1, <1>3, <1>4, <1>5 DEF Busy

LEMMA SweepKeeps ==
  ASSUME IInv, NEW p \in Proc, NEW t \in Temp, Sweep(p, t)
  PROVE  Store' /\ Busy(p)'
<1>1. t \in Name /\ t # Target /\ Target \in Name
  BY Apart
<1>2. dir'[Target] = dir[Target] /\ dirSafe'[Target] = dirSafe[Target]
  BY <1>1 DEF Sweep, Point, IInv, TypeOK
<1>3. Visible'
  BY <1>1 DEF IInv, Store, Visible, Sweep, Point, TypeOK
<1>4. TargetWhole' /\ TargetGranted' /\ Behind'
  BY <1>2 DEF IInv, Store, TargetWhole, Whole, TargetGranted, Behind, Sweep, world
<1>5. pc[p] = "sweep" /\ pc'[p] = "sweep" /\ temp'[p] = temp[p] /\ fd'[p] = fd[p] /\ snap'[p] = snap[p]
  BY DEF Sweep
<1>6. Held(p)'
  BY <1>5 DEF IInv, Busy, Held, HasTemp, HasFile, Committed
<1>7. Swept(p)'
  <2>1. CASE Point(t, NoInode) /\ UNCHANGED during
    <3>1. \A u \in Temp : dir'[u] = IF u = t THEN NoInode ELSE dir[u]
      BY <2>1, Apart DEF Point, IInv, TypeOK
    <3>2. listed'[p] = listed[p] \ {t}
      BY DEF Sweep, IInv, TypeOK
    <3> QED BY <1>5, <2>1, <3>1, <3>2 DEF IInv, Busy, Swept
  <2>2. CASE during' = [during EXCEPT ![p] = @ \cup {"sweep"}]
    BY <2>2 DEF IInv, TypeOK, Swept
  <2> QED BY <2>1, <2>2 DEF Sweep
<1>8. (Written(p) /\ Compared(p) /\ Private(p))'
  BY <1>5 DEF Written, Compared, Private, HasTemp, Committed
<1> QED BY <1>3, <1>4, <1>6, <1>7, <1>8 DEF Busy, Store

LEMMA StatTargetKeeps ==
  ASSUME IInv, NEW p \in Proc, StatTarget(p)
  PROVE  Store' /\ Busy(p)'
<1>1. CASE Stop(p)
  BY <1>1, StopKeeps
<1>2. CASE ~Stop(p)
  <2> DEFINE i == dir[Target]
  <2>1. /\ i # NoInode /\ fd' = [fd EXCEPT ![p] = i] /\ snap' = [snap EXCEPT ![p] = Stat(i)]
        /\ Goto(p, "read") /\ UNCHANGED <<disk, world, listed, buf, temp, durable, during>>
        /\ pc[p] = "sweep" /\ listed[p] = {}
    BY <1>2 DEF StatTarget
  <2>2. i \in Inode /\ i \in dirSafe[Target]
    BY <2>1, Apart DEF IInv, TypeOK
  <2>3. /\ fd'[p] = i /\ snap'[p] = Stat(i) /\ pc'[p] = "read" /\ temp'[p] = temp[p]
        /\ \A q \in Proc \ {p} : snap'[q] = snap[q]
    BY <2>1 DEF Goto, IInv, TypeOK
  <2>4. /\ Stat(i) # NoSnap /\ Stat(i).ino = i /\ Stat(i).ctime = inode[i].ctime
        /\ inode[i].ctime \in Nat
    BY <2>2, StatIsSnap, StatFacts, BoundsAssumption DEF IInv, TypeOK, Record
  <2>5. Visible' /\ TargetWhole' /\ TargetGranted'
    BY <2>1 DEF IInv, Store, Visible, TargetWhole, Whole, TargetGranted, disk, world
  <2>6. Behind'
    BY <2>1, <2>3, <2>4 DEF IInv, Store, Behind, disk, world
  <2>7. Held(p)'
    BY <2>1, <2>2, <2>3, NamesAssumption DEF IInv, Busy, Held, HasTemp, HasFile, Committed
  <2>8. Swept(p)'
    BY <2>1, <2>3 DEF IInv, Busy, Swept, disk
  <2>9. Whole(inode[i])
    BY <2>2 DEF IInv, Store, TargetWhole
  <2>10. Written(p)'
    BY <2>1, <2>3, <2>9 DEF Written, HasTemp, Committed, disk
  <2>11. (Compared(p) /\ Private(p))'
    BY <2>3, <2>4 DEF Compared, Private, HasTemp
  <2> QED BY <2>5, <2>6, <2>7, <2>8, <2>10, <2>11 DEF Busy, Store
<1> QED BY <1>1, <1>2

LEMMA ReadTargetKeeps ==
  ASSUME IInv, NEW p \in Proc, ReadTarget(p)
  PROVE  Store' /\ Busy(p)'
<1>1. Store'
  BY QuietStore DEF IInv, ReadTarget, disk, world
<1>2. /\ pc[p] = "read" /\ pc'[p] = "restat" /\ buf'[p] = inode[fd[p]].data
      /\ UNCHANGED <<inode, dir, dirSafe, fd, snap, temp, during, blurred>>
  BY DEF ReadTarget, Goto, IInv, TypeOK, disk, world
<1>3. Held(p)'
  BY <1>2 DEF IInv, Busy, Held, HasTemp, HasFile, Committed
<1>4. Swept(p)'
  BY <1>2 DEF IInv, Busy, Swept
<1>5. Whole(inode[fd[p]])
  BY <1>2 DEF IInv, Busy, Written
<1>6. Written(p)'
  BY <1>2, <1>5 DEF Written, Whole, HasTemp, Committed
<1>7. Compared(p)'
  BY <1>2 DEF IInv, Busy, Compared, HasTemp
<1>8. Private(p)'
  BY <1>2 DEF Private, HasTemp
<1> QED BY <1>1, <1>3, <1>4, <1>6, <1>7, <1>8 DEF Busy

LEMMA RestatTargetKeeps ==
  ASSUME IInv, NEW p \in Proc, RestatTarget(p)
  PROVE  Store' /\ Busy(p)'
<1>1. CASE Stop(p)
  BY <1>1, StopKeeps
<1>2. CASE ~Stop(p)
  <2>1. Store'
    BY <1>2, QuietStore DEF IInv, RestatTarget, disk, world
  <2>2. /\ pc[p] = "restat" /\ pc'[p] = "create" /\ Matches(snap[p], fd[p]) /\ fd'[p] = NoInode
        /\ UNCHANGED <<inode, dir, dirSafe, buf, snap, temp, during, blurred>>
    BY <1>2 DEF RestatTarget, Goto, IInv, TypeOK, disk, world
  <2>3. Held(p)'
    BY <2>2 DEF IInv, Busy, Held, HasTemp, HasFile, Committed
  <2>4. Swept(p)'
    BY <2>2 DEF IInv, Busy, Swept
  <2>5. Written(p)'
    BY <2>2 DEF IInv, Busy, Written, HasTemp, Committed
  <2>6. Compared(p)'
    <3>1. snap[p] # NoSnap /\ snap[p].ino = fd[p]
      BY <2>2 DEF IInv, Busy, Compared
    <3> QED BY <2>2, <3>1 DEF IInv, Busy, Compared, HasTemp
  <2>7. Private(p)'
    BY <2>2 DEF Private, HasTemp
  <2> QED BY <2>1, <2>3, <2>4, <2>5, <2>6, <2>7 DEF Busy
<1> QED BY <1>1, <1>2

LEMMA CreateTempKeeps ==
  ASSUME IInv, NEW p \in Proc, CreateTemp(p)
  PROVE  Store' /\ Busy(p)'
<1>1. CASE Fault /\ Stop(p)
  BY <1>1, StopKeeps
<1>2. CASE ~(Fault /\ Stop(p))
  <2> PICK t \in Temp, i \in Free :
        /\ dir[t] = NoInode
        /\ inode' = [inode EXCEPT ![i] =
             [data |-> Torn, open |-> TempOpen(p), mtime |-> clock,
              ctime |-> clock, safe |-> {[data |-> Torn, open |-> TempOpen(p)]}]]
        /\ Point(t, i)
        /\ fd' = [fd EXCEPT ![p] = i]
        /\ temp' = [temp EXCEPT ![p] = t]
        /\ Goto(p, "write")
        /\ UNCHANGED <<world, faults, listed, snap, buf, durable, during>>
    BY <1>2 DEF CreateTemp
  <2> DEFINE r == [data |-> Torn, open |-> TempOpen(p), mtime |-> clock,
                   ctime |-> clock, safe |-> {[data |-> Torn, open |-> TempOpen(p)]}]
  <2>1. /\ t \in Name /\ t # Target /\ Target \in Name /\ t # NoTemp
        /\ i \in Inode /\ i \notin InUse /\ i # NoInode
    BY Apart, NamesAssumption DEF Free
  <2>2. i # dir[Target] /\ i \notin dirSafe[Target]
    <3>1. dir[Target] \in InUse
      BY <2>1, Zenon DEF InUse
    <3>2. dirSafe[Target] \subseteq InUse
      BY <2>1, Zenon DEF InUse
    <3> QED BY <2>1, <3>1, <3>2
  <2>3. /\ pc[p] = "create" /\ pc'[p] = "write" /\ fd'[p] = i /\ temp'[p] = t
        /\ snap'[p] = snap[p] /\ buf'[p] = buf[p] /\ during'[p] = during[p] /\ blurred' = blurred
        /\ granted' = granted /\ clock' = clock
    BY DEF CreateTemp, Goto, IInv, TypeOK, world
  <2>4. /\ \A n \in Name : /\ dir'[n] = IF n = t THEN i ELSE dir[n]
                           /\ dirSafe'[n] = IF n = t THEN dirSafe[n] \cup {i} ELSE dirSafe[n]
    BY <2>1 DEF Point, IInv, TypeOK
  <2>5. /\ inode'[i] = r /\ \A j \in Inode \ {i} : inode'[j] = inode[j]
    BY <2>1 DEF IInv, TypeOK
  <2>6. ~TempOpen(p)
    BY DEF TempOpen, TempPrivate
  <2>7. Visible'
    BY <2>4 DEF IInv, Store, Visible
  <2>8. TargetWhole'
    BY <2>1, <2>2, <2>4, <2>5 DEF IInv, Store, TargetWhole
  <2>9. TargetGranted'
    <3>1. dir'[Target] = dir[Target] /\ dir[Target] \in Inode \cup {NoInode}
      BY <2>1, <2>4 DEF IInv, TypeOK
    <3> QED BY <2>2, <2>3, <2>5, <3>1 DEF IInv, Store, TargetGranted
  <2>10. Behind'
    <3>1. clock \in Nat /\ \A j \in Inode : inode[j].ctime \in Nat
      BY BoundsAssumption DEF IInv, TypeOK, Record
    <3>2. \A j \in Inode : inode'[j].ctime <= clock /\ inode[j].ctime <= inode'[j].ctime
                           /\ inode'[j].ctime \in Nat
      BY <2>5, <3>1 DEF IInv, Store, Behind
    <3> SUFFICES ASSUME NEW q \in Proc, snap[q] # NoSnap
                 PROVE  snap[q].ctime <= inode'[snap[q].ino].ctime
      BY <2>3, <3>2 DEF Behind
    <3>3. snap[q].ino \in Inode /\ snap[q].ctime \in Nat
      BY BoundsAssumption DEF IInv, TypeOK, Snapshot
    <3>4. snap[q].ctime <= inode[snap[q].ino].ctime
      BY DEF IInv, Store, Behind
    <3> QED BY <3>1, <3>2, <3>3, <3>4
  <2>11. Held(p)'
    BY <2>1, <2>2, <2>3, <2>4 DEF Held, HasTemp, HasFile
  <2>12. Swept(p)'
    <3>1. temp[p] = NoTemp
      BY <2>3 DEF IInv, Busy, Held, HasTemp
    <3>2. \A u \in Temp : u \in Name /\ u # NoTemp
      BY Apart, NamesAssumption
    <3>3. "sweep" \notin during[p] => \A u \in Temp : dir[u] = NoInode
      BY <2>3, <3>1, <3>2 DEF IInv, Busy, Swept
    <3> QED BY <2>3, <2>4, <3>2, <3>3 DEF Swept
  <2>13. Written(p)'
    BY <2>3 DEF IInv, Busy, Written, HasTemp, Committed
  <2>14. Compared(p)'
    <3>1. snap[p] # NoSnap
      BY <2>3 DEF IInv, Busy, Compared
    <3>2. dir'[Target] = dir[Target] /\ snap[p].ino \in Inode
      BY <2>1, <2>4, <3>1, Apart
    <3>3. dir[Target] \in Inode => inode'[dir[Target]] = inode[dir[Target]]
      BY <2>2, <2>5
    <3> QED BY <2>3, <3>1, <3>2, <3>3 DEF IInv, Busy, Compared, HasTemp
  <2>15. Private(p)'
    BY <2>3, <2>5, <2>6 DEF Private
  <2> QED BY <2>7, <2>8, <2>9, <2>10, <2>11, <2>12, <2>13, <2>14, <2>15 DEF Busy, Store
<1> QED BY <1>1, <1>2

\* A step that changes only the file in hand, which is not the target yet.
LEMMA TempStep ==
  ASSUME IInv, NEW p \in Proc, pc[p] \in {"write", "fsync"},
         NEW r \in Record, inode' = [inode EXCEPT ![fd[p]] = r],
         r.ctime \in {inode[fd[p]].ctime, clock}, ~r.open, \A s \in r.safe : ~s.open,
         UNCHANGED <<dir, dirSafe, world, hand, during>>,
         pc'[p] \in {"fsync", "recheck"},
         r.data = Product(buf[p]),
         pc'[p] = "recheck" => r.safe = {[data |-> r.data, open |-> FALSE]}
  PROVE  Store' /\ Busy(p)'
<1>1. /\ fd[p] \in Inode /\ fd[p] # dir[Target] /\ fd[p] \notin dirSafe[Target]
      /\ dir[Target] \in dirSafe[Target] /\ Target \in Name
  BY Apart DEF HasTemp
<1>2. Store'
  BY <1>1, InodeStore DEF IInv, world, hand
<1>3. /\ inode'[fd[p]] = r
      /\ dir[Target] \in Inode => inode'[dir[Target]] = inode[dir[Target]]
      /\ UNCHANGED <<dir, dirSafe, fd, snap, temp, buf, during, blurred>>
  BY <1>1 DEF IInv, TypeOK, hand, world
<1>4. Held(p)'
  BY <1>3 DEF IInv, Busy, Held, HasTemp, HasFile
<1>5. Swept(p)'
  BY <1>3 DEF IInv, Busy, Swept
<1>6. buf[p] \in Text /\ Product(buf[p]) \in Text /\ r.open = FALSE
  BY ProductType DEF IInv, Busy, Written, HasTemp, Record
<1>7. Written(p)'
  <2>1. inode'[fd'[p]] = r /\ buf'[p] = buf[p]
    BY <1>3
  <2>2. CASE pc'[p] = "fsync"
    BY <1>6, <2>1, <2>2 DEF Written, HasTemp, Committed
  <2>3. CASE pc'[p] = "recheck"
    <3>1. Whole(r) /\ r.data = Product(buf[p]) /\ \A s \in r.safe : s.data = Product(buf[p])
      BY <1>6, <2>3 DEF Whole
    <3>2. Whole(inode[fd[p]])'
      BY <2>1, <3>1
    <3>3. OnlyProduct(p)'
      BY <2>1, <3>1 DEF OnlyProduct, Product
    <3> QED BY <1>6, <2>1, <2>3, <3>2, <3>3 DEF Written, HasTemp, Committed
  <2> QED BY <2>2, <2>3
<1>8. Compared(p)'
  <2>1. snap[p] # NoSnap
    BY DEF IInv, Busy, Compared, HasTemp
  <2>2. snap[p].ino \in Inode
    BY <2>1, Apart
  <2> QED BY <1>1, <1>3, <2>1, <2>2 DEF IInv, Busy, Compared, HasTemp
<1>9. Private(p)'
  <2>1. inode'[fd'[p]] = r
    BY <1>3
  <2> QED BY <1>6, <2>1 DEF Private, HasTemp
<1> QED BY <1>2, <1>4, <1>5, <1>7, <1>8, <1>9 DEF Busy

LEMMA WriteTempKeeps ==
  ASSUME IInv, NEW p \in Proc, WriteTemp(p)
  PROVE  Store' /\ Busy(p)'
<1>0. pc[p] = "write" /\ temp[p] \in Temp /\ fd[p] \in Inode /\ inode[fd[p]] \in Record
  BY Apart DEF WriteTemp, HasTemp, IInv, TypeOK
<1>1. CASE Abandon(p)
  BY <1>0, <1>1, AbandonKeeps
<1>2. CASE ~Abandon(p)
  <2> DEFINE a == Touched(inode[fd[p]], clock)
             r == Unsynced(a, Product(buf[p]), a.open)
  <2>1. /\ a \in Record /\ a.open = inode[fd[p]].open /\ a.safe = inode[fd[p]].safe
        /\ a.open \in BOOLEAN
    BY <1>0, TouchedFacts DEF IInv, TypeOK, Record
  <2>2. inode' = [inode EXCEPT ![fd[p]] = r]
    BY <1>2, <2>1 DEF WriteTemp
  <2>3. ~inode[fd[p]].open /\ \A s \in inode[fd[p]].safe : ~s.open
    BY <1>0 DEF IInv, Busy, Private, HasTemp
  <2>4. Product(buf[p]) \in Data
    BY ProductType DEF IInv, TypeOK
  <2>5. /\ r \in Record /\ r.ctime = clock /\ r.data = Product(buf[p]) /\ ~r.open
        /\ \A s \in r.safe : ~s.open
    <3> HIDE DEF a
    <3>1. /\ r \in Record /\ r.ctime = clock /\ r.data = Product(buf[p]) /\ r.open = a.open
          /\ r.safe = a.safe \cup {[data |-> Product(buf[p]), open |-> a.open]}
      <4>1. clock \in 0..MaxClock
        BY DEF IInv, TypeOK
      <4> QED BY <4>1, <2>1, <2>4, UnsyncedFacts
    <3> HIDE DEF r
    <3> QED BY <2>1, <2>3, <3>1
  <2>6. pc'[p] = "fsync" /\ UNCHANGED <<dir, dirSafe, world, hand, during>>
    BY <1>2 DEF WriteTemp, Goto, IInv, TypeOK
  <2> HIDE DEF r
  <2> QED BY <1>0, <2>2, <2>5, <2>6, TempStep
<1> QED BY <1>1, <1>2

LEMMA SyncTempKeeps ==
  ASSUME IInv, NEW p \in Proc, SyncTemp(p)
  PROVE  Store' /\ Busy(p)'
<1>0. pc[p] = "fsync" /\ temp[p] \in Temp /\ fd[p] \in Inode /\ inode[fd[p]] \in Record
  BY Apart DEF SyncTemp, HasTemp, IInv, TypeOK
<1>1. CASE Abandon(p)
  BY <1>0, <1>1, AbandonKeeps
<1>2. CASE ~Abandon(p)
  <2> DEFINE r == Synced(inode[fd[p]])
  <2>1. inode' = [inode EXCEPT ![fd[p]] = r]
    BY <1>2 DEF SyncTemp
  <2>2. ~inode[fd[p]].open /\ inode[fd[p]].data = Product(buf[p])
    BY <1>0 DEF IInv, Busy, Private, Written, HasTemp
  <2>3. /\ r \in Record /\ r.ctime = inode[fd[p]].ctime /\ r.data = Product(buf[p]) /\ r.open = FALSE
        /\ r.safe = {[data |-> r.data, open |-> FALSE]}
    BY <1>0, <2>2, SyncedFacts DEF Record
  <2>4. pc'[p] = "recheck" /\ UNCHANGED <<dir, dirSafe, world, hand, during>>
    BY <1>2 DEF SyncTemp, Goto, IInv, TypeOK
  <2> HIDE DEF r
  <2>5. \A s \in r.safe : ~s.open
    BY <2>3
  <2> QED BY <1>0, <2>1, <2>3, <2>4, <2>5, TempStep
<1> QED BY <1>1, <1>2

LEMMA RecheckKeeps ==
  ASSUME IInv, NEW p \in Proc, Recheck(p)
  PROVE  Store' /\ Busy(p)'
<1>0. pc[p] = "recheck" /\ temp[p] \in Temp
  BY Apart DEF Recheck, HasTemp
<1>1. CASE Abandon(p)
  BY <1>0, <1>1, AbandonKeeps
<1>2. CASE ~Abandon(p)
  <2>1. Store'
    BY <1>2, QuietStore DEF IInv, Recheck, disk, world, hand
  <2>2. /\ Matches(snap[p], dir[Target]) /\ pc'[p] = "rename"
        /\ UNCHANGED <<inode, dir, dirSafe, buf, snap, temp, fd, durable, during, granted, blurred>>
    BY <1>2 DEF Recheck, Goto, IInv, TypeOK, disk, world, hand
  <2>3. Held(p)'
    BY <1>0, <2>2 DEF IInv, Busy, Held, HasTemp, HasFile
  <2>4. Swept(p)'
    BY <1>0, <2>2 DEF IInv, Busy, Swept
  <2>5. Written(p)'
    BY <1>0, <2>2 DEF IInv, Busy, Written, OnlyProduct, HasTemp, Committed
  <2>6. /\ dir[Target] \in Inode /\ dir[Target] # NoInode /\ snap[p].ino = dir[Target]
        /\ snap[p].open = inode[dir[Target]].open /\ snap[p].ctime = inode[dir[Target]].ctime
    BY <2>2, Apart DEF Matches, Stat, IInv, TypeOK
  <2>7. Compared(p)'
    BY <1>0, <2>2, <2>6 DEF IInv, Busy, Compared, HasTemp
  <2>8. Private(p)'
    BY <1>0, <2>2, <2>6 DEF IInv, Busy, Store, TargetGranted, Private, HasTemp
  <2> QED BY <2>1, <2>3, <2>4, <2>5, <2>7, <2>8 DEF Busy
<1> QED BY <1>1, <1>2

LEMMA RenameKeeps ==
  ASSUME IInv, NEW p \in Proc, Rename(p)
  PROVE  Store' /\ Busy(p)'
<1>0. pc[p] = "rename" /\ temp[p] \in Temp
  BY Apart DEF Rename, HasTemp
<1>1. CASE Abandon(p)
  BY <1>0, <1>1, AbandonKeeps
<1>2. CASE ~Abandon(p)
  <2>1. /\ Target \in Name /\ temp[p] \in Name /\ temp[p] # Target
        /\ dir[temp[p]] = fd[p] /\ fd[p] \in Inode
    BY <1>0, Apart DEF IInv, Busy, Held, HasTemp
  <2>2. /\ dir[temp[p]] # NoInode
        /\ dir' = [dir EXCEPT ![Target] = dir[temp[p]], ![temp[p]] = NoInode]
        /\ dirSafe' = [dirSafe EXCEPT ![Target] = @ \cup {dir[temp[p]]},
                                      ![temp[p]] = @ \cup {NoInode}]
        /\ temp' = [temp EXCEPT ![p] = NoTemp]
        /\ Goto(p, "chmod")
        /\ UNCHANGED <<inode, world, faults, listed, fd, snap, buf, durable, during>>
    BY <1>2 DEF Rename
  <2>3. \A n \in Name :
          /\ dir'[n] = IF n = Target THEN fd[p] ELSE IF n = temp[p] THEN NoInode ELSE dir[n]
          /\ dirSafe'[n] = IF n = Target THEN dirSafe[n] \cup {fd[p]}
                           ELSE IF n = temp[p] THEN dirSafe[n] \cup {NoInode} ELSE dirSafe[n]
    BY <2>1, <2>2 DEF IInv, TypeOK
  <2>4. /\ pc'[p] = "chmod" /\ temp'[p] = NoTemp
        /\ UNCHANGED <<inode, fd, snap, buf, durable, during, granted, blurred, clock>>
    BY <2>2 DEF Goto, IInv, TypeOK, world
  <2>5. Whole(inode[fd[p]]) /\ OnlyProduct(p) /\ ~inode[fd[p]].open
    BY <1>0 DEF IInv, Busy, Written, Private, HasTemp
  <2>6. Visible'
    BY <2>3 DEF IInv, Store, Visible
  <2>7. TargetWhole'
    <3>1. dirSafe'[Target] = dirSafe[Target] \cup {fd[p]} /\ inode' = inode
      BY <2>1, <2>3, <2>4
    <3> QED BY <2>5, <3>1 DEF IInv, Store, TargetWhole
  <2>8. TargetGranted' /\ Behind'
    BY <2>1, <2>3, <2>4, <2>5 DEF IInv, Store, TargetGranted, Behind
  <2>9. Held(p)'
    BY <1>0, <2>4 DEF IInv, Busy, Held, HasTemp, HasFile, Committed
  <2>10. Swept(p)'
    <3>1. \A t \in Temp : t \in Name /\ t # Target
      BY Apart
    <3>2. "sweep" \notin during[p] => \A t \in Temp : dir[t] # NoInode => t = temp[p]
      BY <1>0 DEF IInv, Busy, Swept
    <3> QED BY <2>3, <2>4, <3>1, <3>2 DEF Swept
  <2>11. Written(p)'
    <3>1. buf[p] \in Text
      BY <1>0 DEF IInv, Busy, Written, HasTemp
    <3>2. dir'[Target] = fd'[p] /\ OnlyProduct(p)' /\ Whole(inode[fd[p]])'
      BY <2>1, <2>3, <2>4, <2>5 DEF OnlyProduct, Whole
    <3> QED BY <2>4, <3>1, <3>2 DEF Written, HasTemp
  <2>12. (Compared(p) /\ Private(p))'
    BY <1>0, <2>4 DEF IInv, Busy, Compared, Private, HasTemp
  <2> QED BY <2>6, <2>7, <2>8, <2>9, <2>10, <2>11, <2>12 DEF Busy, Store
<1> QED BY <1>1, <1>2

\* A step that changes only the file in hand, after the rename.
LEMMA CommittedStep ==
  ASSUME IInv, NEW p \in Proc, pc[p] \in {"chmod", "syncFile"},
         NEW r \in Record, inode' = [inode EXCEPT ![fd[p]] = r],
         r.ctime \in {inode[fd[p]].ctime, clock}, r.data = inode[fd[p]].data, Whole(r),
         \A s \in r.safe : s.data = r.data \/ s \in inode[fd[p]].safe,
         fd[p] = dir[Target] /\ r.open => granted',
         granted => granted',
         UNCHANGED <<dir, dirSafe, clock, blurred, listed, fd, snap, buf, temp, during>>,
         pc'[p] \in {"syncFile", "syncDir"}
  PROVE  Store' /\ Busy(p)'
<1>1. fd[p] \in Inode /\ inode'[fd'[p]] = r
  BY Apart DEF HasFile, Committed, IInv, TypeOK
<1>2. Store'
  BY <1>1, InodeStore DEF IInv
<1>3. Held(p)'
  BY DEF IInv, Busy, Held, HasTemp, HasFile, Committed
<1>4. Swept(p)'
  BY DEF IInv, Busy, Swept
<1>5. Written(p)'
  <2>1. /\ buf[p] \in Text
        /\ "inPlace" \notin during[p] => OnlyProduct(p)
        /\ during[p] \subseteq {"sweep", "rename"} => OnlyProduct(p) /\ dir[Target] = fd[p]
    BY DEF IInv, Busy, Written, Committed
  <2>2. OnlyProduct(p) => OnlyProduct(p)'
    BY <1>1 DEF OnlyProduct, Product
  <2>3. Whole(inode[fd[p]])'
    BY <1>1 DEF Whole
  <2> QED BY <2>1, <2>2, <2>3 DEF Written, HasTemp, Committed
<1>6. (Compared(p) /\ Private(p))'
  BY DEF Compared, Private, HasTemp
<1> QED BY <1>2, <1>3, <1>4, <1>5, <1>6 DEF Busy

LEMMA RestoreModeKeeps ==
  ASSUME IInv, NEW p \in Proc, RestoreMode(p)
  PROVE  Store' /\ Busy(p)'
<1>0. /\ pc[p] = "chmod" /\ fd[p] \in Inode /\ inode[fd[p]] \in Record
      /\ pc'[p] = "syncFile" /\ UNCHANGED <<dir, dirSafe, clock, blurred, during>>
      /\ UNCHANGED <<listed, fd, snap, buf, temp>>
  BY Apart DEF RestoreMode, Goto, HasFile, Committed, IInv, TypeOK, hand
<1>1. Whole(inode[fd[p]])
  BY <1>0 DEF IInv, Busy, Written, Committed
<1>2. CASE UNCHANGED <<inode, granted>>
  <2>1. inode' = [inode EXCEPT ![fd[p]] = inode[fd[p]]]
    BY <1>0, <1>2 DEF IInv, TypeOK
  <2>2. fd[p] = dir[Target] /\ inode[fd[p]].open => granted
    BY <1>0, NamesAssumption DEF IInv, Store, TargetGranted
  <2> QED BY <1>0, <1>1, <1>2, <2>1, <2>2, CommittedStep
<1>3. CASE ~UNCHANGED <<inode, granted>>
  <2> DEFINE x == inode[fd[p]]
             r == Unsynced(x, x.data, snap[p].open)
  <2>1. /\ inode' = [inode EXCEPT ![fd[p]] = r]
        /\ granted' = (granted \/ (snap[p].open /\ {"rename", "chmod"} \cap during[p] # {}))
    BY <1>3 DEF RestoreMode
  <2>2. snap[p].open \in BOOLEAN
    BY <1>0, Apart DEF IInv, Busy, Compared, Snapshot
  <2>3. clock \in 0..MaxClock /\ x.data \in Data
    BY <1>0 DEF IInv, TypeOK, Record
  <2>4. /\ r \in Record /\ r.data = x.data /\ r.open = snap[p].open /\ r.ctime = clock
        /\ r.safe = x.safe \cup {[data |-> x.data, open |-> snap[p].open]}
    BY <1>0, <2>2, <2>3, UnsyncedFacts
  <2>5. Whole(r)
    <3> HIDE DEF r
    <3> QED BY <1>1, <2>4 DEF Whole
  <2>6. snap[p].open => granted'
    BY <1>0, <2>1 DEF IInv, Busy, Private
  <2>7. granted => granted'
    BY <2>1
  <2> HIDE DEF r
  <2>8. \A s \in r.safe : s.data = r.data \/ s \in x.safe
    BY <2>4
  <2> QED BY <1>0, <2>1, <2>4, <2>5, <2>6, <2>7, <2>8, CommittedStep
<1> QED BY <1>2, <1>3

LEMMA SyncTargetKeeps ==
  ASSUME IInv, NEW p \in Proc, SyncTarget(p)
  PROVE  Store' /\ Busy(p)'
<1>0. /\ pc[p] = "syncFile" /\ fd[p] \in Inode /\ inode[fd[p]] \in Record
      /\ pc'[p] = "syncDir" /\ UNCHANGED <<dir, dirSafe, clock, blurred, granted, during>>
      /\ UNCHANGED <<listed, fd, snap, buf, temp>>
  BY Apart DEF SyncTarget, SyncFailed, Goto, HasFile, Committed, IInv, TypeOK, world, disk
<1>1. Whole(inode[fd[p]])
  BY <1>0 DEF IInv, Busy, Written, Committed
<1>2. fd[p] = dir[Target] /\ inode[fd[p]].open => granted
  BY <1>0, NamesAssumption DEF IInv, Store, TargetGranted
<1>3. CASE SyncFailed(p)
  <2>1. inode' = [inode EXCEPT ![fd[p]] = inode[fd[p]]]
    BY <1>0, <1>3 DEF SyncFailed, disk, IInv, TypeOK
  <2> QED BY <1>0, <1>1, <1>2, <2>1, CommittedStep
<1>4. CASE ~SyncFailed(p)
  <2> DEFINE r == Synced(inode[fd[p]])
  <2>1. inode' = [inode EXCEPT ![fd[p]] = r]
    BY <1>4 DEF SyncTarget
  <2>2. /\ r \in Record /\ r.data = inode[fd[p]].data /\ r.open = inode[fd[p]].open
        /\ r.ctime = inode[fd[p]].ctime /\ r.safe = {[data |-> r.data, open |-> r.open]}
    BY <1>0, SyncedFacts
  <2> HIDE DEF r
  <2>3. Whole(r) /\ \A s \in r.safe : s.data = r.data \/ s \in inode[fd[p]].safe
    BY <1>1, <2>2 DEF Whole
  <2> QED BY <1>0, <1>2, <2>1, <2>2, <2>3, CommittedStep
<1> QED BY <1>3, <1>4

LEMMA SyncDirKeeps ==
  ASSUME IInv, NEW p \in Proc, SyncDir(p)
  PROVE  Store' /\ Busy(p)'
<1>1. /\ pc[p] = "syncDir" /\ pc'[p] = "readback"
      /\ UNCHANGED <<inode, dir, clock, granted, blurred, listed, fd, snap, buf, temp, during>>
  BY DEF SyncDir, SyncFailed, Goto, IInv, TypeOK, world, disk
<1>2. /\ Target \in Name /\ dir[Target] \in dirSafe[Target]
  BY Apart
<1>3. \/ dirSafe' = dirSafe /\ ~durable'[p]
      \/ dirSafe' = [n \in Name |-> {dir[n]}]
  BY DEF SyncDir, SyncFailed, disk, IInv, TypeOK
<1>4. Visible'
  BY <1>1, <1>3 DEF IInv, Store, Visible
<1>5. TargetWhole'
  <2>1. dirSafe'[Target] \subseteq dirSafe[Target]
    BY <1>2, <1>3
  <2> QED BY <1>1, <2>1 DEF IInv, Store, TargetWhole, Whole
<1>6. TargetGranted' /\ Behind'
  BY <1>1 DEF IInv, Store, TargetGranted, Behind
<1>7. Held(p)' /\ Swept(p)'
  BY <1>1 DEF IInv, Busy, Held, Swept, HasTemp, HasFile, Committed
<1>8. Written(p)'
  <2>1. /\ buf[p] \in Text /\ Whole(inode[fd[p]])
        /\ "inPlace" \notin during[p] => OnlyProduct(p)
        /\ during[p] \subseteq {"sweep", "rename"} => OnlyProduct(p) /\ dir[Target] = fd[p]
    BY <1>1 DEF IInv, Busy, Written, Committed
  <2>2. Whole(inode[fd[p]])' /\ (OnlyProduct(p) => OnlyProduct(p)')
    BY <1>1, <2>1 DEF Whole, OnlyProduct, Product
  <2>3. dirSafe'[Target] = {dir[Target]} \/ ~durable'[p]
    BY <1>2, <1>3
  <2> QED BY <1>1, <2>1, <2>2, <2>3 DEF Written, HasTemp, Committed
<1>9. (Compared(p) /\ Private(p))'
  BY <1>1 DEF Compared, Private, HasTemp
<1> QED BY <1>4, <1>5, <1>6, <1>7, <1>8, <1>9 DEF Busy, Store

LEMMA ReadBackKeeps ==
  ASSUME IInv, NEW p \in Proc, ReadBack(p)
  PROVE  Store' /\ Busy(p)'
<1>1. /\ pc[p] = "readback" /\ pc'[p] = "done" /\ fd[p] \in Inode
      /\ UNCHANGED <<inode, dir, dirSafe, clock, granted, blurred>>
      /\ UNCHANGED <<listed, fd, buf, temp, durable, during>>
  BY Apart DEF ReadBack, Goto, HasFile, Committed, IInv, TypeOK, world, disk
<1>2. /\ \A q \in Proc \ {p} : snap'[q] = snap[q]
      /\ snap'[p] = NoSnap \/ snap'[p] = Stat(fd[p])
  BY DEF ReadBack, NewSnapshot, StatDescriptor, IInv, TypeOK
<1>3. /\ Stat(fd[p]).ino = fd[p] /\ Stat(fd[p]).ctime = inode[fd[p]].ctime
      /\ inode[fd[p]].ctime \in Nat
  BY <1>1, StatFacts, BoundsAssumption DEF IInv, TypeOK, Record
<1>4. Visible' /\ TargetWhole' /\ TargetGranted'
  BY <1>1 DEF IInv, Store, Visible, TargetWhole, Whole, TargetGranted
<1>5. Behind'
  BY <1>1, <1>2, <1>3 DEF IInv, Store, Behind
<1>6. Held(p)' /\ Swept(p)'
  BY <1>1 DEF IInv, Busy, Held, Swept, HasTemp, HasFile, Committed
<1>7. Written(p)'
  BY <1>1 DEF IInv, Busy, Written, OnlyProduct, Whole, Product, HasTemp, Committed
<1>8. Compared(p)'
  <2>1. "inPlace" \notin during[p] => inode[fd[p]].data = Product(buf[p])
    BY <1>1 DEF IInv, Busy, Written, OnlyProduct, Committed
  <2> QED BY <1>1, <1>2, <1>3, <2>1 DEF Compared, Product, HasTemp
<1>9. Private(p)'
  BY <1>1 DEF Private, HasTemp
<1> QED BY <1>4, <1>5, <1>6, <1>7, <1>8, <1>9 DEF Busy, Store

\* Every step of an invocation.
LEMMA StepKeeps ==
  ASSUME OneLock, IInv, NEW p \in Proc, Step(p)
  PROVE  Store' /\ \A q \in Proc : Busy(q)'
<1>1. Store' /\ Busy(p)'
  <2>1. CASE Finish(p) \/ Kill(p)
    BY <2>1, StopKeeps DEF Finish, Kill
  <2> QED BY <2>1, LockKeeps, ListKeeps, SweepKeeps, StatTargetKeeps, ReadTargetKeeps,
             RestatTargetKeeps, CreateTempKeeps, WriteTempKeeps, SyncTempKeeps, RecheckKeeps,
             RenameKeeps, RestoreModeKeeps, SyncTargetKeeps, SyncDirKeeps, ReadBackKeeps DEF Step
<1> QED BY <1>1, OthersBusy

LEMMA TickKeeps ==
  ASSUME IInv, Tick
  PROVE  Store' /\ \A q \in Proc : Busy(q)'
<1>1. UNCHANGED <<inode, dir, dirSafe, granted, blurred, pc, listed, fd, snap, buf, temp, durable, during>>
  BY DEF Tick, disk, hand
<1>2. Visible' /\ TargetWhole' /\ TargetGranted'
  BY <1>1 DEF IInv, Store, Visible, TargetWhole, Whole, TargetGranted
<1>3. Behind'
  <2>1. /\ clock \in Nat /\ clock' = clock + 1
        /\ \A i \in Inode : inode[i].ctime \in Nat
    BY BoundsAssumption DEF Tick, IInv, TypeOK, Record
  <2> QED BY <1>1, <2>1 DEF IInv, Store, Behind
<1>4. \A q \in Proc : Busy(q)'
  BY <1>1 DEF IInv, Busy, Held, Swept, Written, Compared, Private, OnlyProduct, Whole, Product
<1> QED BY <1>2, <1>3, <1>4 DEF Store

\* What a file holds after a power loss that kept b of it.
Kept(r, b) == [r EXCEPT !.data = b.data, !.open = b.open, !.safe = {b}]

LEMMA AfterLoss ==
  ASSUME PowerLoss
  PROVE  /\ \A n \in Name : dir'[n] \in dirSafe[n] /\ dirSafe'[n] = {dir'[n]}
         /\ \A i \in Inode : \/ inode'[i] = Freed(inode[i])
                            \/ \E b \in inode[i].safe : inode'[i] = Kept(inode[i], b)
         /\ \A n \in Name : dir'[n] \in Inode =>
              \E b \in inode[dir'[n]].safe : inode'[dir'[n]] = Kept(inode[dir'[n]], b)
         /\ granted' = (granted \/ (dir'[Target] # NoInode /\ inode'[dir'[Target]].open))
         /\ clock' = clock /\ End(Proc)
<1> DEFINE entries == {d \in [Name -> UNION {dirSafe[n] : n \in Name}] :
                         \A n \in Name : d[n] \in dirSafe[n]}
           kept(I) == {c \in [I -> UNION {inode[i].safe : i \in I}] :
                         \A i \in I : c[i] \in inode[i].safe}
<1> PICK d \in entries : \E c \in kept({d[n] : n \in Name} \ {NoInode}) :
       /\ dir' = d
       /\ dirSafe' = [n \in Name |-> {d[n]}]
       /\ inode' = [i \in Inode |->
            IF i \in DOMAIN c
            THEN [inode[i] EXCEPT !.data = c[i].data, !.open = c[i].open,
                                  !.safe = {c[i]}]
            ELSE Freed(inode[i])]
       /\ granted' = (granted \/ (d[Target] # NoInode /\ inode'[d[Target]].open))
  BY DEF PowerLoss
<1> PICK c \in kept({d[n] : n \in Name} \ {NoInode}) :
       /\ dir' = d
       /\ dirSafe' = [n \in Name |-> {d[n]}]
       /\ inode' = [i \in Inode |->
            IF i \in DOMAIN c
            THEN [inode[i] EXCEPT !.data = c[i].data, !.open = c[i].open,
                                  !.safe = {c[i]}]
            ELSE Freed(inode[i])]
       /\ granted' = (granted \/ (d[Target] # NoInode /\ inode'[d[Target]].open))
  OBVIOUS
<1>1. \A n \in Name : d[n] \in dirSafe[n] /\ dir'[n] = d[n] /\ dirSafe'[n] = {d[n]}
  OBVIOUS
<1>2. \A i \in Inode : i \in DOMAIN c => c[i] \in inode[i].safe /\ inode'[i] = Kept(inode[i], c[i])
  BY DEF Kept
<1>3. \A i \in Inode : i \notin DOMAIN c => inode'[i] = Freed(inode[i])
  OBVIOUS
<1>4. \A n \in Name : d[n] \in Inode => d[n] \in DOMAIN c
  <2>1. DOMAIN c = {d[n] : n \in Name} \ {NoInode}
    OBVIOUS
  <2> QED BY <2>1, NamesAssumption, Zenon
<1> QED BY <1>1, <1>2, <1>3, <1>4 DEF PowerLoss

LEMMA PowerLossKeeps ==
  ASSUME IInv, PowerLoss
  PROVE  Store' /\ \A q \in Proc : Busy(q)'
<1>1. /\ pc' = [q \in Proc |-> "idle"] /\ temp' = [q \in Proc |-> NoTemp]
      /\ fd' = [q \in Proc |-> NoInode] /\ snap' = [q \in Proc |-> NoSnap] /\ clock' = clock
  BY AfterLoss DEF End
<1>2. \A q \in Proc : Busy(q)'
  BY <1>1, IdleIsBusy
<1>3. Visible' /\ TargetGranted'
  BY AfterLoss DEF Visible, TargetGranted
<1>4. dir'[Target] \in dirSafe[Target] /\ dirSafe'[Target] = {dir'[Target]}
  BY AfterLoss DEF Name
<1>5. TargetWhole'
  <2> SUFFICES ASSUME dir'[Target] \in Inode PROVE Whole(inode'[dir'[Target]])
    BY <1>4 DEF TargetWhole
  <2> PICK b \in inode[dir'[Target]].safe : inode'[dir'[Target]] = Kept(inode[dir'[Target]], b)
    BY AfterLoss DEF Name
  <2>1. inode[dir'[Target]] \in Record /\ Whole(inode[dir'[Target]])
    BY <1>4 DEF IInv, Store, TargetWhole, TypeOK
  <2>2. b.data \in Text /\ b = [data |-> b.data, open |-> b.open]
    BY <2>1 DEF Record, Whole, Stored
  <2>3. /\ inode'[dir'[Target]].data = b.data /\ inode'[dir'[Target]].open = b.open
        /\ inode'[dir'[Target]].safe = {b}
    BY <2>1 DEF Record, Kept
  <2> QED BY <2>2, <2>3 DEF Whole
<1>6. Behind'
  <2>1. \A i \in Inode : inode[i] \in Record
    BY DEF IInv, TypeOK
  <2>2. \A i \in Inode : inode'[i].ctime = inode[i].ctime
    BY <2>1, AfterLoss, FreedFacts DEF Kept, Record
  <2> QED BY <1>1, <2>2 DEF IInv, Store, Behind
<1> QED BY <1>2, <1>3, <1>5, <1>6 DEF Store

LEMMA FlushKeeps ==
  ASSUME IInv, Flush
  PROVE  Store' /\ \A q \in Proc : Busy(q)'
<1>1. /\ UNCHANGED <<dir, clock, granted, blurred, pc, listed, fd, snap, buf, temp, durable, during>>
      /\ Target \in Name /\ \A n \in Name : dirSafe'[n] = {dir[n]}
  BY DEF Flush, world, hand, Name
<1>2. \A i \in Inode : inode[i] \in Record
  BY DEF IInv, TypeOK
<1>3. ASSUME NEW i \in Inode
      PROVE  inode'[i].ctime = inode[i].ctime
  <2>1. inode'[i] \in {Synced(inode[i]), Freed(inode[i])}
    BY DEF Flush
  <2> QED BY <1>2, <2>1, SyncedFacts, FreedFacts
<1>4. ASSUME NEW i \in Inode, i \in {dir[n] : n \in Name} \cup {fd[q] : q \in Proc}
      PROVE  /\ inode'[i].data = inode[i].data /\ inode'[i].open = inode[i].open
             /\ inode'[i].safe = {[data |-> inode[i].data, open |-> inode[i].open]}
             /\ Whole(inode[i]) => Whole(inode'[i])
  <2>1. inode'[i] = Synced(inode[i])
    BY <1>4 DEF Flush
  <2>2. /\ inode'[i].data = inode[i].data /\ inode'[i].open = inode[i].open
        /\ inode'[i].safe = {[data |-> inode[i].data, open |-> inode[i].open]}
    BY <1>2, <2>1, SyncedFacts
  <2> QED BY <2>2 DEF Whole
<1>5. dir[Target] \in dirSafe[Target] /\ dirSafe'[Target] = {dir[Target]}
  BY <1>1 DEF IInv, Store, Visible
<1>6. dir[Target] \in Inode \cup {NoInode}
  BY <1>1 DEF IInv, TypeOK
<1>7. dir[Target] \in Inode => /\ inode'[dir[Target]].data = inode[dir[Target]].data
                               /\ inode'[dir[Target]].open = inode[dir[Target]].open
                               /\ inode'[dir[Target]].ctime = inode[dir[Target]].ctime
                               /\ Whole(inode[dir[Target]]) => Whole(inode'[dir[Target]])
  BY <1>1, <1>3, <1>4
<1>8. Visible'
  BY <1>1 DEF Visible
<1>9. TargetWhole'
  BY <1>5, <1>7 DEF IInv, Store, TargetWhole
<1>10. TargetGranted'
  BY <1>1, <1>6, <1>7 DEF IInv, Store, TargetGranted
<1>11. Behind'
  <2>1. \A q \in Proc : snap[q] # NoSnap => snap[q].ino \in Inode
    BY Apart
  <2> QED BY <1>1, <1>3, <2>1 DEF IInv, Store, Behind
<1>12. ASSUME NEW q \in Proc PROVE Busy(q)'
  <2>1. /\ pc[q] \in HasFile => fd[q] \in Inode
        /\ pc[q] \in HasTemp => fd[q] # dir[Target]
    BY Apart
  <2>2. fd[q] \in Inode =>
          /\ inode'[fd[q]].data = inode[fd[q]].data /\ inode'[fd[q]].open = inode[fd[q]].open
          /\ inode'[fd[q]].ctime = inode[fd[q]].ctime
          /\ inode'[fd[q]].safe = {[data |-> inode[fd[q]].data, open |-> inode[fd[q]].open]}
          /\ Whole(inode[fd[q]]) => Whole(inode'[fd[q]])
    BY <1>3, <1>4
  <2>3. Held(q)' /\ Swept(q)'
    BY <1>1, <1>5, <2>1 DEF IInv, Busy, Held, Swept
  <2>4. pc[q] \in HasFile => /\ Whole(inode[fd[q]]) => Whole(inode[fd[q]])'
                             /\ OnlyProduct(q) => OnlyProduct(q)'
    <3>1. OnlyProduct(q)' <=> /\ inode'[fd[q]].data = Product(buf[q])
                              /\ \A s \in inode'[fd[q]].safe : s.data = Product(buf[q])
      BY <1>1 DEF OnlyProduct, Product
    <3> QED BY <1>1, <2>1, <2>2, <3>1 DEF OnlyProduct, Whole
  <2>5. Written(q)'
    <3>1. Product(buf[q])' = Product(buf[q])
      BY <1>1 DEF Product
    <3> QED BY <1>1, <1>5, <2>1, <2>2, <2>4, <3>1
            DEF IInv, Busy, Written, HasFile, HasTemp, Committed
  <2>6. Compared(q)'
    <3>1. Product(buf[q])' = Product(buf[q])
      BY <1>1 DEF Product
    <3>2. snap[q] # NoSnap => snap[q].ino \in Inode
      BY Apart
    <3> QED BY <1>1, <1>6, <1>7, <2>1, <2>2, <3>1, <3>2
            DEF IInv, Busy, Compared, HasFile, HasTemp, Committed
  <2>7. Private(q)'
    <3>1. pc[q] \in HasTemp => ~inode[fd[q]].open /\ fd[q] \in Inode
      BY <2>1 DEF IInv, Busy, Private, HasFile
    <3> QED BY <1>1, <2>2, <3>1 DEF IInv, Busy, Private
  <2> QED BY <2>3, <2>5, <2>6, <2>7 DEF Busy
<1> QED BY <1>8, <1>9, <1>10, <1>11, <1>12 DEF Store

\* What another program's change adds to the history.
LEMMA Noted ==
  ASSUME IInv, NEW N \in SUBSET {"inPlace"}, Intervene(N), NEW q \in Proc
  PROVE  /\ UNCHANGED <<clock, pc, listed, fd, snap, buf, temp, durable>>
         /\ during[q] \subseteq during'[q]
         /\ "sweep" \in during'[q] => "sweep" \in during[q]
         /\ "inPlace" \in during'[q] => "inPlace" \in during[q] \cup N
         /\ pc[q] \in Late => pc[q] \in during'[q]
         /\ pc[q] \in Late \ {"rename", "done"} => N \subseteq during'[q]
<1>1. during'[q] = during[q] \cup (IF pc[q] \in Late THEN {pc[q]} ELSE {})
                             \cup (IF pc[q] \in Late \ {"rename", "done"} THEN N ELSE {})
  BY DEF Intervene
<1>2. "sweep" \notin Late /\ "inPlace" \notin Late
  BY DEF Late
<1> QED BY <1>1, <1>2 DEF Intervene, hand

\* Another program writes into the target, or sets its permission bits: the
\* record r takes the place of the target's.
LEMMA InPlaceKeeps ==
  ASSUME IInv, Intervene({"inPlace"}), dir[Target] \in Inode,
         NEW r \in Record, inode' = [inode EXCEPT ![dir[Target]] = r],
         Whole(r), r.ctime = clock, r.open => granted',
         blurred' = (blurred \/ inode[dir[Target]].ctime = clock),
         UNCHANGED <<dir, dirSafe>>
  PROVE  Store' /\ \A q \in Proc : Busy(q)'
<1> DEFINE i == dir[Target]
<1>1. UNCHANGED <<clock, pc, listed, fd, snap, buf, temp, durable>>
  BY DEF Intervene, hand
<1>2. Store'
  BY <1>1, InodeStore DEF IInv
<1>3. inode'[i] = r /\ \A j \in Inode \ {i} : inode'[j] = inode[j]
  BY DEF IInv, TypeOK
<1>4. ASSUME NEW q \in Proc PROVE Busy(q)'
  <2>n. /\ during[q] \subseteq during'[q]
        /\ "sweep" \in during'[q] => "sweep" \in during[q]
        /\ pc[q] \in Late => pc[q] \in during'[q]
        /\ pc[q] \in Late \ {"rename", "done"} => "inPlace" \in during'[q]
    BY Noted
  <2>1. /\ pc[q] \in HasFile => fd[q] \in Inode
        /\ pc[q] \in HasTemp => fd[q] \in Inode /\ fd[q] # i
        /\ snap[q] # NoSnap => snap[q] \in Snapshot
    BY Apart
  <2>2. Held(q)' /\ Swept(q)'
    BY <1>1, <2>n DEF IInv, Busy, Held, Swept
  <2>3. Product(buf[q])' = Product(buf[q])
    BY <1>1 DEF Product
  <2>4. pc[q] \in HasFile /\ Whole(inode[fd[q]]) => Whole(inode[fd[q]])'
    BY <1>1, <1>3, <2>1 DEF Whole
  <2>5. Written(q)'
    <3>1. pc[q] \in HasTemp => UNCHANGED inode[fd[q]] /\ (OnlyProduct(q) => OnlyProduct(q)')
      BY <1>1, <1>3, <2>1, <2>3 DEF OnlyProduct
    <3>2. pc[q] \in Committed => pc[q] \in during'[q] \ {"sweep", "rename"}
      BY <2>n DEF Committed, Late
    <3>3. pc[q] \in Committed \ {"done"} => "inPlace" \in during'[q]
      BY <2>n DEF Committed, Late
    <3> QED BY <1>1, <2>3, <2>4, <3>1, <3>2, <3>3
            DEF IInv, Busy, Written, HasFile, HasTemp, Committed
  <2>6. snap[q] # NoSnap /\ snap[q].ino = i /\ r.ctime = snap[q].ctime => blurred'
    <3> SUFFICES ASSUME snap[q] # NoSnap, snap[q].ino = i, r.ctime = snap[q].ctime
                 PROVE  inode[i].ctime = clock
      OBVIOUS
    <3>1. snap[q].ctime <= inode[i].ctime /\ inode[i].ctime <= clock
      BY DEF IInv, Store, Behind
    <3>2. snap[q].ctime = clock /\ clock \in Nat /\ inode[i].ctime \in Nat
      BY BoundsAssumption DEF IInv, TypeOK, Record
    <3> QED BY <3>1, <3>2
  <2>7. Compared(q)'
    <3>1. snap[q] # NoSnap /\ snap[q].ino = i /\ inode'[i].ctime = snap[q].ctime => blurred'
      BY <1>3, <2>6
    <3>2. ~blurred' => ~blurred
      OBVIOUS
    <3>3. pc[q] = "rename" => "rename" \in during'[q]
      BY <2>n DEF Late
    <3>4. "inPlace" \notin during'[q] => "inPlace" \notin during[q]
      BY <2>n
    <3>5. fd[q] \in Inode => fd[q] = i \/ UNCHANGED inode[fd[q]]
      BY <1>1, <1>3
    <3>6. pc[q] \in {"read", "restat", "done"} => fd[q] \in Inode
      BY <2>1 DEF HasFile, Committed
    <3> QED BY <1>1, <2>3, <3>1, <3>2, <3>3, <3>4, <3>5, <3>6
            DEF IInv, Busy, Compared, HasTemp
  <2>8. Private(q)'
    <3>1. pc[q] \in {"rename", "chmod"} => pc[q] \in during'[q]
      BY <2>n DEF Late
    <3>2. pc[q] \in HasTemp => UNCHANGED inode[fd[q]]
      BY <1>1, <1>3, <2>1
    <3> QED BY <1>1, <3>1, <3>2 DEF IInv, Busy, Private
  <2> QED BY <2>2, <2>5, <2>7, <2>8 DEF Busy
<1> QED BY <1>2, <1>4

\* Another program puts a new file, or nothing, in the place of the target:
\* the name refers to k.
LEMMA RepointKeeps ==
  ASSUME IInv, Intervene({}), NEW k \in Inode \cup {NoInode}, k \notin InUse \ {NoInode},
         PointDurably(Target, k),
         \A i \in Inode \ {k} : inode'[i] = inode[i],
         k \in Inode => /\ inode'[k].ctime = clock
                        /\ Whole(inode'[k])
                        /\ inode'[k].open => granted'
                        /\ blurred' = (blurred \/ inode[k].ctime = clock),
         k = NoInode => blurred' = blurred
  PROVE  Store' /\ \A q \in Proc : Busy(q)'
<1>1. UNCHANGED <<clock, pc, listed, fd, snap, buf, temp, durable>>
  BY DEF Intervene, hand
<1>2. /\ Target \in Name
      /\ \A n \in Name : /\ dir'[n] = IF n = Target THEN k ELSE dir[n]
                         /\ dirSafe'[n] = IF n = Target THEN {k} ELSE dirSafe[n]
  BY DEF PointDurably, IInv, TypeOK, Name
<1>3. Visible'
  BY <1>2 DEF IInv, Store, Visible
<1>4. TargetWhole'
  BY <1>2 DEF TargetWhole, Whole
<1>5. TargetGranted'
  BY <1>2 DEF TargetGranted
<1>6. Behind'
  <2>1. clock \in Nat /\ \A i \in Inode : inode[i].ctime \in Nat
    BY BoundsAssumption DEF IInv, TypeOK, Record
  <2>2. \A i \in Inode : /\ inode'[i].ctime <= clock /\ inode[i].ctime <= inode'[i].ctime
                         /\ inode'[i].ctime \in Nat
    BY <2>1 DEF IInv, Store, Behind
  <2> SUFFICES ASSUME NEW q \in Proc, snap[q] # NoSnap
               PROVE  snap[q].ctime <= inode'[snap[q].ino].ctime
    BY <1>1, <2>2 DEF Behind
  <2>3. snap[q].ino \in Inode /\ snap[q].ctime \in Nat
    BY BoundsAssumption DEF IInv, TypeOK, Snapshot
  <2>4. snap[q].ctime <= inode[snap[q].ino].ctime
    BY DEF IInv, Store, Behind
  <2> QED BY <2>1, <2>2, <2>3, <2>4
<1>7. ASSUME NEW q \in Proc PROVE Busy(q)'
  <2>n. /\ during[q] \subseteq during'[q]
        /\ "sweep" \in during'[q] => "sweep" \in during[q]
        /\ "inPlace" \in during'[q] => "inPlace" \in during[q]
        /\ pc[q] \in Late => pc[q] \in during'[q]
    BY Noted
  <2>1. /\ pc[q] \in HasFile => fd[q] \in Inode /\ fd[q] # k
        /\ pc[q] \in HasTemp => temp[q] \in Name /\ temp[q] # Target
        /\ snap[q] # NoSnap => snap[q] \in Snapshot /\ snap[q].ino # NoInode
        /\ \A t \in Temp : t \in Name /\ t # Target
    BY Apart, NamesAssumption
  <2>2. Held(q)'
    <3>1. pc[q] \in HasTemp => dir'[temp[q]] = dir[temp[q]] /\ fd[q] \notin dirSafe'[Target]
      BY <1>2, <2>1 DEF HasFile
    <3> QED BY <1>1, <3>1 DEF IInv, Busy, Held
  <2>3. Swept(q)'
    BY <1>1, <1>2, <2>n, <2>1 DEF IInv, Busy, Swept
  <2>4. Product(buf[q])' = Product(buf[q])
    BY <1>1 DEF Product
  <2>5. pc[q] \in HasFile => UNCHANGED inode[fd[q]]
    BY <1>1, <2>1
  <2>6. Written(q)'
    <3>1. pc[q] \in HasFile => /\ OnlyProduct(q)' <=> OnlyProduct(q)
                               /\ Whole(inode[fd[q]])' <=> Whole(inode[fd[q]])
      BY <1>1, <2>4, <2>5 DEF OnlyProduct, Whole
    <3>2. pc[q] \in Committed => pc[q] \in during'[q] \ {"sweep", "rename"}
      BY <2>n DEF Committed, Late
    <3> QED BY <1>1, <2>n, <2>4, <2>5, <3>1, <3>2
            DEF IInv, Busy, Written, HasFile, HasTemp, Committed
  <2>7. snap[q] # NoSnap /\ snap[q].ino = k /\ inode'[k].ctime = snap[q].ctime => blurred'
    <3> SUFFICES ASSUME snap[q] # NoSnap, snap[q].ino = k, inode'[k].ctime = snap[q].ctime
                 PROVE  k \in Inode /\ inode[k].ctime = clock
      OBVIOUS
    <3>0. k \in Inode
      BY <2>1
    <3>1. snap[q].ctime <= inode[k].ctime /\ inode[k].ctime <= clock
      BY <3>0 DEF IInv, Store, Behind
    <3>2. snap[q].ctime = clock /\ clock \in Nat /\ inode[k].ctime \in Nat
      BY <3>0, BoundsAssumption DEF IInv, TypeOK, Record
    <3> QED BY <3>0, <3>1, <3>2
  <2>8. Compared(q)'
    <3>1. ~blurred' => ~blurred
      OBVIOUS
    <3>2. pc[q] = "rename" => "rename" \in during'[q]
      BY <2>n DEF Late
    <3>3. "inPlace" \notin during'[q] => "inPlace" \notin during[q]
      BY <2>n
    <3>4. pc[q] \in {"read", "restat", "done"} => pc[q] \in HasFile
      BY DEF HasFile, Committed
    <3> QED BY <1>1, <1>2, <2>4, <2>5, <2>7, <3>1, <3>2, <3>3, <3>4
            DEF IInv, Busy, Compared, HasTemp
  <2>9. Private(q)'
    <3>1. pc[q] \in {"rename", "chmod"} => pc[q] \in during'[q]
      BY <2>n DEF Late
    <3>2. pc[q] \in HasTemp => UNCHANGED inode[fd[q]]
      BY <2>5 DEF HasFile
    <3> QED BY <1>1, <3>1, <3>2 DEF IInv, Busy, Private
  <2> QED BY <2>2, <2>3, <2>6, <2>8, <2>9 DEF Busy
<1> QED BY <1>3, <1>4, <1>5, <1>6, <1>7 DEF Store

LEMMA OthersKeep ==
  ASSUME IInv, Others
  PROVE  Store' /\ \A q \in Proc : Busy(q)'
<1>r. /\ \A i \in Inode : inode[i] \in Record
      /\ clock \in 0..MaxClock /\ dir[Target] \in Inode \cup {NoInode}
  BY DEF IInv, TypeOK, Name
<1>w. dir[Target] \in Inode => Whole(inode[dir[Target]])
  BY DEF IInv, Store, TargetWhole, Visible, Name
<1>1. ASSUME NEW v \in Text, NEW forge \in BOOLEAN, EditInPlace(v, forge)
      PROVE  Store' /\ \A q \in Proc : Busy(q)'
  <2> DEFINE i == dir[Target]
             t == IF forge THEN inode[i].mtime ELSE clock
             a == Touched(inode[i], t)
             b == Unsynced(a, v, a.open)
             r == Synced(b)
  <2>1. i \in Inode /\ v \in Data
    BY <1>1, <1>r DEF EditInPlace, Data
  <2>2. t \in 0..MaxClock
    BY <2>1, <1>r DEF Record
  <2>3. a \in Record /\ a.open = inode[i].open /\ a.open \in BOOLEAN
    <3> HIDE DEF t
    <3> QED BY <1>r, <2>1, <2>2, TouchedFacts DEF Record
  <2>4. inode' = [inode EXCEPT ![i] = r]
    BY <1>1, <2>1, <2>3 DEF EditInPlace
  <2>5. b \in Record /\ b.data = v /\ b.open = inode[i].open /\ b.ctime = clock
    <3> HIDE DEF a
    <3> QED BY <1>r, <2>1, <2>3, UnsyncedFacts
  <2>6. /\ r \in Record /\ r.data = v /\ r.open = inode[i].open /\ r.ctime = clock
        /\ r.safe = {[data |-> r.data, open |-> r.open]}
    <3> HIDE DEF b
    <3> QED BY <2>5, SyncedFacts
  <2> HIDE DEF r
  <2>7. Whole(r)
    BY <2>6 DEF Whole
  <2>8. r.open => granted'
    BY <1>1, <2>1, <2>6, NamesAssumption DEF EditInPlace, IInv, Store, TargetGranted
  <2>9. /\ Intervene({"inPlace"}) /\ UNCHANGED <<dir, dirSafe>>
        /\ blurred' = (blurred \/ inode[i].ctime = clock)
    BY <1>1 DEF EditInPlace
  <2> QED BY <2>1, <2>4, <2>6, <2>7, <2>8, <2>9, InPlaceKeeps
<1>2. CASE Chmod
  <2> DEFINE i == dir[Target]
             b == Unsynced(inode[i], inode[i].data, ~inode[i].open)
             r == Synced(b)
  <2>1. i \in Inode
    BY <1>2, <1>r DEF Chmod
  <2>2. inode[i] \in Record /\ inode[i].data \in Data /\ (~inode[i].open) \in BOOLEAN
    BY <1>r, <2>1 DEF Record
  <2>3. inode' = [inode EXCEPT ![i] = r]
    BY <1>2, <2>1 DEF Chmod
  <2>4. b \in Record /\ b.data = inode[i].data /\ b.open = ~inode[i].open /\ b.ctime = clock
    BY <1>r, <2>2, UnsyncedFacts
  <2>5. /\ r \in Record /\ r.data = inode[i].data /\ r.open = ~inode[i].open /\ r.ctime = clock
        /\ r.safe = {[data |-> r.data, open |-> r.open]}
    <3> HIDE DEF b
    <3> QED BY <2>4, SyncedFacts
  <2> HIDE DEF r
  <2>6. Whole(r)
    BY <1>w, <2>1, <2>5 DEF Whole
  <2>7. /\ Intervene({"inPlace"}) /\ UNCHANGED <<dir, dirSafe>> /\ (r.open => granted')
        /\ blurred' = (blurred \/ inode[i].ctime = clock)
    BY <1>2, <2>5 DEF Chmod
  <2> QED BY <2>1, <2>3, <2>5, <2>6, <2>7, InPlaceKeeps
<1>3. ASSUME NEW v \in Text, NEW o \in Exposed, ReplaceByRename(v, o)
      PROVE  Store' /\ \A q \in Proc : Busy(q)'
  <2> DEFINE r == [data |-> v, open |-> o, mtime |-> clock, ctime |-> clock,
                   safe |-> {[data |-> v, open |-> o]}]
  <2> PICK k \in Free :
        /\ inode' = [inode EXCEPT ![k] = r]
        /\ PointDurably(Target, k)
        /\ blurred' = (blurred \/ inode[k].ctime = clock)
    BY <1>3 DEF ReplaceByRename
  <2>1. k \in Inode /\ k \notin InUse \ {NoInode} /\ k # NoInode
    BY NamesAssumption DEF Free
  <2>2. inode'[k] = r /\ \A i \in Inode \ {k} : inode'[i] = inode[i]
    BY <2>1 DEF IInv, TypeOK
  <2>3. r.ctime = clock /\ Whole(r) /\ (r.open => granted')
    BY <1>3 DEF Whole, ReplaceByRename
  <2>4. Intervene({})
    BY <1>3 DEF ReplaceByRename
  <2> HIDE DEF r
  <2> QED BY <2>1, <2>2, <2>3, <2>4, RepointKeeps
<1>4. CASE Remove
  <2>1. Intervene({}) /\ PointDurably(Target, NoInode) /\ inode' = inode /\ blurred' = blurred
    BY <1>4 DEF Remove
  <2> QED BY <2>1, NamesAssumption, RepointKeeps
<1> QED BY <1>1, <1>2, <1>3, <1>4 DEF Others

LEMMA NextKeeps ==
  ASSUME OneLock, IInv, [Next]_vars
  PROVE  IInv'
<1>1. TypeOK' /\ Alone'
  BY NextTyped, StaysAlone DEF IInv
<1>2. Store' /\ \A q \in Proc : Busy(q)'
  <2>1. CASE UNCHANGED vars
    BY <2>1 DEF vars, disk, world, hand, IInv, Store, Visible, TargetWhole, Behind, TargetGranted,
                Busy, Held, Swept, Written, Compared, Private, OnlyProduct, Whole, Product
  <2> QED BY <2>1, StepKeeps, PowerLossKeeps, FlushKeeps, TickKeeps, OthersKeep DEF Next
<1> QED BY <1>1, <1>2 DEF IInv

\* The invariant, of any number of invocations that take one lock.
THEOREM Inductive ==
  ASSUME OneLock
  PROVE  Spec => []IInv
<1>1. Init => IInv
  BY InitIInv
<1>2. IInv /\ [Next]_vars => IInv'
  BY NextKeeps
<1> QED BY <1>1, <1>2, PTL DEF Spec

-----------------------------------------------------------------------------
(***************************************************************************)
(* What follows from it.                                                   *)
(***************************************************************************)

\* Variables hold what they are declared to hold.
THEOREM AlwaysTyped ==
  ASSUME OneLock
  PROVE  Spec => []TypeOK
<1>1. IInv => TypeOK
  BY DEF IInv
<1> QED BY <1>1, Inductive, PTL

\* sweep_temps removes nothing that an invocation at work uses, and leaves
\* nothing behind unless removing it failed.
THEOREM SweepIsSafe ==
  ASSUME OneLock
  PROVE  Spec => []OnlyLiveTemps
<1>1. IInv => OnlyLiveTemps
  <2> SUFFICES ASSUME IInv PROVE OnlyLiveTemps
    OBVIOUS
  <2>1. \A p \in Proc : Held(p) /\ Swept(p)
    BY DEF IInv, Busy
  <2> QED BY <2>1 DEF OnlyLiveTemps, Held, Swept
<1> QED BY <1>1, Inductive, PTL

\* Once both syncs went well, the new content is all that any power loss can
\* leave: what atomic_replace reports as durable is.
THEOREM DurableHolds ==
  ASSUME OneLock
  PROVE  Spec => []DurableIsDurable
<1>1. ASSUME IInv, NEW p \in Proc, pc[p] \in {"readback", "done"}, durable[p],
             during[p] \subseteq {"sweep", "rename"}
      PROVE  MayRead = {Product(buf[p])}
  <2>1. dirSafe[Target] = {fd[p]} /\ OnlyProduct(p) /\ Whole(inode[fd[p]])
    BY <1>1 DEF IInv, Busy, Written, Committed
  <2>2. fd[p] # NoInode
    BY <1>1 DEF IInv, Busy, Held, HasFile, Committed
  <2>3. MayRead = {s.data : s \in inode[fd[p]].safe}
    BY <2>1, <2>2 DEF MayRead
  <2>4. \A s \in inode[fd[p]].safe : s.data = Product(buf[p])
    BY <2>1 DEF OnlyProduct
  <2>5. inode[fd[p]].safe # {}
    BY <2>1 DEF Whole
  <2> QED BY <2>3, <2>4, <2>5
<1>2. IInv => DurableIsDurable
  BY <1>1 DEF DurableIsDurable
<1> QED BY <1>2, Inductive, PTL

\* The snapshot a rewrite hands to later commands is never of a content that
\* the rewrite did not write.
THEOREM SnapshotHolds ==
  ASSUME OneLock
  PROVE  Spec => []SnapshotIsOfOurs
<1>1. ASSUME IInv, NEW p \in Proc, pc[p] = "done", "inPlace" \notin during[p], ~blurred,
             Matches(snap[p], dir[Target])
      PROVE  Reads(dir[Target]) = Product(buf[p])
  <2>1. /\ dir[Target] # NoInode /\ snap[p] # NoSnap /\ snap[p].ino = dir[Target]
        /\ snap[p].ctime = inode[dir[Target]].ctime
    BY <1>1 DEF Matches, Stat
  <2> QED BY <1>1, <2>1 DEF IInv, Busy, Compared, Reads
<1>2. IInv => SnapshotIsOfOurs
  BY <1>1 DEF SnapshotIsOfOurs
<1> QED BY <1>2, Inductive, PTL

\* A replacement destroys what it read, and nothing else outside the window.
THEOREM OverwritesOnlyRead ==
  ASSUME OneLock
  PROVE  Spec => NoSilentOverwrite
<1>1. ASSUME IInv, NEW p \in Proc, pc[p] = "rename"
      PROVE  Reads(dir[Target]) = buf[p] \/ "rename" \in during[p] \/ blurred
  BY <1>1 DEF IInv, Busy, Compared, Reads
<1>2. IInv => [\A p \in Proc :
                 pc[p] = "rename" /\ pc'[p] = "chmod" =>
                   \/ Reads(dir[Target]) = buf[p]
                   \/ "rename" \in during[p]
                   \/ blurred]_vars
  BY <1>1
<1> QED BY <1>2, Inductive, PTL DEF NoSilentOverwrite

\* The only step of an invocation that lets others read a file is restoring
\* the permission bits; a power loss may bring back what once could be read.
LEMMA Opens ==
  ASSUME OneLock, IInv, [Next]_vars, NEW i \in Inode, ~inode[i].open, inode'[i].open,
         edits' = edits
  PROVE  \/ granted
         \/ \E p \in Proc : {"rename", "chmod"} \cap during[p] # {}
         \/ \E s \in inode[i].safe : s.open
<1>r. inode[i] \in Record /\ \A j \in Inode : inode[j] \in Record
  BY DEF IInv, TypeOK
<1>u. inode' # inode
  OBVIOUS
<1>1. ASSUME NEW p \in Proc, Step(p)
      PROVE  granted \/ {"rename", "chmod"} \cap during[p] # {}
  <2>f. pc[p] \in HasFile => fd[p] \in Inode
    BY Apart
  <2>1. CASE CreateTemp(p)
    BY <2>1, <1>u, <1>r DEF CreateTemp, Stop, disk, TempOpen, TempPrivate, IInv, TypeOK
  <2>2. CASE WriteTemp(p)
    <3> DEFINE a == Touched(inode[fd[p]], clock)
               r == Unsynced(a, Product(buf[p]), a.open)
    <3>1. fd[p] \in Inode /\ clock \in 0..MaxClock /\ Product(buf[p]) \in Data
      BY <2>2, <2>f, ProductType DEF WriteTemp, HasFile, HasTemp, IInv, TypeOK
    <3>2. a \in Record /\ a.open = inode[fd[p]].open /\ a.open \in BOOLEAN
      BY <1>r, <3>1, TouchedFacts DEF Record
    <3>3. inode' = [inode EXCEPT ![fd[p]] = r]
      BY <2>2, <1>u, <3>1, <3>2 DEF WriteTemp, Abandon
    <3>4. r.open = inode[fd[p]].open
      <4> HIDE DEF a
      <4> QED BY <3>1, <3>2, UnsyncedFacts
    <3> HIDE DEF r
    <3> QED BY <3>1, <3>3, <3>4 DEF IInv, TypeOK
  <2>3. CASE SyncTemp(p) \/ SyncTarget(p)
    <3>1. fd[p] \in Inode /\ inode' = [inode EXCEPT ![fd[p]] = Synced(inode[fd[p]])]
      BY <2>3, <2>f, <1>u DEF SyncTemp, Abandon, SyncTarget, SyncFailed, disk,
                              HasFile, HasTemp, Committed
    <3>2. Synced(inode[fd[p]]).open = inode[fd[p]].open
      BY <1>r, <3>1, SyncedFacts
    <3> QED BY <3>1, <3>2 DEF IInv, TypeOK
  <2>4. CASE RestoreMode(p)
    <3> DEFINE x == inode[fd[p]]
               r == Unsynced(x, x.data, snap[p].open)
    <3>1. /\ pc[p] = "chmod" /\ fd[p] \in Inode /\ snap[p].open \in BOOLEAN
          /\ clock \in 0..MaxClock
      BY <2>4, <2>f, Apart DEF RestoreMode, HasFile, Committed, IInv, TypeOK, Busy, Compared, Snapshot
    <3>2. inode' = [inode EXCEPT ![fd[p]] = r]
      BY <2>4, <1>u DEF RestoreMode
    <3>3. r.open = snap[p].open
      BY <1>r, <3>1, UnsyncedFacts DEF Record
    <3> HIDE DEF r
    <3>4. snap[p].open
      BY <3>1, <3>2, <3>3 DEF IInv, TypeOK
    <3> QED BY <3>1, <3>4 DEF IInv, Busy, Private
  <2>5. CASE Lock(p) \/ List(p) \/ (\E t \in Temp : Sweep(p, t)) \/ StatTarget(p)
    BY <2>5, <1>u DEF Lock, List, Sweep, StatTarget, Stop, disk
  <2>6. CASE ReadTarget(p) \/ RestatTarget(p) \/ Recheck(p) \/ Rename(p)
    BY <2>6, <1>u DEF ReadTarget, RestatTarget, Recheck, Rename, Abandon, Stop, disk
  <2>7. CASE SyncDir(p) \/ ReadBack(p) \/ Finish(p) \/ Kill(p)
    BY <2>7, <1>u DEF SyncDir, SyncFailed, ReadBack, Finish, Kill, Stop, disk
  <2> QED BY <1>1, <2>1, <2>2, <2>3, <2>4, <2>5, <2>6, <2>7 DEF Step
<1>2. CASE PowerLoss
  <2>1. inode'[i] = Freed(inode[i]) \/ \E b \in inode[i].safe : inode'[i] = Kept(inode[i], b)
    BY <1>2, AfterLoss
  <2>2. inode'[i] # Freed(inode[i])
    BY DEF Freed
  <2>3. PICK b \in inode[i].safe : inode'[i] = Kept(inode[i], b)
    BY <2>1, <2>2
  <2>4. b.open
    BY <1>r, <2>3 DEF Record, Kept
  <2> QED BY <2>4
<1>3. CASE Flush
  <2>1. inode'[i] \in {Synced(inode[i]), Freed(inode[i])}
    BY <1>3 DEF Flush
  <2> QED BY <1>r, <2>1, SyncedFacts DEF Freed
<1>4. CASE Tick \/ UNCHANGED vars
  BY <1>4, <1>u DEF Tick, vars, disk
<1>5. CASE Others
  <2>1. edits \in Nat /\ edits' = edits + 1
    BY <1>5 DEF Others, EditInPlace, Chmod, ReplaceByRename, Remove, Intervene, IInv, TypeOK
  <2> QED BY <2>1
<1> QED BY <1>1, <1>2, <1>3, <1>4, <1>5 DEF Next

\* A temporary file is never anyone else's to read, and a file is opened only
\* to those who could read what it replaces.
THEOREM NeverOpens ==
  ASSUME OneLock
  PROVE  Spec => NeverOpensUp
<1>1. ASSUME IInv', NEW p \in Proc, temp'[p] # NoTemp
      PROVE  \A s \in inode'[dir'[temp'[p]]].safe : ~s.open
  BY <1>1 DEF IInv, Busy, Held, Private
<1>2. IInv /\ IInv' /\ [Next]_vars =>
        [/\ \A p \in Proc : temp'[p] # NoTemp =>
              \A s \in inode'[dir'[temp'[p]]].safe : ~s.open
         /\ \A i \in Inode :
              ~inode[i].open /\ inode'[i].open /\ edits' = edits =>
                \/ granted
                \/ \E p \in Proc : {"rename", "chmod"} \cap during[p] # {}
                \/ \E s \in inode[i].safe : s.open]_vars
  BY <1>1, Opens
<1> QED BY <1>2, Inductive, PTL DEF NeverOpensUp, Spec

-----------------------------------------------------------------------------
(***************************************************************************)
(* The invocations implement DurableFile.                                  *)
(***************************************************************************)

LEMMA MayReadIs ==
  ASSUME NEW x
  PROVE  x \in MayRead <=>
           \/ NoInode \in dirSafe[Target] /\ x = Missing
           \/ \E i \in dirSafe[Target] \ {NoInode} : \E s \in inode[i].safe : x = s.data
BY DEF MayRead

\* The target reads as a whole content, which a power loss may leave.
LEMMA ReadsIs ==
  IInv => /\ Reads(dir[Target]) \in Text \cup {Missing}
          /\ Reads(dir[Target]) \in MayRead
<1> SUFFICES ASSUME IInv
             PROVE  /\ Reads(dir[Target]) \in Text \cup {Missing}
                    /\ Reads(dir[Target]) \in MayRead
  OBVIOUS
<1>1. dir[Target] \in dirSafe[Target] /\ dir[Target] \in Inode \cup {NoInode}
  BY DEF IInv, Store, Visible, TypeOK, Name
<1>2. CASE dir[Target] = NoInode
  BY <1>1, <1>2, MayReadIs DEF Reads
<1>3. CASE dir[Target] # NoInode
  <2>1. Whole(inode[dir[Target]])
    BY <1>1, <1>3 DEF IInv, Store, TargetWhole
  <2>2. /\ inode[dir[Target]].data \in Text
        /\ \E s \in inode[dir[Target]].safe : s.data = inode[dir[Target]].data
    BY <2>1 DEF Whole
  <2> QED BY <1>1, <1>3, <2>2, MayReadIs DEF Reads
<1> QED BY <1>2, <1>3

\* After a step a power loss may leave v, or what it might have left before.
LEMMA NoNews ==
  ASSUME IInv, NEW v,
         NoInode \in dirSafe'[Target] => NoInode \in dirSafe[Target] \/ v = Missing,
         \A i \in dirSafe'[Target] \ {NoInode} : \A s \in inode'[i].safe :
            \/ s.data = v
            \/ i \in dirSafe[Target] /\ \E t \in inode[i].safe : t.data = s.data
  PROVE  MayRead' \subseteq MayRead \cup {v}
<1> SUFFICES ASSUME NEW x, x \in MayRead' PROVE x \in MayRead \cup {v}
  OBVIOUS
<1>1. \/ NoInode \in dirSafe'[Target] /\ x = Missing
      \/ \E i \in dirSafe'[Target] \ {NoInode} : \E s \in inode'[i].safe : x = s.data
  BY DEF MayRead, Missing
<1> QED BY <1>1, MayReadIs DEF Missing

LEMMA IsPut ==
  ASSUME IInv, IInv', NEW v \in Text \cup {Missing}, Reads(dir[Target])' = v,
         MayRead' \subseteq MayRead \cup {v}
  PROVE  Promise!Next
<1>1. v \in MayRead'
  <2>1. IInv' => (Reads(dir[Target]) \in MayRead)'
    BY ReadsIs, PTL
  <2> QED BY <2>1
<1> QED BY <1>1 DEF Promise!Next, Promise!Put

\* The target keeps its content, and a power loss leaves no more than before.
LEMMA TargetKept ==
  ASSUME IInv, IInv', dir'[Target] = dir[Target], dirSafe'[Target] \subseteq dirSafe[Target],
         \A i \in dirSafe[Target] \ {NoInode} :
           /\ inode'[i].data = inode[i].data
           /\ \A s \in inode'[i].safe : \E t \in inode[i].safe : t.data = s.data
  PROVE  Promise!Next
<1> DEFINE v == Reads(dir[Target])
<1>1. v \in Text \cup {Missing} /\ v \in MayRead
  BY ReadsIs
<1>2. dir[Target] \in dirSafe[Target]
  BY DEF IInv, Store, Visible, Name
<1>3. Reads(dir[Target])' = v
  BY <1>2 DEF Reads, Missing
<1> HIDE DEF v
<1>4. MayRead' \subseteq MayRead \cup {v}
  BY NoNews
<1> QED BY <1>1, <1>3, <1>4, IsPut

\* Steps that leave the files as they are, those of Abandon and of the sweep,
\* which touch a temporary name, and those that touch the temporary file.
LEMMA QuietSteps ==
  ASSUME OneLock, IInv, IInv', NEW p \in Proc, Step(p),
         ~Rename(p) \/ Abandon(p), ~RestoreMode(p), ~SyncTarget(p), ~SyncDir(p)
  PROVE  Promise!Next
<1>a. /\ Target \in Name /\ \A t \in Temp : t \in Name /\ t # Target
      /\ pc[p] \in HasTemp => temp[p] \in Temp /\ fd[p] \in Inode /\ fd[p] \notin dirSafe[Target]
      /\ dirSafe[Target] \in SUBSET (Inode \cup {NoInode})
  BY Apart DEF IInv, TypeOK
<1>d. UNCHANGED <<inode, dir[Target], dirSafe[Target]>> => Promise!Next
  <2> SUFFICES ASSUME UNCHANGED <<inode, dir[Target], dirSafe[Target]>> PROVE Promise!Next
    OBVIOUS
  <2> QED BY TargetKept
<1>p. ASSUME NEW t \in Temp, Point(t, NoInode), UNCHANGED inode PROVE Promise!Next
  <2>1. UNCHANGED <<dir[Target], dirSafe[Target]>>
    BY <1>a, <1>p DEF Point, IInv, TypeOK
  <2> QED BY <1>d, <1>p, <2>1
<1>b. Abandon(p) /\ pc[p] \in HasTemp => Promise!Next
  BY <1>a, <1>p DEF Abandon
<1>s. Stop(p) => Promise!Next
  BY <1>d DEF Stop, disk
<1>1. CASE CreateTemp(p)
  <2>1. CASE Stop(p)
    BY <2>1, <1>s
  <2>2. CASE ~Stop(p)
    <3> PICK t \in Temp, i \in Free :
          /\ inode' = [inode EXCEPT ![i] =
               [data |-> Torn, open |-> TempOpen(p), mtime |-> clock,
                ctime |-> clock, safe |-> {[data |-> Torn, open |-> TempOpen(p)]}]]
          /\ Point(t, i)
      BY <1>1, <2>2 DEF CreateTemp
    <3>1. UNCHANGED <<dir[Target], dirSafe[Target]>>
      BY <1>a DEF Point, IInv, TypeOK
    <3>2. i \notin dirSafe[Target]
      <4>1. dirSafe[Target] \subseteq InUse
        BY <1>a, Zenon DEF InUse
      <4> QED BY <4>1 DEF Free
    <3>3. \A j \in dirSafe[Target] \ {NoInode} : inode'[j] = inode[j]
      BY <1>a, <3>2 DEF IInv, TypeOK
    <3> QED BY <3>1, <3>3, TargetKept
  <2> QED BY <2>1, <2>2
<1>2. CASE WriteTemp(p) \/ SyncTemp(p)
  <2>1. CASE Abandon(p)
    BY <1>2, <1>b, <2>1 DEF WriteTemp, SyncTemp, HasTemp
  <2>2. CASE ~Abandon(p)
    <3>1. /\ UNCHANGED <<dir, dirSafe>> /\ fd[p] \notin dirSafe[Target]
          /\ \A j \in Inode \ {fd[p]} : inode'[j] = inode[j]
      BY <1>2, <2>2, <1>a DEF WriteTemp, SyncTemp, HasTemp, IInv, TypeOK
    <3>2. \A j \in dirSafe[Target] \ {NoInode} : inode'[j] = inode[j]
      BY <1>a, <3>1
    <3> QED BY <3>1, <3>2, TargetKept
  <2> QED BY <2>1, <2>2
<1>3. CASE Recheck(p) \/ Rename(p)
  BY <1>3, <1>b, <1>d DEF Recheck, Rename, HasTemp, disk
<1>4. ASSUME NEW t \in Temp, Sweep(p, t) PROVE Promise!Next
  BY <1>4, <1>d, <1>p DEF Sweep
<1>5. CASE Lock(p) \/ List(p) \/ StatTarget(p) \/ ReadTarget(p) \/ RestatTarget(p)
  BY <1>5, <1>d, <1>s DEF Lock, List, StatTarget, ReadTarget, RestatTarget, disk
<1>6. CASE ReadBack(p) \/ Finish(p) \/ Kill(p)
  BY <1>6, <1>d, <1>s DEF ReadBack, Finish, Kill, disk
<1> QED BY <1>1, <1>2, <1>3, <1>4, <1>5, <1>6 DEF Step

\* The rename gives the path its new content; a power loss may undo it.
LEMMA RenamePuts ==
  ASSUME IInv, IInv', NEW p \in Proc, Rename(p), ~Abandon(p)
  PROVE  Promise!Next
<1>1. /\ pc[p] = "rename" /\ Target \in Name /\ temp[p] \in Name /\ temp[p] # Target
      /\ dir[temp[p]] = fd[p] /\ fd[p] \in Inode
  BY Apart DEF Rename, IInv, Busy, Held, HasTemp
<1>2. inode' = inode /\ dir'[Target] = fd[p] /\ dirSafe'[Target] = dirSafe[Target] \cup {fd[p]}
  BY <1>1 DEF Rename, IInv, TypeOK
<1>3. OnlyProduct(p) /\ buf[p] \in Text
  BY <1>1 DEF IInv, Busy, Written, HasTemp
<1> DEFINE v == Product(buf[p])
<1>4. v \in Text \cup {Missing}
  BY <1>3, ProductType
<1>5. Reads(dir[Target])' = v
  BY <1>1, <1>2, <1>3, NamesAssumption DEF Reads, OnlyProduct
<1>6. \A i \in dirSafe'[Target] : \A s \in inode'[i].safe :
            s.data = v \/ (i \in dirSafe[Target] /\ s \in inode[i].safe)
  BY <1>2, <1>3 DEF OnlyProduct
<1>7. NoInode \in dirSafe'[Target] => NoInode \in dirSafe[Target]
  BY <1>1, <1>2, NamesAssumption
<1> HIDE DEF v
<1>8. MayRead' \subseteq MayRead \cup {v}
  BY <1>6, <1>7, NoNews
<1> QED BY <1>4, <1>5, <1>8, IsPut

\* After the rename nothing new can be left.
LEMMA CommittedSettles ==
  ASSUME OneLock, IInv, IInv', NEW p \in Proc, RestoreMode(p) \/ SyncTarget(p) \/ SyncDir(p)
  PROVE  Promise!Next
<1>1. /\ fd[p] \in Inode /\ inode[fd[p]] \in Record /\ Target \in Name
      /\ dir[Target] \in dirSafe[Target]
      /\ dirSafe[Target] \in SUBSET (Inode \cup {NoInode})
  BY Apart DEF RestoreMode, SyncTarget, SyncDir, HasFile, Committed, IInv, TypeOK
<1>2. \E t \in inode[fd[p]].safe : t.data = inode[fd[p]].data
  <2>1. Whole(inode[fd[p]])
    BY DEF RestoreMode, SyncTarget, SyncDir, IInv, Busy, Written, Committed
  <2> QED BY <2>1 DEF Whole
<1>3. ASSUME NEW r, inode' = [inode EXCEPT ![fd[p]] = r], r.data = inode[fd[p]].data,
             \A s \in r.safe : s.data = r.data \/ s \in inode[fd[p]].safe,
             dir'[Target] = dir[Target], dirSafe'[Target] \subseteq dirSafe[Target]
      PROVE  Promise!Next
  <2>1. ASSUME NEW i \in dirSafe[Target] \ {NoInode}
        PROVE  /\ inode'[i].data = inode[i].data
               /\ \A s \in inode'[i].safe : \E t \in inode[i].safe : t.data = s.data
    <3>1. i \in Inode
      BY <1>1
    <3>2. CASE i = fd[p]
      <4>1. inode'[i] = r
        BY <1>3, <3>1, <3>2 DEF IInv, TypeOK
      <4> QED BY <1>2, <1>3, <3>2, <4>1
    <3>3. CASE i # fd[p]
      <4>1. inode'[i] = inode[i]
        BY <1>3, <3>1, <3>3 DEF IInv, TypeOK
      <4> QED BY <4>1
    <3> QED BY <3>2, <3>3
  <2> QED BY <1>3, <2>1, TargetKept
<1>4. CASE UNCHANGED inode /\ (SyncDir(p) \/ UNCHANGED <<dir, dirSafe>>)
  <2>1. dir'[Target] = dir[Target] /\ dirSafe'[Target] \subseteq dirSafe[Target]
    BY <1>1, <1>4 DEF SyncDir, SyncFailed, disk
  <2>2. inode' = [inode EXCEPT ![fd[p]] = inode[fd[p]]]
    BY <1>1, <1>4 DEF IInv, TypeOK
  <2> QED BY <1>3, <2>1, <2>2
<1>5. CASE RestoreMode(p) /\ ~UNCHANGED inode
  <2> DEFINE r == Unsynced(inode[fd[p]], inode[fd[p]].data, snap[p].open)
  <2>1. inode' = [inode EXCEPT ![fd[p]] = r] /\ UNCHANGED <<dir, dirSafe>>
    BY <1>5 DEF RestoreMode
  <2>2. /\ snap[p].open \in BOOLEAN /\ inode[fd[p]].data \in Data /\ clock \in 0..MaxClock
    BY <1>1, <1>5, Apart DEF RestoreMode, IInv, TypeOK, Busy, Compared, Snapshot, Record
  <2>3. /\ r.data = inode[fd[p]].data
        /\ r.safe = inode[fd[p]].safe \cup {[data |-> inode[fd[p]].data, open |-> snap[p].open]}
    BY <1>1, <2>2, UnsyncedFacts
  <2> HIDE DEF r
  <2>4. \A s \in r.safe : s.data = r.data \/ s \in inode[fd[p]].safe
    BY <2>3
  <2> QED BY <1>3, <2>1, <2>3, <2>4
<1>6. CASE SyncTarget(p) /\ ~UNCHANGED inode
  <2> DEFINE r == Synced(inode[fd[p]])
  <2>1. inode' = [inode EXCEPT ![fd[p]] = r] /\ UNCHANGED <<dir, dirSafe>>
    BY <1>6 DEF SyncTarget, SyncFailed, disk
  <2>2. r.data = inode[fd[p]].data /\ r.safe = {[data |-> r.data, open |-> r.open]}
    BY <1>1, SyncedFacts
  <2> HIDE DEF r
  <2>3. \A s \in r.safe : s.data = r.data
    BY <2>2
  <2> QED BY <1>3, <2>1, <2>2, <2>3
<1>7. SyncDir(p) => UNCHANGED inode
  BY DEF SyncDir, SyncFailed, disk
<1>8. RestoreMode(p) \/ SyncTarget(p) => UNCHANGED <<dir, dirSafe>>
  BY DEF RestoreMode, SyncTarget, SyncFailed, disk
<1> QED BY <1>4, <1>5, <1>6, <1>7, <1>8

\* What the machine does, and what other programs do.
LEMMA OtherSteps ==
  ASSUME IInv, IInv', PowerLoss \/ Flush \/ Tick \/ Others
  PROVE  Promise!Next
<1>1. /\ Target \in Name /\ dir[Target] \in dirSafe[Target]
      /\ dirSafe[Target] \in SUBSET (Inode \cup {NoInode})
      /\ \A i \in Inode : inode[i] \in Record
      /\ clock \in 0..MaxClock
  BY DEF IInv, Store, Visible, TypeOK, Name
<1>w. \A i \in dirSafe[Target] \ {NoInode} :
        Whole(inode[i]) /\ \E t \in inode[i].safe : t.data = inode[i].data
  BY <1>1 DEF IInv, Store, TargetWhole, Whole
<1>2. CASE PowerLoss
  <2> DEFINE k == dir'[Target]
             v == Reads(dir[Target])'
  <2>1. k \in dirSafe[Target] /\ dirSafe'[Target] = {k}
    BY <1>1, <1>2, AfterLoss
  <2>2. CASE k = NoInode
    <3>1. v = Missing /\ Missing \in MayRead
      BY <2>1, <2>2, MayReadIs DEF Reads, Missing
    <3>2. MayRead' = {v}
      BY <2>1, <2>2, <3>1 DEF MayRead, Missing
    <3> QED BY <3>1, <3>2 DEF Promise!Next, Promise!PowerLoss
  <2>3. CASE k # NoInode
    <3>1. k \in Inode
      BY <1>1, <2>1, <2>3
    <3> PICK b \in inode[k].safe : inode'[k] = Kept(inode[k], b)
      BY <1>1, <1>2, <3>1, AfterLoss
    <3>2. inode'[k].data = b.data /\ inode'[k].safe = {b}
      BY <1>1, <3>1 DEF Kept, Record
    <3>3. v = b.data
      BY <2>3, <3>2 DEF Reads
    <3>4. b.data \in MayRead
      BY <2>1, <2>3, MayReadIs
    <3>5. MayRead' = {b.data}
      BY <2>1, <2>3, <3>2 DEF MayRead
    <3> HIDE DEF v
    <3>6. v \in MayRead /\ MayRead' = {v}
      BY <3>3, <3>4, <3>5
    <3> QED BY <3>6 DEF v, Promise!Next, Promise!PowerLoss
  <2> QED BY <2>2, <2>3
<1>3. CASE Flush
  <2>1. dir' = dir /\ dirSafe'[Target] = {dir[Target]}
    BY <1>1, <1>3 DEF Flush
  <2>2. MayRead' \subseteq MayRead \cup {Reads(dir[Target])}
    <3>1. dir[Target] \in Inode => inode'[dir[Target]] = Synced(inode[dir[Target]])
      BY <1>1, <1>3 DEF Flush
    <3>2. dir[Target] \in Inode => \A s \in inode'[dir[Target]].safe : s.data = inode[dir[Target]].data
      BY <1>1, <3>1, SyncedFacts
    <3>3. dir[Target] = NoInode => Reads(dir[Target]) = Missing
      BY DEF Reads
    <3>4. dir[Target] # NoInode => Reads(dir[Target]) = inode[dir[Target]].data
      BY DEF Reads
    <3> QED BY <1>1, <2>1, <3>2, <3>3, <3>4, NoNews
  <2>3. Reads(dir[Target])' = Reads(dir[Target])
    <3>1. dir[Target] \in Inode => inode'[dir[Target]] = Synced(inode[dir[Target]])
      BY <1>1, <1>3 DEF Flush
    <3>2. dir[Target] \in Inode => inode'[dir[Target]].data = inode[dir[Target]].data
      BY <1>1, <3>1, SyncedFacts
    <3> QED BY <1>1, <2>1, <3>2 DEF Reads, Missing
  <2>4. Reads(dir[Target]) \in Text \cup {Missing}
    BY ReadsIs
  <2> QED BY <2>2, <2>3, <2>4, IsPut
<1>4. CASE Tick
  <2>1. UNCHANGED <<inode, dir, dirSafe>>
    BY <1>4 DEF Tick, disk
  <2> QED BY <2>1, TargetKept
<1>5. ASSUME NEW r, NEW v \in Text, dir[Target] # NoInode,
             inode' = [inode EXCEPT ![dir[Target]] = r], r.data = v,
             \A s \in r.safe : s.data = v, UNCHANGED <<dir, dirSafe>>
      PROVE  Promise!Next
  <2>1. dir[Target] \in Inode
    BY <1>1, <1>5
  <2>2. inode'[dir[Target]] = r /\ \A i \in Inode \ {dir[Target]} : inode'[i] = inode[i]
    BY <1>5, <2>1 DEF IInv, TypeOK
  <2>3. Reads(dir[Target])' = v
    BY <1>5, <2>2 DEF Reads
  <2>4. \A i \in dirSafe'[Target] \ {NoInode} : \A s \in inode'[i].safe :
          s.data = v \/ (i \in dirSafe[Target] /\ s \in inode[i].safe)
    <3>1. \A i \in dirSafe'[Target] \ {NoInode} : i \in Inode /\ i \in dirSafe[Target]
      BY <1>1, <1>5
    <3> QED BY <1>5, <2>2, <3>1
  <2>5. NoInode \in dirSafe'[Target] => NoInode \in dirSafe[Target]
    BY <1>5
  <2>6. MayRead' \subseteq MayRead \cup {v}
    BY <2>4, <2>5, NoNews
  <2> QED BY <2>3, <2>6, IsPut
<1>6. ASSUME NEW v \in Text, NEW forge \in BOOLEAN, EditInPlace(v, forge)
      PROVE  Promise!Next
  <2> DEFINE t == IF forge THEN inode[dir[Target]].mtime ELSE clock
             a == Touched(inode[dir[Target]], t)
             b == Unsynced(a, v, a.open)
             r == Synced(b)
  <2>1. dir[Target] \in Inode /\ v \in Data
    BY <1>1, <1>6 DEF EditInPlace, Data
  <2>2. t \in 0..MaxClock
    BY <1>1, <2>1 DEF Record
  <2>3. a \in Record /\ a.open = inode[dir[Target]].open /\ a.open \in BOOLEAN
    <3> HIDE DEF t
    <3> QED BY <1>1, <2>1, <2>2, TouchedFacts DEF Record
  <2>4. inode' = [inode EXCEPT ![dir[Target]] = r] /\ dir[Target] # NoInode
    BY <1>6, <2>1, <2>3 DEF EditInPlace
  <2>5. b \in Record /\ b.data = v
    <3> HIDE DEF a
    <3> QED BY <1>1, <2>1, <2>3, UnsyncedFacts
  <2>6. r.data = v /\ r.safe = {[data |-> r.data, open |-> r.open]}
    <3> HIDE DEF b
    <3> QED BY <2>5, SyncedFacts
  <2> HIDE DEF r
  <2>7. \A s \in r.safe : s.data = v
    BY <2>6
  <2>8. UNCHANGED <<dir, dirSafe>>
    BY <1>6 DEF EditInPlace
  <2> QED BY <1>5, <2>4, <2>6, <2>7, <2>8
<1>7. CASE Chmod
  <2> DEFINE i == dir[Target]
             b == Unsynced(inode[i], inode[i].data, ~inode[i].open)
             r == Synced(b)
  <2>1. i \in Inode /\ i # NoInode
    BY <1>1, <1>7, NamesAssumption DEF Chmod
  <2>2. inode[i] \in Record /\ inode[i].data \in Text \cap Data /\ (~inode[i].open) \in BOOLEAN
    BY <1>1, <1>w, <2>1 DEF Record, Whole
  <2>3. inode' = [inode EXCEPT ![i] = r] /\ UNCHANGED <<dir, dirSafe>>
    BY <1>7, <2>1 DEF Chmod
  <2>4. b \in Record /\ b.data = inode[i].data
    BY <1>1, <2>2, UnsyncedFacts
  <2>5. r.data = inode[i].data /\ r.safe = {[data |-> r.data, open |-> r.open]}
    <3> HIDE DEF b
    <3> QED BY <2>4, SyncedFacts
  <2> HIDE DEF r
  <2>6. \A s \in r.safe : s.data = inode[i].data
    BY <2>5
  <2> QED BY <1>5, <2>1, <2>2, <2>3, <2>5, <2>6
<1>8. ASSUME NEW v \in Text, NEW o \in Exposed, ReplaceByRename(v, o)
      PROVE  Promise!Next
  <2> PICK k \in Free :
        /\ inode' = [inode EXCEPT ![k] =
                       [data |-> v, open |-> o, mtime |-> clock, ctime |-> clock,
                        safe |-> {[data |-> v, open |-> o]}]]
        /\ PointDurably(Target, k)
    BY <1>8 DEF ReplaceByRename
  <2>1. k \in Inode /\ k # NoInode
    BY NamesAssumption DEF Free
  <2>2. dir'[Target] = k /\ dirSafe'[Target] = {k}
    BY <1>1 DEF PointDurably, IInv, TypeOK
  <2>3. inode'[k].data = v /\ \A s \in inode'[k].safe : s.data = v
    BY <2>1 DEF IInv, TypeOK
  <2>4. Reads(dir[Target])' = v
    BY <2>1, <2>2, <2>3 DEF Reads
  <2>5. MayRead' \subseteq MayRead \cup {v}
    BY <2>1, <2>2, <2>3, NoNews
  <2> QED BY <2>4, <2>5, IsPut
<1>9. CASE Remove
  <2>1. dir'[Target] = NoInode /\ dirSafe'[Target] = {NoInode}
    BY <1>1, <1>9 DEF Remove, PointDurably, IInv, TypeOK
  <2>2. Reads(dir[Target])' = Missing
    BY <2>1 DEF Reads, Missing
  <2>3. MayRead' \subseteq MayRead \cup {Missing}
    BY <2>1, NoNews
  <2> QED BY <2>2, <2>3, IsPut
<1> QED BY <1>2, <1>3, <1>4, <1>6, <1>7, <1>8, <1>9 DEF Others

\* The invocations implement DurableFile: what the target reads as, and what a
\* power loss may make of it, change only as that specification says.
THEOREM Implements ==
  ASSUME OneLock
  PROVE  Spec => KeepsPromise
<1>1. Init => Promise!Init
  <2> SUFFICES ASSUME Init PROVE Promise!Init
    OBVIOUS
  <2>1. PICK i \in Inode : dir[Target] = i /\ i # NoInode /\ inode[i].data \in Text
                           /\ inode[i].safe = {[data |-> inode[i].data, open |-> granted]}
    BY NamesAssumption DEF Init, Name
  <2>2. dirSafe[Target] = {i}
    BY <2>1 DEF Init, Name
  <2>3. MayRead = {s.data : s \in inode[i].safe}
    BY <2>1, <2>2 DEF MayRead
  <2>4. MayRead = {inode[i].data}
    BY <2>1, <2>3
  <2>5. Reads(dir[Target]) = inode[i].data
    BY <2>1 DEF Reads
  <2> QED BY <2>1, <2>4, <2>5 DEF Promise!Init
<1>2. IInv /\ IInv' /\ [Next]_vars => [Promise!Next]_Promise!vars
  <2> SUFFICES ASSUME IInv, IInv', [Next]_vars PROVE [Promise!Next]_Promise!vars
    OBVIOUS
  <2>1. ASSUME NEW p \in Proc, Step(p) PROVE Promise!Next
    BY <2>1, QuietSteps, RenamePuts, CommittedSettles
  <2>2. CASE UNCHANGED vars
    BY <2>2 DEF vars, disk, Promise!vars, Reads, MayRead, Missing
  <2> QED BY <2>1, <2>2, OtherSteps DEF Next
<1> QED BY <1>1, <1>2, Inductive, PTL DEF Spec, KeepsPromise, Promise!Spec

=============================================================================
