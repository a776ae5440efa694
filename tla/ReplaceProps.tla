----------------------------- MODULE ReplaceProps -----------------------------
(***************************************************************************)
(* What replacing a file promises (src/fsops.rs).                          *)
(***************************************************************************)
EXTENDS AtomicReplace

Missing == NoInode
Reads(i) == IF i = NoInode THEN Missing ELSE inode[i].data
MayRead ==
  UNION {IF i = NoInode THEN {Missing} ELSE {s.data : s \in inode[i].safe} :
           i \in dirSafe[Target]}

Promise == INSTANCE DurableFile WITH
  Reading <- Text \cup {Missing}, value <- Reads(dir[Target]), safe <- MayRead

\* The target reads at every moment, and after every power loss, as one whole
\* content that it was given: no system call of a replacement, no failure and
\* no kill between two of them shows or leaves half of a file.
KeepsPromise == Promise!Spec

\* atomic_replace answers "durable" only when nothing older can come back; the
\* config rewrite relies on it before any file is written under a new key.
DurableIsDurable ==
  \A p \in Proc :
    /\ pc[p] \in {"readback", "done"}
    /\ durable[p]
    /\ during[p] \subseteq {"sweep", "rename"}
    => MayRead = {Product(buf[p])}

\* What a replacement destroys is what it read.  A change by another program is
\* overwritten only if it came after the re-check, the window the design
\* accepts, or if the file system's clock showed one time for two changes.
NoSilentOverwrite ==
  [][\A p \in Proc :
       pc[p] = "rename" /\ pc'[p] = "chmod" =>
         \/ Reads(dir[Target]) = buf[p]
         \/ "rename" \in during[p]
         \/ blurred]_vars

\* No temporary file of a run is one that others could read, now or after a
\* power loss; and the tool lets others read a file only if the user does, or
\* did when it was compared last.  A power loss may bring permissions back.
NeverOpensUp ==
  [][/\ \A p \in Proc : temp'[p] # NoTemp =>
          \A s \in inode'[dir'[temp'[p]]].safe : ~s.open
     /\ \A i \in Inode :
          ~inode[i].open /\ inode'[i].open /\ edits' = edits =>
            \/ granted
            \/ \E p \in Proc : {"rename", "chmod"} \cap during[p] # {}
            \/ \E s \in inode[i].safe : s.open]_vars

\* The sweep takes no live invocation's temporary file from it; and once it is
\* over, a temporary file left by a crash is gone unless removing it failed.
OnlyLiveTemps ==
  /\ \A p \in Proc : temp[p] # NoTemp => dir[temp[p]] = fd[p]
  /\ \A p \in Proc :
       pc[p] \notin {"idle", "list", "sweep"} /\ "sweep" \notin during[p] =>
         \A t \in Temp : dir[t] # NoInode => t = temp[p]

\* What LoadedConfig::ensure_fresh relies on after a rewrite: a file that still
\* matches the snapshot the rewrite returned holds what the rewrite wrote, not
\* a config some other program put there; unless that program wrote into the
\* new file itself before its metadata were read back, or within one tick.
SnapshotIsOfOurs ==
  \A p \in Proc :
    /\ pc[p] = "done"
    /\ "inPlace" \notin during[p]
    /\ ~blurred
    /\ Matches(snap[p], dir[Target])
    => Reads(dir[Target]) = Product(buf[p])
==============================================================================
