----------------------------- MODULE DomainProofs -----------------------------
(***************************************************************************)
(* Theorems about DomainOps, for any number of files, keys, texts and      *)
(* invocations, any ring length and any number of edits and faults.        *)
(***************************************************************************)
EXTENDS DomainProps, FiniteSetTheorems, TLAPS

USE NamesAssumption, ParametersAssumption

LEMMA AbsentType == Absent \in Content
  BY DEF Absent, Content

LEMMA PlainType == ASSUME NEW t \in Text \cup {Lost} PROVE Plain(t) \in Content
  BY DEF Plain, Content

LEMMA CipherType ==
  ASSUME NEW v \in Content, Encrypted(v)
  PROVE  /\ v.head \in Key /\ v.tail \in Key /\ v.text \in Text \cup {Lost}
         /\ v.head \in KeysOf(v)
<1>1. v.head \in Key /\ v.tail \in Key /\ v.text \in Text \cup {Lost}
  BY DEF Content, Absent, Encrypted
<1> QED BY <1>1, NamesAssumption DEF KeysOf

LEMMA EndTypes ==
  ASSUME LocalTypes, NEW P \in SUBSET Proc, End(P)
  PROVE  LocalTypes'
<1>1. lock' \in Proc \cup {NoProc}
  BY DEF LocalTypes, End
<1>2. pc' \in [Proc -> {"idle", "opened", "expanded", "precheck", "pass", "read",
                      "verify", "done"} \cup Syncing]
  BY DEF LocalTypes, End, Reset
<1>3. /\ cmd' \in [Proc -> AllCommands \cup {"none"}]
      /\ args' \in [Proc -> SUBSET File]
      /\ stale' \in [Proc -> BOOLEAN]
      /\ work' \in [Proc -> SUBSET File]
      /\ hidden' \in [Proc -> SUBSET File]
      /\ todo' \in [Proc -> SUBSET File]
      /\ cur' \in [Proc -> File \cup {NoFile}]
      /\ moved' \in [Proc -> SUBSET File]
  BY DEF LocalTypes, End, Reset
<1>4. mem' \in [Proc -> Config \cup {NoConfig}]
  BY DEF LocalTypes, End, Reset
<1>5. buf' \in [Proc -> Content]
  BY AbsentType DEF LocalTypes, End, Reset
<1> QED BY <1>1, <1>2, <1>3, <1>4, <1>5 DEF LocalTypes

\* Ending invocations leaves the lock with whoever still runs.
LEMMA EndLocks ==
  ASSUME TypeOK, LockInv, NEW P \in SUBSET Proc, End(P),
         config' = config, minted' = minted, commit' = commit,
         \A c \in cfgLimbo' : Ring(c) \subseteq minted
  PROVE  LockInv'
<1>1. ASSUME NEW p \in Proc, pc'[p] # "idle"
      PROVE  WorkOK(p)'
  <2>1. p \notin P /\ pc[p] # "idle"
    BY <1>1 DEF TypeOK, LocalTypes, End, Reset
  <2>2. WorkOK(p)
    BY <2>1 DEF LockInv
  <2>3. /\ lock' = lock
        /\ mem'[p] = mem[p]
        /\ stale'[p] = stale[p]
        /\ work'[p] = work[p]
        /\ cmd'[p] = cmd[p]
        /\ args'[p] = args[p]
        /\ pc'[p] = pc[p]
        /\ cur'[p] = cur[p]
    BY <2>1, <2>2 DEF End, Reset, WorkOK
  <2> QED BY <2>2, <2>3 DEF WorkOK
<1>2. lock' # NoProc => pc'[lock'] # "idle"
  BY DEF TypeOK, LocalTypes, End, Reset, LockInv
<1> QED BY <1>1, <1>2 DEF LockInv

LEMMA RefuseTyped ==
  ASSUME TypeOK, LockInv, NEW p \in Proc, Refuse(p), UNCHANGED minted
  PROVE  TypeOK' /\ LockInv'
<1>1. LocalTypes'
  BY EndTypes DEF TypeOK, Refuse
<1>2. StoreTypes'
  BY DEF TypeOK, StoreTypes, Refuse, tree, user
<1>3. LockInv'
  BY EndLocks DEF Refuse, tree, user, LockInv
<1> QED BY <1>1, <1>2, <1>3 DEF TypeOK

\* The holder of the lock takes a step and goes on.
LEMMA HolderGoesOn ==
  ASSUME LockInv, NEW p \in Proc, pc[p] # "idle",
         \A q \in Proc \ {p} : pc'[q] = pc[q],
         lock' = lock, pc'[p] # "idle", WorkOK(p)',
         UNCHANGED commit,
         minted \subseteq minted',
         Ring(config') \subseteq minted',
         \A c \in cfgLimbo' : Ring(c) \subseteq minted'
  PROVE  LockInv'
<1>1. lock = p /\ \A q \in Proc \ {p} : pc'[q] = "idle"
  BY DEF LockInv, WorkOK
<1>2. Ring(commit'.config) \subseteq minted'
  BY DEF LockInv
<1> QED BY <1>1, <1>2 DEF LockInv

\* A step of the holder that touches nothing on disk, and of its own memory
\* neither its config nor the files it chose.
LEMMA QuietStep ==
  ASSUME TypeOK, LockInv, NEW p \in Proc, pc[p] \notin {"idle", "opened"},
         \A q \in Proc \ {p} : pc'[q] = pc[q],
         pc'[p] # "idle", LocalTypes',
         pc'[p] \in {"read", "syncFile"} => cur'[p] \in File,
         UNCHANGED <<tree, user, minted, faults, lock, goals, work, mem, stale>>
  PROVE  TypeOK' /\ LockInv'
<1>1. StoreTypes'
  BY DEF TypeOK, StoreTypes, tree, user
<1>2. WorkOK(p)'
  BY DEF LockInv, WorkOK, goals, tree
<1>3. LockInv'
  BY <1>2, HolderGoesOn DEF tree, user, LockInv
<1> QED BY <1>1, <1>3 DEF TypeOK

LEMMA StartDecryptTyped ==
  ASSUME TypeOK, LockInv, NEW p \in Proc, StartDecrypt(p)
  PROVE  TypeOK' /\ LockInv'
<1>1. LocalTypes'
  BY DEF TypeOK, LocalTypes, StartDecrypt, Goto, goals, files, hand, view, Syncing
<1> QED BY <1>1, QuietStep
        DEF StartDecrypt, Goto, TypeOK, LocalTypes, goals, files, hand, view

LEMMA ScanExcludedTyped ==
  ASSUME TypeOK, LockInv, NEW p \in Proc, ScanExcluded(p)
  PROVE  TypeOK' /\ LockInv'
<1>1. CASE Refuse(p)
  BY <1>1, RefuseTyped DEF ScanExcluded
<1>2. CASE ~Refuse(p)
  <2>1. /\ pc[p] = "expanded"
        /\ \E l \in {"pass", "precheck", "done", "verify"} : Goto(p, l)
        /\ \E F \in SUBSET File : todo' = [todo EXCEPT ![p] = F]
        /\ UNCHANGED <<tree, user, minted, faults, lock, goals, work, hidden, hand,
                       view>>
    BY <1>2 DEF ScanExcluded, TypeOK, LocalTypes, Rekeying
  <2>2. LocalTypes'
    BY <2>1 DEF TypeOK, LocalTypes, Goto, goals, hand, view, Syncing
  <2> QED BY <2>1, <2>2, QuietStep
          DEF Goto, TypeOK, LocalTypes, goals, hand, view
<1> QED BY <1>1, <1>2

LEMMA PrecheckFileTyped ==
  ASSUME TypeOK, LockInv, NEW p \in Proc, NEW f \in File, PrecheckFile(p, f)
  PROVE  TypeOK' /\ LockInv'
<1>1. CASE Refuse(p)
  BY <1>1, RefuseTyped DEF PrecheckFile
<1>2. CASE ~Refuse(p)
  <2>1. /\ pc[p] = "precheck"
        /\ todo' = [todo EXCEPT ![p] = @ \ {f}]
        /\ UNCHANGED <<tree, user, minted, faults, lock, pc, goals, work, hidden,
                       hand, view>>
    BY <1>2 DEF PrecheckFile
  <2>2. LocalTypes'
    BY <2>1 DEF TypeOK, LocalTypes, goals, hand, view
  <2> QED BY <2>1, <2>2, QuietStep DEF goals, hand, view
<1> QED BY <1>1, <1>2

LEMMA ReadFileTyped ==
  ASSUME TypeOK, LockInv, NEW p \in Proc, NEW f \in File, ReadFile(p, f)
  PROVE  TypeOK' /\ LockInv'
<1>1. CASE Refuse(p)
  BY <1>1, RefuseTyped DEF ReadFile
<1>2. CASE ~Refuse(p)
  <2>1. /\ pc[p] = "pass"
        /\ cur' = [cur EXCEPT ![p] = f]
        /\ buf' = [buf EXCEPT ![p] = content[f]]
        /\ moved' = [moved EXCEPT ![p] = @ \ {f}]
        /\ Goto(p, "read")
        /\ UNCHANGED <<tree, user, minted, faults, lock, goals, files, mem, stale>>
    BY <1>2 DEF ReadFile
  <2>2. LocalTypes'
    BY <2>1 DEF TypeOK, LocalTypes, StoreTypes, Goto, goals, files, Syncing
  <2> QED BY <2>1, <2>2, QuietStep
          DEF Goto, TypeOK, LocalTypes, goals, files
<1> QED BY <1>1, <1>2

LEMMA SkipFileTyped ==
  ASSUME TypeOK, LockInv, NEW p \in Proc, SkipFile(p)
  PROVE  TypeOK' /\ LockInv'
<1>1. LocalTypes'
  BY AbsentType
  DEF TypeOK, LocalTypes, SkipFile, Goto, goals, view, Syncing
<1> QED BY <1>1, QuietStep
        DEF SkipFile, Goto, TypeOK, LocalTypes, goals, view

LEMMA SyncFileTyped ==
  ASSUME TypeOK, LockInv, NEW p \in Proc, SyncFile(p)
  PROVE  TypeOK' /\ LockInv'
<1>1. LocalTypes'
  BY DEF TypeOK, LocalTypes, SyncFile, Goto, goals, files, view, Syncing
<1>2. /\ limbo' \in [File -> SUBSET Content]
      /\ cfgLimbo' \in SUBSET Config
      /\ \A c \in cfgLimbo' : Ring(c) \subseteq minted
  BY DEF TypeOK, StoreTypes, LockInv, SyncFile, Settle
<1>3. StoreTypes'
  BY <1>2 DEF TypeOK, StoreTypes, SyncFile, Fault, user
<1>4. WorkOK(p)'
  BY DEF TypeOK, LocalTypes, LockInv, WorkOK, SyncFile, Goto, goals, files, view, Syncing
<1>5. LockInv'
  BY <1>2, <1>4, HolderGoesOn
  DEF SyncFile, Goto, TypeOK, LocalTypes, LockInv, user
<1> QED BY <1>1, <1>3, <1>5 DEF TypeOK

LEMMA FinishPassTyped ==
  ASSUME TypeOK, LockInv, NEW p \in Proc, FinishPass(p)
  PROVE  TypeOK' /\ LockInv'
<1>1. /\ pc'[p] \in {"pass", "verify", "done"}
      /\ \A q \in Proc \ {p} : pc'[q] = pc[q]
  BY DEF FinishPass, Goto, TypeOK, LocalTypes
<1>2. LocalTypes'
  BY DEF TypeOK, LocalTypes, FinishPass, Goto, goals, hand, view, Syncing
<1> QED BY <1>1, <1>2, QuietStep DEF FinishPass, goals, hand, view

LEMMA VerifyFileTyped ==
  ASSUME TypeOK, LockInv, NEW p \in Proc, NEW f \in File, VerifyFile(p, f)
  PROVE  TypeOK' /\ LockInv'
<1>1. CASE Refuse(p)
  BY <1>1, RefuseTyped DEF VerifyFile
<1>2. CASE ~Refuse(p)
  <2>1. /\ pc[p] = "verify"
        /\ todo' = [todo EXCEPT ![p] = @ \ {f}]
        /\ moved' = [moved EXCEPT ![p] = @ \ {f}]
        /\ UNCHANGED <<tree, user, minted, faults, lock, pc, goals, work, hidden,
                       hand, mem, stale>>
    BY <1>2 DEF VerifyFile
  <2>2. LocalTypes'
    BY <2>1 DEF TypeOK, LocalTypes, goals, hand
  <2> QED BY <2>1, <2>2, QuietStep DEF goals, hand
<1> QED BY <1>1, <1>2

LEMMA ExpandTyped ==
  ASSUME TypeOK, LockInv, NEW p \in Proc, Expand(p)
  PROVE  TypeOK' /\ LockInv'
<1>1. CASE Refuse(p)
  BY <1>1, RefuseTyped DEF Expand
<1>2. CASE ~Refuse(p)
  <2>1. /\ pc[p] = "opened"
        /\ \E l \in {"expanded", "done"} : Goto(p, l)
        /\ \E F \in SUBSET File :
              /\ work' = [work EXCEPT ![p] = F \ mem[p].excl]
              /\ todo' = [todo EXCEPT ![p] = F \ mem[p].excl]
        /\ \E F \in SUBSET File : hidden' = [hidden EXCEPT ![p] = F]
        /\ UNCHANGED <<tree, user, minted, faults, lock, goals, hand, view>>
    <3> DEFINE there == {f \in Entries(p) : Exists(content[f])}
    <3>1. mem[p] \in Config /\ args[p] \in SUBSET File
      BY DEF Expand, LockInv, WorkOK, TypeOK, LocalTypes
    <3>2. Entries(p) \in SUBSET File
      BY <3>1 DEF Entries, Tracked, Config, ConfigRecord
    <3>3. there \in SUBSET File
      BY <3>2
    <3> QED BY <1>2, <3>3 DEF Expand
  <2>2. LocalTypes'
    BY <2>1 DEF TypeOK, LocalTypes, Goto, goals, hand, view, Syncing
  <2>3. StoreTypes'
    BY <2>1 DEF TypeOK, StoreTypes, tree, user
  <2>4. WorkOK(p)'
    BY <2>1 DEF TypeOK, LocalTypes, LockInv, WorkOK, Goto, goals, hand, view, tree
  <2>5. LockInv'
    BY <2>1, <2>4, HolderGoesOn DEF Goto, TypeOK, LocalTypes, LockInv, tree, user
  <2> QED BY <2>2, <2>3, <2>5 DEF TypeOK
<1> QED BY <1>1, <1>2

\* A rewrite of the config by the holder, to any config parse accepts.
LEMMA RewriteTyped ==
  ASSUME TypeOK, LockInv, NEW p \in Proc, pc[p] \notin {"idle", "opened"},
         NEW c, Rewrite(p, c),
         ~stale[p] => /\ c \in Config
                      /\ c.excl = mem[p].excl
                      /\ Ring(c) \subseteq minted',
         minted \subseteq minted', minted' \in SUBSET Key
  PROVE  TypeOK' /\ LockInv'
<1>1. CASE stale[p]
  <2>1. Refuse(p)
    BY <1>1 DEF Rewrite
  <2>2. LocalTypes'
    BY <2>1, EndTypes DEF TypeOK, Refuse
  <2>3. StoreTypes'
    BY <2>1 DEF TypeOK, StoreTypes, Refuse, tree, user
  <2>4. LockInv'
    <3>1. \A q \in Proc : pc'[q] = "idle"
      BY <2>1 DEF LockInv, WorkOK, Refuse, End, Reset
    <3>2. lock' = NoProc
      BY <2>1 DEF LockInv, WorkOK, Refuse, End
    <3>3. UNCHANGED <<config, commit, cfgLimbo>>
      BY <2>1 DEF Refuse, tree, user
    <3> QED BY <3>1, <3>2, <3>3 DEF LockInv
  <2> QED BY <2>2, <2>3, <2>4 DEF TypeOK
<1>2. CASE ~stale[p]
  <2>1. /\ config' = c
        /\ cfgLimbo' = cfgLimbo \cup {c}
        /\ mem' = [mem EXCEPT ![p] = c]
        /\ ConfigReplaced(p)
        /\ todo' = [todo EXCEPT ![p] = work[p]]
        /\ Goto(p, "syncCfg")
        /\ UNCHANGED <<content, limbo, user, faults, lock, goals, work, hidden,
                       hand, moved>>
    BY <1>2 DEF Rewrite, Refuse
  <2>2. LocalTypes'
    BY <1>2, <2>1
    DEF TypeOK, LocalTypes, Goto, ConfigReplaced, goals, hand, Syncing
  <2>3. StoreTypes'
    BY <1>2, <2>1 DEF TypeOK, StoreTypes, user
  <2>4. WorkOK(p)'
    BY <1>2, <2>1
    DEF TypeOK, LocalTypes, LockInv, WorkOK, Goto, ConfigReplaced, goals, hand
  <2>5. LockInv'
    BY <1>2, <2>1, <2>4, HolderGoesOn DEF Goto, TypeOK, LocalTypes, LockInv, user
  <2> QED BY <2>2, <2>3, <2>5 DEF TypeOK
<1> QED BY <1>1, <1>2

LEMMA RegisterTyped ==
  ASSUME TypeOK, LockInv, NEW p \in Proc, Register(p)
  PROVE  TypeOK' /\ LockInv'
<1> DEFINE c == [mem[p] EXCEPT !.paths = @ \cup Added(p)]
<1>1. WorkOK(p) /\ pc[p] = "expanded" /\ UNCHANGED minted
  BY DEF Register, LockInv
<1>2. CASE Added(p) = {} /\ Goto(p, "pass")
           /\ UNCHANGED <<tree, user, faults, lock, goals, files, hand, view>>
  <2>1. LocalTypes'
    BY <1>2 DEF TypeOK, LocalTypes, Goto, goals, files, hand, view, Syncing
  <2> QED BY <1>1, <1>2, <2>1, QuietStep
          DEF Goto, TypeOK, LocalTypes, goals, files, hand, view
<1>3. CASE Rewrite(p, c)
  <2>1. /\ c \in Config
        /\ c.excl = mem[p].excl
        /\ Ring(c) \subseteq minted
    <3>1. Added(p) \in SUBSET File /\ Added(p) \cap mem[p].excl = {}
      BY <1>1 DEF Added, WorkOK, TypeOK, LocalTypes
    <3>2. mem[p] \in Config
      BY <1>1 DEF WorkOK
    <3>3. /\ c \in ConfigRecord
          /\ c.cur = mem[p].cur
          /\ c.old = mem[p].old
          /\ c.excl = mem[p].excl
          /\ c.paths = mem[p].paths \cup Added(p)
      BY <3>1, <3>2 DEF Config, ConfigRecord
    <3>4. Ring(c) = Ring(mem[p])
      BY <3>3 DEF Ring
    <3>5. c.paths \cap c.excl = {}
      BY <3>1, <3>2, <3>3 DEF Config
    <3> QED BY <1>1, <3>2, <3>3, <3>4, <3>5 DEF Config, WorkOK
  <2>2. minted \in SUBSET Key
    BY DEF TypeOK, StoreTypes
  <2> QED BY <1>1, <1>3, <2>1, <2>2, RewriteTyped
<1> QED BY <1>2, <1>3 DEF Register

LEMMA MintTyped ==
  ASSUME TypeOK, LockInv, NEW p \in Proc, Mint(p)
  PROVE  TypeOK' /\ LockInv'
<1>1. WorkOK(p) /\ pc[p] = "precheck"
  BY DEF Mint, LockInv
<1>2. CASE Refuse(p) /\ UNCHANGED minted
  BY <1>2, RefuseTyped
<1>3. ASSUME ~RingFull(mem[p]), NEW k \in Key \ minted, minted' = minted \cup {k},
             Rewrite(p, [mem[p] EXCEPT !.cur = k, !.old = Retained(mem[p])])
      PROVE  TypeOK' /\ LockInv'
  <2> DEFINE c == [mem[p] EXCEPT !.cur = k, !.old = Retained(mem[p])]
  <2>1. mem[p] \in Config /\ Ring(mem[p]) \subseteq minted
    BY <1>1 DEF WorkOK
  <2>2. /\ c \in ConfigRecord
        /\ c.cur = k
        /\ c.old = Ring(mem[p])
        /\ c.excl = mem[p].excl
        /\ c.paths = mem[p].paths
    BY <2>1 DEF Config, ConfigRecord, Ring, Retained
  <2>3. k \notin Ring(mem[p])
    BY <1>3, <2>1
  <2>4. IsFiniteSet(Ring(mem[p]))
    BY <2>1, FS_Singleton, FS_Union DEF Ring, Config
  <2>5. Cardinality(Ring(mem[p])) < MaxRing
    BY <1>3, <2>4, FS_CardinalityType DEF RingFull
  <2>6. Ring(c) = Ring(mem[p]) \cup {k}
    BY <2>2 DEF Ring
  <2>7. Cardinality(Ring(c)) = Cardinality(Ring(mem[p])) + 1
    BY <2>3, <2>4, <2>6, FS_AddElement
  <2>8. Cardinality(Ring(c)) <= MaxRing
    BY <2>4, <2>5, <2>7, FS_CardinalityType
  <2>9. c \in Config
    BY <2>1, <2>2, <2>3, <2>4, <2>8 DEF Config
  <2>10. Ring(c) \subseteq minted'
    BY <1>3, <2>1, <2>6
  <2>11. minted' \in SUBSET Key
    BY <1>3 DEF TypeOK, StoreTypes
  <2> QED BY <1>1, <1>3, <2>2, <2>9, <2>10, <2>11, RewriteTyped
<1> QED BY <1>2, <1>3 DEF Mint

LEMMA ConvergeTyped ==
  ASSUME TypeOK, LockInv, NEW p \in Proc, Converge(p)
  PROVE  TypeOK' /\ LockInv'
<1> DEFINE c == [mem[p] EXCEPT !.old = {}]
<1>1. WorkOK(p) /\ pc[p] = "verify" /\ UNCHANGED minted
  BY DEF Converge, LockInv
<1>2. CASE Goto(p, "done")
           /\ UNCHANGED <<tree, user, faults, lock, goals, files, hand, view>>
  <2>1. LocalTypes'
    BY <1>2 DEF TypeOK, LocalTypes, Goto, goals, files, hand, view, Syncing
  <2> QED BY <1>1, <1>2, <2>1, QuietStep
          DEF Goto, TypeOK, LocalTypes, goals, files, hand, view
<1>3. CASE Rewrite(p, c)
  <2>1. mem[p] \in Config
    BY <1>1 DEF WorkOK
  <2>2. /\ c \in ConfigRecord
        /\ c.cur = mem[p].cur
        /\ c.old = {}
        /\ c.excl = mem[p].excl
        /\ c.paths = mem[p].paths
    BY <2>1 DEF Config, ConfigRecord
  <2>3. Ring(c) = {c.cur} /\ Ring(c) \subseteq Ring(mem[p])
    BY <2>2 DEF Ring
  <2>4. Cardinality(Ring(c)) <= MaxRing
    <3>1. \A k : Cardinality({k}) = 1
      BY FS_Singleton
    <3>2. MaxRing \in Nat /\ MaxRing >= 1
      BY ParametersAssumption
    <3>3. Cardinality({c.cur}) = 1
      BY <3>1
    <3> HIDE DEF c
    <3> QED BY <2>3, <3>2, <3>3
  <2>5. c \in Config
    BY <2>1, <2>2, <2>4, FS_EmptySet DEF Config
  <2>6. minted \in SUBSET Key
    BY DEF TypeOK, StoreTypes
  <2> QED BY <1>1, <1>3, <2>2, <2>3, <2>5, <2>6, RewriteTyped DEF WorkOK
<1> QED BY <1>2, <1>3 DEF Converge

LEMMA SyncConfigTyped ==
  ASSUME TypeOK, LockInv, NEW p \in Proc, SyncConfig(p)
  PROVE  TypeOK' /\ LockInv'
<1>1. /\ limbo' \in [File -> SUBSET Content]
      /\ cfgLimbo' \in SUBSET Config
      /\ \A c \in cfgLimbo' : Ring(c) \subseteq minted
  BY DEF TypeOK, StoreTypes, LockInv, SyncConfig, Settle
<1>2. faults' \in Nat
  BY DEF TypeOK, StoreTypes, SyncConfig, Fault
<1>3. StoreTypes'
  BY <1>1, <1>2 DEF TypeOK, StoreTypes, SyncConfig, user
<1>4. CASE End({p})
  <2>1. LocalTypes'
    BY <1>4, EndTypes DEF TypeOK
  <2>2. LockInv'
    BY <1>1, <1>4, EndLocks DEF SyncConfig, user
  <2> QED BY <1>3, <2>1, <2>2 DEF TypeOK
<1>5. CASE \/ Goto(p, "done")
           \/ Goto(p, "pass")
  <2>1. UNCHANGED <<config, content, faults, lock, goals, files, hand, view>>
             \/ End({p})
    BY DEF SyncConfig
  <2>2. CASE End({p})
    BY <1>4, <2>2
  <2>3. CASE UNCHANGED <<config, content, faults, lock, goals, files, hand, view>>
    <3>1. LocalTypes'
      BY <1>5, <2>3 DEF TypeOK, LocalTypes, Goto, goals, files, hand, view, Syncing
    <3>2. WorkOK(p)'
      BY <1>5, <2>3
      DEF TypeOK, LocalTypes, LockInv, WorkOK, Goto, goals, files, hand, view, SyncConfig
    <3>3. LockInv'
      BY <1>1, <1>5, <2>3, <3>2, HolderGoesOn
      DEF SyncConfig, Goto, TypeOK, LocalTypes, LockInv, user
    <3> QED BY <1>3, <3>1, <3>3 DEF TypeOK
  <2> QED BY <2>1, <2>2, <2>3
<1> QED BY <1>4, <1>5 DEF SyncConfig

LEMMA DecryptedType ==
  ASSUME NEW v \in Content, Exists(v)
  PROVE  Decrypted(v) \in Text \cup {Lost}
  BY DEF Decrypted, Content, Exists, Absent

LEMMA EncryptionType ==
  ASSUME NEW c \in Config, NEW f, NEW v \in Content, Exists(v)
  PROVE  /\ Encryption(c, f, v) \in Content
         /\ Encrypted(Encryption(c, f, v))
         /\ KeysOf(Encryption(c, f, v)) = {c.cur}
<1>1. c.cur \in Key /\ c.cur # NoKey
  BY DEF Config, ConfigRecord
<1>2. \A t \in Text \cup {Lost} : /\ Cipher(PickMode(f, t), c.cur, t) \in Content
                                 /\ Encrypted(Cipher(PickMode(f, t), c.cur, t))
                                 /\ KeysOf(Cipher(PickMode(f, t), c.cur, t)) = {c.cur}
  BY <1>1 DEF PickMode, Cipher, Content, Encrypted, KeysOf
<1>3. v.text \in Text \cup {Lost}
  BY DEF Content, Exists, Absent
<1> QED BY <1>2, <1>3 DEF Encryption

LEMMA PlainFacts ==
  ASSUME NEW t \in Text \cup {Lost}
  PROVE  Exists(Plain(t)) /\ ~Encrypted(Plain(t)) /\ Plain(t).text = t
  BY DEF Plain, Exists, Encrypted

LEMMA ResultType ==
  ASSUME TypeOK, LockInv, TargetInv, NEW p \in Proc, pc[p] = "read"
  PROVE  /\ Result(p) \in Content
         /\ Exists(Result(p))
<1>1. /\ mem[p] \in Config
      /\ buf[p] \in Content
      /\ Exists(buf[p])
  BY DEF TypeOK, LocalTypes, LockInv, WorkOK, TargetInv, TargetOK
<1>2. Decrypted(buf[p]) \in Text \cup {Lost}
  BY <1>1, DecryptedType
<1>3. Plain(Decrypted(buf[p])) \in Content /\ Exists(Plain(Decrypted(buf[p])))
  BY <1>2, PlainType, PlainFacts
<1>4. \A v \in {buf[p], Plain(Decrypted(buf[p]))} :
        /\ Encryption(mem[p], cur[p], v) \in Content
        /\ Encrypted(Encryption(mem[p], cur[p], v))
  BY <1>1, <1>3, EncryptionType
<1> QED BY <1>3, <1>4 DEF Result, Exists, Encrypted

LEMMA WriteFileTyped ==
  ASSUME TypeOK, LockInv, TargetInv, NEW p \in Proc, WriteFile(p)
  PROVE  TypeOK' /\ LockInv'
<1>1. CASE Refuse(p)
  BY <1>1, RefuseTyped DEF WriteFile
<1>2. CASE ~Refuse(p)
  <2> DEFINE f == cur[p]
  <2>1. /\ pc[p] = "read"
        /\ content' = [content EXCEPT ![f] = Result(p)]
        /\ limbo' = [limbo EXCEPT ![f] = @ \cup {Result(p)}]
        /\ FilesReplaced({f}, p)
        /\ todo' = [todo EXCEPT ![p] = @ \ {f}]
        /\ buf' = [buf EXCEPT ![p] = Absent]
        /\ Goto(p, "syncFile")
        /\ UNCHANGED <<config, cfgLimbo, user, minted, faults, lock, goals, work,
                       hidden, cur, mem, stale>>
    BY <1>2 DEF WriteFile
  <2>2. WorkOK(p) /\ f \in File
    BY <2>1 DEF LockInv, WorkOK
  <2>3. Result(p) \in Content
    BY <2>1, ResultType
  <2>4. StoreTypes'
    BY <2>1, <2>2, <2>3 DEF TypeOK, StoreTypes, user
  <2>5. moved' \in [Proc -> SUBSET File]
    BY <2>1, <2>2 DEF FilesReplaced, TypeOK, LocalTypes
  <2>6. LocalTypes'
    BY <2>1, <2>2, <2>5, AbsentType
    DEF TypeOK, LocalTypes, Goto, goals, Syncing
  <2>7. WorkOK(p)'
    BY <2>1, <2>2 DEF WorkOK, goals, TypeOK, LocalTypes
  <2>8. LockInv'
    BY <2>1, <2>7, HolderGoesOn DEF Goto, TypeOK, LocalTypes, LockInv, user
  <2> QED BY <2>4, <2>6, <2>8 DEF TypeOK
<1> QED BY <1>1, <1>2

LEMMA OpenTyped ==
  ASSUME TypeOK, LockInv, NEW p \in Proc, NEW k \in Commands, NEW A \in SUBSET File,
         Open(p, k, A)
  PROVE  TypeOK' /\ LockInv'
<1>1. StoreTypes'
  BY DEF TypeOK, StoreTypes, Open, tree, user
<1>2. LocalTypes'
  BY ParametersAssumption
  DEF TypeOK, StoreTypes, LocalTypes, Open, LockFree, Goto, files, hand
<1>3. config \in Config /\ config.excl \in SUBSET File
  BY DEF TypeOK, StoreTypes, Config, ConfigRecord
<1>4. WorkOK(p)'
  BY <1>3, ParametersAssumption
  DEF WorkOK, Open, Goto, TypeOK, LocalTypes, LockInv, files, tree
<1>5. \A q \in Proc \ {p} : pc'[q] = "idle"
  BY DEF Open, Goto, LockFree, LockInv, WorkOK, TypeOK, LocalTypes
<1>6. LockInv'
  BY <1>4, <1>5 DEF LockInv, Open, tree, user, Goto, TypeOK, LocalTypes
<1> QED BY <1>1, <1>2, <1>6 DEF TypeOK

\* The tree changes under the holder, which may lose track of it, and nobody
\* takes or drops the lock.
LEMMA OutsideStep ==
  ASSUME TypeOK, LockInv, StoreTypes',
         moved' \in [Proc -> SUBSET File],
         stale' \in [Proc -> BOOLEAN],
         \A p \in Proc : pc[p] # "idle" => stale'[p] \/ mem[p] = config',
         Ring(config') \subseteq minted,
         Ring(commit'.config) \subseteq minted,
         \A c \in cfgLimbo' : Ring(c) \subseteq minted,
         UNCHANGED <<minted, lock, pc, goals, files, hand, mem>>
  PROVE  TypeOK' /\ LockInv'
<1>1. LocalTypes'
  BY DEF TypeOK, LocalTypes, goals, files, hand
<1>2. ASSUME NEW p \in Proc, pc[p] # "idle"
      PROVE  WorkOK(p)'
  BY <1>2 DEF LockInv, WorkOK, goals, files, hand
<1>3. LockInv'
  BY <1>2 DEF LockInv
<1> QED BY <1>1, <1>3 DEF TypeOK

LEMMA FilesReplacedType ==
  ASSUME TypeOK, NEW F \in SUBSET File, NEW a, FilesReplaced(F, a)
  PROVE  moved' \in [Proc -> SUBSET File]
  BY DEF TypeOK, LocalTypes, FilesReplaced

LEMMA ReplaceTyped ==
  ASSUME TypeOK, LockInv, NEW f \in File, NEW v \in Content, Replace(f, v),
         edits' \in Nat, away' \in [File -> Content], UNCHANGED commit
  PROVE  TypeOK' /\ LockInv'
<1>1. StoreTypes'
  BY DEF TypeOK, StoreTypes, Replace
<1>2. moved' \in [Proc -> SUBSET File]
  BY FilesReplacedType DEF Replace
<1>3. \A p \in Proc : pc[p] # "idle" => stale'[p] \/ mem[p] = config'
  BY DEF LockInv, WorkOK, Replace
<1> QED BY <1>1, <1>2, <1>3, OutsideStep
        DEF Replace, LockInv, TypeOK, LocalTypes

LEMMA UserTyped ==
  ASSUME TypeOK, LockInv, User
  PROVE  TypeOK' /\ LockInv'
<1>1. edits' \in Nat
  <2>1. Intervene
    BY DEF User, Edit, Stash, Return, Merge, CommitAll, Checkout
  <2> QED BY <2>1 DEF Intervene, TypeOK, StoreTypes
<1>2. ASSUME NEW f \in File, NEW t \in Text, Edit(f, t)
      PROVE  TypeOK' /\ LockInv'
  <2>1. Plain(t) \in Content
    BY PlainType
  <2> QED BY <1>1, <1>2, <2>1, ReplaceTyped DEF Edit, TypeOK, StoreTypes
<1>3. ASSUME NEW f \in File, Stash(f)
      PROVE  TypeOK' /\ LockInv'
  <2>1. away' \in [File -> Content]
    BY <1>3 DEF Stash, TypeOK, StoreTypes
  <2> QED BY <1>1, <1>3, <2>1, AbsentType, ReplaceTyped DEF Stash
<1>4. ASSUME NEW f \in File, Return(f)
      PROVE  TypeOK' /\ LockInv'
  <2>1. away' \in [File -> Content] /\ away[f] \in Content
    BY <1>4, AbsentType DEF Return, TypeOK, StoreTypes
  <2> QED BY <1>1, <1>4, <2>1, ReplaceTyped DEF Return
<1>5. ASSUME NEW f \in File, Merge(f)
      PROVE  TypeOK' /\ LockInv'
  <2> DEFINE v == content[f]
             w == commit.content[f]
  <2>1. /\ v \in Content /\ v.mode = "text"
        /\ w \in Content /\ w.mode = "text"
    BY <1>5 DEF Merge, TypeOK, StoreTypes
  <2>2. /\ v.head \in Key /\ v.tail \in Key /\ w.tail \in Key
        /\ v \in [mode : {"text", "binary"}, head : Key, tail : Key,
                  text : Text \cup {Lost}]
    BY <2>1 DEF Content, Absent
  <2>3. /\ [v EXCEPT !.tail = w.tail] \in Content
        /\ [v EXCEPT !.head = w.tail, !.tail = v.head] \in Content
    BY <2>2 DEF Content
  <2> QED BY <1>1, <1>5, <2>3, ReplaceTyped DEF Merge, TypeOK, StoreTypes
<1>6. CASE CommitAll
  <2>1. StoreTypes'
    BY <1>1, <1>6 DEF CommitAll, TypeOK, StoreTypes, tree
  <2> QED BY <1>6, <2>1, OutsideStep
          DEF CommitAll, tree, local, view, LockInv, WorkOK, TypeOK, LocalTypes
<1>7. CASE Checkout
  <2>1. StoreTypes'
    BY <1>1, <1>7 DEF Checkout, TypeOK, StoreTypes
  <2>2. moved' \in [Proc -> SUBSET File]
    BY <1>7, FilesReplacedType DEF Checkout
  <2>3. /\ stale' \in [Proc -> BOOLEAN]
        /\ \A p \in Proc : pc[p] # "idle" => stale'[p] \/ mem[p] = config'
    <3>1. config' = commit.config
      BY <1>7 DEF Checkout
    <3>2. CASE config = commit.config
      BY <1>7, <3>1, <3>2 DEF Checkout, TypeOK, LocalTypes, LockInv, WorkOK
    <3>3. CASE config # commit.config
      BY <1>7, <3>3, NamesAssumption
      DEF Checkout, ConfigReplaced, Active, TypeOK, LocalTypes
    <3> QED BY <3>2, <3>3
  <2>4. Ring(config') \subseteq minted /\ \A c \in cfgLimbo' : Ring(c) \subseteq minted
    BY <1>7 DEF Checkout, LockInv
  <2>5. Ring(commit'.config) \subseteq minted
    BY <1>7 DEF Checkout, LockInv
  <2> QED BY <1>7, <2>1, <2>2, <2>3, <2>4, <2>5, OutsideStep DEF Checkout
<1> QED BY <1>2, <1>3, <1>4, <1>5, <1>6, <1>7 DEF User

LEMMA InterruptTyped ==
  ASSUME TypeOK, LockInv, NEW p \in Proc, Interrupt(p)
  PROVE  TypeOK' /\ LockInv'
<1>1. StoreTypes'
  BY DEF TypeOK, StoreTypes, Interrupt, Fault, tree, user
<1>2. LocalTypes'
  BY EndTypes DEF TypeOK, Interrupt
<1>3. LockInv'
  BY EndLocks DEF Interrupt, tree, user, LockInv
<1> QED BY <1>1, <1>2, <1>3 DEF TypeOK

LEMMA PowerLossTyped ==
  ASSUME TypeOK, LockInv, PowerLoss
  PROVE  TypeOK' /\ LockInv'
<1>1. config' \in Config /\ cfgLimbo' \in SUBSET Config
  BY DEF TypeOK, StoreTypes, PowerLoss
<1>2. content' \in [File -> Content]
  BY DEF TypeOK, StoreTypes, PowerLoss
<1>3. StoreTypes'
  BY <1>1, <1>2 DEF TypeOK, StoreTypes, PowerLoss, Fault, user
<1>4. LocalTypes'
  BY EndTypes DEF TypeOK, PowerLoss
<1>5. /\ Ring(config') \subseteq minted'
      /\ \A c \in cfgLimbo' : Ring(c) \subseteq minted'
      /\ Ring(commit'.config) \subseteq minted'
  BY DEF LockInv, PowerLoss, user
<1>6. lock' = NoProc /\ \A p \in Proc : pc'[p] = "idle"
  BY DEF PowerLoss, End, Reset, TypeOK, LocalTypes
<1> QED BY <1>3, <1>4, <1>5, <1>6 DEF TypeOK, LockInv

LEMMA StutterTyped ==
  ASSUME TypeOK, LockInv, UNCHANGED vars
  PROVE  TypeOK' /\ LockInv'
  BY DEF TypeOK, StoreTypes, LocalTypes, LockInv, WorkOK, vars, tree, user, local,
         goals, files, hand, view

\* Everything but the pass over the files needs the typing invariants alone.
LEMMA NextTyped ==
  ASSUME TypeOK, LockInv, TargetInv, [Next]_vars
  PROVE  TypeOK' /\ LockInv'
<1>1. ASSUME NEW p \in Proc, Step(p)
      PROVE  TypeOK' /\ LockInv'
  <2>1. CASE FailFile(p) \/ Close(p)
    BY <2>1, RefuseTyped DEF FailFile, Close
  <2>2. ASSUME NEW f \in File, PrecheckFile(p, f) \/ ReadFile(p, f) \/ VerifyFile(p, f)
        PROVE  TypeOK' /\ LockInv'
    BY <2>2, PrecheckFileTyped, ReadFileTyped, VerifyFileTyped
  <2> QED BY <1>1, <2>1, <2>2, ExpandTyped, RegisterTyped, StartDecryptTyped,
             ScanExcludedTyped, MintTyped, SyncConfigTyped, SkipFileTyped,
             WriteFileTyped, SyncFileTyped, FinishPassTyped, ConvergeTyped
          DEF Step
<1>2. ASSUME NEW p \in Proc, Invoke(p)
      PROVE  TypeOK' /\ LockInv'
  BY <1>2, OpenTyped DEF Invoke
<1> QED BY <1>1, <1>2, InterruptTyped, PowerLossTyped, UserTyped, StutterTyped
        DEF Next

------------------------------------------------------------------------------
\* What the pass may be working on.

LEMMA HolderTargets ==
  ASSUME LockInv, NEW p \in Proc, pc[p] # "idle",
         \A q \in Proc \ {p} : pc'[q] = pc[q],
         TargetOK(p)'
  PROVE  TargetInv'
<1>1. \A q \in Proc \ {p} : pc'[q] = "idle"
  BY DEF LockInv, WorkOK
<1> QED BY <1>1 DEF TargetInv, TargetOK

LEMMA EndTargets ==
  ASSUME TypeOK, LockInv, NEW p \in Proc, pc[p] # "idle", End({p})
  PROVE  TargetInv'
<1>1. \A q \in Proc : pc'[q] = "idle"
  BY DEF End, Reset, LockInv, WorkOK, TypeOK, LocalTypes
<1> QED BY <1>1 DEF TargetInv, TargetOK

LEMMA RefuseTargets ==
  ASSUME TypeOK, LockInv, NEW p \in Proc, pc[p] # "idle", Refuse(p)
  PROVE  TargetInv'
  BY EndTargets DEF Refuse

LEMMA ExpandTargets ==
  ASSUME TypeOK, LockInv, TargetInv, NEW p \in Proc, Expand(p)
  PROVE  TargetInv'
<1>1. CASE Refuse(p)
  BY <1>1, RefuseTargets DEF Expand
<1>2. CASE ~Refuse(p)
  <2> DEFINE targets == {f \in Entries(p) : Exists(content[f])} \ mem[p].excl
  <2>1. /\ pc[p] = "opened"
        /\ \E l \in {"expanded", "done"} : Goto(p, l)
        /\ work' = [work EXCEPT ![p] = targets]
        /\ todo' = [todo EXCEPT ![p] = targets]
        /\ UNCHANGED <<goals, hand, view>>
    BY <1>2 DEF Expand
  <2>2. mem[p].paths \subseteq Tracked(mem[p])
    BY DEF Tracked
  <2>3. IF args[p] = {} THEN targets \subseteq Tracked(mem[p])
                        ELSE targets \subseteq args[p]
    BY <2>2 DEF Entries
  <2>4. TargetOK(p)'
    BY <2>1, <2>3 DEF TargetOK, Goto, goals, hand, view, TypeOK, LocalTypes
  <2> QED BY <2>1, <2>4, HolderTargets DEF Goto, TypeOK, LocalTypes
<1> QED BY <1>1, <1>2

LEMMA RewriteTargets ==
  ASSUME TypeOK, LockInv, NEW p \in Proc, pc[p] # "idle", NEW c, Rewrite(p, c),
         cmd[p] \notin Decrypting => work[p] \subseteq Tracked(c)
  PROVE  TargetInv'
<1>1. CASE Refuse(p)
  BY <1>1, RefuseTargets
<1>2. CASE ~Refuse(p)
  <2>1. /\ mem' = [mem EXCEPT ![p] = c]
        /\ todo' = [todo EXCEPT ![p] = work[p]]
        /\ Goto(p, "syncCfg")
        /\ UNCHANGED <<goals, work>>
    BY <1>2 DEF Rewrite
  <2>2. TargetOK(p)'
    BY <2>1 DEF TargetOK, Goto, goals, TypeOK, LocalTypes
  <2> QED BY <2>1, <2>2, HolderTargets DEF Goto, TypeOK, LocalTypes
<1> QED BY <1>1, <1>2

LEMMA RegisterTargets ==
  ASSUME TypeOK, LockInv, TargetInv, NEW p \in Proc, Register(p)
  PROVE  TargetInv'
<1> DEFINE c == [mem[p] EXCEPT !.paths = @ \cup Added(p)]
<1>1. WorkOK(p) /\ pc[p] = "expanded" /\ TargetOK(p) /\ cmd[p] \in Encrypting
  BY DEF Register, LockInv, TargetInv
<1>2. CASE Added(p) = {} /\ Goto(p, "pass")
           /\ UNCHANGED <<tree, user, faults, lock, goals, files, hand, view>>
  <2>1. work[p] \subseteq Tracked(mem[p]) /\ todo[p] \subseteq work[p]
    BY <1>1, <1>2 DEF TargetOK, Added, Tracked
  <2>2. TargetOK(p)'
    BY <1>2, <2>1 DEF TargetOK, Goto, goals, files, view, TypeOK, LocalTypes
  <2> QED BY <1>1, <1>2, <2>2, HolderTargets DEF Goto, TypeOK, LocalTypes
<1>3. CASE Rewrite(p, c)
  <2>1. mem[p] \in ConfigRecord
    BY <1>1 DEF WorkOK, Config
  <2>2. Tracked(c) = Tracked(mem[p]) \cup Added(p)
    BY <2>1 DEF Tracked, ConfigRecord
  <2>3. work[p] \subseteq Tracked(mem[p]) \cup Added(p)
    BY <1>1 DEF TargetOK, Added, Tracked
  <2> QED BY <1>1, <1>3, <2>2, <2>3, RewriteTargets
<1> QED BY <1>2, <1>3 DEF Register

LEMMA ScanExcludedTargets ==
  ASSUME TypeOK, LockInv, TargetInv, NEW p \in Proc, ScanExcluded(p)
  PROVE  TargetInv'
<1>1. CASE Refuse(p)
  BY <1>1, RefuseTargets DEF ScanExcluded
<1>2. CASE ~Refuse(p)
  <2>1. /\ pc[p] = "expanded"
        /\ cmd[p] \in Rekeying
        /\ \E l \in {"pass", "precheck", "done", "verify"} : Goto(p, l)
        /\ \E F \in SUBSET work[p] : todo' = [todo EXCEPT ![p] = F]
        /\ UNCHANGED <<goals, work, hand, view>>
    BY <1>2 DEF ScanExcluded, Rekeying
  <2>2. work[p] \subseteq Tracked(mem[p])
    BY <2>1 DEF TargetInv, TargetOK, LockInv, WorkOK
  <2>3. TargetOK(p)'
    BY <2>1, <2>2 DEF TargetOK, Goto, goals, hand, view, TypeOK, LocalTypes
  <2> QED BY <2>1, <2>3, HolderTargets DEF Goto, TypeOK, LocalTypes
<1> QED BY <1>1, <1>2

LEMMA PrecheckFileTargets ==
  ASSUME TypeOK, LockInv, TargetInv, NEW p \in Proc, NEW f \in File, PrecheckFile(p, f)
  PROVE  TargetInv'
<1>1. CASE Refuse(p)
  BY <1>1, RefuseTargets DEF PrecheckFile
<1>2. CASE ~Refuse(p)
  <2>1. /\ pc[p] = "precheck"
        /\ todo' = [todo EXCEPT ![p] = @ \ {f}]
        /\ UNCHANGED <<pc, goals, work, hand, view>>
    BY <1>2 DEF PrecheckFile
  <2>2. TargetOK(p)'
    BY <2>1 DEF TargetInv, TargetOK, goals, hand, view, TypeOK, LocalTypes
  <2> QED BY <2>1, <2>2, HolderTargets
<1> QED BY <1>1, <1>2

LEMMA MintTargets ==
  ASSUME TypeOK, LockInv, TargetInv, NEW p \in Proc, Mint(p)
  PROVE  TargetInv'
<1>1. CASE Refuse(p)
  BY <1>1, RefuseTargets DEF Mint
<1>2. ASSUME NEW k \in Key,
             Rewrite(p, [mem[p] EXCEPT !.cur = k, !.old = Retained(mem[p])])
      PROVE  TargetInv'
  <2> DEFINE c == [mem[p] EXCEPT !.cur = k, !.old = Retained(mem[p])]
  <2>1. pc[p] = "precheck" /\ TargetOK(p) /\ WorkOK(p)
    BY DEF Mint, TargetInv, LockInv
  <2>2. Tracked(c) = Tracked(mem[p])
    BY <2>1 DEF Tracked, WorkOK, Config, ConfigRecord
  <2> QED BY <1>2, <2>1, <2>2, RewriteTargets DEF TargetOK
<1> QED BY <1>1, <1>2 DEF Mint

LEMMA SyncConfigTargets ==
  ASSUME TypeOK, LockInv, TargetInv, NEW p \in Proc, SyncConfig(p)
  PROVE  TargetInv'
<1>1. CASE End({p})
  BY <1>1, EndTargets DEF SyncConfig
<1>2. CASE ~End({p})
  <2>1. /\ pc[p] = "syncCfg"
        /\ \E l \in {"done", "pass"} : Goto(p, l)
        /\ UNCHANGED <<goals, files, hand, view>>
    BY <1>2 DEF SyncConfig
  <2>2. TargetOK(p)'
    BY <2>1 DEF TargetInv, TargetOK, Goto, goals, files, hand, view, TypeOK, LocalTypes
  <2> QED BY <2>1, <2>2, HolderTargets DEF Goto, TypeOK, LocalTypes
<1> QED BY <1>1, <1>2

LEMMA ReadFileTargets ==
  ASSUME TypeOK, LockInv, TargetInv, NEW p \in Proc, NEW f \in File, ReadFile(p, f)
  PROVE  TargetInv'
<1>1. CASE Refuse(p)
  BY <1>1, RefuseTargets DEF ReadFile
<1>2. CASE ~Refuse(p)
  <2>1. /\ pc[p] = "pass"
        /\ f \in todo[p]
        /\ Exists(content[f])
        /\ cur' = [cur EXCEPT ![p] = f]
        /\ buf' = [buf EXCEPT ![p] = content[f]]
        /\ Goto(p, "read")
        /\ UNCHANGED <<tree, goals, files, mem>>
    BY <1>2 DEF ReadFile
  <2>2. TargetOK(p)'
    BY <2>1 DEF TargetInv, TargetOK, Goto, tree, goals, files, TypeOK, LocalTypes
  <2> QED BY <2>1, <2>2, HolderTargets DEF Goto, TypeOK, LocalTypes
<1> QED BY <1>1, <1>2

\* Leaving the file in hand, written or not, takes it off the list.
LEMMA LeaveFileTargets ==
  ASSUME TypeOK, LockInv, TargetInv, NEW p \in Proc,
         pc[p] \in {"read", "syncFile"},
         \E l \in {"pass", "syncFile"} : Goto(p, l),
         todo' \in [Proc -> SUBSET File], todo'[p] \subseteq todo[p],
         UNCHANGED <<goals, work, mem>>
  PROVE  TargetInv'
<1>1. TargetOK(p)'
  BY DEF TargetInv, TargetOK, Goto, goals, TypeOK, LocalTypes
<1> QED BY <1>1, HolderTargets DEF Goto, TypeOK, LocalTypes

LEMMA PassTargets ==
  ASSUME TypeOK, LockInv, TargetInv, NEW p \in Proc,
         SkipFile(p) \/ WriteFile(p) \/ SyncFile(p)
  PROVE  TargetInv'
<1>1. CASE Refuse(p)
  BY <1>1, RefuseTargets DEF SkipFile, WriteFile, SyncFile
<1>2. CASE ~Refuse(p)
  <2>1. /\ pc[p] \in {"read", "syncFile"}
        /\ \E l \in {"pass", "syncFile"} : Goto(p, l)
        /\ UNCHANGED <<goals, work, mem>>
        /\ UNCHANGED todo \/ todo' = [todo EXCEPT ![p] = @ \ {cur[p]}]
    BY <1>2 DEF SkipFile, WriteFile, SyncFile, view, files
  <2> QED BY <2>1, LeaveFileTargets DEF TypeOK, LocalTypes
<1> QED BY <1>1, <1>2

LEMMA FinishPassTargets ==
  ASSUME TypeOK, LockInv, TargetInv, NEW p \in Proc, FinishPass(p)
  PROVE  TargetInv'
<1>1. /\ pc[p] = "pass"
      /\ pc'[p] \in {"pass", "verify", "done"}
      /\ \A q \in Proc \ {p} : pc'[q] = pc[q]
      /\ UNCHANGED <<goals, work, hand, view>>
  BY DEF FinishPass, Goto, TypeOK, LocalTypes
<1>2. cmd[p] \notin Decrypting => todo'[p] \subseteq work[p]
  BY DEF FinishPass, TypeOK, LocalTypes
<1>3. TargetOK(p)'
  BY <1>1, <1>2 DEF TargetInv, TargetOK, goals, hand, view
<1> QED BY <1>1, <1>3, HolderTargets

LEMMA VerifyFileTargets ==
  ASSUME TypeOK, LockInv, TargetInv, NEW p \in Proc, NEW f \in File, VerifyFile(p, f)
  PROVE  TargetInv'
<1>1. CASE Refuse(p)
  BY <1>1, RefuseTargets DEF VerifyFile
<1>2. CASE ~Refuse(p)
  <2>1. /\ pc[p] = "verify"
        /\ todo' = [todo EXCEPT ![p] = @ \ {f}]
        /\ UNCHANGED <<pc, goals, work, hand, mem>>
    BY <1>2 DEF VerifyFile
  <2>2. TargetOK(p)'
    BY <2>1 DEF TargetInv, TargetOK, goals, hand, TypeOK, LocalTypes
  <2> QED BY <2>1, <2>2, HolderTargets
<1> QED BY <1>1, <1>2

LEMMA ConvergeTargets ==
  ASSUME TypeOK, LockInv, TargetInv, NEW p \in Proc, Converge(p)
  PROVE  TargetInv'
<1> DEFINE c == [mem[p] EXCEPT !.old = {}]
<1>1. pc[p] = "verify" /\ TargetOK(p) /\ WorkOK(p)
  BY DEF Converge, TargetInv, LockInv
<1>2. CASE Goto(p, "done")
  <2>1. pc'[p] = "done"
    BY <1>2 DEF Goto, TypeOK, LocalTypes
  <2>2. TargetOK(p)'
    BY <2>1 DEF TargetOK
  <2> QED BY <1>1, <1>2, <2>2, HolderTargets DEF Goto, TypeOK, LocalTypes
<1>3. CASE Rewrite(p, c)
  <2>1. Tracked(c) = Tracked(mem[p])
    BY <1>1 DEF Tracked, WorkOK, Config, ConfigRecord
  <2> QED BY <1>1, <1>3, <2>1, RewriteTargets DEF TargetOK
<1> QED BY <1>2, <1>3 DEF Converge

\* Whoever changes files from outside makes a reader notice.
LEMMA OutsideTargets ==
  ASSUME TypeOK, LockInv, TargetInv, NEW F \in SUBSET File, FilesReplaced(F, NoProc),
         \A f \in File \ F : content'[f] = content[f],
         UNCHANGED <<lock, pc, goals, files, hand, mem>>
  PROVE  TargetInv'
<1> SUFFICES ASSUME NEW p \in Proc
             PROVE  TargetOK(p)'
  BY DEF TargetInv
<1>1. TargetOK(p)
  BY DEF TargetInv
<1>2. pc[p] = "read" => moved'[p] = moved[p] \cup F
  BY NamesAssumption DEF FilesReplaced, Active
<1>3. pc[p] = "read" => cur[p] \in File
  BY DEF LockInv, WorkOK
<1> QED BY <1>1, <1>2, <1>3 DEF TargetOK, goals, files, hand, TypeOK, LocalTypes

LEMMA UserTargets ==
  ASSUME TypeOK, LockInv, TargetInv, User
  PROVE  TargetInv'
<1>1. ASSUME NEW f \in File, NEW v, Replace(f, v)
      PROVE  TargetInv'
  <2>1. \A g \in File \ {f} : content'[g] = content[g]
    BY <1>1 DEF Replace, TypeOK, StoreTypes
  <2> QED BY <1>1, <2>1, OutsideTargets DEF Replace
<1>2. CASE CommitAll
  BY <1>2 DEF CommitAll, TargetInv, TargetOK, tree, local, goals, files, hand, view
<1>3. CASE Checkout
  BY <1>3, OutsideTargets DEF Checkout
<1> QED BY <1>1, <1>2, <1>3 DEF User, Edit, Stash, Return, Merge

LEMMA NextTargets ==
  ASSUME TypeOK, LockInv, TargetInv, [Next]_vars
  PROVE  TargetInv'
<1>1. ASSUME NEW p \in Proc, Step(p)
      PROVE  TargetInv'
  <2>1. CASE FailFile(p) \/ Close(p)
    BY <2>1, RefuseTargets DEF FailFile, Close
  <2>2. ASSUME NEW f \in File, PrecheckFile(p, f) \/ ReadFile(p, f) \/ VerifyFile(p, f)
        PROVE  TargetInv'
    BY <2>2, PrecheckFileTargets, ReadFileTargets, VerifyFileTargets
  <2>3. CASE StartDecrypt(p)
    <3>1. TargetOK(p)'
      BY <2>3 DEF StartDecrypt, TargetInv, TargetOK, Goto, goals, files, view, TypeOK,
                  LocalTypes
    <3> QED BY <2>3, <3>1, HolderTargets DEF StartDecrypt, Goto, TypeOK, LocalTypes
  <2> QED BY <1>1, <2>1, <2>2, <2>3, ExpandTargets, RegisterTargets,
             ScanExcludedTargets, MintTargets, SyncConfigTargets, PassTargets,
             FinishPassTargets, ConvergeTargets
          DEF Step
<1>2. ASSUME NEW p \in Proc, NEW k, NEW A, Open(p, k, A)
      PROVE  TargetInv'
  <2>1. \A q \in Proc : pc'[q] \in {"idle", "opened"}
    BY <1>2 DEF Open, LockFree, Goto, LockInv, WorkOK, TypeOK, LocalTypes
  <2> QED BY <2>1 DEF TargetInv, TargetOK
<1>3. ASSUME NEW p \in Proc, Interrupt(p)
      PROVE  TargetInv'
  BY <1>3, EndTargets DEF Interrupt
<1>4. CASE PowerLoss
  <2>1. \A q \in Proc : pc'[q] = "idle"
    BY <1>4 DEF PowerLoss, End, Reset, TypeOK, LocalTypes
  <2> QED BY <2>1 DEF TargetInv, TargetOK
<1>5. CASE UNCHANGED vars
  BY <1>5 DEF TargetInv, TargetOK, vars, tree, local, goals, files, hand, view
<1> QED BY <1>1, <1>2, <1>3, <1>4, <1>5, UserTargets DEF Next, Invoke

------------------------------------------------------------------------------
\* What is on disk, what may be left of it, and what prune has established.

Kept == StoreInv /\ LimboInv

LEMMA EndIdle ==
  ASSUME TypeOK, LockInv, NEW p \in Proc, pc[p] # "idle", End({p})
  PROVE  \A q \in Proc : pc'[q] = "idle"
  BY DEF End, Reset, LockInv, WorkOK, TypeOK, LocalTypes

LEMMA OthersIdle ==
  ASSUME LockInv, NEW p \in Proc, pc[p] # "idle"
  PROVE  \A q \in Proc \ {p} : pc[q] = "idle"
  BY DEF LockInv, WorkOK

LEMMA QuietKept ==
  ASSUME Kept, UNCHANGED <<tree, away, commit>>,
         PowerCanFail => \A q \in Proc : pc[q] \notin Syncing /\ pc'[q] \notin Syncing
  PROVE  Kept'
<1>1. StoreInv'
  BY DEF Kept, StoreInv, Keeps, tree
<1>2. LimboInv'
  BY DEF Kept, LimboInv, Keeps, tree, Syncing
<1> QED BY <1>1, <1>2 DEF Kept

LEMMA HolderQuiet ==
  ASSUME Kept, LockInv, NEW p \in Proc, pc[p] \notin {"idle"} \cup Syncing,
         \A q \in Proc \ {p} : pc'[q] = pc[q],
         pc'[p] \notin Syncing, UNCHANGED <<tree, user>>
  PROVE  Kept'
<1>1. \A q \in Proc : pc[q] \notin Syncing /\ pc'[q] \notin Syncing
  BY OthersIdle DEF Syncing
<1> QED BY <1>1, QuietKept DEF user

LEMMA RefuseKept ==
  ASSUME Kept, TypeOK, LockInv, NEW p \in Proc, pc[p] \notin {"idle"} \cup Syncing,
         Refuse(p)
  PROVE  Kept'
<1>1. \A q \in Proc : pc'[q] = "idle"
  BY EndIdle DEF Refuse
<1>2. \A q \in Proc : pc[q] \notin Syncing
  BY OthersIdle DEF Syncing
<1> QED BY <1>1, <1>2, QuietKept DEF Refuse, user, Syncing

LEMMA IdlePrune ==
  ASSUME \A q \in Proc : pc'[q] \notin {"expanded", "verify"}
  PROVE  PruneInv'
  BY DEF PruneInv, PruneOK

LEMMA HolderPrune ==
  ASSUME LockInv, NEW p \in Proc, pc[p] # "idle",
         \A q \in Proc \ {p} : pc'[q] = pc[q],
         cmd'[p] = "prune" /\ ~stale'[p] => PruneOK(p)'
  PROVE  PruneInv'
<1>1. \A q \in Proc \ {p} : pc'[q] = "idle"
  BY OthersIdle
<1> QED BY <1>1 DEF PruneInv, PruneOK

\* A config that keeps every file and every stash may replace the one on disk.
LEMMA RewriteSafe ==
  ASSUME TypeOK, LockInv, Kept, NEW p \in Proc, pc[p] \notin {"idle"} \cup Syncing,
         NEW c, Rewrite(p, c),
         ~stale[p] => /\ c.excl = config.excl
                      /\ \A f \in File : Keeps(c, f, content[f])
  PROVE  Kept' /\ PruneInv'
<1>1. CASE Refuse(p)
  <2>1. \A q \in Proc : pc'[q] = "idle"
    BY <1>1, EndIdle DEF Refuse
  <2> QED BY <1>1, <2>1, RefuseKept, IdlePrune
<1>2. CASE ~Refuse(p)
  <2>1. /\ ~stale[p]
        /\ config' = c
        /\ cfgLimbo' = cfgLimbo \cup {c}
        /\ Goto(p, "syncCfg")
        /\ UNCHANGED <<content, limbo, user>>
    BY <1>2 DEF Rewrite
  <2>2. \A q \in Proc \ {p} : pc'[q] = "idle" /\ pc[q] = "idle"
    BY <2>1, OthersIdle DEF Goto, TypeOK, LocalTypes
  <2>3. pc'[p] = "syncCfg"
    BY <2>1 DEF Goto, TypeOK, LocalTypes
  <2>4. StoreInv'
    BY <2>1 DEF Kept, StoreInv, Keeps, user
  <2>5. ASSUME PowerCanFail
        PROVE  LimboInv'
    <3>1. /\ cfgLimbo = {config}
          /\ \A f \in File : limbo[f] = {content[f]}
      BY <2>2, <2>5 DEF Kept, LimboInv, Syncing
    <3>2. /\ cfgLimbo' = {config, c}
          /\ \A f \in File : limbo'[f] = {content'[f]}
      BY <2>1, <3>1
    <3>3. \A d \in {config, c}, f \in File : Keeps(d, f, content[f])
      BY <2>1 DEF Kept, StoreInv
    <3>4. \A d \in cfgLimbo', f \in File : \A v \in limbo'[f] :
            Keeps(d, f, v)' /\ v.text = content'[f].text
      BY <2>1, <3>2, <3>3 DEF Keeps, user
    <3>5. \A d \in cfgLimbo' : d.excl = config'.excl
      BY <2>1, <3>2
    <3> QED BY <2>1, <2>3, <3>2, <3>4, <3>5 DEF LimboInv
  <2>6. Kept'
    BY <2>4, <2>5 DEF Kept, LimboInv
  <2>7. PruneInv'
    BY <2>2, <2>3, IdlePrune
  <2> QED BY <2>6, <2>7
<1> QED BY <1>1, <1>2

LEMMA RegisterSafe ==
  ASSUME TypeOK, LockInv, Kept, NEW p \in Proc, Register(p)
  PROVE  Kept' /\ PruneInv'
<1> DEFINE c == [mem[p] EXCEPT !.paths = @ \cup Added(p)]
<1>1. WorkOK(p) /\ pc[p] = "expanded" /\ cmd[p] \in Encrypting
  BY DEF Register, LockInv
<1>2. CASE Goto(p, "pass") /\ UNCHANGED <<tree, user, goals>>
  <2>1. pc'[p] = "pass" /\ \A q \in Proc \ {p} : pc'[q] = pc[q]
    BY <1>2 DEF Goto, TypeOK, LocalTypes
  <2>2. Kept'
    BY <1>1, <1>2, <2>1, HolderQuiet DEF Syncing
  <2>3. PruneInv'
    BY <1>1, <2>1, HolderPrune DEF PruneOK
  <2> QED BY <2>2, <2>3
<1>3. CASE Rewrite(p, c)
  <2>1. mem[p] \in ConfigRecord
    BY <1>1 DEF WorkOK, Config
  <2>2. /\ c.excl = mem[p].excl
        /\ Ring(c) = Ring(mem[p])
        /\ c.paths = mem[p].paths \cup Added(p)
    BY <2>1 DEF Ring, ConfigRecord
  <2>3. ~stale[p] => mem[p] = config
    BY <1>1 DEF WorkOK
  <2>4. ~stale[p] => \A f \in File : Keeps(c, f, content[f])
    <3> HIDE DEF c
    <3> QED BY <2>2, <2>3 DEF Kept, StoreInv, Keeps, Fits, Tracked
  <2> QED BY <1>1, <1>3, <2>2, <2>3, <2>4, RewriteSafe DEF Syncing
<1> QED BY <1>2, <1>3 DEF Register

LEMMA MintSafe ==
  ASSUME TypeOK, LockInv, Kept, NEW p \in Proc, Mint(p)
  PROVE  Kept' /\ PruneInv'
<1>1. WorkOK(p) /\ pc[p] = "precheck"
  BY DEF Mint, LockInv
<1>2. CASE Refuse(p)
  <2>1. \A q \in Proc : pc'[q] = "idle"
    BY <1>1, <1>2, EndIdle DEF Refuse
  <2> QED BY <1>1, <1>2, <2>1, RefuseKept, IdlePrune DEF Syncing
<1>3. ASSUME NEW k \in Key,
             Rewrite(p, [mem[p] EXCEPT !.cur = k, !.old = Retained(mem[p])])
      PROVE  Kept' /\ PruneInv'
  <2> DEFINE c == [mem[p] EXCEPT !.cur = k, !.old = Retained(mem[p])]
  <2>1. mem[p] \in ConfigRecord
    BY <1>1 DEF WorkOK, Config
  <2>2. /\ c.excl = mem[p].excl
        /\ c.paths = mem[p].paths
        /\ c.old = Ring(mem[p])
    BY <2>1 DEF Retained, ConfigRecord
  <2>3. Ring(mem[p]) \subseteq Ring(c)
    BY <2>2 DEF Ring
  <2>4. ~stale[p] => mem[p] = config
    BY <1>1 DEF WorkOK
  <2>5. ~stale[p] => \A f \in File : Keeps(c, f, content[f])
    <3> HIDE DEF c
    <3> QED BY <2>2, <2>3, <2>4 DEF Kept, StoreInv, Keeps, Fits, Tracked
  <2> QED BY <1>1, <1>3, <2>2, <2>4, <2>5, RewriteSafe DEF Syncing
<1> QED BY <1>2, <1>3 DEF Mint

LEMMA ConvergeSafe ==
  ASSUME TypeOK, LockInv, TargetInv, Kept, PruneInv, NEW p \in Proc, Converge(p)
  PROVE  Kept' /\ PruneInv'
<1> DEFINE c == [mem[p] EXCEPT !.old = {}]
<1>1. WorkOK(p) /\ pc[p] = "verify" /\ todo[p] = {}
  BY DEF Converge, LockInv
<1>2. CASE Goto(p, "done") /\ UNCHANGED <<tree, user>>
  <2>1. pc'[p] = "done" /\ \A q \in Proc \ {p} : pc'[q] = pc[q]
    BY <1>2 DEF Goto, TypeOK, LocalTypes
  <2>2. Kept'
    BY <1>1, <1>2, <2>1, HolderQuiet DEF Syncing
  <2>3. PruneInv'
    BY <1>1, <2>1, HolderPrune DEF PruneOK
  <2> QED BY <2>2, <2>3
<1>3. CASE cmd[p] = "prune" /\ Rewrite(p, c)
  <2>1. mem[p] \in ConfigRecord
    BY <1>1 DEF WorkOK, Config
  <2>2. /\ c.excl = mem[p].excl
        /\ c.paths = mem[p].paths
        /\ Ring(c) = {mem[p].cur}
    BY <2>1 DEF Ring, ConfigRecord
  <2>3. ~stale[p] => mem[p] = config
    BY <1>1 DEF WorkOK
  <2>4. ASSUME ~stale[p], NEW f \in File
        PROVE  Keeps(c, f, content[f])
    <3>1. Keeps(config, f, content[f])
      BY DEF Kept, StoreInv
    <3>2. /\ f \in config.excl => ~Encrypted(content[f])
          /\ f \in config.paths =>
               /\ Encrypted(content[f]) => KeysOf(content[f]) \subseteq {config.cur}
               /\ Encrypted(away[f]) => KeysOf(away[f]) \subseteq {config.cur}
      BY <1>1, <1>3, <2>4 DEF PruneInv, PruneOK
    <3> HIDE DEF c
    <3> QED BY <2>2, <2>3, <2>4, <3>1, <3>2 DEF Keeps, Fits, Tracked
  <2> QED BY <1>1, <1>3, <2>2, <2>3, <2>4, RewriteSafe DEF Syncing
<1> QED BY <1>2, <1>3 DEF Converge

LEMMA ExpandSafe ==
  ASSUME TypeOK, LockInv, Kept, NEW p \in Proc, Expand(p)
  PROVE  Kept' /\ PruneInv'
<1>1. WorkOK(p) /\ pc[p] = "opened"
  BY DEF Expand, LockInv
<1>2. CASE Refuse(p)
  <2>1. \A q \in Proc : pc'[q] = "idle"
    BY <1>1, <1>2, EndIdle DEF Refuse
  <2> QED BY <1>1, <1>2, <2>1, RefuseKept, IdlePrune DEF Syncing
<1>3. CASE ~Refuse(p)
  <2> DEFINE there == {f \in Entries(p) : Exists(content[f])}
  <2>1. /\ pc'[p] \in {"expanded", "done"}
        /\ \A q \in Proc \ {p} : pc'[q] = pc[q]
        /\ work'[p] = there \ mem[p].excl
        /\ hidden'[p] = {f \in there \cap mem[p].excl :
                           cmd[p] \in Rekeying \/ ProbeHit(content[f])}
        /\ UNCHANGED <<tree, user, goals, view>>
    BY <1>3 DEF Expand, Goto, TypeOK, LocalTypes
  <2>2. Kept'
    BY <1>1, <2>1, HolderQuiet DEF Syncing
  <2>3. ASSUME cmd'[p] = "prune", ~stale'[p]
        PROVE  PruneOK(p)'
    <3>1. cmd[p] = "prune" /\ ~stale[p] /\ UNCHANGED <<config, content>>
      BY <2>1, <2>3 DEF goals, view, tree
    <3>2. Entries(p) = Tracked(config)
      BY <1>1, <3>1 DEF Entries, WorkOK, Rekeying, Encrypting
    <3>3. work'[p] \cup hidden'[p] = there
      BY <2>1, <3>1 DEF Rekeying
    <3>4. \A f \in Tracked(config) \ there : ~Encrypted(content[f])
      BY <3>2 DEF Exists, Encrypted
    <3> QED BY <2>1, <3>1, <3>3, <3>4 DEF PruneOK
  <2> QED BY <1>1, <2>1, <2>2, <2>3, HolderPrune
<1> QED BY <1>2, <1>3

LEMMA ScanExcludedSafe ==
  ASSUME TypeOK, LockInv, Kept, PruneInv, NEW p \in Proc, ScanExcluded(p)
  PROVE  Kept' /\ PruneInv'
<1>1. WorkOK(p) /\ pc[p] = "expanded"
  BY DEF ScanExcluded, LockInv
<1>2. CASE Refuse(p)
  <2>1. \A q \in Proc : pc'[q] = "idle"
    BY <1>1, <1>2, EndIdle DEF Refuse
  <2> QED BY <1>1, <1>2, <2>1, RefuseKept, IdlePrune DEF Syncing
<1>3. CASE ~Refuse(p)
  <2>1. /\ pc'[p] \in {"pass", "precheck", "done", "verify"}
        /\ \A q \in Proc \ {p} : pc'[q] = pc[q]
        /\ UNCHANGED <<tree, user, goals, view>>
    <3>1. \E l \in {"pass", "precheck", "done", "verify"} : Goto(p, l)
      BY <1>3 DEF ScanExcluded, Rekeying
    <3> QED BY <1>3, <3>1 DEF ScanExcluded, Goto, TypeOK, LocalTypes
  <2>2. Kept'
    BY <1>1, <2>1, HolderQuiet DEF Syncing
  <2>3. ASSUME cmd'[p] = "prune", ~stale'[p], pc'[p] = "verify"
        PROVE  PruneOK(p)'
    <3>1. /\ cmd[p] = "prune" /\ ~stale[p] /\ mem[p] = config
          /\ UNCHANGED <<config, content, away>>
      BY <1>1, <2>1, <2>3 DEF goals, view, tree, user, WorkOK
    <3>2. todo'[p] = work[p]
      BY <1>3, <3>1 DEF ScanExcluded, TypeOK, LocalTypes
    <3>3. mem[p].old # {}
      <4>1. CASE mem[p].old = {}
        <5>1. pc'[p] = "done"
          BY <1>3, <3>1, <4>1 DEF ScanExcluded, Goto, TypeOK, LocalTypes
        <5> QED BY <2>3, <5>1
      <4> QED BY <4>1
    <3>4. /\ Missing(mem[p]) = {}
          /\ \A f \in hidden[p] : ~OwnCiphertext(mem[p], content[f])
      BY <1>3, <3>1, <3>3 DEF ScanExcluded
    <3>5. ASSUME NEW f \in File, f \in hidden[p]
          PROVE  ~Encrypted(content[f])
      <4>1. Fits(config, f, content[f])
        BY DEF Kept, StoreInv, Keeps
      <4>2. Encrypted(content[f]) => KeysOf(content[f]) # {}
        BY CipherType DEF TypeOK, StoreTypes
      <4> QED BY <3>1, <3>4, <3>5, <4>1, <4>2 DEF Fits, OwnCiphertext
    <3>6. Tracked(config) \subseteq File
      BY DEF Tracked, TypeOK, StoreTypes, Config, ConfigRecord
    <3>7. \A f \in Tracked(config) \ work[p] : ~Encrypted(content[f])
      BY <1>1, <3>1, <3>5, <3>6 DEF PruneInv, PruneOK
    <3>8. \A f \in config.excl : f \notin work[p]
      BY <1>1, <3>1 DEF WorkOK
    <3>9. \A f \in config.paths : ~Encrypted(away[f])
      <4>1. \A f \in config.paths : Exists(content[f])
        BY <3>1, <3>4 DEF Missing
      <4> QED BY <3>6, <4>1 DEF Kept, StoreInv, Tracked, Exists, Encrypted
    <3> QED BY <2>3, <3>1, <3>2, <3>7, <3>8, <3>9 DEF PruneOK, Tracked
  <2>4. cmd'[p] = "prune" /\ ~stale'[p] => PruneOK(p)'
    BY <2>1, <2>3 DEF PruneOK
  <2> QED BY <1>1, <2>1, <2>2, <2>4, HolderPrune
<1> QED BY <1>2, <1>3

LEMMA VerifyFileSafe ==
  ASSUME TypeOK, LockInv, Kept, PruneInv, NEW p \in Proc, NEW f \in File,
         VerifyFile(p, f)
  PROVE  Kept' /\ PruneInv'
<1>1. WorkOK(p) /\ pc[p] = "verify"
  BY DEF VerifyFile, LockInv
<1>2. CASE Refuse(p)
  <2>1. \A q \in Proc : pc'[q] = "idle"
    BY <1>1, <1>2, EndIdle DEF Refuse
  <2> QED BY <1>1, <1>2, <2>1, RefuseKept, IdlePrune DEF Syncing
<1>3. CASE ~Refuse(p)
  <2>1. /\ Exists(content[f])
        /\ Verified(mem[p], content[f])
        /\ todo'[p] = todo[p] \ {f}
        /\ UNCHANGED <<tree, user, pc, goals, mem, stale>>
    BY <1>3 DEF VerifyFile, TypeOK, LocalTypes
  <2>2. Kept'
    BY <1>1, <2>1, HolderQuiet DEF Syncing
  <2>3. ASSUME cmd'[p] = "prune", ~stale'[p]
        PROVE  PruneOK(p)'
    <3>1. /\ PruneOK(p) /\ mem[p] = config
          /\ UNCHANGED <<config, content, away>>
      BY <1>1, <2>1, <2>3 DEF PruneInv, WorkOK, goals, tree, user
    <3>2. ~Encrypted(away[f])
      BY <2>1 DEF Kept, StoreInv, Exists, Encrypted
    <3>3. Encrypted(content[f]) => KeysOf(content[f]) \subseteq {config.cur}
      BY <2>1, <3>1 DEF Verified, ProbeHit, Opens, KeysOf
    <3> QED BY <1>1, <2>1, <3>1, <3>2, <3>3 DEF PruneOK
  <2> QED BY <1>1, <2>1, <2>2, <2>3, HolderPrune
<1> QED BY <1>2, <1>3

LEMMA SyncConfigSafe ==
  ASSUME FaultModel, TypeOK, LockInv, Kept, NEW p \in Proc, SyncConfig(p)
  PROVE  Kept' /\ PruneInv'
<1>1. pc[p] = "syncCfg" /\ \A q \in Proc \ {p} : pc[q] = "idle"
  BY OthersIdle DEF SyncConfig
<1>2. /\ pc'[p] \in {"idle", "done", "pass"}
      /\ \A q \in Proc \ {p} : pc'[q] = "idle"
  BY <1>1 DEF SyncConfig, Goto, End, Reset, TypeOK, LocalTypes
<1>3. PruneInv'
  BY <1>2, IdlePrune
<1>4. UNCHANGED <<config, content, user>> /\ (Settle(RootDir) \/ UNCHANGED limbo)
  BY DEF SyncConfig
<1>5. StoreInv'
  BY <1>4 DEF Kept, StoreInv, Keeps, user, Settle, TypeOK, StoreTypes
<1>6. ASSUME PowerCanFail
      PROVE  LimboInv'
  <2>1. Settle(RootDir)
    BY <1>6 DEF SyncConfig, FaultModel
  <2>2. \A f \in File : limbo[f] = {content[f]}
    BY <1>1, <1>6 DEF Kept, LimboInv
  <2>3. cfgLimbo' = {config} /\ \A f \in File : limbo'[f] = {content[f]}
    BY <2>1, <2>2 DEF Settle
  <2>4. \A f \in File : Keeps(config, f, content[f])'
    BY <1>5 DEF StoreInv
  <2> QED BY <1>4, <2>3, <2>4 DEF LimboInv
<1> QED BY <1>3, <1>5, <1>6 DEF Kept, LimboInv

LEMMA SyncFileSafe ==
  ASSUME FaultModel, TypeOK, LockInv, Kept, NEW p \in Proc, SyncFile(p)
  PROVE  Kept' /\ PruneInv'
<1> DEFINE f == cur[p]
<1>1. /\ pc[p] = "syncFile"
      /\ f \in File
      /\ \A q \in Proc \ {p} : pc[q] = "idle"
  BY OthersIdle DEF SyncFile, LockInv, WorkOK
<1>2. pc'[p] = "pass" /\ \A q \in Proc \ {p} : pc'[q] = "idle"
  BY <1>1 DEF SyncFile, Goto, TypeOK, LocalTypes
<1>3. PruneInv'
  BY <1>2, IdlePrune
<1>4. UNCHANGED <<config, content, user>> /\ (Settle(DirOf[f]) \/ UNCHANGED limbo)
  BY DEF SyncFile
<1>5. StoreInv'
  BY <1>4 DEF Kept, StoreInv, Keeps, user, Settle, TypeOK, StoreTypes
<1>6. ASSUME PowerCanFail
      PROVE  LimboInv'
  <2>1. Settle(DirOf[f])
    BY <1>6 DEF SyncFile, FaultModel
  <2>2. /\ cfgLimbo = {config}
        /\ \A g \in File \ {f} : limbo[g] = {content[g]}
    BY <1>1, <1>6 DEF Kept, LimboInv
  <2>3. cfgLimbo' = {config} /\ \A g \in File : limbo'[g] = {content[g]}
    BY <1>1, <2>1, <2>2 DEF Settle
  <2>4. \A g \in File : Keeps(config, g, content[g])'
    BY <1>5 DEF StoreInv
  <2> QED BY <1>4, <2>3, <2>4 DEF LimboInv
<1> QED BY <1>3, <1>5, <1>6 DEF Kept, LimboInv

\* What the pass writes says what it read.
LEMMA WriteKeepsText ==
  ASSUME TypeOK, NEW p \in Proc, mem[p] = config, buf[p] \in Content, Exists(buf[p]),
         Fits(config, cur[p], buf[p]), Verdict(p) = "write"
  PROVE  Result(p).text = buf[p].text
<1> DEFINE v == buf[p]
<1>1. Opens(Ring(config), v) => Decrypted(v) = v.text
  BY DEF Opens, Decrypted
<1>2. \A t : Plain(t).text = t /\ ~Encrypted(Plain(t))
  BY DEF Plain, Encrypted
<1>3. \A c, f, w : ~Encrypted(w) => Encryption(c, f, w).text = w.text
  BY DEF Encryption, Cipher
<1>4. CASE cmd[p] \in Decrypting
  <2>1. Opens(Ring(config), v)
    BY <1>4 DEF Verdict
  <2> QED BY <1>1, <1>2, <1>4, <2>1 DEF Result
<1>5. CASE cmd[p] \notin Decrypting /\ Opens(Ring(config), v)
  BY <1>1, <1>2, <1>3, <1>5 DEF Result
<1>6. CASE cmd[p] \notin Decrypting /\ ~Opens(Ring(config), v)
  <2>1. Plan(config, cur[p], v, cmd[p] = "assume") = "encrypt"
    BY <1>6 DEF Verdict
  <2>2. ~HeadOpens(config, v)
    BY <2>1 DEF Plan
  <2>3. ~Encrypted(v)
    BY <2>2, CipherType DEF HeadOpens, Fits
  <2> QED BY <1>3, <1>6, <2>3 DEF Result
<1> QED BY <1>4, <1>5, <1>6

\* What the pass writes is kept by the config on disk.
LEMMA WriteFits ==
  ASSUME TypeOK, LockInv, TargetInv, NEW p \in Proc, pc[p] = "read", mem[p] = config
  PROVE  Fits(config, cur[p], Result(p))
<1>1. /\ mem[p] \in Config
      /\ buf[p] \in Content
      /\ Exists(buf[p])
  BY DEF TypeOK, LocalTypes, LockInv, WorkOK, TargetInv, TargetOK
<1>2. Decrypted(buf[p]) \in Text \cup {Lost}
  BY <1>1, DecryptedType
<1>3. Plain(Decrypted(buf[p])) \in Content /\ Exists(Plain(Decrypted(buf[p])))
      /\ ~Encrypted(Plain(Decrypted(buf[p])))
  BY <1>2, PlainType, PlainFacts
<1>4. CASE cmd[p] \in Decrypting
  BY <1>3, <1>4 DEF Result, Fits
<1>5. CASE cmd[p] \notin Decrypting
  <2>1. cur[p] \in Tracked(config)
    BY <1>5 DEF TargetInv, TargetOK
  <2>2. KeysOf(Result(p)) = {config.cur}
    BY <1>1, <1>3, <1>5, EncryptionType DEF Result
  <2> QED BY <2>1, <2>2 DEF Fits, Ring
<1> QED BY <1>4, <1>5

LEMMA WriteFileSafe ==
  ASSUME TypeOK, LockInv, TargetInv, Kept, NEW p \in Proc, WriteFile(p)
  PROVE  Kept' /\ PruneInv'
<1> DEFINE f == cur[p]
<1>1. WorkOK(p) /\ pc[p] = "read" /\ f \in File
  BY DEF WriteFile, LockInv, WorkOK
<1>2. CASE Refuse(p)
  <2>1. \A q \in Proc : pc'[q] = "idle"
    BY <1>1, <1>2, EndIdle DEF Refuse
  <2> QED BY <1>1, <1>2, <2>1, RefuseKept, IdlePrune DEF Syncing
<1>3. CASE ~Refuse(p)
  <2>1. /\ Verdict(p) = "write"
        /\ Fresh(p, f)
        /\ content' = [content EXCEPT ![f] = Result(p)]
        /\ limbo' = [limbo EXCEPT ![f] = @ \cup {Result(p)}]
        /\ Goto(p, "syncFile")
        /\ UNCHANGED <<config, cfgLimbo, user, cur>>
    BY <1>3 DEF WriteFile
  <2>2. \A q \in Proc \ {p} : pc'[q] = "idle" /\ pc[q] = "idle"
    BY <1>1, <2>1, OthersIdle DEF Goto, TypeOK, LocalTypes
  <2>3. pc'[p] = "syncFile"
    BY <2>1 DEF Goto, TypeOK, LocalTypes
  <2>4. PruneInv'
    BY <2>2, <2>3, IdlePrune
  <2>5. mem[p] = config
    BY <1>1, <2>1 DEF Fresh, WorkOK
  <2>6. buf[p] = content[f] /\ Exists(content[f]) /\ content[f] \in Content
    BY <1>1, <2>1 DEF Fresh, TargetInv, TargetOK, TypeOK, StoreTypes
  <2>7. Fits(config, f, Result(p))
    BY <1>1, <2>5, WriteFits
  <2>8. Result(p).text = content[f].text
    BY <1>1, <2>1, <2>5, <2>6, WriteKeepsText DEF Kept, StoreInv, Keeps
  <2>9. /\ content'[f] = Result(p)
        /\ limbo'[f] = limbo[f] \cup {Result(p)}
        /\ \A g \in File \ {f} : content'[g] = content[g] /\ limbo'[g] = limbo[g]
    BY <1>1, <2>1 DEF TypeOK, StoreTypes
  <2>10. ~Exists(away[f])
    BY <1>1, <2>6 DEF Kept, StoreInv
  <2>11. \A g \in File : Keeps(config, g, content[g])'
    BY <2>1, <2>7, <2>9 DEF Kept, StoreInv, Keeps, user
  <2>12. StoreInv'
    BY <2>1, <2>9, <2>10, <2>11 DEF Kept, StoreInv, user
  <2>13. ASSUME PowerCanFail
         PROVE  LimboInv'
    <3>1. cfgLimbo' = {config'}
      BY <1>1, <2>1, <2>2, <2>13 DEF Kept, LimboInv
    <3>2. \A g \in File : limbo[g] = {content[g]}
      BY <1>1, <2>2, <2>13 DEF Kept, LimboInv
    <3>3. \A g \in File : \A v \in limbo'[g] :
            Keeps(config, g, v)' /\ v.text = content'[g].text
      <4>1. \A g \in File : Keeps(config, g, content[g]) /\ UNCHANGED <<away, config>>
        BY <2>1 DEF Kept, StoreInv, user
      <4> QED BY <2>1, <2>8, <2>9, <2>11, <3>2, <4>1 DEF Keeps
    <3>4. \A g \in File : (\A q \in Proc : ~(pc'[q] = "syncFile" /\ cur'[q] = g))
                            => limbo'[g] = {content'[g]}
      BY <2>1, <2>3, <2>9, <3>2
    <3>5. \A g \in File : content'[g] \in limbo'[g]
      BY <2>9, <3>2
    <3> QED BY <3>1, <3>3, <3>4, <3>5 DEF LimboInv
  <2> QED BY <2>4, <2>12, <2>13 DEF Kept, LimboInv
<1> QED BY <1>2, <1>3

\* The user puts v at f, which every config there may be keeps.
LEMMA ReplaceKept ==
  ASSUME TypeOK, Kept, NEW f \in File, NEW v, Replace(f, v), UNCHANGED commit,
         \A g \in File \ {f} : away'[g] = away[g],
         Keeps(config, f, v)',
         PowerCanFail => \A c \in cfgLimbo : Keeps(c, f, v)',
         Exists(away'[f]) => ~Exists(v)
  PROVE  Kept'
<1>1. /\ content'[f] = v /\ limbo'[f] = {v}
      /\ \A g \in File \ {f} : content'[g] = content[g] /\ limbo'[g] = limbo[g]
      /\ UNCHANGED <<config, cfgLimbo, pc, cur>>
  BY DEF Replace, hand, TypeOK, StoreTypes
<1>2. ASSUME NEW g \in File \ {f}, NEW c, NEW w, Keeps(c, g, w)
      PROVE  Keeps(c, g, w)'
  BY <1>2 DEF Keeps
<1>3. StoreInv'
  BY <1>1, <1>2 DEF Kept, StoreInv
<1>4. ASSUME PowerCanFail
      PROVE  LimboInv'
  <2>1. \A c \in cfgLimbo', g \in File : \A w \in limbo'[g] :
          Keeps(c, g, w)' /\ w.text = content'[g].text
    BY <1>1, <1>2, <1>4 DEF Kept, LimboInv
  <2> QED BY <1>1, <1>4, <2>1 DEF Kept, LimboInv
<1> QED BY <1>3, <1>4 DEF Kept, LimboInv

\* A path that only says plain things troubles no prune in progress.
LEMMA ReplacePrune ==
  ASSUME TypeOK, PruneInv, NEW f \in File, NEW v, ~Encrypted(v), Replace(f, v),
         \A g \in File \ {f} : away'[g] = away[g],
         away'[f] \in {away[f], content[f]}
  PROVE  PruneInv'
<1>1. /\ content'[f] = v
      /\ \A g \in File \ {f} : content'[g] = content[g]
      /\ UNCHANGED <<config, pc, cmd, stale, work, hidden, todo>>
  BY DEF Replace, goals, files, TypeOK, StoreTypes
<1>2. config.paths \subseteq File /\ config.excl \subseteq File
  BY DEF TypeOK, StoreTypes, Config, ConfigRecord
<1>3. ASSUME NEW p \in Proc, PruneOK(p)
      PROVE  PruneOK(p)'
  <2>1. pc[p] = "expanded" => PruneOK(p)'
    BY <1>1, <1>2, <1>3 DEF PruneOK, Tracked
  <2>2. pc[p] = "verify" =>
          /\ \A g \in config.excl : ~Encrypted(content'[g])
          /\ \A g \in config.paths \ todo[p] :
               /\ Encrypted(content'[g]) => KeysOf(content'[g]) \subseteq {config.cur}
               /\ Encrypted(away'[g]) => KeysOf(away'[g]) \subseteq {config.cur}
    BY <1>1, <1>2, <1>3 DEF PruneOK
  <2> QED BY <1>1, <2>1, <2>2 DEF PruneOK
<1> QED BY <1>1, <1>3 DEF PruneInv

LEMMA EditSafe ==
  ASSUME TypeOK, Kept, PruneInv, NEW f \in File, NEW t \in Text, Edit(f, t)
  PROVE  Kept' /\ PruneInv'
<1>1. ~Encrypted(Plain(t))
  BY PlainFacts
<1>2. UNCHANGED <<away, commit, config>> /\ Replace(f, Plain(t)) /\ ~Exists(away[f])
  BY DEF Edit, Replace, Exists, Absent
<1>3. ~Encrypted(away[f])
  BY <1>2 DEF Exists, Encrypted
<1>4. \A c : Keeps(c, f, Plain(t))'
  BY <1>1, <1>2, <1>3 DEF Keeps, Fits
<1>5. Kept'
  BY <1>2, <1>4, ReplaceKept
<1>6. PruneInv'
  BY <1>1, <1>2, ReplacePrune
<1> QED BY <1>5, <1>6

LEMMA StashSafe ==
  ASSUME TypeOK, Kept, PruneInv, NEW f \in File, Stash(f)
  PROVE  Kept' /\ PruneInv'
<1>1. ~Encrypted(Absent) /\ ~Exists(Absent)
  BY DEF Absent, Encrypted, Exists
<1>2. /\ UNCHANGED <<commit, config>> /\ Replace(f, Absent)
      /\ away'[f] = content[f]
      /\ \A g \in File \ {f} : away'[g] = away[g]
  BY DEF Stash, Replace, TypeOK, StoreTypes
<1>3. ASSUME NEW c, c.excl = config.excl, Keeps(c, f, content[f])
      PROVE  Keeps(c, f, Absent)'
  BY <1>1, <1>2, <1>3 DEF Keeps, Fits, Tracked, Stash
<1>4. Keeps(config, f, Absent)'
  BY <1>2, <1>3 DEF Kept, StoreInv
<1>5. PowerCanFail => \A c \in cfgLimbo : Keeps(c, f, Absent)'
  BY <1>3 DEF Kept, LimboInv
<1>6. Kept'
  BY <1>1, <1>2, <1>4, <1>5, ReplaceKept
<1>7. PruneInv'
  BY <1>1, <1>2, ReplacePrune
<1> QED BY <1>6, <1>7

\* Between commands nobody is pruning.
LEMMA NobodyPrunes ==
  ASSUME LockInv, lock = NoProc, UNCHANGED pc
  PROVE  PruneInv'
  BY NamesAssumption DEF LockInv, WorkOK, PruneInv, PruneOK

LEMMA ReturnSafe ==
  ASSUME FaultModel, TypeOK, LockInv, Kept, NEW f \in File, Return(f)
  PROVE  Kept' /\ PruneInv'
<1>1. PICK u : u = away[f]
  OBVIOUS
<1>2. /\ UNCHANGED <<commit, config, pc>> /\ Replace(f, u)
      /\ away'[f] = Absent
      /\ \A g \in File \ {f} : away'[g] = away[g]
      /\ lock = NoProc
  BY <1>1 DEF Return, Replace, MayReturn, FaultModel, TypeOK, StoreTypes
<1>3. ~Encrypted(Absent) /\ ~Exists(Absent)
  BY DEF Absent, Encrypted, Exists
<1>4. ASSUME NEW c, NEW v, Keeps(c, f, v)
      PROVE  Keeps(c, f, u)'
  BY <1>1, <1>2, <1>3, <1>4 DEF Keeps, Fits, Tracked
<1>5. Keeps(config, f, u)'
  <2>1. PICK c : c = config
    OBVIOUS
  <2>2. Keeps(c, f, u)'
    BY <1>4, <2>1 DEF Kept, StoreInv
  <2> QED BY <1>2, <2>1, <2>2
<1>6. PowerCanFail => \A c \in cfgLimbo : Keeps(c, f, u)'
  BY <1>4 DEF Kept, LimboInv
<1>7. Kept'
  BY <1>2, <1>3, <1>5, <1>6, ReplaceKept
<1> QED BY <1>2, <1>7, NobodyPrunes

LEMMA MergeSafe ==
  ASSUME FaultModel, TypeOK, LockInv, Kept, NEW f \in File, Merge(f)
  PROVE  Kept' /\ PruneInv'
<1> DEFINE v == content[f]
           w == commit.content[f]
<1>1. /\ UNCHANGED <<away, commit, config, pc>>
      /\ lock = NoProc
      /\ v.mode = "text"
      /\ {v.head, w.tail} \subseteq Ring(config)
  BY DEF Merge, Replace, MayReturn, FaultModel
<1>2. v \in Content /\ Encrypted(v) /\ Exists(v) /\ ~Exists(away[f])
  BY <1>1 DEF TypeOK, StoreTypes, Encrypted, Exists, Kept, StoreInv
<1>3. PICK u : /\ Replace(f, u)
               /\ u \in {[v EXCEPT !.tail = w.tail],
                         [v EXCEPT !.head = w.tail, !.tail = v.head]}
  BY DEF Merge
<1>4. KeysOf(u) \subseteq Ring(config)
  <2>1. v \in [mode : {"text", "binary"}, head : Key, tail : Key,
               text : Text \cup {Lost}]
    BY <1>2 DEF Content, Absent, Encrypted
  <2>2. u.head \in {v.head, w.tail} /\ u.tail \in {v.head, w.tail}
    BY <1>3, <2>1
  <2> QED BY <1>1, <2>2 DEF KeysOf
<1>5. f \in Tracked(config)
  BY <1>2 DEF Kept, StoreInv, Keeps, Fits
<1>6. ~Encrypted(away[f])
  BY <1>2 DEF Exists, Encrypted
<1>7. Keeps(config, f, u)'
  BY <1>1, <1>4, <1>5, <1>6 DEF Keeps, Fits
<1>8. PowerCanFail => cfgLimbo = {config}
  BY <1>1, NamesAssumption DEF Kept, LimboInv, LockInv, WorkOK
<1>9. PowerCanFail => \A c \in cfgLimbo : Keeps(c, f, u)'
  BY <1>1, <1>7, <1>8
<1>10. Kept'
  BY <1>1, <1>2, <1>3, <1>7, <1>9, ReplaceKept
<1> QED BY <1>1, <1>10, NobodyPrunes

LEMMA CheckoutSafe ==
  ASSUME FaultModel, TypeOK, LockInv, Kept, Checkout
  PROVE  Kept' /\ PruneInv'
<1>1. /\ config' = commit.config
      /\ cfgLimbo' = {commit.config}
      /\ content' = commit.content
      /\ limbo' = [f \in File |-> {commit.content[f]}]
      /\ away' = [f \in File |-> Absent]
      /\ UNCHANGED <<commit, pc>>
  BY DEF Checkout
<1>2. ~Encrypted(Absent) /\ ~Exists(Absent)
  BY DEF Absent, Encrypted, Exists
<1>3. \A f \in File : Fits(commit.config, f, commit.content[f])
  BY DEF Kept, StoreInv
<1>4. \A f \in File : Keeps(config, f, content[f])'
  BY <1>1, <1>2, <1>3 DEF Keeps
<1>5. StoreInv'
  BY <1>1, <1>2, <1>3, <1>4 DEF StoreInv
<1>6. LimboInv'
  BY <1>1, <1>4 DEF LimboInv
<1>7. CASE config # commit.config
  <2>1. \A p \in Proc : pc[p] # "idle" => stale'[p]
    BY <1>7, NamesAssumption DEF Checkout, ConfigReplaced, Active
  <2>2. PruneInv'
    BY <1>1, <2>1 DEF PruneInv, PruneOK
  <2> QED BY <1>5, <1>6, <2>2 DEF Kept
<1>8. CASE config = commit.config
  <2>1. lock = NoProc
    BY <1>8 DEF Checkout, MayReturn, FaultModel
  <2>2. PruneInv'
    BY <1>1, <2>1, NobodyPrunes
  <2> QED BY <1>5, <1>6, <2>2 DEF Kept
<1> QED BY <1>7, <1>8

LEMMA CommitSafe ==
  ASSUME Kept, PruneInv, CommitAll
  PROVE  Kept' /\ PruneInv'
<1>1. UNCHANGED <<tree, away, local>> /\ commit' = [config |-> config, content |-> content]
  BY DEF CommitAll
<1>2. StoreInv'
  BY <1>1 DEF Kept, StoreInv, Keeps, tree
<1>3. LimboInv'
  BY <1>1 DEF Kept, LimboInv, Keeps, tree, local, hand
<1>4. PruneInv'
  BY <1>1 DEF PruneInv, PruneOK, tree, local, goals, files, view
<1> QED BY <1>2, <1>3, <1>4 DEF Kept

LEMMA PowerLossSafe ==
  ASSUME TypeOK, LockInv, Kept, PowerLoss
  PROVE  Kept' /\ PruneInv'
<1>1. /\ PowerCanFail
      /\ config' \in cfgLimbo
      /\ cfgLimbo' = {config'}
      /\ \A f \in File : content'[f] \in limbo[f]
      /\ limbo' = [f \in File |-> {content'[f]}]
      /\ UNCHANGED <<away, commit>>
  BY DEF PowerLoss, user
<1>2. \A p \in Proc : pc'[p] = "idle"
  BY DEF PowerLoss, End, Reset, TypeOK, LocalTypes
<1>3. \A f \in File : Keeps(config, f, content[f])'
  BY <1>1 DEF Kept, LimboInv, Keeps
<1>4. StoreInv'
  BY <1>1, <1>3 DEF Kept, StoreInv
<1>5. LimboInv'
  BY <1>1, <1>3 DEF LimboInv
<1> QED BY <1>2, <1>4, <1>5, IdlePrune DEF Kept

\* A quiet command step: nothing on disk changes, and prune does not look on.
LEMMA CommandSafe ==
  ASSUME TypeOK, LockInv, Kept, NEW p \in Proc,
         StartDecrypt(p) \/ SkipFile(p) \/ FailFile(p) \/ FinishPass(p) \/ Close(p)
         \/ \E f \in File : PrecheckFile(p, f) \/ ReadFile(p, f)
  PROVE  Kept' /\ PruneInv'
<1>1. pc[p] \in {"expanded", "read", "pass", "done", "precheck"}
  BY DEF StartDecrypt, SkipFile, FailFile, FinishPass, Close, PrecheckFile, ReadFile
<1>2. CASE Refuse(p)
  <2>1. \A q \in Proc : pc'[q] = "idle"
    BY <1>1, <1>2, EndIdle DEF Refuse
  <2> QED BY <1>1, <1>2, <2>1, RefuseKept, IdlePrune DEF Syncing
<1>3. CASE ~Refuse(p)
  <2>1. /\ UNCHANGED <<tree, user, goals>>
        /\ \A q \in Proc \ {p} : pc'[q] = pc[q]
        /\ pc'[p] \in {"pass", "read", "precheck", "done", "verify"}
        /\ pc'[p] = "verify" => cmd[p] # "prune"
    BY <1>3 DEF StartDecrypt, SkipFile, FailFile, FinishPass, Close, PrecheckFile,
                ReadFile, Goto, TypeOK, LocalTypes
  <2>2. Kept'
    BY <1>1, <2>1, HolderQuiet DEF Syncing
  <2>3. cmd'[p] = "prune" => PruneOK(p)'
    BY <2>1 DEF PruneOK, goals
  <2> QED BY <1>1, <2>1, <2>2, <2>3, HolderPrune
<1> QED BY <1>2, <1>3

LEMMA OpenSafe ==
  ASSUME TypeOK, LockInv, Kept, NEW p \in Proc, NEW k, NEW A, Open(p, k, A)
  PROVE  Kept' /\ PruneInv'
<1>1. \A q \in Proc : pc[q] = "idle" /\ pc'[q] \in {"idle", "opened"}
  BY NamesAssumption DEF Open, LockFree, Goto, LockInv, WorkOK, TypeOK, LocalTypes
<1>2. Kept'
  BY <1>1, QuietKept DEF Open, user, Syncing
<1> QED BY <1>1, <1>2, IdlePrune

LEMMA InterruptSafe ==
  ASSUME FaultModel, TypeOK, LockInv, Kept, NEW p \in Proc, Interrupt(p)
  PROVE  Kept' /\ PruneInv'
<1>1. \A q \in Proc : pc'[q] = "idle"
  BY EndIdle DEF Interrupt
<1>2. PowerCanFail => \A q \in Proc : pc[q] \notin Syncing
  BY OthersIdle DEF Interrupt, FaultModel, Syncing
<1>3. Kept'
  BY <1>1, <1>2, QuietKept DEF Interrupt, user, Syncing
<1> QED BY <1>1, <1>3, IdlePrune

LEMMA NextSafe ==
  ASSUME FaultModel, IInv, [Next]_vars
  PROVE  Kept' /\ PruneInv'
<1> USE DEF IInv
<1>1. Kept
  BY DEF Kept
<1>2. ASSUME NEW p \in Proc, Step(p)
      PROVE  Kept' /\ PruneInv'
  <2>1. ASSUME NEW f \in File, VerifyFile(p, f)
        PROVE  Kept' /\ PruneInv'
    BY <1>1, <2>1, VerifyFileSafe
  <2>2. CASE Expand(p) \/ Register(p) \/ ScanExcluded(p) \/ Mint(p) \/ Converge(p)
    BY <1>1, <2>2, ExpandSafe, RegisterSafe, ScanExcludedSafe, MintSafe, ConvergeSafe
  <2>3. CASE SyncConfig(p) \/ WriteFile(p) \/ SyncFile(p)
    BY <1>1, <2>3, SyncConfigSafe, WriteFileSafe, SyncFileSafe
  <2>4. CASE StartDecrypt(p) \/ SkipFile(p) \/ FailFile(p) \/ FinishPass(p) \/ Close(p)
             \/ \E f \in File : PrecheckFile(p, f) \/ ReadFile(p, f)
    BY <1>1, <2>4, CommandSafe
  <2> QED BY <1>2, <2>1, <2>2, <2>3, <2>4 DEF Step
<1>3. ASSUME NEW p \in Proc, Invoke(p) \/ Interrupt(p)
      PROVE  Kept' /\ PruneInv'
  BY <1>1, <1>3, OpenSafe, InterruptSafe DEF Invoke
<1>4. CASE User
  BY <1>1, <1>4, EditSafe, StashSafe, ReturnSafe, MergeSafe, CommitSafe, CheckoutSafe
  DEF User
<1>5. CASE PowerLoss
  BY <1>1, <1>5, PowerLossSafe
<1>6. CASE UNCHANGED vars
  <2>1. UNCHANGED <<tree, away, commit, pc, cmd, stale, work, hidden, todo, cur>>
    BY <1>6 DEF vars, user, local, goals, files, hand, view
  <2>2. UNCHANGED <<config, cfgLimbo, content, limbo>>
    BY <2>1 DEF tree
  <2>3. StoreInv' /\ LimboInv'
    BY <2>1, <2>2 DEF StoreInv, LimboInv, Keeps
  <2>4. PruneInv'
    BY <2>1, <2>2 DEF PruneInv, PruneOK
  <2> QED BY <2>3, <2>4 DEF Kept
<1> QED BY <1>2, <1>3, <1>4, <1>5, <1>6 DEF Next

------------------------------------------------------------------------------
\* The theorems.

LEMMA InitTyped == ASSUME Init PROVE TypeOK /\ LockInv /\ TargetInv
<1>1. StoreTypes
  BY AbsentType DEF Init, StoreTypes, ConfigRecord, Config, Ring
<1>2. LocalTypes
  BY AbsentType DEF Init, LocalTypes
<1>3. LockInv /\ TargetInv
  BY DEF Init, LockInv, TargetInv, TargetOK
<1> QED BY <1>1, <1>2, <1>3 DEF TypeOK

\* Every variable stays within its type, whatever the faults: in particular
\* the config is always one parse accepts (a ring of distinct keys, no longer
\* than MaxRing; no path both managed and excluded).
THEOREM TypeCorrect == Spec => []TypeOK
<1> DEFINE Inv == TypeOK /\ LockInv /\ TargetInv
<1>1. Init => Inv
  BY InitTyped
<1>2. Inv /\ [Next]_vars => Inv'
  BY NextTyped, NextTargets
<1> QED BY <1>1, <1>2, PTL DEF Spec

\* Two invocations never work on a domain at once, and the config in the
\* memory of the one that does is the one on disk or known to have been
\* replaced (open_domain, ensure_fresh), whatever the faults.
THEOREM Exclusion == Spec => []OneAtATime
<1> DEFINE Inv == TypeOK /\ LockInv /\ TargetInv
<1>1. Init => Inv
  BY InitTyped
<1>2. Inv /\ [Next]_vars => Inv'
  BY NextTyped, NextTargets
<1>3. Inv => OneAtATime
  <2> SUFFICES ASSUME LockInv
               PROVE  OneAtATime
    OBVIOUS
  <2>1. Active \subseteq {lock}
    BY DEF Active, LockInv, WorkOK
  <2>2. Active = {} \/ Active = {lock}
    BY <2>1
  <2>3. Cardinality(Active) <= 1
    <3>1. Cardinality({}) = 0 /\ Cardinality({lock}) = 1
      BY FS_EmptySet, FS_Singleton
    <3> QED BY <2>2, <3>1
  <2> QED BY <2>3 DEF OneAtATime, Active, LockInv, WorkOK
<1> QED BY <1>1, <1>2, <1>3, PTL DEF Spec

\* The inductive invariant, under the fault model.
THEOREM Inductive == ASSUME FaultModel PROVE Spec => []IInv
<1>1. Init => IInv
  <2> SUFFICES ASSUME Init
               PROVE  IInv
    OBVIOUS
  <2>1. ~Encrypted(Absent) /\ ~Exists(Absent)
    BY DEF Absent, Encrypted, Exists
  <2>2. \A f \in File : Keeps(config, f, content[f])
    BY <2>1 DEF Init, Keeps
  <2>3. StoreInv
    BY <2>1, <2>2 DEF Init, StoreInv
  <2>4. LimboInv
    BY <2>2 DEF Init, LimboInv
  <2>5. PruneInv
    BY DEF Init, PruneInv
  <2> QED BY <2>3, <2>4, <2>5, InitTyped DEF IInv
<1>2. IInv /\ [Next]_vars => IInv'
  BY FaultModel, NextTyped, NextTargets, NextSafe DEF IInv, Kept
<1> QED BY <1>1, <1>2, PTL DEF Spec

\* No interruption, race or rotation ever strands a ciphertext.
THEOREM Stranding == ASSUME FaultModel PROVE Spec => []NothingStranded
<1>1. IInv => NothingStranded
  BY DEF IInv, StoreInv, Keeps, NothingStranded
<1> QED BY <1>1, Inductive, FaultModel, PTL

\* Nor one that a stash has taken away: prune waits for it.
THEOREM StrandingAway == ASSUME FaultModel PROVE Spec => []NothingStrandedAway
<1>1. IInv => NothingStrandedAway
  BY DEF IInv, StoreInv, Keeps, NothingStrandedAway
<1> QED BY <1>1, Inductive, FaultModel, PTL

\* Whatever subset of the unsynced renames a power loss undoes, the config it
\* leaves opens the files it leaves.
THEOREM PowerSafety == ASSUME FaultModel PROVE Spec => []SurvivesPowerLoss
<1>1. IInv => SurvivesPowerLoss
  BY DEF IInv, LimboInv, Keeps, SurvivesPowerLoss
<1> QED BY <1>1, Inductive, FaultModel, PTL

\* A step either is the user's or leaves what every path says alone.
LEMMA TextStable ==
  ASSUME FaultModel, IInv, [Next]_vars
  PROVE  \/ Intervene
         \/ edits' = edits /\ \A f \in File : content'[f].text = content[f].text
<1> USE DEF IInv
<1>1. ASSUME NEW p \in Proc, WriteFile(p)
      PROVE  edits' = edits /\ \A f \in File : content'[f].text = content[f].text
  <2>1. CASE Refuse(p)
    BY <2>1 DEF Refuse, tree, user
  <2>2. CASE ~Refuse(p)
    <3>1. /\ Verdict(p) = "write"
          /\ Fresh(p, cur[p])
          /\ content' = [content EXCEPT ![cur[p]] = Result(p)]
          /\ edits' = edits
          /\ pc[p] = "read"
      BY <1>1, <2>2 DEF WriteFile, user
    <3>2. mem[p] = config /\ cur[p] \in File
      BY <3>1 DEF Fresh, LockInv, WorkOK
    <3>3. /\ buf[p] = content[cur[p]]
          /\ buf[p] \in Content /\ Exists(buf[p])
      BY <3>1, <3>2 DEF Fresh, TargetInv, TargetOK, TypeOK, LocalTypes
    <3>4. Fits(config, cur[p], buf[p])
      BY <3>2, <3>3 DEF StoreInv, Keeps
    <3>5. Result(p).text = content[cur[p]].text
      BY <3>1, <3>2, <3>3, <3>4, WriteKeepsText
    <3> QED BY <3>1, <3>2, <3>5 DEF TypeOK, StoreTypes
  <2> QED BY <2>1, <2>2
<1>2. CASE PowerLoss
  <2>1. /\ PowerCanFail /\ edits' = edits
        /\ \A f \in File : content'[f] \in limbo[f]
    BY <1>2 DEF PowerLoss, user
  <2>2. \A f \in File : \A v \in limbo[f] : v.text = content[f].text
    BY <2>1 DEF LimboInv
  <2> QED BY <2>1, <2>2
<1>3. ASSUME NEW p \in Proc, Step(p), ~WriteFile(p)
      PROVE  UNCHANGED <<edits, content>>
  BY <1>3 DEF Step, Expand, Register, StartDecrypt, ScanExcluded, PrecheckFile, ReadFile,
              VerifyFile, Mint, SyncConfig, SkipFile, FailFile, SyncFile, FinishPass,
              Converge, Close, Rewrite, Refuse, tree, user
<1>4. ASSUME NEW p \in Proc, Invoke(p) \/ Interrupt(p)
      PROVE  UNCHANGED <<edits, content>>
  BY <1>4 DEF Invoke, Open, Interrupt, tree, user
<1>5. CASE User
  BY <1>5 DEF User, Edit, Stash, Return, Merge, CommitAll, Checkout
<1>6. CASE UNCHANGED vars
  BY <1>6 DEF vars, tree, user
<1> QED BY <1>1, <1>2, <1>3, <1>4, <1>5, <1>6 DEF Next

LEMMA ReadingType ==
  ASSUME TypeOK, NEW f \in File
  PROVE  ReadsAs(f) \in Text \cup {NoText, Lost}
<1>1. content[f] \in Content
  BY DEF TypeOK, StoreTypes
<1>2. content[f].text \in Text \cup {NoText, Lost}
  BY <1>1 DEF Content, Absent
<1> QED BY <1>2 DEF ReadsAs

\* The domain implements its promise: what each path reads as changes only by
\* the user's hand, and nothing the user could read is ever lost.
THEOREM Promised == ASSUME FaultModel PROVE Spec => KeepsPromise
<1>1. Init => Promise!Init
  <2> SUFFICES ASSUME Init
               PROVE  Promise!Init
    OBVIOUS
  <2>1. TypeOK
    BY InitTyped
  <2>2. \A f \in File : ReadsAs(f) \in Text \cup {NoText, Lost}
    BY <2>1, ReadingType
  <2> QED BY <2>2 DEF Promise!Init, Init
<1>2. IInv /\ IInv' /\ [Next]_vars => [Promise!Next]_(Promise!vars)
  <2> SUFFICES ASSUME IInv, IInv', [Next]_vars
               PROVE  [Promise!Next]_(Promise!vars)
    OBVIOUS
  <2>1. \A f \in File : ReadsAs(f) = content[f].text
    BY DEF IInv, StoreInv, Keeps, Fits, ReadsAs
  <2>2. \A f \in File : ReadsAs(f)' = content'[f].text
    BY DEF IInv, StoreInv, Keeps, Fits, ReadsAs
  <2>3. CASE edits' = edits /\ \A f \in File : content'[f].text = content[f].text
    <3>1. \A f \in File : ReadsAs(f)' = ReadsAs(f)
      BY <2>1, <2>2, <2>3
    <3> QED BY <2>3, <3>1 DEF Promise!vars
  <2>4. CASE Intervene
    <3>1. \A f \in File : ReadsAs(f)' \in Text \cup {NoText, Lost}
      <4>1. TypeOK'
        BY DEF IInv
      <4>2. \A f \in File : content'[f] \in Content
        BY <4>1 DEF TypeOK, StoreTypes
      <4>3. \A f \in File : content'[f].text \in Text \cup {NoText, Lost}
        BY <4>2 DEF Content, Absent
      <4> QED BY <2>2, <4>3
    <3> QED BY <2>4, <3>1 DEF Promise!Next, Promise!UserChanges, Intervene
  <2> QED BY <2>3, <2>4, FaultModel, TextStable
<1> QED BY <1>1, <1>2, Inductive, FaultModel, PTL DEF Spec, KeepsPromise, Promise!Spec

\* A step of the tool's own that changes a file is a WriteFile.
LEMMA ToolWrites ==
  ASSUME TypeOK, [Next]_vars, ByTool
  PROVE  UNCHANGED content \/ \E p \in Proc : WriteFile(p) /\ ~Refuse(p)
<1>1. ~Intervene /\ ~Fault
  BY DEF ByTool, Intervene, Fault, TypeOK, StoreTypes
<1>2. ~User /\ ~PowerLoss
  BY <1>1 DEF User, Edit, Stash, Return, Merge, CommitAll, Checkout, PowerLoss
<1>3. ASSUME NEW p \in Proc, Step(p), ~WriteFile(p)
      PROVE  UNCHANGED content
  BY <1>3 DEF Step, Expand, Register, StartDecrypt, ScanExcluded, PrecheckFile, ReadFile,
              VerifyFile, Mint, SyncConfig, SkipFile, FailFile, SyncFile, FinishPass,
              Converge, Close, Rewrite, Refuse, tree
<1>4. ASSUME NEW p \in Proc, Invoke(p) \/ Interrupt(p) \/ Refuse(p)
      PROVE  UNCHANGED content
  BY <1>4 DEF Invoke, Open, Interrupt, Refuse, tree
<1>5. UNCHANGED vars => UNCHANGED content
  BY DEF vars, tree
<1> QED BY <1>2, <1>3, <1>4, <1>5 DEF Next

LEMMA WriteFileWrites ==
  ASSUME TypeOK, LockInv, NEW p \in Proc, WriteFile(p), ~Refuse(p)
  PROVE  /\ cur[p] \in File /\ mem[p] = config
         /\ content' = [content EXCEPT ![cur[p]] = Result(p)]
<1>1. pc[p] = "read" /\ Fresh(p, cur[p])
      /\ content' = [content EXCEPT ![cur[p]] = Result(p)]
  BY DEF WriteFile
<1> QED BY <1>1 DEF Fresh, LockInv, WorkOK

\* What the tool writes as ciphertext is whole, in the configured mode and
\* under the key that is current on disk at that moment, whatever the faults.
THEOREM CurrentKey == Spec => WritesUnderCurrentKey
<1> DEFINE Inv == TypeOK /\ LockInv /\ TargetInv
           Good(f) == /\ ByTool
                      /\ content'[f] # content[f]
                      /\ Encrypted(content'[f])
                      => LET t == content'[f].text
                         IN  content'[f] = Cipher(PickMode(f, t), config.cur, t)
<1>1. Init => Inv
  BY InitTyped
<1>2. Inv /\ [Next]_vars => Inv'
  BY NextTyped, NextTargets
<1>3. Inv /\ [Next]_vars => [\A f \in File : Good(f)]_vars
  <2> SUFFICES ASSUME TypeOK, LockInv, [Next]_vars, ByTool, NEW f \in File,
                      content'[f] # content[f], Encrypted(content'[f])
               PROVE  content'[f] = Cipher(PickMode(f, content'[f].text), config.cur,
                                           content'[f].text)
    OBVIOUS
  <2>1. PICK p \in Proc : WriteFile(p) /\ ~Refuse(p)
    BY ToolWrites
  <2>2. cur[p] = f /\ mem[p] = config /\ content'[f] = Result(p)
    BY <2>1, WriteFileWrites DEF TypeOK, StoreTypes
  <2>3. \A v : LET e == Encryption(config, f, v)
               IN  e = Cipher(PickMode(f, e.text), config.cur, e.text)
    BY DEF Encryption, Cipher
  <2>4. \A t : ~Encrypted(Plain(t))
    BY DEF Plain, Encrypted
  <2>5. \E v : Result(p) = Encryption(config, f, v)
    BY <2>2, <2>4 DEF Result
  <2> QED BY <2>2, <2>3, <2>5
<1> QED BY <1>1, <1>2, <1>3, PTL DEF Spec, WritesUnderCurrentKey

\* Only decrypt ever puts the text of a ciphertext on disk, whatever the faults.
THEOREM NoExposure == Spec => OnlyDecryptExposes
<1> DEFINE Inv == TypeOK /\ LockInv /\ TargetInv
           Good(f) == /\ ByTool
                      /\ Encrypted(content[f])
                      /\ content'[f].mode = "plain"
                      => \E p \in Proc : cmd[p] \in Decrypting /\ cur[p] = f
<1>1. Init => Inv
  BY InitTyped
<1>2. Inv /\ [Next]_vars => Inv'
  BY NextTyped, NextTargets
<1>3. Inv /\ [Next]_vars => [\A f \in File : Good(f)]_vars
  <2> SUFFICES ASSUME TypeOK, LockInv, TargetInv, [Next]_vars, ByTool, NEW f \in File,
                      Encrypted(content[f]), content'[f].mode = "plain"
               PROVE  \E p \in Proc : cmd[p] \in Decrypting /\ cur[p] = f
    OBVIOUS
  <2>1. content'[f] # content[f]
    BY DEF Encrypted
  <2>2. PICK p \in Proc : WriteFile(p) /\ ~Refuse(p)
    BY <2>1, ToolWrites
  <2>3. cur[p] = f /\ mem[p] = config /\ content'[f] = Result(p)
    BY <2>1, <2>2, WriteFileWrites DEF TypeOK, StoreTypes
  <2>4. \A v : Encryption(config, f, v).mode \in {"text", "binary"}
    BY DEF Encryption, Cipher, PickMode
  <2>5. cmd[p] \in Decrypting
    BY <2>3, <2>4 DEF Result
  <2> QED BY <2>3, <2>5
<1> QED BY <1>1, <1>2, <1>3, PTL DEF Spec, OnlyDecryptExposes

------------------------------------------------------------------------------
\* What success of an invocation means, whatever is edited, killed or lost
\* before.  This needs no fault model.
LEMMA HolderProgress ==
  ASSUME LockInv, NEW p \in Proc, pc[p] # "idle",
         \A q \in Proc \ {p} : pc'[q] = pc[q],
         ProgressOK(p)'
  PROVE  ProgressInv'
<1>1. \A q \in Proc \ {p} : pc'[q] = "idle"
  BY DEF LockInv, WorkOK
<1> QED BY <1>1 DEF ProgressInv, ProgressOK

LEMMA EndProgress ==
  ASSUME TypeOK, LockInv, NEW p \in Proc, pc[p] # "idle", End({p})
  PROVE  ProgressInv'
<1>1. \A q \in Proc : pc'[q] = "idle"
  BY DEF End, Reset, LockInv, WorkOK, TypeOK, LocalTypes
<1> QED BY <1>1 DEF ProgressInv, ProgressOK

LEMMA RefuseProgress ==
  ASSUME TypeOK, LockInv, NEW p \in Proc, pc[p] # "idle", Refuse(p)
  PROVE  ProgressInv'
  BY EndProgress DEF Refuse

LEMMA ExpandProgress ==
  ASSUME TypeOK, LockInv, NEW p \in Proc, Expand(p)
  PROVE  ProgressInv'
<1>1. CASE Refuse(p)
  BY <1>1, RefuseProgress DEF Expand
<1>2. CASE ~Refuse(p)
  <2> DEFINE targets == {f \in Entries(p) : Exists(content[f])} \ mem[p].excl
  <2>1. /\ pc[p] = "opened"
        /\ \E l \in {"expanded", "done"} : Goto(p, l) /\ (l = "done" => targets = {})
        /\ work' = [work EXCEPT ![p] = targets]
        /\ todo' = [todo EXCEPT ![p] = targets]
        /\ UNCHANGED <<goals, hand, view>>
    BY <1>2 DEF Expand
  <2>2. cmd[p] \in Encrypting => targets \subseteq mem[p].paths \cup args[p]
    BY DEF Entries
  <2>3. /\ work'[p] = targets /\ todo'[p] = targets
        /\ pc'[p] \in {"expanded", "done"}
        /\ pc'[p] = "done" => targets = {}
    BY <2>1 DEF Goto, TypeOK, LocalTypes
  <2>4. cmd' = cmd /\ mem' = mem /\ args' = args
    BY <2>1 DEF goals, view
  <2>5. ProgressOK(p)'
    BY <2>2, <2>3, <2>4 DEF ProgressOK
  <2> QED BY <2>1, <2>5, HolderProgress DEF Goto, TypeOK, LocalTypes
<1> QED BY <1>1, <1>2

\* A rewrite starts the work over.
LEMMA RewriteProgress ==
  ASSUME TypeOK, LockInv, NEW p \in Proc, pc[p] # "idle", NEW c, Rewrite(p, c),
         cmd[p] \in Encrypting => work[p] \subseteq c.paths \cup args[p]
  PROVE  ProgressInv'
<1>1. CASE Refuse(p)
  BY <1>1, RefuseProgress
<1>2. CASE ~Refuse(p)
  <2>1. /\ mem' = [mem EXCEPT ![p] = c]
        /\ todo' = [todo EXCEPT ![p] = work[p]]
        /\ Goto(p, "syncCfg")
        /\ UNCHANGED <<goals, work>>
    BY <1>2 DEF Rewrite
  <2>2. /\ mem'[p] = c /\ todo'[p] = work'[p] /\ work' = work /\ pc'[p] = "syncCfg"
        /\ cmd' = cmd /\ args' = args
    BY <2>1 DEF Goto, goals, TypeOK, LocalTypes
  <2>3. ProgressOK(p)'
    BY <2>2 DEF ProgressOK
  <2> QED BY <2>1, <2>3, HolderProgress DEF Goto, TypeOK, LocalTypes
<1> QED BY <1>1, <1>2

\* A step of the holder that leaves every file as it was, and adds none to
\* those it is done with.
LEMMA QuietProgress ==
  ASSUME TypeOK, LockInv, ProgressInv, NEW p \in Proc,
         pc[p] \notin {"idle", "opened"},
         \A q \in Proc \ {p} : pc'[q] = pc[q],
         work[p] \ (todo'[p] \cup moved'[p]) \subseteq work[p] \ (todo[p] \cup moved[p]),
         cmd[p] = "continue" /\ pc'[p] \in {"verify", "done"} =>
           pc[p] \in {"verify", "done"} \/ todo'[p] = work[p],
         pc'[p] = "done" /\ cmd[p] # "prune" => todo'[p] = {},
         pc'[p] \in {"precheck", "verify"} => cmd[p] \in Rekeying,
         UNCHANGED <<content, goals, work, mem>>
  PROVE  ProgressInv'
<1>1. ProgressOK(p)
  BY DEF ProgressInv
<1>2. /\ \A f \in work[p] \ (todo[p] \cup moved[p]) : Settled(p, f)
      /\ cmd[p] \in Encrypting => work[p] \subseteq mem[p].paths \cup args[p]
  BY <1>1 DEF ProgressOK
<1>3. cmd' = cmd /\ args' = args /\ work' = work /\ mem' = mem /\ content' = content
  BY DEF goals
<1>4. ASSUME NEW f \in work[p] \ (todo'[p] \cup moved'[p])
      PROVE  Settled(p, f)'
  <2>1. Settled(p, f)
    BY <1>2, <1>4
  <2> QED BY <1>3, <1>4, <2>1 DEF Settled
<1>5. ProgressOK(p)'
  BY <1>2, <1>3, <1>4 DEF ProgressOK
<1> QED BY <1>5, HolderProgress

LEMMA RegisterProgress ==
  ASSUME TypeOK, LockInv, ProgressInv, NEW p \in Proc, Register(p)
  PROVE  ProgressInv'
<1> DEFINE c == [mem[p] EXCEPT !.paths = @ \cup Added(p)]
<1>1. /\ WorkOK(p) /\ pc[p] = "expanded" /\ cmd[p] \in Encrypting
      /\ work[p] \subseteq mem[p].paths \cup args[p]
  BY DEF Register, LockInv, ProgressInv, ProgressOK
<1>2. CASE Goto(p, "pass") /\ UNCHANGED <<tree, user, faults, lock, goals, files, hand, view>>
  <2>1. /\ pc'[p] = "pass" /\ \A q \in Proc \ {p} : pc'[q] = pc[q]
        /\ UNCHANGED <<content, goals, work, mem, todo, moved>>
    BY <1>2 DEF Goto, tree, files, view, TypeOK, LocalTypes
  <2> QED BY <1>1, <2>1, QuietProgress DEF Encrypting
<1>3. CASE Rewrite(p, c)
  <2>1. mem[p] \in ConfigRecord
    BY <1>1 DEF WorkOK, Config
  <2>2. work[p] \subseteq c.paths \cup args[p]
    BY <1>1, <2>1 DEF ConfigRecord
  <2> QED BY <1>1, <1>3, <2>2, RewriteProgress
<1> QED BY <1>2, <1>3 DEF Register

LEMMA StartProgress ==
  ASSUME TypeOK, LockInv, ProgressInv, NEW p \in Proc, StartDecrypt(p)
  PROVE  ProgressInv'
<1>1. /\ pc[p] = "expanded" /\ cmd[p] \in Decrypting /\ pc'[p] = "pass"
      /\ \A q \in Proc \ {p} : pc'[q] = pc[q]
      /\ UNCHANGED <<content, goals, work, mem, todo, moved>>
  BY DEF StartDecrypt, Goto, tree, files, view, TypeOK, LocalTypes
<1> QED BY <1>1, QuietProgress DEF Decrypting

LEMMA ScanExcludedProgress ==
  ASSUME TypeOK, LockInv, ProgressInv, NEW p \in Proc, ScanExcluded(p)
  PROVE  ProgressInv'
<1>1. CASE Refuse(p)
  BY <1>1, RefuseProgress DEF ScanExcluded
<1>2. CASE ~Refuse(p)
  <2>1. /\ pc[p] = "expanded" /\ cmd[p] \in Rekeying
        /\ \E l \in {"pass", "precheck", "done", "verify"} :
             /\ Goto(p, l)
             /\ cmd[p] # "prune" => l \in {"pass", "precheck"}
        /\ UNCHANGED <<tree, goals, work, view>>
    BY <1>2 DEF ScanExcluded, Rekeying
  <2>2. /\ cmd'[p] = cmd[p] /\ pc'[p] # "idle"
        /\ pc'[p] \in {"verify", "done"} => cmd[p] = "prune"
        /\ \A q \in Proc \ {p} : pc'[q] = pc[q]
    BY <2>1 DEF Goto, goals, TypeOK, LocalTypes
  <2>3. \A f \in work'[p] : Settled(p, f)'
    BY <2>1, <2>2 DEF Settled, Rekeying, Encrypting, Decrypting
  <2>4. ProgressOK(p)'
    BY <2>1, <2>2, <2>3 DEF ProgressOK, Rekeying, Encrypting
  <2> QED BY <2>1, <2>2, <2>4, HolderProgress
<1> QED BY <1>1, <1>2

LEMMA PrecheckFileProgress ==
  ASSUME TypeOK, LockInv, ProgressInv, NEW p \in Proc, NEW f \in File, PrecheckFile(p, f)
  PROVE  ProgressInv'
<1>1. CASE Refuse(p)
  BY <1>1, RefuseProgress DEF PrecheckFile
<1>2. CASE ~Refuse(p)
  <2>1. /\ pc[p] = "precheck" /\ pc' = pc /\ cmd' = cmd
    BY <1>2 DEF PrecheckFile, goals
  <2>2. cmd[p] \in Rekeying
    BY <2>1 DEF ProgressInv, ProgressOK
  <2>3. ProgressOK(p)'
    BY <2>1, <2>2 DEF ProgressOK, Settled, Encrypting, Decrypting, Rekeying
  <2> QED BY <2>1, <2>3, HolderProgress
<1> QED BY <1>1, <1>2

LEMMA MintProgress ==
  ASSUME TypeOK, LockInv, ProgressInv, NEW p \in Proc, Mint(p)
  PROVE  ProgressInv'
<1>1. CASE Refuse(p)
  BY <1>1, RefuseProgress DEF Mint
<1>2. pc[p] = "precheck" /\ cmd[p] \in Rekeying
  BY DEF Mint, ProgressInv, ProgressOK
<1>3. ASSUME NEW k \in Key,
             Rewrite(p, [mem[p] EXCEPT !.cur = k, !.old = Retained(mem[p])])
      PROVE  ProgressInv'
  BY <1>2, <1>3, RewriteProgress DEF Rekeying, Encrypting
<1> QED BY <1>1, <1>3 DEF Mint

LEMMA SyncConfigProgress ==
  ASSUME TypeOK, LockInv, ProgressInv, NEW p \in Proc, SyncConfig(p)
  PROVE  ProgressInv'
<1>1. CASE End({p})
  BY <1>1, EndProgress DEF SyncConfig
<1>2. CASE ~End({p})
  <2>1. /\ pc[p] = "syncCfg"
        /\ Goto(p, IF cmd[p] = "prune" THEN "done" ELSE "pass")
        /\ UNCHANGED <<content, goals, files, view>>
    BY <1>2 DEF SyncConfig
  <2>2. /\ pc'[p] = IF cmd[p] = "prune" THEN "done" ELSE "pass"
        /\ \A q \in Proc \ {p} : pc'[q] = pc[q]
        /\ UNCHANGED <<todo, work, mem, moved>>
    BY <2>1 DEF Goto, files, view, TypeOK, LocalTypes
  <2> QED BY <2>1, <2>2, QuietProgress
<1> QED BY <1>1, <1>2

LEMMA ReadFileProgress ==
  ASSUME TypeOK, LockInv, ProgressInv, NEW p \in Proc, NEW f \in File, ReadFile(p, f)
  PROVE  ProgressInv'
<1>1. CASE Refuse(p)
  BY <1>1, RefuseProgress DEF ReadFile
<1>2. CASE ~Refuse(p)
  <2>1. /\ pc[p] = "pass"
        /\ f \in todo[p]
        /\ Goto(p, "read")
        /\ moved' = [moved EXCEPT ![p] = @ \ {f}]
        /\ UNCHANGED <<tree, goals, files, mem>>
    BY <1>2 DEF ReadFile
  <2>2. /\ pc'[p] = "read"
        /\ \A q \in Proc \ {p} : pc'[q] = pc[q]
        /\ moved'[p] = moved[p] \ {f}
        /\ UNCHANGED <<content, todo, work>>
    BY <2>1 DEF Goto, tree, files, TypeOK, LocalTypes
  <2> QED BY <2>1, <2>2, QuietProgress
<1> QED BY <1>1, <1>2

\* The pass leaves a file in hand when it is what the command was to make of it.
LEMMA LeaveFileProgress ==
  ASSUME TypeOK, LockInv, ProgressInv, NEW p \in Proc,
         pc[p] \in {"read", "syncFile"},
         NEW l \in {"pass", "syncFile"}, Goto(p, l),
         todo' = [todo EXCEPT ![p] = @ \ {cur[p]}],
         moved'[p] = moved[p],
         \A g \in File \ {cur[p]} : content'[g] = content[g],
         cur[p] \in work[p] \ moved[p] =>
           /\ cmd[p] \in Encrypting =>
                /\ Encrypted(content'[cur[p]])
                /\ content'[cur[p]].head = mem[p].cur
           /\ cmd[p] \in Decrypting => ~Encrypted(content'[cur[p]]),
         UNCHANGED <<goals, work, mem>>
  PROVE  ProgressInv'
<1>1. ProgressOK(p)
  BY DEF ProgressInv
<1>2. /\ \A f \in work[p] \ (todo[p] \cup moved[p]) : Settled(p, f)
      /\ cmd[p] \in Encrypting => work[p] \subseteq mem[p].paths \cup args[p]
  BY <1>1 DEF ProgressOK
<1>3. /\ cmd' = cmd /\ args' = args /\ work' = work /\ mem' = mem
      /\ pc'[p] = l /\ \A q \in Proc \ {p} : pc'[q] = pc[q]
      /\ todo'[p] = todo[p] \ {cur[p]}
  BY DEF goals, Goto, TypeOK, LocalTypes
<1>4. ASSUME NEW f \in work[p] \ (todo'[p] \cup moved[p])
      PROVE  Settled(p, f)'
  <2>1. CASE f = cur[p]
    BY <1>3, <1>4, <2>1 DEF Settled
  <2>2. CASE f # cur[p]
    <3>1. Settled(p, f) /\ f \in File
      BY <1>2, <1>3, <1>4, <2>2 DEF TypeOK, LocalTypes
    <3> QED BY <1>3, <2>2, <3>1 DEF Settled
  <2> QED BY <2>1, <2>2
<1>5. ProgressOK(p)'
  BY <1>2, <1>3, <1>4 DEF ProgressOK
<1> QED BY <1>3, <1>5, HolderProgress

LEMMA SkipFileProgress ==
  ASSUME TypeOK, LockInv, TargetInv, ProgressInv, NEW p \in Proc, SkipFile(p)
  PROVE  ProgressInv'
<1>1. /\ pc[p] = "read" /\ Verdict(p) = "skip" /\ Goto(p, "pass")
      /\ todo' = [todo EXCEPT ![p] = @ \ {cur[p]}]
      /\ content' = content
      /\ UNCHANGED <<goals, work, mem, moved>>
  BY DEF SkipFile, tree, view
<1>2. WorkOK(p) /\ TargetOK(p)
  BY <1>1 DEF LockInv, TargetInv
<1>3. ASSUME cur[p] \in work[p] \ moved[p]
      PROVE  buf[p] = content[cur[p]] /\ cur[p] \notin mem[p].excl
  BY <1>1, <1>2, <1>3 DEF WorkOK, TargetOK
<1>4. ASSUME cur[p] \in work[p] \ moved[p], cmd[p] \in Decrypting
      PROVE  ~Encrypted(content[cur[p]])
  BY <1>1, <1>3, <1>4 DEF Verdict, ProbeHit
<1>5. ASSUME cur[p] \in work[p] \ moved[p], cmd[p] \in Encrypting
      PROVE  /\ Encrypted(content[cur[p]])
             /\ content[cur[p]].head = mem[p].cur
  <2>1. cmd[p] \notin Decrypting
    BY <1>5 DEF Encrypting, Decrypting
  <2>2. Plan(mem[p], cur[p], buf[p], cmd[p] = "assume") = "skip"
    BY <1>1, <2>1 DEF Verdict
  <2> QED BY <1>3, <1>5, <2>2 DEF Plan, HeadOpens
<1> QED BY <1>1, <1>4, <1>5, LeaveFileProgress

LEMMA WriteFileProgress ==
  ASSUME TypeOK, LockInv, TargetInv, ProgressInv, NEW p \in Proc, WriteFile(p)
  PROVE  ProgressInv'
<1>1. CASE Refuse(p)
  BY <1>1, RefuseProgress DEF WriteFile
<1>2. CASE ~Refuse(p)
  <2>1. /\ pc[p] = "read" /\ Goto(p, "syncFile")
        /\ todo' = [todo EXCEPT ![p] = @ \ {cur[p]}]
        /\ content' = [content EXCEPT ![cur[p]] = Result(p)]
        /\ FilesReplaced({cur[p]}, p)
        /\ UNCHANGED <<goals, work, mem>>
    BY <1>2 DEF WriteFile
  <2>2. cur[p] \in File /\ moved'[p] = moved[p]
    BY <2>1 DEF FilesReplaced, LockInv, WorkOK
  <2>3. /\ content'[cur[p]] = Result(p)
        /\ \A g \in File \ {cur[p]} : content'[g] = content[g]
    BY <2>1, <2>2 DEF TypeOK, StoreTypes
  <2>4. cmd[p] \in Decrypting => ~Encrypted(Result(p))
    BY DEF Result, Plain, Encrypted
  <2>5. cmd[p] \in Encrypting => Encrypted(Result(p)) /\ Result(p).head = mem[p].cur
    BY DEF Result, Encryption, Cipher, Encrypted, PickMode, Encrypting, Decrypting
  <2> QED BY <2>1, <2>2, <2>3, <2>4, <2>5, LeaveFileProgress
<1> QED BY <1>1, <1>2

LEMMA SyncFileProgress ==
  ASSUME TypeOK, LockInv, ProgressInv, NEW p \in Proc, SyncFile(p)
  PROVE  ProgressInv'
<1>1. /\ pc[p] = "syncFile" /\ pc'[p] = "pass"
      /\ \A q \in Proc \ {p} : pc'[q] = pc[q]
      /\ UNCHANGED <<content, goals, work, todo, mem, moved>>
  BY DEF SyncFile, Goto, files, view, TypeOK, LocalTypes
<1> QED BY <1>1, QuietProgress

LEMMA FinishPassProgress ==
  ASSUME TypeOK, LockInv, ProgressInv, NEW p \in Proc, FinishPass(p)
  PROVE  ProgressInv'
<1>1. /\ pc[p] = "pass" /\ todo[p] = {}
      /\ UNCHANGED <<content, goals, work, mem, moved>>
  BY DEF FinishPass, tree, view
<1>2. /\ \A q \in Proc \ {p} : pc'[q] = pc[q]
      /\ pc'[p] \in {"pass", "verify", "done"}
      /\ pc'[p] = "verify" => cmd[p] = "continue" /\ todo'[p] = work[p]
      /\ pc'[p] = "done" => cmd[p] # "continue" /\ todo'[p] = {}
  BY DEF FinishPass, Goto, TypeOK, LocalTypes
<1> QED BY <1>1, <1>2, QuietProgress DEF Rekeying

\* The full check finds a file to be wholly under the current key.
LEMMA VerifyFileProgress ==
  ASSUME TypeOK, LockInv, ProgressInv, NEW p \in Proc, NEW f \in File, VerifyFile(p, f)
  PROVE  ProgressInv'
<1>1. CASE Refuse(p)
  BY <1>1, RefuseProgress DEF VerifyFile
<1>2. CASE ~Refuse(p)
  <2>1. /\ pc[p] = "verify"
        /\ Verified(mem[p], content[f])
        /\ todo' = [todo EXCEPT ![p] = @ \ {f}]
        /\ moved' = [moved EXCEPT ![p] = @ \ {f}]
        /\ UNCHANGED <<content, pc, goals, work, mem>>
    BY <1>2 DEF VerifyFile, tree
  <2>2. /\ todo'[p] = todo[p] \ {f} /\ moved'[p] = moved[p] \ {f}
        /\ cmd' = cmd /\ args' = args
    BY <2>1 DEF goals, TypeOK, LocalTypes
  <2>3. /\ cmd[p] \in Rekeying
        /\ \A g \in work[p] \ (todo[p] \cup moved[p]) : Settled(p, g)
    BY <2>1 DEF ProgressInv, ProgressOK
  <2>4. Encrypted(content[f]) => KeysOf(content[f]) = {mem[p].cur}
    <3>1. SUFFICES ASSUME Encrypted(content[f])
                   PROVE  KeysOf(content[f]) = {mem[p].cur}
      OBVIOUS
    <3>2. content[f] \in Content
      BY DEF TypeOK, StoreTypes
    <3>3. content[f].head = mem[p].cur /\ content[f].tail = mem[p].cur
      BY <2>1, <3>1 DEF Verified, ProbeHit, Opens
    <3>4. content[f].head \in Key
      BY <3>1, <3>2, CipherType
    <3> QED BY <3>3, <3>4, NamesAssumption DEF KeysOf
  <2>5. ASSUME NEW g \in work[p] \ (todo'[p] \cup moved'[p])
        PROVE  Settled(p, g)'
    <3>1. g = f \/ Settled(p, g)
      BY <2>2, <2>3, <2>5
    <3> QED BY <2>1, <2>2, <2>3, <2>4, <3>1 DEF Settled, Rekeying, Encrypting, Decrypting
  <2>6. ProgressOK(p)'
    BY <2>1, <2>2, <2>3, <2>5 DEF ProgressOK, Rekeying, Encrypting
  <2> QED BY <2>1, <2>6, HolderProgress
<1> QED BY <1>1, <1>2

LEMMA ConvergeProgress ==
  ASSUME TypeOK, LockInv, ProgressInv, NEW p \in Proc, Converge(p)
  PROVE  ProgressInv'
<1>1. pc[p] = "verify" /\ todo[p] = {}
  BY DEF Converge
<1>2. CASE cmd[p] = "continue" /\ Goto(p, "done")
           /\ UNCHANGED <<tree, user, faults, lock, goals, files, hand, view>>
  <2>1. /\ pc'[p] = "done" /\ \A q \in Proc \ {p} : pc'[q] = pc[q]
        /\ UNCHANGED <<content, work, todo, mem, moved>>
    BY <1>2 DEF Goto, tree, files, view, TypeOK, LocalTypes
  <2> QED BY <1>1, <1>2, <2>1, QuietProgress
<1>3. CASE cmd[p] = "prune" /\ Rewrite(p, [mem[p] EXCEPT !.old = {}])
  BY <1>1, <1>3, RewriteProgress DEF Encrypting
<1> QED BY <1>2, <1>3 DEF Converge

LEMMA StepProgress ==
  ASSUME TypeOK, LockInv, TargetInv, ProgressInv, NEW p \in Proc, Step(p)
  PROVE  ProgressInv'
<1>1. CASE FailFile(p) \/ Close(p)
  BY <1>1, RefuseProgress DEF FailFile, Close
<1>2. ASSUME NEW f \in File, PrecheckFile(p, f) \/ ReadFile(p, f) \/ VerifyFile(p, f)
      PROVE  ProgressInv'
  BY <1>2, PrecheckFileProgress, ReadFileProgress, VerifyFileProgress
<1> QED BY <1>1, <1>2, ExpandProgress, RegisterProgress, StartProgress,
           ScanExcludedProgress, MintProgress, SyncConfigProgress, SkipFileProgress,
           WriteFileProgress, SyncFileProgress, FinishPassProgress, ConvergeProgress
        DEF Step

\* Whoever changes a file from outside takes it out of what is claimed.
LEMMA OutsideProgress ==
  ASSUME TypeOK, ProgressInv, NEW F \in SUBSET File, FilesReplaced(F, NoProc),
         \A f \in File \ F : content'[f] = content[f],
         UNCHANGED <<pc, goals, files, mem>>
  PROVE  ProgressInv'
<1> SUFFICES ASSUME NEW p \in Proc
             PROVE  ProgressOK(p)'
  BY DEF ProgressInv
<1>1. ProgressOK(p)
  BY DEF ProgressInv
<1>2. pc[p] # "idle" => moved'[p] = moved[p] \cup F
  BY NamesAssumption DEF FilesReplaced, Active
<1>3. UNCHANGED <<cmd, args, work, todo>>
  BY DEF goals, files
<1>4. ASSUME pc[p] \notin {"idle", "opened"},
             NEW f \in work[p] \ (todo[p] \cup moved'[p])
      PROVE  Settled(p, f)'
  <2>1. Settled(p, f) /\ f \in File \ F
    BY <1>1, <1>2, <1>4 DEF ProgressOK, TypeOK, LocalTypes
  <2> QED BY <1>3, <2>1 DEF Settled
<1> QED BY <1>1, <1>3, <1>4 DEF ProgressOK

LEMMA UserProgress ==
  ASSUME TypeOK, ProgressInv, User
  PROVE  ProgressInv'
<1>1. ASSUME NEW f \in File, NEW v, Replace(f, v)
      PROVE  ProgressInv'
  <2>1. \A g \in File \ {f} : content'[g] = content[g]
    BY <1>1 DEF Replace, TypeOK, StoreTypes
  <2> QED BY <1>1, <2>1, OutsideProgress DEF Replace
<1>2. CASE CommitAll
  BY <1>2 DEF CommitAll, ProgressInv, ProgressOK, Settled, tree, local, goals, files, view
<1>3. CASE Checkout
  BY <1>3, OutsideProgress DEF Checkout, TypeOK, StoreTypes
<1> QED BY <1>1, <1>2, <1>3 DEF User, Edit, Stash, Return, Merge

LEMMA NextProgress ==
  ASSUME TypeOK, LockInv, TargetInv, ProgressInv, [Next]_vars
  PROVE  ProgressInv'
<1>1. ASSUME NEW p \in Proc, NEW k, NEW A, Open(p, k, A)
      PROVE  ProgressInv'
  <2>1. \A q \in Proc : pc[q] = "idle"
    BY <1>1, NamesAssumption DEF Open, LockFree, LockInv, WorkOK, TypeOK, LocalTypes
  <2>2. \A q \in Proc : pc'[q] \in {"idle", "opened"}
    BY <1>1, <2>1 DEF Open, Goto, TypeOK, LocalTypes
  <2> QED BY <2>2 DEF ProgressInv, ProgressOK
<1>2. ASSUME NEW p \in Proc, Interrupt(p)
      PROVE  ProgressInv'
  BY <1>2, EndProgress DEF Interrupt
<1>3. CASE PowerLoss
  <2>1. \A q \in Proc : pc'[q] = "idle"
    BY <1>3 DEF PowerLoss, End, Reset, TypeOK, LocalTypes
  <2> QED BY <2>1 DEF ProgressInv, ProgressOK
<1>4. CASE UNCHANGED vars
  BY <1>4 DEF ProgressInv, ProgressOK, Settled, vars, tree, local, goals, files, view
<1> QED BY <1>1, <1>2, <1>3, <1>4, StepProgress, UserProgress DEF Next, Invoke

------------------------------------------------------------------------------
\* The theorems.

LEMMA Progress ==
  Spec => [](TypeOK /\ LockInv /\ TargetInv /\ ProgressInv)
<1> DEFINE Inv == TypeOK /\ LockInv /\ TargetInv /\ ProgressInv
<1>1. Init => Inv
  BY InitTyped DEF Init, ProgressInv, ProgressOK
<1>2. Inv /\ [Next]_vars => Inv'
  BY NextTyped, NextTargets, NextProgress
<1> QED BY <1>1, <1>2, PTL DEF Spec

\* What encrypt and decrypt report as done is done, of every file that nobody
\* has touched since, whatever the faults: the plan of the pass skips nothing
\* that is not as the command was to make it.
THEOREM SuccessIsDone == Spec => []SuccessMeansDone
<1>1. TypeOK /\ ProgressInv => SuccessMeansDone
  <2> SUFFICES ASSUME TypeOK, ProgressInv, NEW p \in Proc, NEW f \in work[p] \ moved[p],
                      pc[p] = "done", cmd[p] \in Encrypting \cup Decrypting
               PROVE  /\ cmd[p] \in Encrypting =>
                           /\ Encrypted(content[f])
                           /\ content[f].head = mem[p].cur
                           /\ f \in mem[p].paths \cup args[p]
                      /\ cmd[p] \in Decrypting => ~Encrypted(content[f])
    BY DEF SuccessMeansDone, Succeeded
  <2>1. ProgressOK(p) /\ cmd[p] # "prune"
    BY DEF ProgressInv, Encrypting, Decrypting
  <2>2. Settled(p, f) /\ (cmd[p] \in Encrypting => f \in mem[p].paths \cup args[p])
    BY <2>1 DEF ProgressOK
  <2> QED BY <2>2 DEF Settled
<1> QED BY <1>1, Progress, PTL

\* What rekey --continue calls complete is complete: every file of it that
\* nobody has touched since is plaintext or wholly under the current key,
\* whatever a merge put behind its first unit.
THEOREM CompletionIsComplete == Spec => []CompleteMeansComplete
<1>1. TypeOK /\ ProgressInv => CompleteMeansComplete
  <2> SUFFICES ASSUME TypeOK, ProgressInv, NEW p \in Proc, NEW f \in work[p] \ moved[p],
                      pc[p] = "done", cmd[p] = "continue", Encrypted(content[f])
               PROVE  KeysOf(content[f]) = {mem[p].cur}
    BY DEF CompleteMeansComplete, Succeeded
  <2>1. ProgressOK(p)
    BY DEF ProgressInv
  <2>2. Settled(p, f)
    BY <2>1 DEF ProgressOK
  <2> QED BY <2>2 DEF Settled
<1> QED BY <1>1, Progress, PTL
==============================================================================
