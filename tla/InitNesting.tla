----------------------------- MODULE InitNesting -----------------------------
(***************************************************************************)
(* `init' (src/ops/init.rs): creating a domain where there is none above   *)
(* or below within the repository.  Several invocations run at once, in    *)
(* directories of one tree; inside a repository they serialise on the lock *)
(* of its root and search again under it, outside of one only O_EXCL       *)
(* guards the file.  The searches visit one directory at a time.           *)
(*                                                                         *)
(* A config is whole once written and synced; commands of the new domain   *)
(* may rewrite it from that moment, whether or not the init that made it   *)
(* has ended.  Depth limits and unreadable directories make an init fail,  *)
(* which it may do anywhere.                                               *)
(***************************************************************************)
EXTENDS Naturals, FiniteSets

CONSTANTS
  Proc,       \* invocations of init
  Dir,        \* directories
  Parent,     \* [Dir -> Dir or NoDir]
  Upwards,    \* [Dir -> the directories at or above it]
  NoDir, NoProc,
  MaxScanned, \* MAX_SCANNED_ENTRIES
  MaxEdits,   \* bound: what the user and other commands do
  MaxFaults   \* bound: kills and failing calls

ASSUME NamesAssumption ==
  /\ NoDir \notin Dir
  /\ NoProc \notin Proc

\* A path is a finite chain, and leads through a child of each directory on it.
ASSUME TreeAssumption ==
  /\ Parent \in [Dir -> Dir \cup {NoDir}]
  /\ \A d \in Dir : Parent[d] # d
  /\ Upwards \in [Dir -> SUBSET Dir]
  /\ \A d \in Dir :
       Upwards[d] = {d} \cup (IF Parent[d] = NoDir THEN {} ELSE Upwards[Parent[d]])
  /\ \A d, e \in Dir : d \in Upwards[e] /\ e \in Upwards[d] => d = e
  /\ \A c, d, e \in Dir : c \in Upwards[d] /\ d \in Upwards[e] => c \in Upwards[e]
  /\ \A c, d \in Dir :
       c # d /\ c \in Upwards[d] => \E e \in Dir : Parent[e] = c /\ e \in Upwards[d]

\* Of directories on one path, one is the lowest.
ASSUME PathAssumption ==
  \A d \in Dir : \A S \in SUBSET Upwards[d] :
    S # {} => \E r \in S : \A e \in S : e \in Upwards[r]

ASSUME BoundsAssumption ==
  /\ MaxScanned \in Nat
  /\ MaxEdits \in Nat
  /\ MaxFaults \in Nat

Children(d) == {e \in Dir : Parent[e] = d}

VARIABLES
  file,    \* [Dir -> its config file]
  git,     \* directories with a .git entry
  edits,   \* what others did so far
  faults,
  pc,      \* [Proc -> what the invocation does next]
  cwd,     \* [Proc -> where it was started]
  at,      \* [Proc -> where its search upwards is]
  todo,    \* [Proc -> directories its search downwards has yet to enter]
  scanned, \* [Proc -> directories that search has examined]
  held,    \* [Proc -> the repository root whose lock it holds, or NoDir]
  maker,   \* history: [Dir -> the init that created the config, or NoProc]
  under,   \* history: [Dir -> the root locked when the config was created]
  mishaps, \* history: directories whose init could not clean up after itself
  disturbed \* history: inits at work on a config that somebody else changed

tree    == <<file, git>>
past    == <<maker, under, mishaps, disturbed>>
search  == <<at, todo, scanned>>
local   == <<pc, cwd, search, held>>
vars    == <<tree, edits, faults, local, past>>

\* "part" is created and not yet written, "rewritten" by another command.
ConfigFile == {"none", "part", "whole", "rewritten"}

Label == {"idle", "up", "down", "root", "lock", "create", "write", "syncDir"}

TypeOK ==
  /\ file \in [Dir -> ConfigFile]
  /\ git \in SUBSET Dir
  /\ edits \in Nat
  /\ faults \in Nat
  /\ pc \in [Proc -> Label]
  /\ cwd \in [Proc -> Dir \cup {NoDir}]
  /\ at \in [Proc -> Dir \cup {NoDir}]
  /\ todo \in [Proc -> SUBSET Dir]
  /\ scanned \in [Proc -> Nat]
  /\ held \in [Proc -> Dir \cup {NoDir}]
  /\ maker \in [Dir -> Proc \cup {NoProc}]
  /\ under \in [Dir -> Dir \cup {NoDir}]
  /\ mishaps \in SUBSET Dir
  /\ disturbed \in SUBSET Proc

Above(a, b) == a # b /\ a \in Upwards[b]

\* find_repo_root: the nearest directory at or above d with a .git entry.
RepoRoot(d) ==
  IF Upwards[d] \cap git = {} THEN NoDir
  ELSE CHOOSE r \in Upwards[d] \cap git :
         \A e \in Upwards[d] \cap git : e \in Upwards[r]

\* Another repository begins below a, at b or on the way to it.
Boundary(a, b) == \E e \in git : Above(a, e) /\ e \in Upwards[b]

\* A tree with or without repositories, and domains that do not nest.
Init ==
  /\ git \in SUBSET Dir
  /\ file \in [Dir -> {"none", "whole"}]
  /\ \A a, b \in Dir : file[a] # "none" /\ file[b] # "none" /\ Above(a, b) =>
                         Boundary(a, b)
  /\ edits = 0
  /\ faults = 0
  /\ pc = [p \in Proc |-> "idle"]
  /\ cwd = [p \in Proc |-> NoDir]
  /\ at = [p \in Proc |-> NoDir]
  /\ todo = [p \in Proc |-> {}]
  /\ scanned = [p \in Proc |-> 0]
  /\ held = [p \in Proc |-> NoDir]
  /\ maker = [d \in Dir |-> NoProc]
  /\ under = [d \in Dir |-> IF file[d] = "none" THEN NoDir ELSE RepoRoot(d)]
  /\ mishaps = {}
  /\ disturbed = {}

------------------------------------------------------------------------------
Goto(p, label) == pc' = [pc EXCEPT ![p] = label]

Fault == faults < MaxFaults /\ faults' = faults + 1

\* The invocation ends and releases its lock.
End(p) ==
  /\ Goto(p, "idle")
  /\ cwd' = [cwd EXCEPT ![p] = NoDir]
  /\ at' = [at EXCEPT ![p] = NoDir]
  /\ todo' = [todo EXCEPT ![p] = {}]
  /\ scanned' = [scanned EXCEPT ![p] = 0]
  /\ held' = [held EXCEPT ![p] = NoDir]

Refuse(p) == End(p) /\ UNCHANGED <<tree, edits, faults, past>>

------------------------------------------------------------------------------
\* refuse_nested_domains, run once before the password prompt and once more
\* under the lock.

\* The first of the two searches starts where the user is.
Start(p, d) ==
  /\ pc[p] = "idle"
  /\ cwd' = [cwd EXCEPT ![p] = d]
  /\ at' = [at EXCEPT ![p] = d]
  /\ Goto(p, "up")
  /\ UNCHANGED <<tree, edits, faults, todo, scanned, held, past>>

\* discover_domain looks for a config before it looks for a boundary.
StopsUp(d) == d \in git \/ Parent[d] = NoDir

SearchUp(p) ==
  /\ pc[p] = "up"
  /\ \/ file[at[p]] # "none" /\ Refuse(p)
     \/ /\ file[at[p]] = "none"
        /\ ~StopsUp(at[p])
        /\ at' = [at EXCEPT ![p] = Parent[at[p]]]
        /\ UNCHANGED <<tree, edits, faults, pc, cwd, todo, scanned, held, past>>
     \/ /\ file[at[p]] = "none"
        /\ StopsUp(at[p])
        /\ at' = [at EXCEPT ![p] = NoDir]
        /\ todo' = [todo EXCEPT ![p] = Children(cwd[p])]
        /\ scanned' = [scanned EXCEPT ![p] = 0]
        /\ Goto(p, "down")
        /\ UNCHANGED <<tree, edits, faults, cwd, held, past>>

\* find_descendant_config at one directory.
SearchDown(p, d) ==
  LET below == IF d \in git THEN {} ELSE Children(d)
  IN
  /\ pc[p] = "down"
  /\ d \in todo[p]
  /\ \/ scanned[p] >= MaxScanned /\ Refuse(p)
     \/ d \notin git /\ file[d] # "none" /\ Refuse(p)
     \/ /\ scanned[p] < MaxScanned
        /\ d \in git \/ file[d] = "none"
        /\ todo' = [todo EXCEPT ![p] = (@ \ {d}) \cup below]
        /\ scanned' = [scanned EXCEPT ![p] = @ + 1]
        /\ UNCHANGED <<tree, edits, faults, pc, cwd, at, held, past>>

FoundNothing(p) ==
  /\ pc[p] = "down"
  /\ todo[p] = {}
  /\ Goto(p, IF held[p] = NoDir THEN "root" ELSE "create")
  /\ UNCHANGED <<tree, edits, faults, cwd, search, held, past>>

------------------------------------------------------------------------------
\* create_config: after the password is typed.

\* Which root coordinates is decided before its lock is taken; `at' holds it.
FindRoot(p) ==
  LET root == RepoRoot(cwd[p])
  IN
  /\ pc[p] = "root"
  /\ at' = [at EXCEPT ![p] = root]
  /\ Goto(p, IF root = NoDir THEN "create" ELSE "lock")
  /\ UNCHANGED <<tree, edits, faults, cwd, todo, scanned, held, past>>

\* lock_dir does not wait.  A command of a domain at the root may hold it too.
LockIgnored(r) == TRUE
LockFree(r) == \A q \in Proc : held[q] # r

AfterLockCreate(p) ==
  Goto(p, "create") /\ at' = [at EXCEPT ![p] = NoDir]
AfterLockSearch(p) ==
  Goto(p, "up") /\ at' = [at EXCEPT ![p] = cwd[p]]
AfterLock(p) == AfterLockSearch(p)

Lock(p) ==
  /\ pc[p] = "lock"
  /\ \/ Refuse(p)
     \/ /\ LockFree(at[p])
        /\ held' = [held EXCEPT ![p] = at[p]]
        /\ AfterLock(p)
        /\ UNCHANGED <<tree, edits, faults, cwd, todo, scanned, past>>

\* create_exclusive: O_EXCL refuses what exists, and proves who made the rest.
TakesAny(d) == TRUE
TakesNew(d) == file[d] = "none"
Creatable(d) == TakesNew(d)

Create(p) ==
  LET d == cwd[p]
  IN
  /\ pc[p] = "create"
  /\ \/ ~Creatable(d) /\ Refuse(p)
     \/ /\ Creatable(d)
        /\ file' = [file EXCEPT ![d] = "part"]
        /\ maker' = [maker EXCEPT ![d] = p]
        /\ under' = [under EXCEPT ![d] = held[p]]
        /\ mishaps' = mishaps \ {d}
        /\ disturbed' = disturbed \ {p}
        /\ Goto(p, "write")
        /\ UNCHANGED <<git, edits, faults, cwd, search, held>>

\* The inits at work on the config of d.
Making(d) == {p \in Proc : cwd[p] = d /\ pc[p] \in {"write", "syncDir"}}

\* A failing call: the guard removes whatever has the name, or fails to.
Leave(d) == UNCHANGED file
RemoveByName(d) == file' = [file EXCEPT ![d] = "none"]
CleanUp(d) == RemoveByName(d)

Fail(p) ==
  LET d == cwd[p]
  IN
  /\ pc[p] \in {"write", "syncDir"}
  /\ \/ /\ faults + 1 <= MaxFaults
        /\ faults' = faults + 1
        /\ CleanUp(d)
        /\ disturbed' = disturbed \cup (Making(d) \ {p})
        /\ UNCHANGED mishaps
     \/ /\ faults + 2 <= MaxFaults
        /\ faults' = faults + 2
        /\ mishaps' = mishaps \cup {d}
        /\ UNCHANGED <<file, disturbed>>
  /\ End(p)
  /\ UNCHANGED <<git, edits, maker, under>>

\* The descriptor's file, which may have lost its name, is written and synced.
Write(p) ==
  LET d == cwd[p]
  IN
  /\ pc[p] = "write"
  /\ file' = [file EXCEPT ![d] = IF maker[d] = p /\ @ = "part" THEN "whole" ELSE @]
  /\ Goto(p, "syncDir")
  /\ UNCHANGED <<git, edits, faults, cwd, search, held, past>>

Succeed(p) ==
  /\ pc[p] = "syncDir"
  /\ Refuse(p)

Kill(p) ==
  /\ pc[p] # "idle"
  /\ Fault
  /\ mishaps' = IF pc[p] = "write" THEN mishaps \cup {cwd[p]} ELSE mishaps
  /\ End(p)
  /\ UNCHANGED <<tree, edits, maker, under, disturbed>>

------------------------------------------------------------------------------
\* Everybody else.

Intervene == edits < MaxEdits /\ edits' = edits + 1

\* A command of the new domain rewrites its config under the domain's lock.
RewriteConfig(d) ==
  /\ Intervene
  /\ file[d] = "whole"
  /\ LockFree(d)
  /\ file' = [file EXCEPT ![d] = "rewritten"]
  /\ disturbed' = disturbed \cup Making(d)
  /\ UNCHANGED <<git, faults, local, maker, under, mishaps>>

RemoveConfig(d) ==
  /\ Intervene
  /\ file[d] # "none"
  /\ file' = [file EXCEPT ![d] = "none"]
  /\ maker' = [maker EXCEPT ![d] = NoProc]
  /\ disturbed' = disturbed \cup Making(d)
  /\ UNCHANGED <<git, faults, local, under, mishaps>>

\* git init, git clone, a submodule.
MakeRepository(d) ==
  /\ Intervene
  /\ d \notin git
  /\ git' = git \cup {d}
  /\ UNCHANGED <<file, faults, local, past>>

------------------------------------------------------------------------------
Step(p) ==
  \/ SearchUp(p)
  \/ \E d \in Dir : SearchDown(p, d)
  \/ FoundNothing(p)
  \/ FindRoot(p)
  \/ Lock(p)
  \/ Create(p)
  \/ Write(p)
  \/ Fail(p)
  \/ Succeed(p)
  \/ Kill(p)

Others(d) == RewriteConfig(d) \/ RemoveConfig(d) \/ MakeRepository(d)

Next ==
  \/ \E p \in Proc : Step(p) \/ \E d \in Dir : Start(p, d)
  \/ \E d \in Dir : Others(d)

Spec == Init /\ [][Next]_vars

------------------------------------------------------------------------------
\* Of two configs created under the lock of one repository root, none is above
\* the other unless another repository begins between them: one search may
\* miss what another init is about to create, both may not.
NoNesting ==
  \A a, b \in Dir :
    /\ file[a] # "none" /\ file[b] # "none"
    /\ Above(a, b)
    /\ under[a] = under[b]
    /\ under[a] # NoDir
    => Boundary(a, b)

\* No init replaces or removes a config but the one it has created itself, for
\* its keys exist nowhere else.  The removal goes by name, so this is so only
\* as long as nobody else has removed or rewritten that config meanwhile.
OnlyOwnWork ==
  [][\A d \in Dir :
       file[d] # "none" /\ file'[d] # file[d] /\ edits' = edits =>
         \E p \in Making(d) : maker[d] = p \/ p \in disturbed]_vars

\* A config that was never written, which every later init refuses and no
\* command can load, has an init still at work on it, or one that was killed
\* or could not remove it.
StrandedOnlyByMishap ==
  \A d \in Dir :
    file[d] = "part" =>
      \/ d \in mishaps
      \/ maker[d] # NoProc /\ cwd[maker[d]] = d /\ pc[maker[d]] = "write"
==============================================================================
