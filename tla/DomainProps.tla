----------------------------- MODULE DomainProps -----------------------------
(***************************************************************************)
(* What DomainOps is checked and proved for.                               *)
(***************************************************************************)
EXTENDS DomainOps

\* The fault model under which the domain keeps its promises: the machine may
\* lose power, or a run may end between a rename and its fsync, but not both;
\* and no older ciphertext comes back in the middle of a command.
FaultModel ==
  /\ PowerCanFail => ~CanKill /\ ~SyncCanFail
  /\ ~ReturnsMidRun

\* Every ciphertext in the working tree is under keys of the ring on disk and
\* at a path the config lists, so that no interruption, race or rotation
\* strands a file (rekey, encrypt_pass, prune in ops/).
NothingStranded == \A f \in File : Fits(config, f, content[f])

\* The same of the managed files a stash has taken away: prune may not drop a
\* key that one of them still needs when it comes back.
NothingStrandedAway ==
  \A f \in File : Encrypted(away[f]) => /\ f \in config.paths
                                        /\ KeysOf(away[f]) \subseteq Ring(config)

\* Whatever a power loss leaves, config and files rolled back independently,
\* the config left opens the files left (the reason config.rs gives for
\* stopping at an unconfirmed rewrite).
SurvivesPowerLoss ==
  PowerCanFail => \A c \in cfgLimbo, f \in File : \A v \in limbo[f] : Fits(c, f, v)

\* What a path reads as to a holder of the password.
ReadsAs(f) == IF Encrypted(content[f]) /\ ~(KeysOf(content[f]) \subseteq Ring(config))
              THEN Lost ELSE content[f].text

\* No step of the tool or the machine changes what a file says: an edit made
\* under a running command is never overwritten, a migration never alters
\* text, and no text becomes unreadable.
Promise == INSTANCE Vault WITH
             Reading <- Text \cup {NoText, Lost},
             says    <- [f \in File |-> ReadsAs(f)],
             hand    <- edits
KeepsPromise == Promise!Spec

\* A step that neither the user nor a fault takes: the code's own.
ByTool == UNCHANGED <<edits, faults>>

\* Whenever the tool writes ciphertext, it is whole, in the mode the config
\* asks for and under the key that is current on disk at that very moment,
\* not merely when the config was loaded (ensure_fresh).
WritesUnderCurrentKey ==
  [][\A f \in File :
       /\ ByTool
       /\ content'[f] # content[f]
       /\ Encrypted(content'[f])
       => LET t == content'[f].text
          IN  content'[f] = Cipher(PickMode(f, t), config.cur, t)]_vars

\* Only decrypt turns ciphertext into plaintext on disk: rotation migrates
\* in memory (encrypt_pass, docs/design.md point 7).
OnlyDecryptExposes ==
  [][\A f \in File :
       /\ ByTool
       /\ Encrypted(content[f])
       /\ content'[f].mode = "plain"
       => \E p \in Proc : cmd[p] \in Decrypting /\ cur[p] = f]_vars

\* An invocation whose success is about to be reported.
Succeeded(p, K) == pc[p] = "done" /\ cmd[p] \in K

\* When rekey --continue reports that the rotation is complete, every managed
\* file it processed and nobody changed since is wholly under the current key,
\* whatever the first-unit checks of the pass skipped.
CompleteMeansComplete ==
  \A p \in Proc : Succeeded(p, {"continue"}) =>
    \A f \in work[p] \ moved[p] :
      Encrypted(content[f]) => KeysOf(content[f]) = {mem[p].cur}

\* When encrypt succeeds, every file it was given is encrypted under the
\* current key at its head and listed; when decrypt succeeds, none of its
\* files is ciphertext.
SuccessMeansDone ==
  \A p \in Proc : \A f \in work[p] \ moved[p] :
    /\ Succeeded(p, Encrypting) =>
         /\ Encrypted(content[f])
         /\ content[f].head = mem[p].cur
         /\ f \in mem[p].paths \cup args[p]
    /\ Succeeded(p, Decrypting) => ~Encrypted(content[f])

\* Two invocations never work on the domain at once, so each may trust what it
\* loaded unless the user interfered.
OneAtATime == /\ Cardinality(Active) <= 1
              /\ \A p \in Active : stale[p] \/ mem[p] = config

------------------------------------------------------------------------------
\* The inductive invariant behind the theorems of DomainProofs.

\* Only the holder of the lock is at work, on files it may process.
WorkOK(p) ==
  /\ lock = p
  /\ mem[p] \in Config
  /\ Ring(mem[p]) \subseteq minted
  /\ stale[p] \/ mem[p] = config
  /\ pc[p] = "opened" \/ work[p] \cap mem[p].excl = {}
  /\ cmd[p] \in AllCommands
  /\ cmd[p] \in Rekeying => args[p] = {}
  /\ pc[p] \in {"read", "syncFile"} => cur[p] \in File

LockInv == /\ \A p \in Proc : pc[p] # "idle" => WorkOK(p)
           /\ lock # NoProc => pc[lock] # "idle"
           /\ Ring(config) \subseteq minted
           /\ Ring(commit.config) \subseteq minted
           /\ \A c \in cfgLimbo : Ring(c) \subseteq minted

\* What is written in a pass is a listed file (encrypt_pass registers first).
TargetOK(p) ==
  /\ pc[p] = "expanded" =>
       /\ todo[p] \subseteq work[p]
       /\ IF args[p] = {} THEN work[p] \subseteq Tracked(mem[p])
                          ELSE work[p] \subseteq args[p]
  /\ /\ pc[p] \in {"precheck", "syncCfg", "pass", "read", "syncFile", "verify"}
     /\ cmd[p] \notin Decrypting
     => /\ work[p] \subseteq Tracked(mem[p])
        /\ todo[p] \subseteq work[p]
        /\ pc[p] = "read" => cur[p] \in work[p]
  /\ pc[p] = "read" =>
       /\ Exists(buf[p])
       /\ cur[p] \notin moved[p] => buf[p] = content[cur[p]]

TargetInv == \A p \in Proc : TargetOK(p)

\* The config c opens all there is: the files, and what a stash holds.
Keeps(c, f, v) == /\ Fits(c, f, v)
                  /\ Encrypted(away[f]) => /\ f \in c.paths
                                           /\ KeysOf(away[f]) \subseteq Ring(c)

StoreInv ==
  \A f \in File :
    /\ Keeps(config, f, content[f])
    /\ Fits(commit.config, f, commit.content[f])
    /\ Exists(away[f]) => ~Exists(content[f]) /\ limbo[f] = {content[f]}

\* Without kills and fsync failures, only the rename in progress is not durable.
LimboInv ==
  PowerCanFail =>
    /\ config \in cfgLimbo
    /\ \A c \in cfgLimbo : c.excl = config.excl
    /\ \A f \in File : content[f] \in limbo[f]
    /\ \A c \in cfgLimbo, f \in File : \A v \in limbo[f] :
         Keeps(c, f, v) /\ v.text = content[f].text
    /\ (\A p \in Proc : pc[p] # "syncCfg") => cfgLimbo = {config}
    /\ \A f \in File : (\A p \in Proc : ~(pc[p] = "syncFile" /\ cur[p] = f))
                          => limbo[f] = {content[f]}

\* How far rekey --prune has got in showing that no old key is needed.
PruneOK(p) ==
  /\ pc[p] = "expanded" =>
       \A f \in Tracked(config) \ (work[p] \cup hidden[p]) : ~Encrypted(content[f])
  /\ pc[p] = "verify" =>
       /\ \A f \in config.excl : ~Encrypted(content[f])
       /\ \A f \in config.paths \ todo[p] :
            /\ Encrypted(content[f]) => KeysOf(content[f]) \subseteq {config.cur}
            /\ Encrypted(away[f]) => KeysOf(away[f]) \subseteq {config.cur}

PruneInv == \A p \in Proc : cmd[p] = "prune" /\ ~stale[p] => PruneOK(p)

\* What an invocation has made of a file it has dealt with.
Settled(p, f) ==
  /\ cmd[p] \in Encrypting => Encrypted(content[f]) /\ content[f].head = mem[p].cur
  /\ cmd[p] \in Decrypting => ~Encrypted(content[f])
  /\ cmd[p] = "continue" /\ pc[p] \in {"verify", "done"} =>
       (Encrypted(content[f]) => KeysOf(content[f]) = {mem[p].cur})

\* How far an invocation has got with its files.  It needs no fault model.
ProgressOK(p) ==
  /\ pc[p] \notin {"idle", "opened"} =>
       /\ \A f \in work[p] \ (todo[p] \cup moved[p]) : Settled(p, f)
       /\ cmd[p] \in Encrypting => work[p] \subseteq mem[p].paths \cup args[p]
  /\ pc[p] = "done" /\ cmd[p] # "prune" => todo[p] = {}
  /\ pc[p] \in {"precheck", "verify"} => cmd[p] \in Rekeying

ProgressInv == \A p \in Proc : ProgressOK(p)

IInv == TypeOK /\ LockInv /\ TargetInv /\ StoreInv /\ LimboInv /\ PruneInv

------------------------------------------------------------------------------
\* Liveness.

\* Something only the user can resolve keeps rekey --continue from finishing.
Obstacle ==
  \/ \E f \in config.paths : /\ Exists(content[f])
                             /\ ProbeHit(content[f])
                             /\ ~Opens(Ring(config), content[f])
  \/ \E f \in config.excl : OwnCiphertext(config, content[f])

Converged ==
  \A f \in config.paths :
    Encrypted(content[f]) => KeysOf(content[f]) = {config.cur}

\* A user who, after interruptions and refusals, keeps running
\* rekey --continue; a started invocation runs on unless it is interrupted.
Persistence ==
  \A p \in Proc : /\ WF_vars(Step(p))
                  /\ SF_vars(Open(p, "continue", {}))

PersistentSpec == Spec /\ Persistence

\* Rotation always ends with every managed file under the newest key: an
\* interruption leaves nothing that the next --continue cannot finish.
RotationFinishes == <>[](Converged \/ Obstacle)
==============================================================================
