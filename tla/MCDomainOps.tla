----------------------------- MODULE MCDomainOps -----------------------------
(***************************************************************************)
(* Small instances of DomainOps: two files, f1 beside the config and f2 in *)
(* a directory of its own; an ordinary text t1 and t2, which looks like    *)
(* ciphertext to the probe; up to three domain keys.                       *)
(***************************************************************************)
EXTENDS DomainProps, TLC

CONSTANTS
  k1, k2, k3, f1, f2, t1, t2,
  StartConfigs,  \* the configs a run starts from
  StartContents  \* the contents its files start from

MCDirOf == f1 :> "root" @@ f2 :> "sub"

\* A domain before its first rotation: one file listed, or both, or one of
\* them excluded.
FreshConfigs ==
  {[cur |-> k1, old |-> {}, paths |-> {f1, f2}, excl |-> {}],
   [cur |-> k1, old |-> {}, paths |-> {f1}, excl |-> {}],
   [cur |-> k1, old |-> {}, paths |-> {f1}, excl |-> {f2}]}

\* A domain whose rotation from k2 to k1 was begun.
RotatingConfigs ==
  {[cur |-> k1, old |-> {k2}, paths |-> {f1, f2}, excl |-> {}],
   [cur |-> k1, old |-> {k2}, paths |-> {f1}, excl |-> {f2}]}

AllConfigs == FreshConfigs \cup RotatingConfigs

ListedConfigs == {[cur |-> k1, old |-> {}, paths |-> {f1, f2}, excl |-> {}]}

EditedConfigs == ListedConfigs \cup RotatingConfigs

ManyContents == {Absent, Plain(t1), Plain(t2), Cipher("text", k1, t1),
                 Cipher("binary", k2, t1)}
FewContents  == {Plain(t1), Cipher("text", k1, t1), Cipher("text", k2, t1)}
Ciphertexts  == {Cipher("text", k1, t1), Cipher("text", k2, t1)}

MCInit ==
  /\ config \in StartConfigs
  /\ content \in [File -> StartContents]
  /\ Init

MCSpec == MCInit /\ [][Next]_vars

MCPersistentSpec == MCSpec /\ Persistence

Symmetry == Permutations(Proc)
==============================================================================
