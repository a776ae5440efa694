---------------------------- MODULE MCManagedList ----------------------------
(***************************************************************************)
(* ManagedList on a tree of three paths: d, which may be a directory, d/f  *)
(* in it, and x beside it.                                                 *)
(***************************************************************************)
EXTENDS ManagedList, TLC

CONSTANTS StartNodes  \* the trees a run starts from

MCAbove == "d" :> {} @@ "d/f" :> {"d"} @@ "x" :> {}

\* The tree that both files stand in as plaintext.
PlainTrees == {"d" :> "dir" @@ "d/f" :> "file" @@ "x" :> "file"}

MCInit == node \in StartNodes /\ Init

MCSpec == MCInit /\ [][Next]_vars
=============================================================================
