------------------------------ MODULE MCReplace ------------------------------
(***************************************************************************)
(* Replacing one file, for TLC.                                            *)
(***************************************************************************)
EXTENDS ReplaceProps, TLC

CONSTANTS a, b, p1, p2, r1, i1, i2, i3, t1

OneRoot == [p \in Proc |-> r1]

Other == (a :> b) @@ (b :> a)

Symmetric ==
  Permutations(Inode) \cup Permutations(Text) \cup Permutations(Proc)
==============================================================================
