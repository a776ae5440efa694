------------------------------- MODULE MCInit -------------------------------
(***************************************************************************)
(* Two inits in three directories, each in the one before, for TLC.        *)
(***************************************************************************)
EXTENDS InitNesting, TLC

CONSTANTS top, mid, leaf, p1, p2

Tree  == (top :> NoDir) @@ (mid :> top) @@ (leaf :> mid)
Paths == (top :> {top}) @@ (mid :> {mid, top}) @@ (leaf :> {leaf, mid, top})

Symmetric == Permutations(Proc)
==============================================================================
