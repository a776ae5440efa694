------------------------------ MODULE MCKeyRing ------------------------------
(***************************************************************************)
(* Wrapping, merging and unwrapping a key ring, for TLC.                   *)
(***************************************************************************)
EXTENDS KeyRing, TLC

GivenFlags == {{}, {"allow_weak"}}

Symmetric == Permutations(Key) \cup Permutations(Salt) \cup Permutations(Password)
==============================================================================
