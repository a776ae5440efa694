------------------------------- MODULE MCGates -------------------------------
(***************************************************************************)
(* Small instances of Gates: one file, one command that may write and two  *)
(* scans beside it.                                                        *)
(***************************************************************************)
EXTENDS Gates, MCDomainOps

CONSTANTS t3   \* looks like ciphertext, but has no exact header

MCGatesInit == MCInit /\ job = [r \in Reader |-> NoJob]

MCGatesSpec == MCGatesInit /\ [][GatesNext]_allVars

\* f1 listed in a domain with one key, and listed or excluded in one with two.
GatesConfigs ==
  {[cur |-> k1, old |-> {}, paths |-> {f1}, excl |-> {}],
   [cur |-> k1, old |-> {k2}, paths |-> {f1}, excl |-> {}],
   [cur |-> k1, old |-> {k2}, paths |-> {}, excl |-> {f1}]}

\* The last is what a line-level merge of two epochs leaves.
GatesContents == {Plain(t1), Plain(t2), Plain(t3),
                  Cipher("text", k1, t1), Cipher("text", k2, t1),
                  [Cipher("text", k1, t1) EXCEPT !.tail = k2]}

ReaderSymmetry == Permutations(Reader)
==============================================================================
