------------------------------- MODULE MCScan -------------------------------
(***************************************************************************)
(* A ring of two keys, chunks of three cells, ciphertexts of up to three   *)
(* chunks or two lines, and a cap that one run of junk can exceed.         *)
(***************************************************************************)
EXTENDS OwnershipScan

TwoVersions == {1, 2}
SomeSizes == {1, 2, 3, 6, 8}
FewLines == 0..2
SomeRuns == {1, 9}
Generous == 200
FullOrTight == {12, Generous}
=============================================================================
