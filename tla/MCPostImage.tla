---------------------------- MODULE MCPostImage ----------------------------
(* Small instances of PostImage for TLC.                                   *)
EXTENDS PostImage, TLC

CONSTANTS i1, i2, g1, g2

\* Images and slots are only compared for equality.
Symmetry == Permutations(Images) \cup Permutations(GetSlots)
=============================================================================
