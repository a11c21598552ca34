--------------------------- MODULE MCInsideBoard ---------------------------
(* Small instances of InsideBoard for TLC.                                 *)
EXTENDS InsideBoard, TLC

CONSTANTS b1, b2, p1, s1, s2

\* Boards, posts and slots are only compared for equality: interchangeable in
\* the safety runs.
Symmetry == Permutations(Boards) \cup Permutations(Posts) \cup Permutations(Slots)
=============================================================================
