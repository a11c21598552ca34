--------------------------- MODULE MCBoardProfile ---------------------------
(* A small instance of BoardProfile for TLC.                               *)
EXTENDS BoardProfile

CONSTANTS s1
=============================================================================
