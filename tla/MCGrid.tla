------------------------------- MODULE MCGrid -------------------------------
(* A small instance of Grid for TLC: a board with three posts, that a failed *)
(* load makes give way to the empty one.                                   *)
EXTENDS Grid, TLC

CONSTANTS home, p1, p2, p3, v1

MCPostsOf == home :> <<p1, p2, p3>>
=============================================================================
