------------------------------ MODULE MCIdeas ------------------------------
(* Two boards; an idea and a paste of the first.                             *)
EXTENDS Ideas

CONSTANTS home, shop, i1, p1, title1

MCBoardOf == [k \in {i1, p1} |-> home]
MCTitleOf == [p \in {p1} |-> title1]
=============================================================================
