------------------------------ MODULE Account ------------------------------
(***************************************************************************)
(* What the session promises, without its calls, flags and screens: an app  *)
(* that is closed, asks to authenticate, is busy doing so, or is open to a  *)
(* user; and the users whose profile and first board are ready.  Session is *)
(* shown to implement it.                                                   *)
(***************************************************************************)
CONSTANTS Users, Nobody

VARIABLES
    phase,      \* "closed", "out", "busy" or "in"
    user,       \* who is signed in
    ready       \* users with a profile and a board, or whose sign-up broke off

vars == <<phase, user, ready>>

Init ==
    /\ phase = "closed"
    /\ user \in Users \cup {Nobody}
    /\ ready = {user} \ {Nobody}

\* An app that opens lets in the user it remembers, and asks anybody else.
Open ==
    /\ phase = "closed"
    /\ phase' = IF user = Nobody THEN "out" ELSE "in"
    /\ UNCHANGED <<user, ready>>

\* The app may end at any moment, which breaks a sign-up off.
Close ==
    /\ phase # "closed"
    /\ phase' = "closed"
    /\ ready' \in {ready} \cup {ready \cup {u} : u \in Users}
    /\ UNCHANGED user

\* Whoever signs out, or is signed out, leaves; the sign-out itself may fail.
Leave ==
    /\ phase \in {"in", "out"}
    /\ phase' = "out"
    /\ user' \in {user, Nobody}
    /\ UNCHANGED ready

Revoke ==
    /\ phase # "closed"
    /\ user' = Nobody
    /\ UNCHANGED <<phase, ready>>

Authenticate ==
    /\ phase = "out"
    /\ phase' = "busy"
    /\ UNCHANGED <<user, ready>>

\* A new account has nothing ready yet.
Identify(u) ==
    /\ phase = "busy"
    /\ user' = u
    /\ ready' \in {ready, ready \ {u}}
    /\ UNCHANGED phase

Prepare(u) ==
    /\ phase = "busy"
    /\ ready' = ready \cup {u}
    /\ UNCHANGED <<phase, user>>

\* Nobody is let in before all is ready, except a user signed out meanwhile.
Enter ==
    /\ phase = "busy"
    /\ user \in ready \cup {Nobody}
    /\ phase' = "in"
    /\ UNCHANGED <<user, ready>>

GiveUp ==
    /\ phase = "busy"
    /\ phase' = "out"
    /\ ready' \in {ready} \cup {ready \cup {u} : u \in Users}
    /\ UNCHANGED user

Next ==
    \/ Open \/ Close \/ Leave \/ Revoke \/ Authenticate \/ Enter \/ GiveUp
    \/ \E u \in Users : Identify(u) \/ Prepare(u)

Spec == Init /\ [][Next]_vars
=============================================================================
