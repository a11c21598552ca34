---------------------------- MODULE Device_proofs ----------------------------
(***************************************************************************)
(* Proofs about Session and about Device, for any users.                    *)
(*                                                                          *)
(* For Session the type invariant, the four safety properties and the       *)
(* implementation of Account follow from one inductive invariant.  What     *)
(* holds of the session alone holds of the device, whose main screen        *)
(* changes nothing of the session but the saved board; and what the session *)
(* promises keeps the main screen from showing a newcomer the board of      *)
(* another user, and the process from ending without a failure.             *)
(***************************************************************************)
EXTENDS Device, TLAPS

-----------------------------------------------------------------------------
(* The session.                                                              *)

\* The chain has got past the account: the user of the call is signed in.
PastAccount ==
    \/ call.op \in {"commit", "profile", "board"}
    \/ call.op # "none" /\ call.answered /\ call.ok

\* Users who lack nothing, or of whom it is known that something broke off.
Done == (profiles \cap boards) \cup partial

\* No call is under way where the tab bar is shown, a sign-out is queued or the
\* process is down.
CallsAreAlone ==
    /\ call.op # "none" => alive /\ ~isLoggedIn /\ ~signingOut /\ call.user \in Users
    /\ isLoggedIn \/ signingOut => alive

\* The user of a chain past the account is the one signed in.
SignedInIsCaller ==
    PastAccount => \/ currentUser = call.user
                   \/ currentUser = NoUser /\ forced

\* Whoever has an account, or a name told by Apple, is done, or signing up now.
AccountsAreDone ==
    /\ accounts \cup named \subseteq Done \cup {u \in {call.user} : SignsUp(call.op)}
    /\ currentUser \in accounts \cup {NoUser}
    /\ call.op = "apple" /\ ~call.greeted => call.user \in Done
    /\ call.op = "board" => call.user \in profiles
    /\ call.op = "profile" /\ call.answered /\ call.ok => call.user \in profiles
    /\ call.op = "board" /\ call.answered /\ call.ok => call.user \in boards

\* A signed-in user out of the tab bar is in a chain, or stuck.
OutIsInChain ==
    alive /\ currentUser # NoUser /\ ~isLoggedIn => stuck \/ PastAccount

IInv ==
    /\ TypeOK
    /\ LoadingIsCall
    /\ LoggedInHasUser
    /\ CallsAreAlone
    /\ SignedInIsCaller
    /\ AccountsAreDone
    /\ OutIsInChain

-----------------------------------------------------------------------------
(* The calls.                                                                *)

LEMMA NoCallType ==
    /\ NoCall \in Call
    /\ NoCall.op = "none" /\ NoCall.user = NoUser /\ ~NoCall.answered /\ ~NoCall.ok
BY DEF NoCall, Call, Ops

LEMMA NewCallType ==
    ASSUME NEW op \in Ops, NEW u \in Users \cup {NoUser}, NEW greeted \in BOOLEAN
    PROVE  /\ NewCall(op, u, greeted) \in Call
           /\ NewCall(op, u, greeted).op = op
           /\ NewCall(op, u, greeted).user = u
           /\ NewCall(op, u, greeted).greeted = greeted
           /\ ~NewCall(op, u, greeted).answered
           /\ ~NewCall(op, u, greeted).ok
BY DEF NewCall, Call

LEMMA CallFields ==
    ASSUME call \in Call
    PROVE  /\ call.op \in Ops /\ call.user \in Users \cup {NoUser}
           /\ call.greeted \in BOOLEAN /\ call.answered \in BOOLEAN /\ call.ok \in BOOLEAN
BY DEF Call

LEMMA AnswerType ==
    ASSUME call \in Call, NEW ok \in BOOLEAN, Answer(ok)
    PROVE  /\ call' \in Call
           /\ call'.op = call.op /\ call'.user = call.user
           /\ call'.greeted = call.greeted
           /\ call'.answered = TRUE /\ call'.ok = ok
BY DEF Call, Answer

\* The next call of a chain has the user of the call before it.
LEMMA GoesOnType ==
    ASSUME call \in Call, NEW op \in Ops, GoesOn(op)
    PROVE  /\ call' \in Call
           /\ call'.op = op /\ call'.user = call.user
           /\ call'.greeted = call.greeted
           /\ ~call'.answered /\ ~call'.ok
BY CallFields, NewCallType DEF GoesOn

-----------------------------------------------------------------------------
(* The invariant is inductive: one lemma for each group of actions.          *)

LEMMA InitIInv == Init => IInv
<1> SUFFICES ASSUME Init PROVE IInv
  OBVIOUS
<1> USE UsersAssumption, NoCallType DEF Init
<1>1. TypeOK
  BY DEF TypeOK, Users
<1>2. LoadingIsCall
  BY DEF LoadingIsCall, Users
<1>3. LoggedInHasUser
  BY DEF LoggedInHasUser, Users
<1>4. CallsAreAlone
  BY DEF CallsAreAlone, Users
<1>5. SignedInIsCaller
  BY DEF SignedInIsCaller, PastAccount, Users
<1>6. AccountsAreDone
  BY DEF AccountsAreDone, Done, SignsUp, Users
<1>7. OutIsInChain
  BY DEF OutIsInChain, PastAccount, Users
<1> QED BY <1>1, <1>2, <1>3, <1>4, <1>5, <1>6, <1>7 DEF IInv

\* The process and the wrapper view.
LEMMA ProcessIInv ==
    ASSUME IInv, Launch \/ Kill \/ SignOutRuns \/ ForcedSignOut
    PROVE  IInv'
<1> USE UsersAssumption
<1>1. CASE Launch
  <2>1. TypeOK'
    BY <1>1 DEF IInv, TypeOK, Users, CallsAreAlone, Launch, histVars
  <2>2. LoadingIsCall'
    BY <1>1 DEF IInv, LoadingIsCall, TypeOK, CallsAreAlone, Launch, histVars
  <2>3. LoggedInHasUser'
    BY <1>1
       DEF IInv, LoggedInHasUser, TypeOK, CallsAreAlone, SignedInIsCaller, PastAccount,
           Users, Launch, histVars
  <2>4. CallsAreAlone'
    BY <1>1 DEF IInv, CallsAreAlone, Users, TypeOK, LoadingIsCall, Launch, histVars
  <2>5. SignedInIsCaller'
    BY <1>1 DEF IInv, SignedInIsCaller, PastAccount, CallsAreAlone, TypeOK, Launch, histVars
  <2>6. AccountsAreDone'
    BY <1>1
       DEF IInv, AccountsAreDone, Done, SignsUp, TypeOK, CallsAreAlone, Users, Launch,
           histVars
  <2>7. OutIsInChain'
    BY <1>1
       DEF IInv, OutIsInChain, PastAccount, CallsAreAlone, LoggedInHasUser, TypeOK, Launch,
           histVars
  <2> QED BY <2>1, <2>2, <2>3, <2>4, <2>5, <2>6, <2>7 DEF IInv
<1>2. CASE Kill
  <2>0. call' = NoCall /\ NoCall \in Call /\ NoCall.op = "none" /\ call.user \in Users \cup {NoUser}
    BY <1>2, NoCallType, CallFields DEF Kill, IInv, TypeOK
  <2>1. TypeOK'
    BY <1>2, <2>0 DEF IInv, TypeOK, Users, CallsAreAlone, Kill, SignsUp
  <2>2. LoadingIsCall'
    BY <1>2, <2>0 DEF IInv, LoadingIsCall, TypeOK, CallsAreAlone, Kill, SignsUp
  <2>3. LoggedInHasUser'
    BY <1>2, <2>0
       DEF IInv, LoggedInHasUser, TypeOK, CallsAreAlone, SignedInIsCaller, PastAccount,
           Users, Kill, SignsUp
  <2>4. CallsAreAlone'
    BY <1>2, <2>0 DEF IInv, CallsAreAlone, Users, TypeOK, LoadingIsCall, Kill, SignsUp
  <2>5. SignedInIsCaller'
    BY <1>2, <2>0 DEF IInv, SignedInIsCaller, PastAccount, CallsAreAlone, TypeOK, Kill, SignsUp
  <2>6. AccountsAreDone'
    BY <1>2, <2>0 DEF IInv, AccountsAreDone, Done, SignsUp, TypeOK, CallsAreAlone, Users, Kill
  <2>7. OutIsInChain'
    BY <1>2, <2>0
       DEF IInv, OutIsInChain, PastAccount, CallsAreAlone, LoggedInHasUser, TypeOK, Kill,
           SignsUp
  <2> QED BY <2>1, <2>2, <2>3, <2>4, <2>5, <2>6, <2>7 DEF IInv
<1>3. CASE SignOutRuns
  <2>1. TypeOK'
    BY <1>3 DEF IInv, TypeOK, Users, CallsAreAlone, SignOutRuns, storedVars
  <2>2. LoadingIsCall'
    BY <1>3 DEF IInv, LoadingIsCall, TypeOK, CallsAreAlone, SignOutRuns, storedVars
  <2>3. LoggedInHasUser'
    BY <1>3
       DEF IInv, LoggedInHasUser, TypeOK, CallsAreAlone, SignedInIsCaller, PastAccount,
           Users, SignOutRuns, storedVars
  <2>4. CallsAreAlone'
    BY <1>3 DEF IInv, CallsAreAlone, Users, TypeOK, LoadingIsCall, SignOutRuns, storedVars
  <2>5. SignedInIsCaller'
    BY <1>3
       DEF IInv, SignedInIsCaller, PastAccount, CallsAreAlone, TypeOK, SignOutRuns,
           storedVars
  <2>6. AccountsAreDone'
    BY <1>3
       DEF IInv, AccountsAreDone, Done, SignsUp, TypeOK, CallsAreAlone, Users, SignOutRuns,
           storedVars
  <2>7. OutIsInChain'
    BY <1>3
       DEF IInv, OutIsInChain, PastAccount, CallsAreAlone, LoggedInHasUser, TypeOK,
           SignOutRuns, storedVars
  <2> QED BY <2>1, <2>2, <2>3, <2>4, <2>5, <2>6, <2>7 DEF IInv
<1>4. CASE ForcedSignOut
  <2>1. TypeOK'
    BY <1>4 DEF IInv, TypeOK, Users, CallsAreAlone, ForcedSignOut, storedVars, stateVars
  <2>2. LoadingIsCall'
    BY <1>4 DEF IInv, LoadingIsCall, TypeOK, CallsAreAlone, ForcedSignOut, storedVars, stateVars
  <2>3. LoggedInHasUser'
    BY <1>4
       DEF IInv, LoggedInHasUser, TypeOK, CallsAreAlone, SignedInIsCaller, PastAccount,
           Users, ForcedSignOut, storedVars, stateVars
  <2>4. CallsAreAlone'
    BY <1>4
       DEF IInv, CallsAreAlone, Users, TypeOK, LoadingIsCall, ForcedSignOut, storedVars,
           stateVars
  <2>5. SignedInIsCaller'
    BY <1>4
       DEF IInv, SignedInIsCaller, PastAccount, CallsAreAlone, TypeOK, ForcedSignOut,
           storedVars, stateVars
  <2>6. AccountsAreDone'
    BY <1>4
       DEF IInv, AccountsAreDone, Done, SignsUp, TypeOK, CallsAreAlone, Users,
           ForcedSignOut, storedVars, stateVars
  <2>7. OutIsInChain'
    BY <1>4
       DEF IInv, OutIsInChain, PastAccount, CallsAreAlone, LoggedInHasUser, TypeOK,
           ForcedSignOut, storedVars, stateVars
  <2> QED BY <2>1, <2>2, <2>3, <2>4, <2>5, <2>6, <2>7 DEF IInv
<1> QED BY <1>1, <1>2, <1>3, <1>4

\* A tap that calls Firebase Auth.
LEMMA BeginIInv ==
    ASSUME IInv, NEW op \in {"signIn", "create", "apple"}, NEW u \in Users, NEW greeted \in BOOLEAN,
           Begin(NewCall(op, u, greeted)),
           IF op = "apple" THEN u \in AppleUsers /\ greeted = (u \notin named) /\ named' = named \cup {u}
                           ELSE named' = named
    PROVE  IInv'
<1> USE UsersAssumption
<1>0. /\ call' \in Call /\ call'.op = op /\ call'.user = u
      /\ ~call'.answered /\ ~call'.ok /\ call'.greeted = greeted
  <2>1. op \in Ops
    BY DEF Ops
  <2> QED BY <2>1, NewCallType DEF Begin
<1>1. TypeOK'
  BY <1>0 DEF IInv, TypeOK, Users, CallsAreAlone, Begin, OnAuthentication, histVars
<1>2. LoadingIsCall'
  BY <1>0 DEF IInv, LoadingIsCall, TypeOK, CallsAreAlone, Begin, OnAuthentication, histVars
<1>3. LoggedInHasUser'
  BY <1>0
     DEF IInv, LoggedInHasUser, TypeOK, CallsAreAlone, SignedInIsCaller, PastAccount,
         Users, Begin, OnAuthentication, histVars
<1>4. CallsAreAlone'
  BY <1>0
     DEF IInv, CallsAreAlone, Users, TypeOK, LoadingIsCall, Begin, OnAuthentication,
         histVars
<1>5. SignedInIsCaller'
  BY <1>0
     DEF IInv, SignedInIsCaller, PastAccount, CallsAreAlone, TypeOK, Begin,
         OnAuthentication, histVars
<1>6. AccountsAreDone'
  <2>1. call.op = "none"
    BY DEF IInv, LoadingIsCall, Begin, OnAuthentication
  <2>2. ~SignsUp(call.op)
    BY <2>1 DEF SignsUp
  <2>3. accounts \cup named \subseteq Done
    BY <2>2 DEF IInv, AccountsAreDone
  <2>4. Done' = Done /\ accounts' = accounts /\ currentUser' = currentUser
    BY DEF Done, Begin, histVars
  <2>5. op = "apple" => SignsUp(call'.op)
    BY <1>0 DEF SignsUp
  <2>6. accounts' \cup named' \subseteq Done' \cup {x \in {call'.user} : SignsUp(call'.op)}
    BY <1>0, <2>3, <2>4, <2>5
  <2>7. call'.op = "apple" /\ ~call'.greeted => call'.user \in Done'
    BY <1>0, <2>3, <2>4
  <2> QED BY <1>0, <2>4, <2>6, <2>7 DEF IInv, AccountsAreDone, SignsUp, Done
<1>7. OutIsInChain'
  <2>1. call.op = "none" /\ alive /\ ~isLoggedIn
    BY DEF IInv, LoadingIsCall, Begin, OnAuthentication
  <2>2. ~PastAccount
    BY <2>1 DEF PastAccount
  <2>3. currentUser # NoUser => stuck
    BY <2>1, <2>2 DEF IInv, OutIsInChain
  <2> QED BY <2>3 DEF OutIsInChain, Begin, histVars
<1> QED BY <1>1, <1>2, <1>3, <1>4, <1>5, <1>6, <1>7 DEF IInv

\* The buttons.
LEMMA ButtonIInv ==
    ASSUME IInv,
           \/ LogOut \/ SignUpInvalid \/ DismissAlert
           \/ \E u \in EmailUsers : SignIn(u) \/ SignUp(u)
           \/ \E u \in AppleUsers : SignUpWithApple(u)
    PROVE  IInv'
<1> USE UsersAssumption
<1>1. CASE LogOut
  <2>1. TypeOK'
    BY <1>1 DEF IInv, TypeOK, Users, CallsAreAlone, LogOut, storedVars, stateVars, histVars
  <2>2. LoadingIsCall'
    BY <1>1
       DEF IInv, LoadingIsCall, TypeOK, CallsAreAlone, LogOut, storedVars, stateVars,
           histVars
  <2>3. LoggedInHasUser'
    BY <1>1
       DEF IInv, LoggedInHasUser, TypeOK, CallsAreAlone, SignedInIsCaller, PastAccount,
           Users, LogOut, storedVars, stateVars, histVars
  <2>4. CallsAreAlone'
    BY <1>1
       DEF IInv, CallsAreAlone, Users, TypeOK, LoadingIsCall, LogOut, storedVars,
           stateVars, histVars
  <2>5. SignedInIsCaller'
    BY <1>1
       DEF IInv, SignedInIsCaller, PastAccount, CallsAreAlone, TypeOK, LogOut, storedVars,
           stateVars, histVars
  <2>6. AccountsAreDone'
    BY <1>1
       DEF IInv, AccountsAreDone, Done, SignsUp, TypeOK, CallsAreAlone, Users, LogOut,
           storedVars, stateVars, histVars
  <2>7. OutIsInChain'
    BY <1>1
       DEF IInv, OutIsInChain, PastAccount, CallsAreAlone, LoggedInHasUser, TypeOK, LogOut,
           storedVars, stateVars, histVars
  <2> QED BY <2>1, <2>2, <2>3, <2>4, <2>5, <2>6, <2>7 DEF IInv
<1>2. CASE SignUpInvalid \/ DismissAlert
  <2>1. TypeOK'
    BY <1>2
       DEF IInv, TypeOK, Users, CallsAreAlone, SignUpInvalid, DismissAlert,
           OnAuthentication, storedVars, histVars
  <2>2. LoadingIsCall'
    BY <1>2
       DEF IInv, LoadingIsCall, TypeOK, CallsAreAlone, SignUpInvalid, DismissAlert,
           OnAuthentication, storedVars, histVars
  <2>3. LoggedInHasUser'
    BY <1>2
       DEF IInv, LoggedInHasUser, TypeOK, CallsAreAlone, SignedInIsCaller, PastAccount,
           Users, SignUpInvalid, DismissAlert, OnAuthentication, storedVars, histVars
  <2>4. CallsAreAlone'
    BY <1>2
       DEF IInv, CallsAreAlone, Users, TypeOK, LoadingIsCall, SignUpInvalid, DismissAlert,
           OnAuthentication, storedVars, histVars
  <2>5. SignedInIsCaller'
    BY <1>2
       DEF IInv, SignedInIsCaller, PastAccount, CallsAreAlone, TypeOK, SignUpInvalid,
           DismissAlert, OnAuthentication, storedVars, histVars
  <2>6. AccountsAreDone'
    BY <1>2
       DEF IInv, AccountsAreDone, Done, SignsUp, TypeOK, CallsAreAlone, Users,
           SignUpInvalid, DismissAlert, OnAuthentication, storedVars, histVars
  <2>7. OutIsInChain'
    BY <1>2
       DEF IInv, OutIsInChain, PastAccount, CallsAreAlone, LoggedInHasUser, TypeOK,
           SignUpInvalid, DismissAlert, OnAuthentication, storedVars, histVars
  <2> QED BY <2>1, <2>2, <2>3, <2>4, <2>5, <2>6, <2>7 DEF IInv
<1>3. ASSUME NEW u \in EmailUsers, SignIn(u) \/ SignUp(u) PROVE IInv'
  BY <1>3, BeginIInv DEF SignIn, SignUp, Users
<1>4. ASSUME NEW u \in AppleUsers, SignUpWithApple(u) PROVE IInv'
  BY <1>4, BeginIInv DEF SignUpWithApple, Users
<1> QED BY <1>1, <1>2, <1>3, <1>4

\* The servers.
LEMMA AnswerIInv ==
    ASSUME IInv, AuthAnswered \/ StoreAnswered
    PROVE  IInv'
<1> USE UsersAssumption
<1>1. CASE AuthAnswered
  <2>0. /\ call' \in Call /\ call'.op = call.op /\ call'.user = call.user
        /\ call'.greeted = call.greeted /\ call'.answered = TRUE
        /\ call.op \in Ops /\ call.user \in Users
        /\ call.op \in {"signIn", "apple", "create"} /\ ~call.answered
        /\ \/ call'.ok /\ currentUser' = call.user /\ ~forced'
           \/ ~call'.ok /\ UNCHANGED <<currentUser, histVars>>
    BY <1>1, AnswerType, CallFields DEF IInv, TypeOK, CallsAreAlone, AuthAnswered, Waiting, Ops
  <2>1. TypeOK'
    BY <1>1, <2>0
       DEF IInv, TypeOK, Users, CallsAreAlone, AuthAnswered, Waiting, stateVars, histVars
  <2>2. LoadingIsCall'
    BY <1>1, <2>0
       DEF IInv, LoadingIsCall, TypeOK, CallsAreAlone, AuthAnswered, Waiting, stateVars,
           histVars
  <2>3. LoggedInHasUser'
    BY <1>1, <2>0
       DEF IInv, LoggedInHasUser, TypeOK, CallsAreAlone, SignedInIsCaller, PastAccount,
           Users, AuthAnswered, Waiting, stateVars, histVars
  <2>4. CallsAreAlone'
    BY <1>1, <2>0
       DEF IInv, CallsAreAlone, Users, TypeOK, LoadingIsCall, AuthAnswered, Waiting,
           stateVars, histVars
  <2>5. SignedInIsCaller'
    BY <1>1, <2>0
       DEF IInv, SignedInIsCaller, PastAccount, CallsAreAlone, TypeOK, AuthAnswered,
           Waiting, stateVars, histVars
  <2>6. AccountsAreDone'
    BY <1>1, <2>0
       DEF IInv, AccountsAreDone, Done, SignsUp, TypeOK, CallsAreAlone, Users,
           AuthAnswered, Waiting, stateVars, histVars
  <2>7. OutIsInChain'
    BY <1>1, <2>0
       DEF IInv, OutIsInChain, PastAccount, CallsAreAlone, LoggedInHasUser, TypeOK,
           AuthAnswered, Waiting, stateVars, histVars
  <2> QED BY <2>1, <2>2, <2>3, <2>4, <2>5, <2>6, <2>7 DEF IInv
<1>2. CASE StoreAnswered
  <2>0. /\ call' \in Call /\ call'.op = call.op /\ call'.user = call.user
        /\ call'.greeted = call.greeted /\ call'.answered = TRUE
        /\ call.op \in Ops /\ call.user \in Users
    BY <1>2, AnswerType, CallFields DEF IInv, TypeOK, CallsAreAlone, StoreAnswered, Waiting, Ops
  <2>1. TypeOK'
    BY <1>2, <2>0
       DEF IInv, TypeOK, Users, CallsAreAlone, StoreAnswered, Waiting, stateVars, histVars
  <2>2. LoadingIsCall'
    BY <1>2, <2>0
       DEF IInv, LoadingIsCall, TypeOK, CallsAreAlone, StoreAnswered, Waiting, stateVars,
           histVars
  <2>3. LoggedInHasUser'
    BY <1>2, <2>0
       DEF IInv, LoggedInHasUser, TypeOK, CallsAreAlone, SignedInIsCaller, PastAccount,
           Users, StoreAnswered, Waiting, stateVars, histVars
  <2>4. CallsAreAlone'
    BY <1>2, <2>0
       DEF IInv, CallsAreAlone, Users, TypeOK, LoadingIsCall, StoreAnswered, Waiting,
           stateVars, histVars
  <2>5. SignedInIsCaller'
    BY <1>2, <2>0
       DEF IInv, SignedInIsCaller, PastAccount, CallsAreAlone, TypeOK, StoreAnswered,
           Waiting, stateVars, histVars
  <2>6. AccountsAreDone'
    <3>1. PICK ok \in BOOLEAN :
              /\ call'.ok = ok
              /\ profiles' = profiles \cup {u \in {call.user} : ok /\ call.op = "profile"}
              /\ boards' = boards \cup {u \in {call.user} : ok /\ call.op = "board"}
      BY <1>2, AnswerType DEF StoreAnswered, IInv, TypeOK
    <3>2. Done \subseteq Done'
      BY <1>2, <3>1 DEF StoreAnswered, Done, histVars
    <3>3. UNCHANGED <<accounts, named, currentUser>>
      BY <1>2 DEF StoreAnswered
    <3>4. accounts' \cup named' \subseteq Done' \cup {u \in {call'.user} : SignsUp(call'.op)}
      BY <2>0, <3>2, <3>3 DEF IInv, AccountsAreDone, SignsUp
    <3> QED
      BY <2>0, <3>1, <3>2, <3>3, <3>4 DEF IInv, AccountsAreDone
  <2>7. OutIsInChain'
    BY <1>2, <2>0
       DEF IInv, OutIsInChain, PastAccount, CallsAreAlone, LoggedInHasUser, TypeOK,
           StoreAnswered, Waiting, stateVars, histVars
  <2> QED BY <2>1, <2>2, <2>3, <2>4, <2>5, <2>6, <2>7 DEF IInv
<1> QED BY <1>1, <1>2

\* A chain fails.
LEMMA FailedIInv ==
    ASSUME IInv, NEW op \in Ops, Reported(op), op # "none",
           Failed, ~call.ok
    PROVE  IInv'
<1> USE UsersAssumption
<1>0. /\ call' \in Call /\ call'.op = "none" /\ call.user \in Users /\ call.op = op
  BY NoCallType DEF IInv, TypeOK, CallsAreAlone, Reported, Failed
<1>1. TypeOK'
  BY <1>0 DEF IInv, TypeOK, Users, CallsAreAlone, Reported, Failed, SignsUp
<1>2. LoadingIsCall'
  BY <1>0 DEF IInv, LoadingIsCall, TypeOK, CallsAreAlone, Reported, Failed, SignsUp
<1>3. LoggedInHasUser'
  BY <1>0
     DEF IInv, LoggedInHasUser, TypeOK, CallsAreAlone, SignedInIsCaller, PastAccount,
         Users, Reported, Failed, SignsUp
<1>4. CallsAreAlone'
  BY <1>0 DEF IInv, CallsAreAlone, Users, TypeOK, LoadingIsCall, Reported, Failed, SignsUp
<1>5. SignedInIsCaller'
  BY <1>0
     DEF IInv, SignedInIsCaller, PastAccount, CallsAreAlone, TypeOK, Reported, Failed,
         SignsUp
<1>6. AccountsAreDone'
  BY <1>0
     DEF IInv, AccountsAreDone, Done, SignsUp, TypeOK, CallsAreAlone, Users, Reported,
         Failed
<1>7. OutIsInChain'
  BY <1>0
     DEF IInv, OutIsInChain, PastAccount, CallsAreAlone, LoggedInHasUser, TypeOK, Reported,
         Failed, SignsUp
<1> QED BY <1>1, <1>2, <1>3, <1>4, <1>5, <1>6, <1>7 DEF IInv

\* A chain ends in the tab bar.
LEMMA EnteredIInv ==
    ASSUME IInv, NEW op \in Ops, Reported(op), op # "none",
           Entered, saved' \in Users \cup {NoUser}, PastAccount, SignsUp(op) => call.user \in Done
    PROVE  IInv'
<1> USE UsersAssumption
<1>0. /\ call' \in Call /\ call'.op = "none" /\ call.user \in Users /\ call.op = op
  BY NoCallType DEF IInv, TypeOK, CallsAreAlone, Reported, Entered
<1>1. TypeOK'
  BY <1>0 DEF IInv, TypeOK, Users, CallsAreAlone, Reported, Entered, SignsUp, PastAccount
<1>2. LoadingIsCall'
  BY <1>0
     DEF IInv, LoadingIsCall, TypeOK, CallsAreAlone, Reported, Entered, SignsUp,
         PastAccount
<1>3. LoggedInHasUser'
  BY <1>0
     DEF IInv, LoggedInHasUser, TypeOK, CallsAreAlone, SignedInIsCaller, PastAccount,
         Users, Reported, Entered, SignsUp
<1>4. CallsAreAlone'
  BY <1>0
     DEF IInv, CallsAreAlone, Users, TypeOK, LoadingIsCall, Reported, Entered, SignsUp,
         PastAccount
<1>5. SignedInIsCaller'
  BY <1>0
     DEF IInv, SignedInIsCaller, PastAccount, CallsAreAlone, TypeOK, Reported, Entered,
         SignsUp
<1>6. AccountsAreDone'
  BY <1>0
     DEF IInv, AccountsAreDone, Done, SignsUp, TypeOK, CallsAreAlone, Users, Reported,
         Entered, PastAccount
<1>7. OutIsInChain'
  BY <1>0
     DEF IInv, OutIsInChain, PastAccount, CallsAreAlone, LoggedInHasUser, TypeOK, Reported,
         Entered, SignsUp
<1> QED BY <1>1, <1>2, <1>3, <1>4, <1>5, <1>6, <1>7 DEF IInv

\* A chain goes on.
LEMMA GoesOnIInv ==
    ASSUME IInv, NEW op \in Ops, Reported(op), op # "none",
           NEW next \in {"commit", "profile", "board"}, GoesOn(next), SignsUp(op), PastAccount,
           next = "board" => call.user \in profiles
    PROVE  IInv'
<1> USE UsersAssumption
<1>0. /\ call' \in Call /\ call'.op = next /\ call'.user = call.user
      /\ ~call'.answered /\ ~call'.ok /\ call.user \in Users /\ call.op = op
  BY GoesOnType DEF IInv, TypeOK, CallsAreAlone, Reported, Ops
<1>1. TypeOK'
  BY <1>0
     DEF IInv, TypeOK, Users, CallsAreAlone, Reported, GoesOn, stateVars, SignsUp,
         PastAccount
<1>2. LoadingIsCall'
  BY <1>0
     DEF IInv, LoadingIsCall, TypeOK, CallsAreAlone, Reported, GoesOn, stateVars, SignsUp,
         PastAccount
<1>3. LoggedInHasUser'
  BY <1>0
     DEF IInv, LoggedInHasUser, TypeOK, CallsAreAlone, SignedInIsCaller, PastAccount,
         Users, Reported, GoesOn, stateVars, SignsUp
<1>4. CallsAreAlone'
  BY <1>0
     DEF IInv, CallsAreAlone, Users, TypeOK, LoadingIsCall, Reported, GoesOn, stateVars,
         SignsUp, PastAccount
<1>5. SignedInIsCaller'
  BY <1>0
     DEF IInv, SignedInIsCaller, PastAccount, CallsAreAlone, TypeOK, Reported, GoesOn,
         stateVars, SignsUp
<1>6. AccountsAreDone'
  BY <1>0
     DEF IInv, AccountsAreDone, Done, SignsUp, TypeOK, CallsAreAlone, Users, Reported,
         GoesOn, stateVars, PastAccount
<1>7. OutIsInChain'
  BY <1>0
     DEF IInv, OutIsInChain, PastAccount, CallsAreAlone, LoggedInHasUser, TypeOK, Reported,
         GoesOn, stateVars, SignsUp
<1> QED BY <1>1, <1>2, <1>3, <1>4, <1>5, <1>6, <1>7 DEF IInv

\* The completions.
LEMMA ReportIInv ==
    ASSUME IInv, Reports
    PROVE  IInv'
<1> USE DEF Ops, SignsUp
<1>1. call.ok /\ call.answered /\ call.op # "none" => PastAccount
  BY DEF PastAccount
<1>2. ~SignsUp(call.op) /\ currentUser \in Users => currentUser \in Done
  BY UsersAssumption DEF IInv, AccountsAreDone
<1>3. CASE SignInReported
  BY <1>3, <1>1, <1>2, FailedIInv, EnteredIInv, GoesOnIInv
     DEF SignInReported, Reported, IInv, TypeOK, AccountsAreDone, Done
<1>4. CASE CreateReported
  BY <1>4, <1>1, <1>2, FailedIInv, EnteredIInv, GoesOnIInv
     DEF CreateReported, Reported, IInv, TypeOK, AccountsAreDone, Done
<1>5. CASE CommitReported
  BY <1>5, <1>1, <1>2, FailedIInv, EnteredIInv, GoesOnIInv
     DEF CommitReported, Reported, IInv, TypeOK, AccountsAreDone, Done
<1>6. CASE AppleReported
  BY <1>6, <1>1, <1>2, FailedIInv, EnteredIInv, GoesOnIInv
     DEF AppleReported, Reported, IInv, TypeOK, AccountsAreDone, Done
<1>7. CASE ProfileReported
  BY <1>7, <1>1, <1>2, FailedIInv, EnteredIInv, GoesOnIInv
     DEF ProfileReported, Reported, IInv, TypeOK, AccountsAreDone, Done
<1>8. CASE BoardReported
  BY <1>8, <1>1, <1>2, FailedIInv, EnteredIInv, GoesOnIInv
     DEF BoardReported, Reported, IInv, TypeOK, AccountsAreDone, Done
<1> QED BY <1>3, <1>4, <1>5, <1>6, <1>7, <1>8 DEF Reports

LEMMA StepIInv == IInv /\ [Next]_vars => IInv'
<1> SUFFICES ASSUME IInv, [Next]_vars PROVE IInv'
  OBVIOUS
<1>1. CASE Next
  BY <1>1, ProcessIInv, ButtonIInv, AnswerIInv, ReportIInv DEF Next
<1>2. CASE UNCHANGED vars
  BY <1>2
     DEF vars, storedVars, stateVars, histVars, Call, SignsUp, IInv, TypeOK, LoadingIsCall,
         LoggedInHasUser, CallsAreAlone, SignedInIsCaller,
           PastAccount, AccountsAreDone, Done, OutIsInChain
<1> QED BY <1>1, <1>2

LEMMA AlwaysIInv == Spec => []IInv
BY InitIInv, StepIInv, PTL DEF Spec

-----------------------------------------------------------------------------
(* The theorems.                                                             *)

\* The variables of the view model and of Firebase have their types.
THEOREM TypeCorrect == Spec => []TypeOK
<1>1. IInv => TypeOK
  BY DEF IInv
<1> QED BY <1>1, AlwaysIInv, PTL

\* The toggles of isLoading pair up on every path.
THEOREM LoadingIsCallAlways == Spec => []LoadingIsCall
<1>1. IInv => LoadingIsCall
  BY DEF IInv
<1> QED BY <1>1, AlwaysIInv, PTL

\* The tab bar is shown to a signed-in user, unless Firebase Auth signed out.
THEOREM LoggedInHasUserAlways == Spec => []LoggedInHasUser
<1>1. IInv => LoggedInHasUser
  BY DEF IInv
<1> QED BY <1>1, AlwaysIInv, PTL

\* Whoever is let in has a profile and a board, or a sign-up that broke off.
THEOREM LoggedInIsInitialisedAlways == Spec => []LoggedInIsInitialised
<1>1. IInv => LoggedInIsInitialised
  BY DEF IInv, CallsAreAlone, AccountsAreDone, Done, SignsUp, LoggedInIsInitialised
<1> QED BY <1>1, AlwaysIInv, PTL

\* Only a failed sign-up or sign-out keeps a signed-in user out.
THEOREM OutOnlyAfterFailureAlways == Spec => []OutOnlyAfterFailure
<1>1. IInv => OutOnlyAfterFailure
  BY DEF IInv, OutIsInChain, PastAccount, OutOnlyAfterFailure
<1> QED BY <1>1, AlwaysIInv, PTL

-----------------------------------------------------------------------------
(* Session implements Account.                                               *)

\* Who is ready, in the terms of Account, is who is done.
LEMMA ReadyStep ==
    ASSUME NEW P, NEW B, NEW Q, NEW P1, NEW B1, NEW Q1, NEW u,
           P1 \in {P, P \cup {u}}, B1 \in {B, B \cup {u}}, Q1 \in {Q, Q \cup {u}}
    PROVE  (P1 \cap B1) \cup Q1 \in {(P \cap B) \cup Q, ((P \cap B) \cup Q) \cup {u}}
<1>1. CASE (P1 \cap B1) \cup Q1 \subseteq (P \cap B) \cup Q
  BY <1>1
<1>2. CASE ~((P1 \cap B1) \cup Q1 \subseteq (P \cap B) \cup Q)
  BY <1>2
<1> QED BY <1>1, <1>2

\* Starting, ending, signing out.
LEMMA ProcessKeepsPromise ==
    ASSUME IInv, Launch \/ Kill \/ SignOutRuns \/ ForcedSignOut
    PROVE  Promise!Next
<1> USE DEF phase
<1>1. CASE Launch
  <2>1. Promise!Open
    BY <1>1, UsersAssumption
       DEF Launch, histVars, Promise!Open, IInv, TypeOK, CallsAreAlone, LoadingIsCall
  <2> QED BY <2>1 DEF Promise!Next
<1>2. CASE Kill
  <2>1. call.user \in Users \/ ~SignsUp(call.op)
    BY DEF IInv, CallsAreAlone, SignsUp
  <2>2. CASE SignsUp(call.op)
    <3>1. (profiles' \cap boards') \cup partial' \in
            {(profiles \cap boards) \cup partial,
             ((profiles \cap boards) \cup partial) \cup {call.user}}
      <4>1. partial' = partial \cup {call.user}
        BY <1>2, <2>2 DEF Kill
      <4>2. profiles' \in {profiles, profiles \cup {call.user}}
        BY <1>2 DEF Kill
      <4>3. boards' \in {boards, boards \cup {call.user}}
        BY <1>2 DEF Kill
      <4> QED BY <4>1, <4>2, <4>3, ReadyStep
    <3> QED BY <1>2, <2>1, <2>2, <3>1 DEF Kill, Promise!Close, Promise!Next
  <2>3. CASE ~SignsUp(call.op)
    <3>1. call.op # "profile" /\ call.op # "board"
      BY <2>3 DEF SignsUp
    <3>2. profiles' = profiles /\ boards' = boards /\ partial' = partial
      BY <1>2, <2>3, <3>1 DEF Kill
    <3> QED BY <1>2, <3>2 DEF Kill, Promise!Close, Promise!Next
  <2> QED BY <2>2, <2>3
<1>3. CASE SignOutRuns
  <2>1. alive /\ ~isLoading
    BY <1>3 DEF SignOutRuns, IInv, CallsAreAlone, LoadingIsCall
  <2> QED BY <1>3, <2>1 DEF SignOutRuns, storedVars, Promise!Leave, Promise!Next
<1>4. CASE ForcedSignOut
  BY <1>4 DEF ForcedSignOut, storedVars, stateVars, Promise!Revoke, Promise!Next
<1> QED BY <1>1, <1>2, <1>3, <1>4

\* The buttons: a call begins, or nothing that Account knows of happens.
LEMMA ButtonsKeepPromise ==
    ASSUME IInv,
           \/ LogOut \/ SignUpInvalid \/ DismissAlert
           \/ \E u \in EmailUsers : SignIn(u) \/ SignUp(u)
           \/ \E u \in AppleUsers : SignUpWithApple(u)
    PROVE  Promise!Next \/ UNCHANGED Promise!vars
<1> USE DEF phase
<1>1. CASE LogOut \/ SignUpInvalid \/ DismissAlert
  BY <1>1
     DEF LogOut, SignUpInvalid, DismissAlert, OnAuthentication, storedVars, stateVars,
         histVars, Promise!vars
<1>2. ASSUME NEW new, Begin(new) PROVE Promise!Next
  BY <1>2
     DEF Begin, OnAuthentication, histVars, IInv, TypeOK, Promise!Authenticate, Promise!Next
<1> QED BY <1>1, <1>2 DEF SignIn, SignUp, SignUpWithApple

\* The servers: a user is identified, or a profile or a board is prepared.
LEMMA AnswersKeepPromise ==
    ASSUME IInv, AuthAnswered \/ StoreAnswered
    PROVE  Promise!Next \/ UNCHANGED Promise!vars
<1> USE DEF phase
<1>1. call.user \in Users /\ isLoading /\ alive /\ ~isLoggedIn
  BY DEF IInv, CallsAreAlone, LoadingIsCall, AuthAnswered, StoreAnswered, Waiting
<1>2. CASE AuthAnswered
  <2>1. UNCHANGED <<profiles, boards, alive, stateVars>>
    BY <1>2 DEF AuthAnswered
  <2>2. CASE UNCHANGED <<currentUser, histVars>>
    BY <2>1, <2>2 DEF histVars, stateVars, Promise!vars
  <2>3. CASE /\ currentUser' = call.user
             /\ partial' = partial \ {u \in {call.user} : call.op = "create"}
    <3>1. (profiles' \cap boards') \cup partial' \in
            {(profiles \cap boards) \cup partial,
             ((profiles \cap boards) \cup partial) \ {call.user}}
      <4>1. CASE call.user \in profiles \cap boards \/ call.op # "create"
        BY <2>1, <2>3, <4>1
      <4>2. CASE call.user \notin profiles \cap boards /\ call.op = "create"
        BY <2>1, <2>3, <4>2
      <4> QED BY <4>1, <4>2
    <3> QED BY <1>1, <2>1, <2>3, <3>1 DEF stateVars, Promise!Identify, Promise!Next
  <2> QED BY <1>2, <2>2, <2>3 DEF AuthAnswered
<1>3. CASE StoreAnswered
  <2>1. UNCHANGED <<currentUser, alive, stateVars, partial>>
    BY <1>3 DEF StoreAnswered, histVars
  <2>2. /\ profiles' \in {profiles, profiles \cup {call.user}}
        /\ boards' \in {boards, boards \cup {call.user}}
    BY <1>3 DEF StoreAnswered
  <2>3. (profiles' \cap boards') \cup partial' \in
          {(profiles \cap boards) \cup partial,
           ((profiles \cap boards) \cup partial) \cup {call.user}}
    BY <2>1, <2>2, ReadyStep
  <2> QED BY <1>1, <2>1, <2>3 DEF stateVars, Promise!Prepare, Promise!Next, Promise!vars
<1> QED BY <1>2, <1>3

\* The completions: a chain goes on, gives up, or lets its user in.
LEMMA ReportsKeepPromise ==
    ASSUME IInv, IInv', Reports
    PROVE  Promise!Next \/ UNCHANGED Promise!vars
<1> USE DEF phase
<1>1. PICK op \in Ops : Reported(op) /\ op # "none"
  BY DEF Reports, SignInReported, CreateReported, CommitReported, AppleReported,
         ProfileReported, BoardReported, Ops
<1>2. /\ call.user \in Users /\ isLoading /\ ~isLoggedIn /\ alive /\ alive'
      /\ UNCHANGED <<currentUser, profiles, boards>>
  BY <1>1 DEF Reported, IInv, CallsAreAlone, LoadingIsCall
<1>3. CASE Failed
  <2>1. partial' \in {partial, partial \cup {call.user}}
    BY <1>3 DEF Failed
  <2>2. (profiles' \cap boards') \cup partial' \in
          {(profiles \cap boards) \cup partial,
           ((profiles \cap boards) \cup partial) \cup {call.user}}
    BY <1>2, <2>1, ReadyStep
  <2> QED BY <1>2, <1>3, <2>2 DEF Failed, IInv, TypeOK, Promise!GiveUp, Promise!Next
<1>4. CASE Entered
  <2>1. currentUser \in ((profiles \cap boards) \cup partial) \cup {NoUser}
    <3>1. isLoggedIn' /\ partial' = partial
      BY <1>2, <1>4 DEF Entered
    <3>2. LoggedInIsInitialised'
      BY DEF IInv, CallsAreAlone, AccountsAreDone, Done, SignsUp, LoggedInIsInitialised
    <3> QED BY <1>2, <3>1, <3>2 DEF LoggedInIsInitialised
  <2> QED BY <1>2, <1>4, <2>1 DEF Entered, Promise!Enter, Promise!Next
<1>5. ASSUME NEW next, GoesOn(next) PROVE UNCHANGED Promise!vars
  BY <1>2, <1>5 DEF GoesOn, stateVars, Promise!vars
<1> QED
  BY <1>3, <1>4, <1>5
     DEF Reports, SignInReported, CreateReported, CommitReported, AppleReported,
         ProfileReported, BoardReported

LEMMA InitKeepsPromise == Init => Promise!Init
BY UsersAssumption DEF Init, Promise!Init, phase

LEMMA StepKeepsPromise == IInv /\ IInv' /\ [Next]_vars => [Promise!Next]_(Promise!vars)
<1> SUFFICES ASSUME IInv, IInv', [Next]_vars
             PROVE  Promise!Next \/ UNCHANGED Promise!vars
  OBVIOUS
<1>1. CASE Next
  BY <1>1, ProcessKeepsPromise, ButtonsKeepPromise, AnswersKeepPromise, ReportsKeepPromise
     DEF Next
<1>2. CASE UNCHANGED vars
  BY <1>2 DEF vars, storedVars, stateVars, histVars, phase, Promise!vars
<1> QED BY <1>1, <1>2

\* The calls, flags and screens of the session never show more than the six
\* ways through an account that Account allows.
THEOREM SessionImplementsAccount == Spec => ImplementsAccount
BY InitKeepsPromise, StepKeepsPromise, AlwaysIInv, PTL DEF Spec, ImplementsAccount, Promise!Spec

-----------------------------------------------------------------------------
(* The device.                                                               *)

\* A newcomer's screen, loads and saved board are all the newcomer's.
NewcomerIsAlone ==
    newcomer # NoUser =>
        LET scr == model["screen"] IN
        /\ isLoggedIn /\ currentUser \in {newcomer, NoUser}
        /\ saved = newcomer
        /\ scr.board.owner \in {newcomer, NoUser}
        /\ scr.list \in {newcomer, NoUser}
        /\ scr.load # NoLoad =>
               scr.load.user = newcomer /\ scr.load.captured.owner = newcomer

\* Without a failure every board has a uid, and every load finds one.
LoadsFind(mod) ==
    mod.load # NoLoad =>
        /\ mod.load.captured = NoBoard \/ mod.load.captured.uid
        /\ mod.load.user \in accounts
        /\ mod.load.user \in boards \cup partial

BoardsHaveUid ==
    ~emptied =>
        /\ ~doomed
        /\ saved = NoUser \/ savedUid
        /\ \A m \in Models : LoadsFind(model[m])

DInv ==
    /\ IInv
    /\ DeviceTypeOK
    /\ NewcomerIsAlone
    /\ BoardsHaveUid

-----------------------------------------------------------------------------
(* Boards and view models.                                                   *)

LEMMA BoardFields ==
    ASSUME NEW b \in BoardVals
    PROVE  /\ b.owner \in Users \cup {NoUser} /\ b.uid \in BOOLEAN
           /\ b = Board(b.owner, b.uid)
           /\ b = NoBoard <=> b.owner = NoUser
<1>1. CASE b = NoBoard
  BY <1>1 DEF NoBoard, Board
<1>2. CASE b \in [owner : Users, uid : BOOLEAN]
  BY <1>2, UsersAssumption DEF NoBoard, Board
<1> QED BY <1>1, <1>2 DEF BoardVals

LEMMA BoardType ==
    /\ NoBoard \in BoardVals
    /\ \A u \in Users, uid \in BOOLEAN :
           /\ Board(u, uid) \in BoardVals /\ Board(u, uid) # NoBoard
           /\ Board(u, uid).owner = u /\ Board(u, uid).uid = uid
    /\ NoBoard.owner = NoUser /\ ~NoBoard.uid
BY UsersAssumption DEF BoardVals, NoBoard, Board

LEMMA NoModelType ==
    /\ NoModel \in Model /\ NoModel.board = NoBoard /\ NoModel.load = NoLoad
    /\ NoModel.list = NoUser
BY MaxFetchesAssumption, BoardType DEF NoModel, Model

LEMMA LoadFields ==
    ASSUME NEW mod \in Model, mod.load # NoLoad
    PROVE  mod.load.user \in Users /\ mod.load.captured \in BoardVals
BY DEF Model

\* The fields the main screen changes, each within its type.
LEMMA ModelFields ==
    ASSUME NEW mod \in Model, NEW b \in BoardVals, NEW u \in Users \cup {NoUser},
           NEW n \in 0..MaxFetches
    PROVE  /\ [mod EXCEPT !.load = NoLoad, !.list = u, !.board = b, !.fetches = n] \in Model
           /\ [mod EXCEPT !.board = b, !.fetches = n] \in Model
           /\ [mod EXCEPT !.fetches = n, !.usable = TRUE] \in Model
BY DEF Model

LEMMA FetchCounts ==
    ASSUME NEW mod \in Model
    PROVE  /\ mod.fetches < MaxFetches => mod.fetches + 1 \in 0..MaxFetches
           /\ mod.fetches > 0 => mod.fetches - 1 \in 0..MaxFetches
<1>1. mod.fetches \in 0..MaxFetches
  BY DEF Model
<1> QED BY <1>1, MaxFetchesAssumption

LEMMA LoadUserDataType ==
    ASSUME NEW mod \in Model, NEW u \in Users \cup {NoUser}, NEW b \in BoardVals
    PROVE  /\ LoadUserData(mod, u, b) \in Model
           /\ LoadUserData(mod, u, b).board = mod.board
           /\ LoadUserData(mod, u, b).list = mod.list
           /\ u = NoUser => LoadUserData(mod, u, b).load = mod.load
           /\ u # NoUser => LoadUserData(mod, u, b).load = [user |-> u, captured |-> b]
BY DEF LoadUserData, Model

LEMMA NewLoad ==
    ASSUME NEW u \in Users, NEW b
    PROVE  [user |-> u, captured |-> b] # NoLoad
BY UsersAssumption DEF NoLoad

-----------------------------------------------------------------------------
(* What the main screen needs to know of a step of the session.              *)

\* What is stored is not lost, but for the mark of a user without an account.
Keeps ==
    /\ accounts \subseteq accounts' /\ boards \subseteq boards'
    /\ \A u \in accounts : u \in partial => u \in partial'

\* A user who is shown the tab bar stays the same, or nobody.
StaysOrGoes == isLoggedIn /\ isLoggedIn' => currentUser' \in {currentUser, NoUser}

\* A board is saved by the sign-up that opens the tab bar with it.
SavesOnSigningUp ==
    IF call.op = "board" /\ isLoggedIn'
    THEN ~isLoggedIn /\ saved' = call.user /\ call.user \in Users
         /\ currentUser' \in {call.user, NoUser}
    ELSE saved' = saved

LEMMA SessionStep ==
    ASSUME IInv, Next
    PROVE  Keeps /\ StaysOrGoes /\ SavesOnSigningUp
<1> USE DEF Keeps, StaysOrGoes, SavesOnSigningUp
<1>0. /\ call.op # "none" => alive /\ ~isLoggedIn /\ ~signingOut /\ call.user \in Users
      /\ isLoggedIn => alive
      /\ isLoggedIn \in BOOLEAN
  BY DEF IInv, CallsAreAlone, TypeOK
<1>1. CASE Launch \/ Kill \/ SignOutRuns \/ ForcedSignOut
  BY <1>0, <1>1 DEF Launch, Kill, SignOutRuns, ForcedSignOut, histVars, storedVars, stateVars
<1>2. CASE LogOut \/ SignUpInvalid \/ DismissAlert
  BY <1>0, <1>2
     DEF LogOut, SignUpInvalid, DismissAlert, OnAuthentication, storedVars, stateVars, histVars
<1>3. ASSUME NEW new, Begin(new) PROVE Keeps /\ StaysOrGoes /\ SavesOnSigningUp
  BY <1>0, <1>3 DEF Begin, OnAuthentication, histVars
<1>4. CASE AuthAnswered
  BY <1>0, <1>4 DEF AuthAnswered, Waiting, stateVars, histVars
<1>5. CASE StoreAnswered
  BY <1>0, <1>5 DEF StoreAnswered, Waiting, stateVars, histVars
<1>6. CASE Reports
  <2>1. PICK op \in Ops \ {"none"} : Reported(op)
    BY <1>6
       DEF Reports, SignInReported, CreateReported, CommitReported, AppleReported,
           ProfileReported, BoardReported, Ops
  <2>2. /\ call.op = op /\ alive /\ call.user \in Users /\ ~isLoggedIn /\ call.answered
        /\ UNCHANGED <<currentUser, accounts, boards>>
    BY <1>0, <2>1 DEF Reported
  <2>3. CASE Failed
    BY <2>2, <2>3 DEF Failed
  <2>4. CASE Entered /\ UNCHANGED saved /\ call.op # "board"
    BY <2>2, <2>4 DEF Entered
  <2>5. CASE Entered /\ saved' = call.user /\ call.op = "board" /\ call.ok
    <3>1. currentUser \in {call.user, NoUser}
      BY <2>5 DEF IInv, SignedInIsCaller, PastAccount
    <3> QED BY <2>2, <2>5, <3>1 DEF Entered
  <2>6. ASSUME NEW next, GoesOn(next) PROVE Keeps /\ StaysOrGoes /\ SavesOnSigningUp
    BY <2>2, <2>6 DEF GoesOn, stateVars
  <2> QED
    BY <1>6, <2>3, <2>4, <2>5, <2>6
       DEF Reports, SignInReported, CreateReported, CommitReported, AppleReported,
           ProfileReported, BoardReported, Reported
<1> QED
  BY <1>1, <1>2, <1>3, <1>4, <1>5, <1>6
     DEF Next, SignIn, SignUp, SignUpWithApple

-----------------------------------------------------------------------------
(* The invariant is inductive.                                               *)

LEMMA InitDInv == DeviceInit => DInv
<1> SUFFICES ASSUME DeviceInit PROVE DInv
  OBVIOUS
<1>1. IInv
  BY InitIInv DEF DeviceInit
<1>2. savedBoard = NoBoard
  BY DEF DeviceInit, Init, savedBoard, NoBoard
<1>3. DeviceTypeOK
  BY <1>1, <1>2, BoardType, NoModelType DEF DeviceInit, DeviceTypeOK, IInv
<1>4. NewcomerIsAlone
  BY DEF DeviceInit, NewcomerIsAlone
<1>5. BoardsHaveUid
  BY NoModelType DEF DeviceInit, Init, BoardsHaveUid, LoadsFind
<1> QED BY <1>1, <1>3, <1>4, <1>5 DEF DInv

\* The screen that appears asks for the user's boards, and knows the saved one.
LEMMA AppearsModel ==
    ASSUME DeviceTypeOK, Appears, currentUser' \in Users \cup {NoUser},
           savedBoard' \in BoardVals
    PROVE  /\ model' \in [Models -> Model]
           /\ model'["ghost"] = model["ghost"]
           /\ model'["screen"].board = NoBoard /\ model'["screen"].list = NoUser
           /\ IF currentUser' = NoUser
              THEN model'["screen"].load = NoLoad
              ELSE model'["screen"].load = [user |-> currentUser', captured |-> savedBoard']
<1> DEFINE new == LoadUserData(NoModel, currentUser', savedBoard')
<1>1. /\ new \in Model /\ new.board = NoBoard /\ new.list = NoUser
      /\ currentUser' = NoUser => new.load = NoLoad
      /\ currentUser' # NoUser =>
             new.load = [user |-> currentUser', captured |-> savedBoard']
  BY NoModelType, LoadUserDataType
<1>2. model' = [model EXCEPT !["screen"] = new] /\ model \in [Models -> Model]
  BY DEF DeviceTypeOK, Appears
<1> HIDE DEF new
<1> QED BY <1>1, <1>2 DEF Models

LEMMA SessionMovesDInv ==
    ASSUME DInv, SessionMoves
    PROVE  DInv'
<1>1. IInv'
  BY StepIInv DEF DInv, SessionMoves
<1>2. Keeps /\ StaysOrGoes /\ SavesOnSigningUp
  BY SessionStep DEF DInv, SessionMoves
<1>3. savedBoard' \in BoardVals
  <2>1. CASE call.op = "board" /\ isLoggedIn'
    <3>1. savedBoard' = Board(call.user, TRUE) /\ call.user \in Users
      BY <1>2, <2>1 DEF SavesOnSigningUp, SessionMoves, savedBoard, DInv, DeviceTypeOK
    <3> QED BY <3>1, BoardType
  <2>2. CASE ~(call.op = "board" /\ isLoggedIn')
    <3>1. savedUid \in BOOLEAN
      BY DEF DInv, DeviceTypeOK, savedBoard, BoardVals, NoBoard, Board
    <3>2. saved' = saved /\ savedUid' = savedUid
      BY <1>2, <2>2, <3>1 DEF SavesOnSigningUp, SessionMoves
    <3> QED BY <3>2 DEF savedBoard, DInv, DeviceTypeOK
  <2> QED BY <2>1, <2>2
<1>4. currentUser' \in Users \cup {NoUser} /\ isLoggedIn' \in BOOLEAN /\ isLoggedIn \in BOOLEAN
      /\ (~alive' => ~isLoggedIn')
  BY <1>1 DEF IInv, TypeOK, CallsAreAlone, DInv
<1>5. DeviceTypeOK'
  <2>1. model' \in [Models -> Model]
    <3>1. CASE model' = [m \in Models |-> NoModel]
      BY <3>1, NoModelType
    <3>2. CASE Appears
      BY <1>3, <1>4, <3>2, AppearsModel DEF DInv
    <3>3. CASE Disappears
      BY <3>3, NoModelType DEF Disappears, DInv, DeviceTypeOK, Models
    <3>4. CASE UNCHANGED model
      BY <3>4 DEF DInv, DeviceTypeOK
    <3> QED BY <3>1, <3>2, <3>3, <3>4 DEF SessionMoves
  <2>2. newcomer' \in Users \cup {NoUser}
    BY <1>2 DEF SessionMoves, SavesOnSigningUp, DInv, DeviceTypeOK
  <2> QED BY <1>1, <1>3, <2>1, <2>2 DEF SessionMoves, DInv, DeviceTypeOK, IInv
<1>6. NewcomerIsAlone'
  <2>1. CASE ~isLoggedIn'
    BY <2>1 DEF SessionMoves, NewcomerIsAlone
  <2>2. CASE isLoggedIn' /\ ~isLoggedIn /\ call.op = "board"
    <3>1. /\ newcomer' = call.user /\ saved' = call.user /\ call.user \in Users
          /\ currentUser' \in {call.user, NoUser}
      BY <1>2, <2>2 DEF SessionMoves, SavesOnSigningUp
    <3>2. Appears
      BY <1>4, <2>2 DEF SessionMoves
    <3>3. savedBoard'.owner = saved'
      BY DEF savedBoard, Board
    <3> QED
      BY <1>3, <1>4, <2>2, <3>1, <3>2, <3>3, AppearsModel, BoardType DEF NewcomerIsAlone, DInv
  <2>3. CASE isLoggedIn' /\ ~isLoggedIn /\ call.op # "board"
    BY <2>3 DEF SessionMoves, NewcomerIsAlone, DInv
  <2>4. CASE isLoggedIn' /\ isLoggedIn
    <3>1. newcomer' = newcomer /\ UNCHANGED model /\ saved' = saved
          /\ currentUser' \in {currentUser, NoUser}
      BY <1>2, <1>4, <2>4 DEF SessionMoves, SavesOnSigningUp, StaysOrGoes
    <3> QED BY <2>4, <3>1 DEF NewcomerIsAlone, DInv
  <2> QED BY <1>4, <2>1, <2>2, <2>3, <2>4
<1>7. BoardsHaveUid'
  <2> SUFFICES ASSUME ~emptied'
               PROVE  /\ ~doomed' /\ (saved' = NoUser \/ savedUid')
                      /\ \A m \in Models : LoadsFind(model[m])'
    BY DEF BoardsHaveUid
  <2>1. /\ saved = NoUser \/ savedUid
        /\ \A m \in Models : LoadsFind(model[m])
    BY DEF SessionMoves, DInv, BoardsHaveUid
  <2>2. saved' = NoUser \/ savedUid'
    BY <1>2, <2>1 DEF SessionMoves, SavesOnSigningUp
  <2>3. ASSUME NEW mod, LoadsFind(mod)
        PROVE  mod.load # NoLoad =>
                   /\ mod.load.captured = NoBoard \/ mod.load.captured.uid
                   /\ mod.load.user \in accounts' /\ mod.load.user \in boards' \cup partial'
    BY <1>2, <2>3 DEF Keeps, LoadsFind
  <2>4. ASSUME NEW m \in Models
        PROVE  LoadsFind(model[m])'
    <3>1. CASE model' = [n \in Models |-> NoModel]
      BY <3>1, NoModelType DEF LoadsFind
    <3>2. CASE isLoggedIn' /\ ~isLoggedIn /\ Appears
      <4>1. currentUser' # NoUser =>
                currentUser' \in accounts' /\ currentUser' \in boards' \cup partial'
        <5>1. (currentUser \in accounts \cup {NoUser})' /\ LoggedInIsInitialised'
          BY <1>1
             DEF IInv, CallsAreAlone, AccountsAreDone, Done, SignsUp, LoggedInIsInitialised
        <5> QED BY <3>2, <5>1 DEF LoggedInIsInitialised
      <4>2. savedBoard' = NoBoard \/ savedBoard'.uid
        <5>1. savedBoard'.owner = saved' /\ savedBoard'.uid = savedUid'
          BY DEF savedBoard, Board
        <5> QED BY <1>3, <2>2, <5>1, BoardFields
      <4>3. CASE m = "screen"
        BY <1>3, <1>4, <3>2, <4>1, <4>2, <4>3, AppearsModel DEF LoadsFind, DInv
      <4>4. CASE m = "ghost"
        BY <1>3, <1>4, <2>1, <2>3, <3>2, <4>4, AppearsModel DEF LoadsFind, DInv, Models
      <4> QED BY <4>3, <4>4 DEF Models
    <3>3. CASE Disappears
      <4>1. model'[m] \in {NoModel, model["screen"], model["ghost"]}
        BY <3>3 DEF Disappears, DInv, DeviceTypeOK, Models
      <4> QED BY <2>1, <2>3, <4>1, NoModelType DEF LoadsFind, Models
    <3>4. CASE UNCHANGED model
      BY <2>1, <2>3, <3>4 DEF LoadsFind
    <3> QED BY <3>1, <3>2, <3>3, <3>4 DEF SessionMoves
  <2> QED BY <2>2, <2>4 DEF SessionMoves
<1> QED BY <1>1, <1>5, <1>6, <1>7 DEF DInv

-----------------------------------------------------------------------------
(* The main screen changes nothing of the session but the saved board.       *)

LEMMA OnlySavedIInv ==
    ASSUME IInv, UNCHANGED sessionButSaved, saved' \in Users \cup {NoUser}
    PROVE  IInv'
<1>1. TypeOK'
  BY DEF IInv, TypeOK, sessionButSaved, stateVars, histVars, Call
<1>2. LoadingIsCall' /\ LoggedInHasUser' /\ CallsAreAlone' /\ SignedInIsCaller' /\ OutIsInChain'
  BY DEF IInv, sessionButSaved, stateVars, histVars, LoadingIsCall, LoggedInHasUser,
         CallsAreAlone, SignedInIsCaller, PastAccount, OutIsInChain
<1>3. AccountsAreDone'
  BY DEF IInv, sessionButSaved, stateVars, histVars, AccountsAreDone, Done, SignsUp
<1> QED BY <1>1, <1>2, <1>3 DEF IInv

\* A step of one view model keeps the invariant if what it leaves, and saves, does.
LEMMA ModelStep ==
    ASSUME DInv, MainScreenMoves, NEW m \in Models, NEW mod \in Model,
           model' = [model EXCEPT ![m] = mod],
           savedBoard' \in BoardVals, doomed' \in BOOLEAN, emptied' \in BOOLEAN,
           \/ UNCHANGED <<saved, newcomer>>
           \/ newcomer' = NoUser
           \/ m = "screen" /\ newcomer' = newcomer /\ (newcomer # NoUser => saved' = newcomer),
           m = "screen" /\ newcomer' # NoUser =>
               /\ mod.board.owner \in {newcomer, NoUser} /\ mod.list \in {newcomer, NoUser}
               /\ mod.load # NoLoad =>
                      mod.load.user = newcomer /\ mod.load.captured.owner = newcomer,
           ~emptied' => /\ ~emptied /\ ~doomed' /\ LoadsFind(mod)
                        /\ (saved' = NoUser \/ savedUid')
    PROVE  DInv'
<1>1. saved' \in Users \cup {NoUser}
  <2>1. savedBoard'.owner = saved'
    BY DEF savedBoard, Board
  <2> QED BY <2>1, BoardFields
<1>2. IInv'
  BY <1>1, OnlySavedIInv DEF DInv, MainScreenMoves
<1>3. DeviceTypeOK'
  BY <1>2 DEF DInv, DeviceTypeOK, IInv
<1>4. /\ UNCHANGED <<isLoggedIn, currentUser, accounts, boards, partial>>
      /\ model'[m] = mod /\ \A n \in Models \ {m} : model'[n] = model[n]
  BY DEF MainScreenMoves, sessionButSaved, stateVars, histVars, DInv, DeviceTypeOK
<1>5. NewcomerIsAlone'
  <2> SUFFICES ASSUME newcomer' # NoUser
               PROVE  NewcomerIsAlone'
    BY DEF NewcomerIsAlone
  <2>1. newcomer' = newcomer /\ saved' = newcomer
    BY DEF DInv, NewcomerIsAlone
  <2>2. CASE m = "screen"
    BY <1>4, <2>1, <2>2 DEF DInv, NewcomerIsAlone
  <2>3. CASE m = "ghost"
    BY <1>4, <2>1, <2>3 DEF DInv, NewcomerIsAlone, Models
  <2> QED BY <2>2, <2>3 DEF Models
<1>6. BoardsHaveUid'
  <2> SUFFICES ASSUME ~emptied', NEW n \in Models
               PROVE  LoadsFind(model[n])'
    BY DEF BoardsHaveUid
  <2>1. CASE n = m
    BY <1>4, <2>1 DEF LoadsFind
  <2>2. CASE n # m
    BY <1>4, <2>2 DEF LoadsFind, DInv, BoardsHaveUid
  <2> QED BY <2>1, <2>2
<1> QED BY <1>2, <1>3, <1>5, <1>6 DEF DInv

\* Saving a board, by the screen of a newcomer only the newcomer's.
LEMMA Saved ==
    ASSUME DInv, NEW m \in Models, NEW b \in BoardVals, SaveCurrent(m, b),
           m = "screen" /\ newcomer # NoUser => b.owner = newcomer
    PROVE  /\ savedBoard' = b /\ saved' = b.owner /\ savedUid' = b.uid
           /\ \/ newcomer' = NoUser
              \/ /\ m = "screen" /\ newcomer' = newcomer
                 /\ newcomer # NoUser => saved' = newcomer
BY BoardFields DEF SaveCurrent, savedBoard, Models

LEMMA BoardsLoadedDInv ==
    ASSUME DInv, NEW m \in Models, BoardsLoaded(m)
    PROVE  DInv'
<1> DEFINE old == model[m]
           u == old.load.user
<1>1. /\ MainScreenMoves /\ old \in Model /\ old.load # NoLoad
      /\ u \in Users /\ old.load.captured \in BoardVals /\ emptied \in BOOLEAN
  BY LoadFields DEF BoardsLoaded, DInv, DeviceTypeOK
<1>2. PICK found \in BOOLEAN :
          /\ found => u \in boards
          /\ GetAllPosts(m, Chosen(old.load, found),
                         [old EXCEPT !.load = NoLoad, !.list = IF found THEN u ELSE NoUser])
          /\ emptied' = (emptied \/ (/\ old.load.captured = NoBoard /\ ~found
                                    /\ u \in boards \cup partial))
  BY DEF BoardsLoaded
<1> DEFINE b == Chosen(old.load, found)
           new == [old EXCEPT !.load = NoLoad, !.list = IF found THEN u ELSE NoUser,
                              !.board = b, !.fetches = @ + 1]
<1>3. b \in BoardVals /\ b.uid \in BOOLEAN
  BY <1>1, BoardType, BoardFields DEF Chosen
<1>4. /\ SaveCurrent(m, b) /\ doomed' = ~b.uid /\ old.fetches < MaxFetches
      /\ model' = [model EXCEPT ![m] = new]
  BY <1>1, <1>2 DEF GetAllPosts, Model
<1>5. new \in Model /\ new.load = NoLoad /\ new.board = b /\ new.list \in {u, NoUser}
  <2>1. old.fetches + 1 \in 0..MaxFetches /\ (IF found THEN u ELSE NoUser) \in Users \cup {NoUser}
    BY <1>1, <1>4, FetchCounts
  <2> HIDE DEF b, u, old
  <2>2. new \in Model
    BY <1>1, <1>3, <2>1, ModelFields
  <2>3. new.load = NoLoad /\ new.board = b /\ new.list \in {u, NoUser}
    BY <1>1 DEF Model
  <2> QED BY <2>2, <2>3
<1>6. m = "screen" /\ newcomer # NoUser => b.owner = newcomer /\ u = newcomer
  BY <1>1, UsersAssumption, BoardType DEF DInv, NewcomerIsAlone, Chosen, DeviceTypeOK
<1>7. ~emptied' => ~emptied /\ b.uid
  <2> SUFFICES ASSUME ~emptied' PROVE ~emptied /\ b.uid
    OBVIOUS
  <2>1. ~emptied /\ LoadsFind(old)
    BY <1>1, <1>2 DEF DInv, BoardsHaveUid
  <2>2. CASE old.load.captured # NoBoard
    BY <1>1, <2>1, <2>2 DEF LoadsFind, Chosen
  <2>3. CASE old.load.captured = NoBoard
    BY <1>1, <1>2, <2>1, <2>3, BoardType DEF LoadsFind, Chosen
  <2> QED BY <2>1, <2>2, <2>3
<1>8. LoadsFind(new)
  BY <1>5 DEF LoadsFind
<1>9. /\ savedBoard' = b /\ saved' = b.owner /\ savedUid' = b.uid
      /\ \/ newcomer' = NoUser
         \/ /\ m = "screen" /\ newcomer' = newcomer
            /\ newcomer # NoUser => saved' = newcomer
  BY <1>3, <1>4, <1>6, Saved
<1>10. doomed' \in BOOLEAN /\ emptied' \in BOOLEAN
  BY <1>1, <1>2, <1>3, <1>4
<1> HIDE DEF b, new, old, u
<1> QED
  BY <1>1, <1>3, <1>4, <1>5, <1>6, <1>7, <1>8, <1>9, <1>10, ModelStep

LEMMA BoardsFailedDInv ==
    ASSUME DInv, NEW m \in Models, BoardsFailed(m)
    PROVE  DInv'
<1> DEFINE old == model[m]
           u == old.load.user
           b == Board(u, FALSE)
           new == [old EXCEPT !.load = NoLoad, !.board = b, !.usable = TRUE]
<1>1. /\ MainScreenMoves /\ old \in Model /\ old.load # NoLoad /\ u \in Users
      /\ SaveCurrent(m, b) /\ model' = [model EXCEPT ![m] = new]
      /\ emptied' = TRUE /\ doomed' \in BOOLEAN
  BY LoadFields DEF BoardsFailed, DInv, DeviceTypeOK
<1>2. b \in BoardVals /\ b.owner = u
  BY <1>1, BoardType
<1>3. new \in Model /\ new.load = NoLoad /\ new.board = b /\ new.list = old.list
  BY <1>1, <1>2 DEF Model
<1>4. m = "screen" /\ newcomer # NoUser =>
          b.owner = newcomer /\ old.list \in {newcomer, NoUser}
  BY <1>1, <1>2 DEF DInv, NewcomerIsAlone
<1>5. /\ savedBoard' = b /\ saved' = b.owner /\ savedUid' = b.uid
      /\ \/ newcomer' = NoUser
         \/ /\ m = "screen" /\ newcomer' = newcomer
            /\ newcomer # NoUser => saved' = newcomer
  BY <1>1, <1>2, <1>4, Saved
<1> HIDE DEF b, new, old, u
<1> QED BY <1>1, <1>2, <1>3, <1>4, <1>5, ModelStep

LEMMA PostsAnsweredDInv ==
    ASSUME DInv, NEW m \in Models, PostsAnswered(m)
    PROVE  DInv'
<1> DEFINE old == model[m]
           new == IF m = "ghost" /\ old.fetches = 1 THEN NoModel
                  ELSE [old EXCEPT !.fetches = @ - 1, !.usable = TRUE]
<1>1. /\ MainScreenMoves /\ old \in Model /\ old.fetches > 0
      /\ model' = [model EXCEPT ![m] = new]
      /\ UNCHANGED <<saved, savedUid, doomed, newcomer, emptied>>
  BY DEF PostsAnswered, DInv, DeviceTypeOK
<1>2. new \in Model /\ new.load \in {old.load, NoLoad}
      /\ (m = "screen" => new.load = old.load /\ new.board = old.board /\ new.list = old.list)
  <2>1. old.fetches - 1 \in 0..MaxFetches
    BY <1>1, FetchCounts
  <2> HIDE DEF old
  <2>2. [old EXCEPT !.fetches = @ - 1, !.usable = TRUE] \in Model
    <3>1. old \in Model
      BY <1>1
    <3>2. NoBoard \in BoardVals
      BY BoardType
    <3> QED BY <2>1, <3>1, <3>2, ModelFields
  <2>3. [old EXCEPT !.fetches = @ - 1, !.usable = TRUE].load = old.load
        /\ [old EXCEPT !.fetches = @ - 1, !.usable = TRUE].board = old.board
        /\ [old EXCEPT !.fetches = @ - 1, !.usable = TRUE].list = old.list
    BY <1>1 DEF Model
  <2> QED BY <2>2, <2>3, NoModelType
<1>3. savedBoard' \in BoardVals /\ doomed' \in BOOLEAN /\ emptied' \in BOOLEAN
  BY <1>1 DEF savedBoard, DInv, DeviceTypeOK
<1>4. m = "screen" /\ newcomer' # NoUser =>
          /\ new.board.owner \in {newcomer, NoUser} /\ new.list \in {newcomer, NoUser}
          /\ new.load # NoLoad =>
                 new.load.user = newcomer /\ new.load.captured.owner = newcomer
  BY <1>1, <1>2 DEF DInv, NewcomerIsAlone
<1>5. ~emptied' => /\ ~emptied /\ ~doomed' /\ LoadsFind(new)
                   /\ (saved' = NoUser \/ savedUid')
  BY <1>1, <1>2 DEF DInv, BoardsHaveUid, LoadsFind
<1> HIDE DEF new, old
<1> QED BY <1>1, <1>2, <1>3, <1>4, <1>5, ModelStep

LEMMA SelectBoardDInv ==
    ASSUME DInv, SelectBoard
    PROVE  DInv'
<1> DEFINE old == model["screen"]
           b == Board(old.list, TRUE)
           new == [old EXCEPT !.board = b, !.fetches = @ + 1]
<1>1. /\ MainScreenMoves /\ old \in Model /\ old.list \in Users /\ "screen" \in Models
      /\ SaveCurrent("screen", b) /\ doomed' = ~b.uid /\ old.fetches < MaxFetches
      /\ model' = [model EXCEPT !["screen"] = new]
      /\ emptied' = emptied /\ emptied \in BOOLEAN
  BY DEF SelectBoard, GetAllPosts, DInv, DeviceTypeOK, Model, Models
<1>2. b \in BoardVals /\ b.owner = old.list /\ b.uid = TRUE
  BY <1>1, BoardType
<1>3. new \in Model /\ new.load = old.load /\ new.board = b /\ new.list = old.list
  <2>1. old.fetches + 1 \in 0..MaxFetches
    BY <1>1, FetchCounts
  <2> HIDE DEF b, old
  <2>2. new \in Model
    BY <1>1, <1>2, <2>1, ModelFields
  <2>3. new.load = old.load /\ new.board = b /\ new.list = old.list
    BY <1>1 DEF Model
  <2> QED BY <2>2, <2>3
<1>4. newcomer # NoUser =>
          /\ b.owner = newcomer /\ old.list = newcomer
          /\ old.load # NoLoad =>
                 old.load.user = newcomer /\ old.load.captured.owner = newcomer
  BY <1>1, <1>2, UsersAssumption DEF DInv, NewcomerIsAlone
<1>5. /\ savedBoard' = b /\ saved' = b.owner /\ savedUid' = b.uid
      /\ \/ newcomer' = NoUser
         \/ /\ newcomer' = newcomer
            /\ newcomer # NoUser => saved' = newcomer
  BY <1>1, <1>2, <1>4, Saved
<1>6. ~emptied => LoadsFind(new)
  BY <1>1, <1>3 DEF DInv, BoardsHaveUid, LoadsFind
<1> HIDE DEF b, new, old
<1> QED BY <1>1, <1>2, <1>3, <1>4, <1>5, <1>6, ModelStep

LEMMA BackDInv ==
    ASSUME DInv, Back
    PROVE  DInv'
<1> DEFINE old == model["screen"]
           new == LoadUserData(old, currentUser, savedBoard)
<1>1. /\ MainScreenMoves /\ old \in Model /\ old.load = NoLoad /\ "screen" \in Models
      /\ model' = [model EXCEPT !["screen"] = new]
      /\ UNCHANGED <<saved, savedUid, doomed, newcomer, emptied>>
      /\ savedBoard \in BoardVals /\ currentUser \in Users \cup {NoUser}
  BY DEF Back, DInv, DeviceTypeOK, IInv, TypeOK, Models
<1>2. /\ new \in Model /\ new.board = old.board /\ new.list = old.list
      /\ IF currentUser = NoUser THEN new.load = NoLoad
         ELSE new.load = [user |-> currentUser, captured |-> savedBoard]
  BY <1>1, LoadUserDataType
<1>3. savedBoard' = savedBoard /\ doomed' \in BOOLEAN /\ emptied' \in BOOLEAN
      /\ savedBoard.owner = saved /\ savedBoard.uid = savedUid
  BY <1>1 DEF savedBoard, Board, DInv, DeviceTypeOK
<1>4. newcomer' # NoUser =>
          /\ new.board.owner \in {newcomer, NoUser} /\ new.list \in {newcomer, NoUser}
          /\ new.load # NoLoad =>
                 new.load.user = newcomer /\ new.load.captured.owner = newcomer
  BY <1>1, <1>2, <1>3 DEF DInv, NewcomerIsAlone
<1>5. ~emptied' => /\ ~emptied /\ ~doomed' /\ LoadsFind(new)
                   /\ (saved' = NoUser \/ savedUid')
  <2> SUFFICES ASSUME ~emptied', currentUser # NoUser
               PROVE  LoadsFind(new)
    BY <1>1, <1>2 DEF DInv, BoardsHaveUid, LoadsFind
  <2>1. savedBoard = NoBoard \/ savedBoard.uid
    BY <1>1, <1>3, BoardFields DEF DInv, BoardsHaveUid
  <2>2. currentUser \in accounts /\ currentUser \in boards \cup partial
    <3>1. isLoggedIn
      BY DEF Back
    <3>2. currentUser \in accounts \cup {NoUser} /\ LoggedInIsInitialised
      BY DEF DInv, IInv, CallsAreAlone, AccountsAreDone, Done, SignsUp, LoggedInIsInitialised
    <3> QED BY <3>1, <3>2 DEF LoggedInIsInitialised
  <2> QED BY <1>2, <2>1, <2>2 DEF LoadsFind
<1> HIDE DEF new, old
<1> QED BY <1>1, <1>2, <1>3, <1>4, <1>5, ModelStep

LEMMA StepDInv == DInv /\ [DeviceNext]_deviceVars => DInv'
<1> SUFFICES ASSUME DInv, [DeviceNext]_deviceVars PROVE DInv'
  OBVIOUS
<1>1. CASE SessionMoves
  BY <1>1, SessionMovesDInv
<1>2. ASSUME NEW m \in Models, BoardsLoaded(m) \/ BoardsFailed(m) \/ PostsAnswered(m)
      PROVE  DInv'
  BY <1>2, BoardsLoadedDInv, BoardsFailedDInv, PostsAnsweredDInv
<1>3. CASE SelectBoard
  BY <1>3, SelectBoardDInv
<1>4. CASE Back
  BY <1>4, BackDInv
<1>5. CASE UNCHANGED deviceVars
  <2>1. UNCHANGED vars
    BY <1>5 DEF deviceVars
  <2>2. IInv'
    BY <2>1, StepIInv DEF DInv
  <2>3. DeviceTypeOK'
    BY <1>5, <2>2 DEF deviceVars, vars, storedVars, savedBoard, DInv, DeviceTypeOK, IInv
  <2>4. NewcomerIsAlone' /\ BoardsHaveUid'
    BY <1>5 DEF deviceVars, vars, storedVars, stateVars, histVars, DInv, NewcomerIsAlone,
                BoardsHaveUid, LoadsFind
  <2> QED BY <2>2, <2>3, <2>4 DEF DInv
<1> QED BY <1>1, <1>2, <1>3, <1>4, <1>5 DEF DeviceNext, MainScreen

LEMMA AlwaysDInv == DeviceSpec => []DInv
BY InitDInv, StepDInv, PTL DEF DeviceSpec

-----------------------------------------------------------------------------
(* The theorems.                                                             *)

\* Type correctness of the device: the session, the saved board, and the view
\* models of the main screen with their loads and fetches.
THEOREM DeviceTypeCorrect == DeviceSpec => []DeviceTypeOK
<1>1. DInv => DeviceTypeOK
  BY DEF DInv
<1> QED BY <1>1, AlwaysDInv, PTL

\* For any users who share the device, and however their sign-ups and sign-outs
\* interleave with the loads of the main screen: whoever has just signed up is
\* shown the own board.
THEOREM NewcomerSeesOwnAlways == DeviceSpec => []NewcomerSeesOwn
<1>1. DInv => NewcomerSeesOwn
  <2> SUFFICES ASSUME DInv, newcomer # NoUser, model["screen"].board # NoBoard
               PROVE  model["screen"].board.owner = newcomer
    BY DEF NewcomerSeesOwn
  <2>1. model["screen"].board \in BoardVals
    BY DEF DInv, DeviceTypeOK, Models, Model
  <2> QED BY <2>1, BoardFields DEF DInv, NewcomerIsAlone
<1> QED BY <1>1, AlwaysDInv, PTL

\* For any users: a board without uid, which ends the process, comes only from
\* a load that failed or missed the board.
THEOREM DiesOnlyAfterFailureAlways == DeviceSpec => []DiesOnlyAfterFailure
<1>1. DInv => DiesOnlyAfterFailure
  BY DEF DInv, BoardsHaveUid, DiesOnlyAfterFailure
<1> QED BY <1>1, AlwaysDInv, PTL

\* The overlay of the authentication screen says that a call is under way, and
\* a signed-in user is kept out only after a failure, with the main screen too.
THEOREM DeviceKeepsSession == DeviceSpec => [](LoadingIsCall /\ OutOnlyAfterFailure)
<1>1. DInv => LoadingIsCall /\ OutOnlyAfterFailure
  BY DEF DInv, IInv, OutIsInChain, PastAccount, OutOnlyAfterFailure
<1> QED BY <1>1, AlwaysDInv, PTL

\* The whole device keeps the promise of Account: the main screen, whatever it
\* loads, saves and fetches, takes no step of it.
THEOREM DeviceImplementsAccount == DeviceSpec => ImplementsAccount
<1>1. DeviceInit => Promise!Init
  BY InitKeepsPromise DEF DeviceInit
<1>2. DInv /\ [DeviceNext]_deviceVars => [Promise!Next]_(Promise!vars)
  <2> SUFFICES ASSUME DInv, [DeviceNext]_deviceVars
               PROVE  [Promise!Next]_(Promise!vars)
    OBVIOUS
  <2>1. CASE SessionMoves
    <3>1. IInv /\ IInv' /\ [Next]_vars
      BY <2>1, StepIInv DEF DInv, SessionMoves
    <3> QED BY <3>1, StepKeepsPromise
  <2>2. CASE MainScreen \/ UNCHANGED deviceVars
    <3>1. UNCHANGED <<alive, isLoggedIn, isLoading, currentUser, profiles, boards, partial>>
      BY <2>2 DEF MainScreen, BoardsLoaded, BoardsFailed, PostsAnswered, SelectBoard, Back,
                  MainScreenMoves, sessionButSaved, deviceVars, vars, storedVars, stateVars,
                  histVars
    <3> QED BY <3>1 DEF Promise!vars, phase
  <2> QED BY <2>1, <2>2 DEF DeviceNext
<1> QED BY <1>1, <1>2, AlwaysDInv, PTL DEF DeviceSpec, ImplementsAccount, Promise!Spec
=============================================================================
