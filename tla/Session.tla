------------------------------ MODULE Session ------------------------------
(***************************************************************************)
(* Signing up, in and out: AuthenticationViewModel, AuthService, the wrapper *)
(* view that shows either the authentication screen or the tab bar, and the  *)
(* writes of a new user's profile and first board.                          *)
(*                                                                          *)
(* Firebase Auth keeps the signed-in user in the Keychain, which outlives   *)
(* the process and even the installation; everything the view model knows   *)
(* is lost with the process.  A sign-up is a chain of calls, each made by   *)
(* the completion of the one before.                                        *)
(***************************************************************************)
CONSTANTS
    EmailUsers,     \* users with an address and a password
    AppleUsers,     \* users with an Apple ID
    NoUser          \* nil

Users == EmailUsers \cup AppleUsers

ASSUME UsersAssumption == NoUser \notin Users /\ EmailUsers \cap AppleUsers = {}

VARIABLES
    currentUser,    \* Auth.auth().currentUser
    accounts,       \* users Firebase Auth knows
    profiles,       \* users with a document in the profiles' collection
    boards,         \* users with a board
    named,          \* Apple users whose name Apple has told the app
    saved,          \* the owner of the board under "currentBoard"
    authError,      \* is the key "authError" set?
    alive,          \* is the process running?
    isLoggedIn, isLoading, existError,      \* AuthenticationViewModel.States
    signingOut,     \* the block of AuthService.signOut is in the main queue
    call,           \* the call under way
    partial,        \* history: users whose sign-up failed or broke off
    stuck,          \* history: why currentUser may be kept out of the tab bar
    forced          \* history: Firebase Auth itself signed the user out

storedVars == <<accounts, profiles, boards, named, saved, authError>>
stateVars == <<isLoggedIn, isLoading, existError>>
histVars == <<partial, stuck, forced>>
vars == <<currentUser, storedVars, alive, stateVars, signingOut, call, histVars>>

Ops == {"none", "signIn", "apple", "create", "commit", "profile", "board"}
Call == [op : Ops, user : Users \cup {NoUser}, greeted : BOOLEAN,
         answered : BOOLEAN, ok : BOOLEAN]
NoCall == [op |-> "none", user |-> NoUser, greeted |-> FALSE,
           answered |-> FALSE, ok |-> FALSE]
\* greeted: Apple told the name of the user.
NewCall(op, u, greeted) ==
    [op |-> op, user |-> u, greeted |-> greeted, answered |-> FALSE, ok |-> FALSE]

TypeOK ==
    /\ currentUser \in Users \cup {NoUser} /\ saved \in Users \cup {NoUser}
    /\ accounts \subseteq Users /\ profiles \subseteq Users /\ boards \subseteq Users
    /\ named \subseteq AppleUsers /\ partial \subseteq Users
    /\ authError \in BOOLEAN /\ alive \in BOOLEAN /\ signingOut \in BOOLEAN
    /\ isLoggedIn \in BOOLEAN /\ isLoading \in BOOLEAN /\ existError \in BOOLEAN
    /\ stuck \in BOOLEAN /\ forced \in BOOLEAN
    /\ call \in Call

\* A new installation, perhaps of a user whom the Keychain still remembers.
Init ==
    /\ currentUser \in Users \cup {NoUser}
    /\ accounts = {currentUser} \ {NoUser}
    /\ profiles = accounts /\ boards = accounts /\ named = accounts \cap AppleUsers
    /\ saved = NoUser /\ authError = FALSE
    /\ alive = FALSE
    /\ isLoggedIn = FALSE /\ isLoading = FALSE /\ existError = FALSE
    /\ signingOut = FALSE
    /\ call = NoCall
    /\ partial = {} /\ stuck = FALSE /\ forced = FALSE

-----------------------------------------------------------------------------
(* The process and the wrapper view.                                         *)

\* Mutant: the wrapper starts with the authentication screen.
LaunchSignedOut ==
    /\ ~alive
    /\ alive' = TRUE
    /\ signingOut' = ~authError
    /\ authError' = TRUE
    /\ isLoggedIn' = FALSE
    /\ UNCHANGED <<currentUser, accounts, profiles, boards, named, saved, isLoading,
                   existError, call, histVars>>

\* onAppear: the first launch of an installation signs out, but only after the
\* lines below have looked at the user.
Launch ==
    /\ ~alive
    /\ alive' = TRUE
    /\ signingOut' = ~authError
    /\ authError' = TRUE
    /\ isLoggedIn' = (currentUser # NoUser)
    /\ UNCHANGED <<currentUser, accounts, profiles, boards, named, saved, isLoading,
                   existError, call, histVars>>

SignsUp(op) == op \in {"apple", "create", "commit", "profile", "board"}

\* What Firestore has queued it may still send after the next launch.
Kill ==
    /\ alive
    /\ alive' = FALSE
    /\ isLoggedIn' = FALSE /\ isLoading' = FALSE /\ existError' = FALSE
    /\ signingOut' = FALSE
    /\ call' = NoCall
    /\ profiles' \in {profiles, profiles \cup {u \in {call.user} : call.op = "profile"}}
    /\ boards' \in {boards, boards \cup {u \in {call.user} : call.op = "board"}}
    /\ partial' = partial \cup {u \in {call.user} : SignsUp(call.op)}
    /\ stuck' = FALSE
    /\ UNCHANGED <<currentUser, accounts, named, saved, authError, forced>>

\* Mutant: a completion of signOut that forgets the view.
SignOutRunsQuietly ==
    /\ signingOut
    /\ signingOut' = FALSE
    /\ \E ok \in BOOLEAN :
           /\ currentUser' = IF ok THEN NoUser ELSE currentUser
           /\ stuck' = ~ok
    /\ UNCHANGED <<storedVars, alive, stateVars, call, partial, forced>>

\* The block of AuthService.signOut; the view model ignores its result.
SignOutRuns ==
    /\ signingOut
    /\ signingOut' = FALSE
    /\ isLoggedIn' = FALSE
    /\ \E ok \in BOOLEAN :
           /\ currentUser' = IF ok THEN NoUser ELSE currentUser
           /\ stuck' = ~ok
    /\ UNCHANGED <<storedVars, alive, isLoading, existError, call, partial, forced>>

\* The server rejects the user's token: Firebase Auth signs out, and nothing
\* in the app listens to that.
ForcedSignOut ==
    /\ alive
    /\ currentUser # NoUser
    /\ currentUser' = NoUser
    /\ forced' = TRUE
    /\ stuck' = FALSE
    /\ UNCHANGED <<storedVars, alive, stateVars, signingOut, call, partial>>

-----------------------------------------------------------------------------
(* The buttons.  The overlay of isLoading disables the screen, the alert     *)
(* covers it, and the main queue runs signOut's block before a tap's calls.  *)

OnAuthentication == alive /\ ~isLoggedIn /\ ~isLoading /\ ~existError /\ ~signingOut

LogOut ==
    /\ isLoggedIn
    /\ signingOut' = TRUE
    /\ UNCHANGED <<currentUser, storedVars, alive, stateVars, call, histVars>>

Begin(new) ==
    /\ OnAuthentication
    /\ isLoading' = ~isLoading
    /\ call' = new
    /\ UNCHANGED <<currentUser, accounts, profiles, boards, saved, authError, alive,
                   isLoggedIn, existError, signingOut, histVars>>

SignIn(u) == Begin(NewCall("signIn", u, FALSE)) /\ UNCHANGED named
SignUp(u) == Begin(NewCall("create", u, FALSE)) /\ UNCHANGED named

\* Apple tells the name with the first authorisation only, whatever comes of it.
SignUpWithApple(u) ==
    /\ Begin(NewCall("apple", u, u \notin named))
    /\ named' = named \cup {u}

\* A field is empty, or the passwords are short or different: isLoading is
\* toggled twice.
SignUpInvalid ==
    /\ OnAuthentication
    /\ existError' = ~existError
    /\ UNCHANGED <<currentUser, storedVars, alive, isLoggedIn, isLoading, signingOut,
                   call, histVars>>

DismissAlert ==
    /\ existError
    /\ existError' = FALSE
    /\ UNCHANGED <<currentUser, storedVars, alive, isLoggedIn, isLoading, signingOut,
                   call, histVars>>

-----------------------------------------------------------------------------
(* The servers answer a call.                                                *)

Answer(ok) == call' = [call EXCEPT !.answered = TRUE, !.ok = ok]

Waiting(ops) == alive /\ call.op \in ops /\ ~call.answered

\* An account is created, or not, or it is but the answer is lost.
AuthAnswered ==
    /\ Waiting({"signIn", "apple", "create"})
    /\ \/ /\ call.op = "signIn" => call.user \in accounts
          /\ call.op = "create" => call.user \notin accounts
          /\ accounts' = accounts \cup {call.user}
          /\ currentUser' = call.user
          /\ stuck' = FALSE /\ forced' = FALSE
          /\ partial' = partial \ {u \in {call.user} : call.op = "create"}
          /\ Answer(TRUE)
       \/ /\ accounts' \in {accounts,
                            accounts \cup {u \in {call.user} : call.op # "signIn"}}
          /\ Answer(FALSE)
          /\ UNCHANGED <<currentUser, histVars>>
    /\ UNCHANGED <<profiles, boards, named, saved, authError, alive, stateVars,
                   signingOut>>

StoreAnswered ==
    /\ Waiting({"commit", "profile", "board"})
    /\ \E ok \in BOOLEAN :
           /\ Answer(ok)
           /\ profiles' = profiles \cup {u \in {call.user} : ok /\ call.op = "profile"}
           /\ boards' = boards \cup {u \in {call.user} : ok /\ call.op = "board"}
    /\ UNCHANGED <<currentUser, accounts, named, saved, authError, alive, stateVars,
                   signingOut, histVars>>

-----------------------------------------------------------------------------
(* The completions.                                                          *)

\* Mutant: the failure leaves the overlay.
FailedLoading ==
    /\ existError' = ~existError
    /\ call' = NoCall
    /\ partial' = partial \cup {u \in {call.user} : SignsUp(call.op)}
    /\ stuck' = (stuck \/ call.op \in {"commit", "profile", "board"})
    /\ UNCHANGED <<isLoading, isLoggedIn, saved>>

Failed ==
    /\ isLoading' = ~isLoading
    /\ existError' = ~existError
    /\ call' = NoCall
    /\ partial' = partial \cup {u \in {call.user} : SignsUp(call.op)}
    /\ stuck' = (stuck \/ call.op \in {"commit", "profile", "board"})
    /\ UNCHANGED <<isLoggedIn, saved>>

Entered ==
    /\ isLoading' = ~isLoading
    /\ isLoggedIn' = ~isLoggedIn
    /\ call' = NoCall
    /\ UNCHANGED <<existError, partial, stuck>>

\* Mutant: the next call is made for whoever is signed in by then.
GoesOnAsCurrent(op) ==
    /\ call' = NewCall(op, currentUser, call.greeted)
    /\ UNCHANGED <<stateVars, saved, partial, stuck>>

GoesOn(op) ==
    /\ call' = NewCall(op, call.user, call.greeted)
    /\ UNCHANGED <<stateVars, saved, partial, stuck>>

Reported(op) ==
    /\ alive
    /\ ~signingOut
    /\ call.op = op
    /\ call.answered
    /\ UNCHANGED <<currentUser, accounts, profiles, boards, named, authError, alive,
                   signingOut, forced>>

SignInReported ==
    /\ Reported("signIn")
    /\ IF call.ok THEN Entered /\ UNCHANGED saved ELSE Failed

CreateReported ==
    /\ Reported("create")
    /\ IF call.ok THEN GoesOn("commit") ELSE Failed

CommitReported ==
    /\ Reported("commit")
    /\ IF call.ok THEN GoesOn("profile") ELSE Failed

\* Without a name the user is taken for one who signed up before.
AppleReported ==
    /\ Reported("apple")
    /\ CASE call.ok /\ call.greeted  -> GoesOn("profile")
         [] call.ok /\ ~call.greeted -> Entered /\ UNCHANGED saved
         [] OTHER                    -> Failed

\* Mutant: the user is let in before the board exists.
ProfileReportedEarly ==
    /\ Reported("profile")
    /\ IF call.ok THEN Entered /\ UNCHANGED saved ELSE Failed

ProfileReported ==
    /\ Reported("profile")
    /\ IF call.ok THEN GoesOn("board") ELSE Failed

\* Mutant: the new board is not saved as the current one.
BoardReportedUnsaved ==
    /\ Reported("board")
    /\ IF call.ok THEN Entered /\ UNCHANGED saved ELSE Failed

BoardReported ==
    /\ Reported("board")
    /\ IF call.ok THEN Entered /\ saved' = call.user ELSE Failed

Reports ==
    \/ SignInReported \/ CreateReported \/ CommitReported
    \/ AppleReported \/ ProfileReported \/ BoardReported

Next ==
    \/ Launch \/ Kill \/ SignOutRuns \/ ForcedSignOut
    \/ LogOut \/ SignUpInvalid \/ DismissAlert
    \/ \E u \in EmailUsers : SignIn(u) \/ SignUp(u)
    \/ \E u \in AppleUsers : SignUpWithApple(u)
    \/ AuthAnswered \/ StoreAnswered
    \/ Reports

\* The servers can be reached, and the main queue runs its blocks.
Fairness ==
    /\ WF_vars(AuthAnswered) /\ WF_vars(StoreAnswered)
    /\ WF_vars(SignOutRuns) /\ WF_vars(Reports)

Spec == Init /\ [][Next]_vars
FairSpec == Spec /\ Fairness

-----------------------------------------------------------------------------
(* Properties.                                                               *)

\* isLoading is only ever toggled, on every path of four chains of completions;
\* it must still say that a call is under way.
LoadingIsCall == isLoading <=> call.op # "none"

\* The tab bar is shown to a signed-in user, unless Firebase Auth signed the
\* user out on its own.
LoggedInHasUser == isLoggedIn => currentUser # NoUser \/ forced

\* Whoever is let in has a profile and a first board, except a user whose
\* sign-up failed or broke off once the account may have existed.
LoggedInIsInitialised ==
    isLoggedIn /\ currentUser # NoUser =>
        currentUser \in (profiles \cap boards) \cup partial

\* A signed-in user is asked to authenticate only after a sign-up that failed
\* half way or a sign-out that failed.
OutOnlyAfterFailure ==
    alive /\ currentUser # NoUser /\ call.op = "none" /\ ~isLoggedIn => stuck

\* The session keeps the promise of Account: nobody reaches the tab bar but
\* through an authentication that left a profile and a board, or a launch that
\* remembers the user.
phase ==
    IF ~alive THEN "closed"
    ELSE IF isLoggedIn THEN "in"
    ELSE IF isLoading THEN "busy"
    ELSE "out"

Promise == INSTANCE Account
           WITH Nobody <- NoUser, user <- currentUser,
                ready <- (profiles \cap boards) \cup partial

ImplementsAccount == Promise!Spec

\* The authentication screen becomes usable again.
LoadingEnds == isLoading ~> ~isLoading
=============================================================================
