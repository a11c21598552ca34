------------------------------- MODULE Device -------------------------------
(***************************************************************************)
(* One device and the users who share it: the session, composed with the    *)
(* board on the main screen.                                                *)
(*                                                                          *)
(* The board saved for the next launch belongs to the device, not to the    *)
(* user: it is neither kept per user nor cleared at a sign-out.  The view   *)
(* model of the main screen goes with its screen, but a fetch of posts      *)
(* under way keeps it alive ("ghost"), and with it its load of boards,      *)
(* which then still saves a board.                                          *)
(*                                                                          *)
(* A board is its owner and whether it has a uid; posts, tabs and the       *)
(* screens above the main one are those of InsideBoard.                     *)
(***************************************************************************)
EXTENDS Session, Naturals

CONSTANT MaxFetches     \* bound: getAllPosts calls of a view model in flight

ASSUME MaxFetchesAssumption == MaxFetches \in Nat

VARIABLES
    savedUid,   \* has the board under "currentBoard" a uid?
    model,      \* the view models of the main screen
    doomed,     \* a fatal error ends the process
    newcomer,   \* history: whose sign-up opened the screen, if no ghost saved since
    emptied     \* history: a load failed, or missed a board it might have found

deviceVars == <<vars, savedUid, model, doomed, newcomer, emptied>>

Board(u, uid) == [owner |-> u, uid |-> uid]
NoBoard == Board(NoUser, FALSE)
BoardVals == {NoBoard} \cup [owner : Users, uid : BOOLEAN]
savedBoard == Board(saved, savedUid)

Models == {"screen", "ghost"}
\* load: getAllBoards with the user it asks for and the board saved before it.
NoLoad == [user |-> NoUser, captured |-> NoBoard]
Model == [board : BoardVals, list : Users \cup {NoUser}, fetches : 0..MaxFetches,
          usable : BOOLEAN,
          load : {NoLoad} \cup [user : Users, captured : BoardVals]]
NoModel == [board |-> NoBoard, list |-> NoUser, fetches |-> 0, usable |-> FALSE,
            load |-> NoLoad]

DeviceTypeOK ==
    /\ TypeOK
    /\ savedBoard \in BoardVals
    /\ model \in [Models -> Model]
    /\ doomed \in BOOLEAN /\ emptied \in BOOLEAN
    /\ newcomer \in Users \cup {NoUser}

DeviceInit ==
    /\ Init
    /\ savedUid = FALSE
    /\ model = [m \in Models |-> NoModel]
    /\ doomed = FALSE
    /\ newcomer = NoUser /\ emptied = FALSE

-----------------------------------------------------------------------------
(* The session moves, and the main screen comes and goes with isLoggedIn.    *)

\* onAppear of the main screen; without a user it only takes its overlay down.
LoadUserData(mod, u, b) ==
    IF u = NoUser THEN [mod EXCEPT !.usable = TRUE]
    ELSE [mod EXCEPT !.load = [user |-> u, captured |-> b]]

Appears ==
    model' = [model EXCEPT !["screen"] = LoadUserData(NoModel, currentUser', savedBoard')]

\* A model lives on while a fetch is in flight; without a load it does nothing
\* more.  Bound: one such model at a time.
Disappears ==
    LET mod == model["screen"]
        lives == mod.fetches > 0 /\ mod.load # NoLoad
    IN
    /\ lives => model["ghost"] = NoModel
    /\ model' = [model EXCEPT !["screen"] = NoModel,
                              !["ghost"] = IF lives THEN mod ELSE @]

SessionMoves ==
    /\ Next
    /\ doomed => ~alive'
    /\ doomed' = FALSE
    /\ LogOut => model["screen"].usable
    /\ savedUid' = (savedUid \/ (call.op = "board" /\ isLoggedIn'))
    /\ \/ ~alive' /\ model' = [m \in Models |-> NoModel]
       \/ isLoggedIn' /\ ~isLoggedIn /\ Appears
       \/ isLoggedIn /\ ~isLoggedIn' /\ alive' /\ Disappears
       \/ isLoggedIn' = isLoggedIn /\ alive' /\ UNCHANGED model
    /\ newcomer' = IF ~isLoggedIn' THEN NoUser
                   ELSE IF ~isLoggedIn /\ call.op = "board" THEN call.user
                   ELSE newcomer
    /\ UNCHANGED emptied

-----------------------------------------------------------------------------
(* The main screen moves, and the session stays.                             *)

sessionButSaved == <<currentUser, accounts, profiles, boards, named, authError, alive,
                     stateVars, signingOut, call, histVars>>

\* LocalRepository.saveCurrent(board:) by the view model m.
SaveCurrent(m, b) ==
    /\ saved' = b.owner /\ savedUid' = b.uid
    /\ newcomer' = IF m = "ghost" THEN NoUser ELSE newcomer

\* getAllPosts, once b is states.board: a fatal error without a uid, after the save.
GetAllPosts(m, b, mod) ==
    /\ SaveCurrent(m, b)
    /\ doomed' = ~b.uid
    /\ mod.fetches < MaxFetches
    /\ model' = [model EXCEPT ![m] = [mod EXCEPT !.board = b, !.fetches = @ + 1]]

MainScreenMoves ==
    /\ alive
    /\ ~doomed
    /\ UNCHANGED sessionButSaved

\* The board saved before the call, else the user's own, else one without uid.
Chosen(load, found) ==
    IF load.captured # NoBoard THEN load.captured
    ELSE Board(load.user, found)

\* Offline the query is answered from a cache that may not have the board.
BoardsLoaded(m) ==
    LET mod == model[m]
        u == mod.load.user
    IN
    /\ MainScreenMoves
    /\ mod.load # NoLoad
    /\ \E found \in BOOLEAN :
           /\ found => u \in boards
           /\ GetAllPosts(m, Chosen(mod.load, found),
                          [mod EXCEPT !.load = NoLoad, !.list = IF found THEN u ELSE NoUser])
           /\ emptied' = (emptied \/ (/\ mod.load.captured = NoBoard /\ ~found
                                     /\ u \in boards \cup partial))

BoardsFailed(m) ==
    LET mod == model[m]
        empty == Board(mod.load.user, FALSE)
    IN
    /\ MainScreenMoves
    /\ mod.load # NoLoad
    /\ SaveCurrent(m, empty)
    /\ model' = [model EXCEPT ![m] = [mod EXCEPT !.load = NoLoad, !.board = empty,
                                                 !.usable = TRUE]]
    /\ emptied' = TRUE
    /\ UNCHANGED doomed

\* The answer to the last fetch lets a ghost go, and its load with it.
PostsAnswered(m) ==
    LET mod == model[m] IN
    /\ MainScreenMoves
    /\ mod.fetches > 0
    /\ model' = [model EXCEPT ![m] = IF m = "ghost" /\ mod.fetches = 1 THEN NoModel
                                     ELSE [mod EXCEPT !.fetches = @ - 1, !.usable = TRUE]]
    /\ UNCHANGED <<saved, savedUid, doomed, newcomer, emptied>>

\* A tap on the user's board in the profile sheet.
SelectBoard ==
    LET mod == model["screen"] IN
    /\ MainScreenMoves
    /\ isLoggedIn /\ mod.usable
    /\ mod.list # NoUser
    /\ GetAllPosts("screen", Board(mod.list, TRUE), mod)
    /\ UNCHANGED emptied

\* The main screen appears again.  Bound: one load of boards at a time.
Back ==
    LET mod == model["screen"] IN
    /\ MainScreenMoves
    /\ isLoggedIn /\ mod.usable
    /\ mod.load = NoLoad
    /\ model' = [model EXCEPT !["screen"] = LoadUserData(mod, currentUser, savedBoard)]
    /\ UNCHANGED <<saved, savedUid, doomed, newcomer, emptied>>

MainScreen ==
    \/ \E m \in Models :
           BoardsLoaded(m) \/ BoardsFailed(m) \/ PostsAnswered(m)
    \/ SelectBoard \/ Back

DeviceNext == SessionMoves \/ MainScreen

DeviceFairness ==
    /\ Fairness
    /\ WF_deviceVars(doomed /\ SessionMoves)

DeviceSpec == DeviceInit /\ [][DeviceNext]_deviceVars
DeviceFairSpec == DeviceSpec /\ DeviceFairness

-----------------------------------------------------------------------------
(* Properties.                                                               *)

\* Whoever has just signed up sees the own board first, and never the board
\* another user left on the device: the new board is saved before the screen
\* that loads it appears.  (Only a ghost of an earlier user can save over it.)
NewcomerSeesOwn ==
    newcomer # NoUser /\ model["screen"].board # NoBoard =>
        model["screen"].board.owner = newcomer

\* The board without uid, which ends the process of whoever uses the device at
\* this launch and the next ones, comes only from a load that failed, or that was
\* answered by a cache without the board, or from a sign-up that broke off: the
\* session lets in no other user without a board.
DiesOnlyAfterFailure == doomed => emptied
=============================================================================
