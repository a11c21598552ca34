---------------------------- MODULE InsideBoard ----------------------------
(***************************************************************************)
(* The main screen of the app: InsideBoardViewModel and the screens pushed *)
(* from it that create, edit and delete posts and boards, over the         *)
(* repository of boards, the board kept in UserDefaults (LocalRepository)  *)
(* and the pending local notifications (UserNotificationService).          *)
(*                                                                         *)
(* A board or a post is its uid.  The grid's order, the images and the     *)
(* text fields are left out; the user is signed in throughout.             *)
(***************************************************************************)
EXTENDS BoardsRepository

CONSTANT Tabs    \* the tabs of the screen: 0 grid, 1 calendar, 2 ideas

ASSUME TabsAssumption == 0 \in Tabs /\ Tabs \subseteq 0..2

VARIABLES
    alive,       \* the process runs
    tab,         \* states.selectedIndex
    isLoading,   \* states.isLoading: the overlay that disables the screen
    errorAlert,  \* states.errorAlertIsShowing
    board,       \* states.board
    boards,      \* states.boards
    posts,       \* posts
    screen,      \* the screen pushed over the main one, with what it captured
    saved,       \* UserDefaults "currentBoard"
    notif,       \* pending notification requests: post uid -> boardUid, or Nil
    fresh,       \* uids that Firestore has not generated yet
    shownOf,     \* history: the board of the fetch that filled posts
    shownNewest, \* history: no getAllPosts has been called since that fetch was
    overtaken    \* history: a board was deleted under a load or under the user

uiVars == <<tab, errorAlert, screen>>
histVars == <<shownOf, shownNewest, overtaken>>
vars == <<repoVars, alive, tab, isLoading, errorAlert, board, boards, posts, screen,
          saved, notif, fresh, histVars>>

Screens == [at : {"main", "profile", "edit", "create", "details", "leaving"},
            board : Boards \cup {NoUid}, post : Posts \cup {Nil}]
Push(at, b, p) == [at |-> at, board |-> b, post |-> p]
MainScreen == Push("main", NoUid, Nil)
Leaving == Push("leaving", NoUid, Nil)

TypeOK ==
    /\ RepoTypeOK
    /\ alive \in BOOLEAN
    /\ tab \in Tabs
    /\ isLoading \in BOOLEAN
    /\ errorAlert \in BOOLEAN
    /\ board \in Boards \cup {NoUid}
    /\ boards \subseteq Boards
    /\ posts \subseteq Posts
    /\ screen \in Screens
    /\ saved \in Saved
    /\ notif \in [Posts -> Saved]
    /\ fresh \subseteq Boards \cup Posts
    /\ shownOf \in Boards \cup {NoUid}
    /\ shownNewest \in BOOLEAN
    /\ overtaken \in BOOLEAN

-----------------------------------------------------------------------------
(* A launch: a new view model, whose screen appears and loads.  The first    *)
(* one follows a sign-in, with or without a board saved by the sign-up.      *)

Init ==
    /\ \E known \in SUBSET Boards :
           /\ server = {<<b>> : b \in known}
           /\ saved \in known \cup {Nil}
           /\ fresh = (Boards \ known) \cup Posts
    /\ writes = <<>>
    /\ reads = [s \in Slots |-> Idle]
    /\ main = <<>>
    /\ refused = {}
    /\ alive = FALSE
    /\ isLoading = FALSE
    /\ tab = 0
    /\ errorAlert = FALSE
    /\ board = NoUid
    /\ boards = {}
    /\ posts = {}
    /\ screen = MainScreen
    /\ shownOf = NoUid
    /\ shownNewest = FALSE
    /\ notif = [p \in Posts |-> Nil]
    /\ overtaken = FALSE

\* onAppear -> loadUserData -> getAllBoards, the saved board read before the call.
LoadUserData ==
    /\ isLoading' = (isLoading \/ tab = 0)
    /\ \E s \in Slots : GetAllBoards(s, saved)

Launch ==
    /\ ~alive
    /\ alive' = TRUE
    /\ LoadUserData
    /\ UNCHANGED <<server, writes, main, refused, uiVars, board, boards, posts, saved,
                   notif, fresh, histVars>>

\* A process that ends loses its view model, its reads, its main queue and its
\* completion handlers; the queued writes, UserDefaults and the notifications
\* survive.  queued are the writes at that moment.
ProcessEnds(queued) ==
    /\ alive' = FALSE
    /\ tab' = 0
    /\ isLoading' = FALSE
    /\ errorAlert' = FALSE
    /\ board' = NoUid
    /\ boards' = {}
    /\ posts' = {}
    /\ screen' = MainScreen
    /\ reads' = [s \in Slots |-> Idle]
    /\ main' = <<>>
    /\ writes' = [i \in DOMAIN queued |-> [queued[i] EXCEPT !.done = "none"]]
    /\ shownOf' = NoUid
    /\ shownNewest' = FALSE

Kill ==
    /\ alive
    /\ ProcessEnds(writes)
    /\ UNCHANGED <<server, refused, saved, notif, fresh, overtaken>>

\* LocalRepository.saveCurrent(board:).
SaveCurrentLost(b) == UNCHANGED saved       \* mutant: the save is forgotten
SaveCurrent(b) == saved' = b

\* getAllPosts, once b is states.board; rest is what stays on the main queue.
GetAllPosts(b, rest) ==
    /\ b # NoUid
    /\ board' = b
    /\ SaveCurrent(b)
    /\ isLoading' = (isLoading \/ tab = 0)
    /\ \E s \in Slots : GetAllItensToShow(s, b)
    /\ main' = NoLongerNewest(rest)
    /\ shownNewest' = FALSE
    /\ UNCHANGED <<alive, uiVars>>

\* getAllPosts of the board without uid: collection.document("") is a fatal
\* error, and saveCurrent comes before it.
GetAllPostsOfNoBoard(queued) ==
    /\ SaveCurrent(NoUid)
    /\ ProcessEnds(queued)

-----------------------------------------------------------------------------
(* The main screen.  The overlay and the alert take the user's taps away.    *)

OnMain == alive /\ screen = MainScreen /\ ~isLoading /\ ~errorAlert

SelectTab(t) ==
    /\ OnMain
    /\ tab' = t
    /\ UNCHANGED <<repoVars, alive, isLoading, errorAlert, board, boards, posts, screen,
                   saved, notif, fresh, histVars>>

\* Mutant: the setter of bindings.board without its getAllPosts.
SelectBoardOnly(b) ==
    /\ OnMain
    /\ b \in boards
    /\ board' = b
    /\ SaveCurrent(b)
    /\ UNCHANGED <<repoVars, alive, tab, isLoading, errorAlert, boards, posts, screen,
                   notif, fresh, histVars>>

\* A tap on a board of the profile sheet: the setter of bindings.board.
SelectBoard(b) ==
    /\ OnMain
    /\ b \in boards
    /\ Room
    /\ GetAllPosts(b, main)
    /\ UNCHANGED <<server, writes, refused, boards, posts, notif, fresh, shownOf,
                   overtaken>>

Open(next) ==
    /\ OnMain
    /\ screen' = next
    /\ UNCHANGED <<repoVars, alive, tab, isLoading, errorAlert, board, boards, posts,
                   saved, notif, fresh, histVars>>

OpenProfile == Open(Push("profile", NoUid, Nil))
OpenEdit(b) == b \in boards /\ Open(Push("edit", b, Nil))
OpenCreate == tab = 0 /\ Open(Push("create", NoUid, Nil))
\* The details screen captures the post and the board of this moment.
OpenDetails(p) == tab = 0 /\ p \in posts /\ Open(Push("details", board, p))

\* Cancel, or the dismissal at the end of an operation: the main screen
\* appears again and loads again.
Back ==
    /\ alive
    /\ screen # MainScreen
    /\ screen' = MainScreen
    /\ Room
    /\ LoadUserData
    /\ UNCHANGED <<server, writes, main, refused, alive, tab, errorAlert, board, boards,
                   posts, saved, notif, fresh, histVars>>

DismissAlert ==
    /\ alive
    /\ errorAlert
    /\ errorAlert' = FALSE
    /\ UNCHANGED <<repoVars, alive, tab, isLoading, board, boards, posts, screen, saved,
                   notif, fresh, histVars>>

-----------------------------------------------------------------------------
(* Creating, changing and deleting posts and boards.                         *)

CreateBoard(b) ==
    /\ alive
    /\ screen.at = "profile"
    /\ b \in fresh \cap Boards
    /\ Create(b)
    /\ fresh' = fresh \ {b}
    /\ screen' = Leaving
    /\ UNCHANGED <<server, reads, main, refused, alive, tab, isLoading, errorAlert, board,
                   boards, posts, saved, notif, histVars>>

\* A request with the identifier of a pending one replaces it.
SetUserNotification(p, b) == [notif EXCEPT ![p] = b]
NotificationsKept(uids) == notif            \* mutant: nothing is removed
DeleteNotificationWith(uids) == [p \in Posts |-> IF p \in uids THEN Nil ELSE notif[p]]

\* CreatePostUIView is rebuilt with states.board whenever that changes.
AddPostToBoard(p, scheduled) ==
    /\ alive
    /\ screen.at = "create"
    /\ p \in fresh \cap Posts
    /\ \/ /\ board = NoUid
          /\ ProcessEnds(writes)
          /\ UNCHANGED <<notif, fresh>>
       \/ /\ board # NoUid
          /\ SetItem(board, p)
          /\ fresh' = fresh \ {p}
          /\ notif' = IF scheduled THEN SetUserNotification(p, board) ELSE notif
          /\ screen' = Leaving
          /\ UNCHANGED <<reads, main, alive, tab, isLoading, errorAlert, board, boards,
                         posts, shownOf, shownNewest>>
    /\ UNCHANGED <<server, refused, saved, overtaken>>

\* A change of the notification and then a write of the post of the details.
ChangePost(scheduled, write) ==
    /\ alive
    /\ screen.at = "details"
    /\ notif' = IF scheduled THEN SetUserNotification(screen.post, screen.board)
                ELSE DeleteNotificationWith({screen.post})
    /\ \/ /\ screen.board = NoUid
          /\ ProcessEnds(writes)
       \/ /\ screen.board # NoUid
          /\ write
          /\ UNCHANGED <<reads, main, alive, tab, isLoading, errorAlert, board, boards,
                         posts, shownOf, shownNewest>>
    /\ UNCHANGED <<server, refused, saved, fresh, overtaken>>

\* Without a usable image the code returns before its completion handler, and
\* the screen stays.
SaveChangesToPost(scheduled) ==
    ChangePost(scheduled, SetItem(screen.board, screen.post) /\ screen' \in {Leaving, screen})

DeletePost ==
    ChangePost(FALSE, DeleteItem(screen.board, screen.post) /\ screen' = Leaving)

CanDelete(b) == alive /\ screen = Push("edit", b, Nil) /\ Cardinality(boards) # 1

\* Mutants: the notifications stay; the board stays in the list.
DeleteSelectedLoudly(b, uids) ==
    /\ UNCHANGED notif
    /\ Delete(b)
    /\ boards' = boards \ {b}
DeleteSelectedListed(b, uids) ==
    /\ notif' = DeleteNotificationWith(uids)
    /\ Delete(b)
    /\ UNCHANGED boards

\* deleteSelected: the notifications, then the document, then the list.
DeleteSelected(b, uids) ==
    /\ notif' = DeleteNotificationWith(uids)
    /\ Delete(b)
    /\ boards' = boards \ {b}

\* delete(board:) of the current board: the uids are those of the posts on
\* display, and a board that remains becomes the current one.
DeleteCurrent(b) ==
    /\ CanDelete(b)
    /\ b = board
    /\ boards \ {b} # {}
    /\ Room
    /\ DeleteSelected(b, posts)
    /\ \E next \in boards \ {b} : GetAllPosts(next, main)
    /\ overtaken' = (overtaken \/ Outstanding({"boards"}))
    /\ UNCHANGED <<server, refused, posts, fresh, shownOf>>

\* None remains when the list became empty after the screen was opened.
DeleteLast(b) ==
    /\ CanDelete(b)
    /\ b = board
    /\ boards \ {b} = {}
    /\ notif' = DeleteNotificationWith(posts)
    /\ Len(writes) < MaxWrites
    /\ GetAllPostsOfNoBoard(Append(writes, [op |-> "delete", doc |-> <<b>>, done |-> "none"]))
    /\ overtaken' = (overtaken \/ Outstanding({"boards"}))
    /\ UNCHANGED <<server, refused, fresh>>

\* delete(board:) of another board first reads its posts.
DeleteOther(b) ==
    /\ CanDelete(b)
    /\ b # board
    /\ Room
    /\ \E s \in Slots : GetAllItensToPurge(s, b)
    /\ UNCHANGED <<server, writes, main, refused, alive, uiVars, isLoading, board, boards,
                   posts, saved, notif, fresh, histVars>>

-----------------------------------------------------------------------------
(* The completion handlers, one per step of the main queue.                  *)

Delivers(kind) == alive /\ main # <<>> /\ Head(main).kind = kind

\* Mutant: the saved board is used without a test for nil.
ChosenUnchecked(a) == {a.captured}

\* The board to show: the one saved when the call was made, whatever has been
\* selected, or deleted, since; else the first of the list.
Chosen(a) ==
    IF a.captured # Nil THEN {a.captured}
    ELSE IF a.found = {} THEN {NoUid}
    ELSE a.found

BoardsLoaded ==
    /\ Delivers("boards")
    /\ Head(main).ok
    /\ \/ /\ \E b \in Chosen(Head(main)) : GetAllPosts(b, Tail(main))
          /\ boards' = Head(main).found
          /\ UNCHANGED <<writes, posts, shownOf>>
       \/ /\ Chosen(Head(main)) = {NoUid}
          /\ GetAllPostsOfNoBoard(writes)
    /\ UNCHANGED <<server, refused, notif, fresh, overtaken>>

BoardsFailed ==
    /\ Delivers("boards")
    /\ ~Head(main).ok
    /\ main' = Tail(main)
    /\ isLoading' = FALSE
    /\ errorAlert' = ~errorAlert
    /\ board' = NoUid
    /\ SaveCurrent(NoUid)
    /\ UNCHANGED <<server, writes, reads, refused, alive, tab, boards, posts, screen,
                   notif, fresh, histVars>>

PostsLoaded ==
    /\ Delivers("posts")
    /\ Head(main).ok
    /\ main' = Tail(main)
    /\ isLoading' = FALSE
    /\ posts' = Head(main).found
    /\ shownOf' = Head(main).board
    /\ shownNewest' = Head(main).newest
    /\ UNCHANGED <<server, writes, reads, refused, alive, uiVars, board, boards, saved,
                   notif, fresh, overtaken>>

\* Mutant: only a successful load takes the overlay down.
PostsFailedLoading ==
    /\ Delivers("posts")
    /\ ~Head(main).ok
    /\ main' = Tail(main)
    /\ errorAlert' = ~errorAlert
    /\ UNCHANGED <<server, writes, reads, refused, alive, tab, isLoading, board, boards,
                   posts, screen, saved, notif, fresh, histVars>>

PostsFailed ==
    /\ Delivers("posts")
    /\ ~Head(main).ok
    /\ main' = Tail(main)
    /\ isLoading' = FALSE
    /\ errorAlert' = ~errorAlert
    /\ UNCHANGED <<server, writes, reads, refused, alive, tab, board, boards, posts,
                   screen, saved, notif, fresh, histVars>>

PurgeLoaded ==
    /\ Delivers("purge")
    /\ Head(main).ok
    /\ main' = Tail(main)
    /\ DeleteSelected(Head(main).board, Head(main).found)
    /\ overtaken' = (overtaken \/ Head(main).board = board \/ Outstanding({"boards"}))
    /\ UNCHANGED <<server, reads, refused, alive, uiVars, isLoading, board, posts, saved,
                   fresh, shownOf, shownNewest>>

\* completion(_) of delete(board:), which dismisses the screen that asked for it.
Dismissed(b) ==
    IF screen = Push("edit", b, Nil)
    THEN /\ screen' = MainScreen
         /\ LoadUserData
    ELSE UNCHANGED <<screen, isLoading, reads>>

DeletionReported ==
    /\ \/ Delivers("board")
       \/ Delivers("purge") /\ ~Head(main).ok
    /\ main' = Tail(main)
    /\ Dismissed(Head(main).board)
    /\ UNCHANGED <<server, writes, refused, alive, tab, errorAlert, board, boards, posts,
                   saved, notif, fresh, histVars>>

\* completion of deletePost: only the image follows, in the image repository.
PostDeletionReported ==
    /\ Delivers("post")
    /\ main' = Tail(main)
    /\ UNCHANGED <<server, writes, reads, refused, alive, uiVars, isLoading, board, boards,
                   posts, saved, notif, fresh, histVars>>

-----------------------------------------------------------------------------
(* The system: notifications fire, Firestore answers and settles writes.     *)

NotificationLeaves(p) ==
    /\ notif[p] # Nil
    /\ notif' = DeleteNotificationWith({p})
    /\ UNCHANGED <<repoVars, alive, uiVars, isLoading, board, boards, posts, saved, fresh,
                   histVars>>

\* ScheduledPostDetails of the calendar: the notification goes, the post stays.
PublishScheduled(p) == OnMain /\ tab = 1 /\ notif[p] = board /\ NotificationLeaves(p)

vmVars == <<alive, uiVars, isLoading, board, boards, posts, saved, notif, fresh, histVars>>

ReadAnswered(s) == alive /\ \E ok \in ReadOutcomes : Answer(s, ok) /\ UNCHANGED vmVars
WriteSettled == alive /\ \E ok \in WriteOutcomes : Settle(ok) /\ UNCHANGED vmVars

MainQueue ==
    \/ BoardsLoaded \/ BoardsFailed \/ PostsLoaded \/ PostsFailed
    \/ PurgeLoaded \/ DeletionReported \/ PostDeletionReported

User ==
    \/ \E t \in Tabs : SelectTab(t)
    \/ \E b \in Boards :
           \/ SelectBoard(b) \/ OpenEdit(b) \/ CreateBoard(b)
           \/ DeleteCurrent(b) \/ DeleteLast(b) \/ DeleteOther(b)
    \/ \E p \in Posts :
           \/ OpenDetails(p) \/ PublishScheduled(p)
           \/ \E scheduled \in BOOLEAN : AddPostToBoard(p, scheduled)
    \/ OpenProfile \/ OpenCreate \/ Back \/ DismissAlert
    \/ \E scheduled \in BOOLEAN : SaveChangesToPost(scheduled)
    \/ DeletePost

Next ==
    \/ Launch \/ Kill
    \/ User
    \/ MainQueue
    \/ \E p \in Posts : NotificationLeaves(p)
    \/ \E s \in Slots : ReadAnswered(s)
    \/ WriteSettled

\* The main queue runs; Firestore answers reads, from its cache when offline.
\* Nothing is assumed of the user, of the server's settling of writes, or of kills.
Fairness ==
    /\ WF_vars(MainQueue)
    /\ \A s \in Slots : WF_vars(ReadAnswered(s))

Spec == Init /\ [][Next]_vars
FairSpec == Spec /\ Fairness

-----------------------------------------------------------------------------
(* Properties.                                                               *)

\* The overlay that disables the screen is up only while an answer that takes
\* it down, or that starts another load, is still to come.
SpinnerHasWork == alive /\ isLoading => Outstanding({"boards", "posts"})

\* What the screen shows is what the next launch will show: every path that
\* changes the current board saves it in the same step.
SavedIsShown == alive /\ board # NoUid => saved = board

\* Answers arrive in any order, so the grid may show the posts of another
\* board; but not once the answer to the newest fetch has been delivered last.
PostsOfNewestFetch == alive /\ shownNewest /\ board # NoUid => shownOf = board

\* The current board is a board of the store, unless it was deleted while a
\* load that had captured it was in flight or after the user had moved to it,
\* or the server refused to store it.
CurrentBoardExists ==
    alive /\ board # NoUid =>
        InView(<<board>>) \/ overtaken \/ <<board>> \in refused

\* A pending notification announces a post that is stored under the board it
\* names (or that the server refused): deletions, replacements under another
\* board and deletions of boards leave no notification without its post.
NotificationHasPost ==
    \A p \in Posts :
        notif[p] \in Boards =>
            InView(<<notif[p], p>>) \/ <<notif[p], p>> \in refused

\* Deleting the current board leaves none of its notifications behind when the
\* grid shows all of its posts.  (It may not: see CurrentBoardExists.)
DeletionSilences ==
    [][\A b \in Boards :
          DeleteCurrent(b) /\ PostsInView(b) \subseteq posts
                           /\ (\A p \in Posts : <<b, p>> \notin refused)
          => \A p \in Posts : notif'[p] # b]_vars

\* The overlay does not stay for ever, whatever order the answers come in.
SpinnerStops == isLoading /\ alive ~> ~isLoading \/ ~alive

\* The process ends only when it is killed: no reference to a document is built
\* from an empty uid.
EndsOnlyByKill == [][alive /\ ~alive' => Kill]_vars
=============================================================================
