------------------------- MODULE InsideBoard_proofs -------------------------
(***************************************************************************)
(* What the main screen shows, saves and waits for: proofs of the types and  *)
(* of the safety invariants of InsideBoard for every value of its constants. *)
(*                                                                          *)
(* The invariants are about the current board, the saved board, the grid,   *)
(* the overlay and the loads under way.  StepEffects says once what each    *)
(* step does to these; the invariants are then proved over the effects.     *)
(*                                                                          *)
(* The second part is about the documents: no notification and no current   *)
(* board outlives its own.  StoreEffects says what each step does to the    *)
(* documents that the device sees and to the notifications; KnownGrows      *)
(* where the boards that the app knows of come from.                        *)
(***************************************************************************)
EXTENDS InsideBoard, Lists_proofs

(***************************************************************************)
(* What the kinds of calls and screens say of their arguments.  Type        *)
(* correctness is inductive only together with it: a list of boards that    *)
(* arrives holds boards, and a purge names a board that has a document.     *)
(***************************************************************************)
ReadKindOK(r) == r.kind \in {"posts", "purge"} => r.board \in Boards

AnswerKindOK(a) ==
    /\ a.kind # "boards" => a.board \in Boards
    /\ a.kind = "boards" => a.found \subseteq Boards
    /\ a.kind # "boards" => a.found \subseteq Posts

KindsOK ==
    /\ \A s \in Slots : ReadKindOK(reads[s])
    /\ \A i \in DOMAIN main : AnswerKindOK(main[i])
    /\ screen.at = "edit" => screen.board \in Boards
    /\ screen.at = "details" => screen.post \in Posts

TInv == TypeOK /\ KindsOK

-----------------------------------------------------------------------------
(* Lemmas about the calls.                                                   *)

\* Queueing a write of a document keeps the queue a sequence of writes.
LEMMA EnqueueType ==
    ASSUME writes \in Seq(Write), NEW op \in {"set", "delete"}, NEW doc \in Docs,
           NEW done \in {"none", "board", "post"}, Enqueue(op, doc, done)
    PROVE  writes' \in Seq(Write)
  BY DEF Enqueue, Write

\* The head and the tail of a main queue that is not empty.
LEMMA MainQueueType ==
    ASSUME TInv, main # <<>>
    PROVE  /\ Head(main) \in Answers
           /\ AnswerKindOK(Head(main))
           /\ Tail(main) \in Seq(Answers)
           /\ \A i \in DOMAIN Tail(main) : AnswerKindOK(Tail(main)[i])
  BY DEF TInv, TypeOK, RepoTypeOK, KindsOK

\* Marking the answers of a queue as no longer the newest keeps it well formed.
LEMMA NoLongerNewestType ==
    ASSUME NEW queue \in Seq(Answers), \A i \in DOMAIN queue : AnswerKindOK(queue[i])
    PROVE  /\ NoLongerNewest(queue) \in Seq(Answers)
           /\ DOMAIN NoLongerNewest(queue) = DOMAIN queue
           /\ \A i \in DOMAIN queue : AnswerKindOK(NoLongerNewest(queue)[i])
<1> DEFINE n == Len(queue)
           marked == NoLongerNewest(queue)
<1>1. n \in Nat /\ DOMAIN queue = 1..n /\ \A i \in 1..n : queue[i] \in Answers
  BY LenProperties, ElementOfSeq
<1>2. \A i \in 1..n : [queue[i] EXCEPT !.newest = FALSE] \in Answers
  BY <1>1 DEF Answers
<1>3. marked \in [1..n -> Answers]
  BY <1>1, <1>2 DEF NoLongerNewest
<1>4. marked \in Seq(Answers)
  BY <1>1, <1>3, SeqDef
<1>5. DOMAIN marked = DOMAIN queue
  BY <1>1, <1>3
<1>6. ASSUME NEW i \in DOMAIN queue
      PROVE  AnswerKindOK(marked[i])
  <2>1. marked[i] = [queue[i] EXCEPT !.newest = FALSE]
    BY <1>6 DEF NoLongerNewest
  <2>2. queue[i] \in Answers
    BY <1>1, <1>6
  <2>3. /\ marked[i].kind = queue[i].kind
        /\ marked[i].board = queue[i].board
        /\ marked[i].found = queue[i].found
    BY <2>1, <2>2 DEF Answers
  <2> QED BY <2>3, <1>6 DEF AnswerKindOK
<1> QED BY <1>4, <1>5, <1>6

\* The reads that remain when a fetch of posts becomes the newest one.
LEMMA GetAllItensToShowType ==
    ASSUME TInv, NEW s \in Slots, NEW b \in Boards, GetAllItensToShow(s, b)
    PROVE  reads' \in [Slots -> Read] /\ \A t \in Slots : ReadKindOK(reads'[t])
<1>1. \A t \in Slots : reads[t] \in Read /\ ReadKindOK(reads[t])
  BY DEF TInv, TypeOK, RepoTypeOK, KindsOK
<1>2. [kind |-> "posts", board |-> b, captured |-> Nil, newest |-> TRUE] \in Read
  BY DEF Read, Saved
<1>3. \A t \in Slots : /\ [reads[t] EXCEPT !.newest = FALSE] \in Read
                       /\ [reads[t] EXCEPT !.newest = FALSE].kind = reads[t].kind
                       /\ [reads[t] EXCEPT !.newest = FALSE].board = reads[t].board
  BY <1>1 DEF Read
<1>4. reads' \in [Slots -> Read]
  BY <1>2, <1>3 DEF GetAllItensToShow
<1>5. ASSUME NEW t \in Slots PROVE ReadKindOK(reads'[t])
  <2>1. CASE t = s
    BY <2>1 DEF GetAllItensToShow, ReadKindOK
  <2>2. CASE t # s
    <3>1. reads'[t] = [reads[t] EXCEPT !.newest = FALSE]
      BY <2>2 DEF GetAllItensToShow
    <3> QED BY <1>1, <1>3, <3>1 DEF ReadKindOK
  <2> QED BY <2>1, <2>2
<1> QED BY <1>4, <1>5

LEMMA GetAllBoardsType ==
    ASSUME TInv, NEW s \in Slots, NEW captured \in Saved, GetAllBoards(s, captured)
    PROVE  reads' \in [Slots -> Read] /\ \A t \in Slots : ReadKindOK(reads'[t])
  BY DEF TInv, TypeOK, RepoTypeOK, KindsOK, GetAllBoards, Read, ReadKindOK

LEMMA GetAllItensToPurgeType ==
    ASSUME TInv, NEW s \in Slots, NEW b \in Boards, GetAllItensToPurge(s, b)
    PROVE  reads' \in [Slots -> Read] /\ \A t \in Slots : ReadKindOK(reads'[t])
  BY DEF TInv, TypeOK, RepoTypeOK, KindsOK, GetAllItensToPurge, Read, Saved, ReadKindOK

\* A process that ends leaves the state of a process that has not started.
LEMMA ProcessEndsType ==
    ASSUME NEW queued \in Seq(Write), ProcessEnds(queued),
           server' \subseteq Docs, refused' \subseteq Docs, saved' \in Saved,
           notif' \in [Posts -> Saved], fresh' \subseteq Boards \cup Posts,
           overtaken' \in BOOLEAN
    PROVE  TInv'
<1>1. writes' \in Seq(Write)
  <2> DEFINE n == Len(queued)
  <2>1. n \in Nat /\ DOMAIN queued = 1..n /\ \A i \in 1..n : queued[i] \in Write
    BY LenProperties, ElementOfSeq
  <2>2. \A i \in 1..n : [queued[i] EXCEPT !.done = "none"] \in Write
    BY <2>1 DEF Write
  <2>3. writes' \in [1..n -> Write]
    BY <2>1, <2>2 DEF ProcessEnds
  <2> QED BY <2>1, <2>3, SeqDef
<1>2. Idle \in Read /\ Idle.kind = "idle"
  BY DEF Idle, Read, Saved
<1>3. reads' \in [Slots -> Read] /\ \A s \in Slots : ReadKindOK(reads'[s])
  BY <1>2 DEF ProcessEnds, ReadKindOK
<1>4. main' \in Seq(Answers) /\ \A i \in DOMAIN main' : AnswerKindOK(main'[i])
  BY DEF ProcessEnds
<1>5. screen' \in Screens /\ screen'.at = "main"
  BY DEF ProcessEnds, MainScreen, Push, Screens
<1>6. RepoTypeOK'
  BY <1>1, <1>3, <1>4 DEF RepoTypeOK
<1>7. TypeOK'
  BY <1>5, <1>6, TabsAssumption DEF TypeOK, ProcessEnds
<1>8. KindsOK'
  BY <1>3, <1>4, <1>5 DEF KindsOK
<1> QED BY <1>7, <1>8 DEF TInv

\* A call of getAllPosts for a board with a uid.
LEMMA GetAllPostsType ==
    ASSUME TInv, NEW b \in Boards \cup {NoUid}, NEW rest \in Seq(Answers),
           \A i \in DOMAIN rest : AnswerKindOK(rest[i]),
           GetAllPosts(b, rest)
    PROVE  /\ reads' \in [Slots -> Read]
           /\ \A t \in Slots : ReadKindOK(reads'[t])
           /\ main' \in Seq(Answers)
           /\ \A i \in DOMAIN main' : AnswerKindOK(main'[i])
           /\ board' \in Boards /\ saved' \in Saved
           /\ isLoading' \in BOOLEAN /\ shownNewest' \in BOOLEAN
           /\ UNCHANGED <<alive, tab, errorAlert, screen>>
<1>1. b \in Boards
  BY DEF GetAllPosts
<1>2. PICK s \in Slots : GetAllItensToShow(s, b)
  BY DEF GetAllPosts
<1>3. reads' \in [Slots -> Read] /\ \A t \in Slots : ReadKindOK(reads'[t])
  BY <1>1, <1>2, GetAllItensToShowType
<1>4. /\ main' \in Seq(Answers)
      /\ \A i \in DOMAIN main' : AnswerKindOK(main'[i])
  BY NoLongerNewestType DEF GetAllPosts
<1> QED BY <1>1, <1>3, <1>4 DEF GetAllPosts, SaveCurrent, Saved, uiVars

-----------------------------------------------------------------------------
(* Type correctness: Init, then one step per action.                         *)

LEMMA InitType == Init => TInv
<1> SUFFICES ASSUME Init PROVE TInv
  OBVIOUS
<1>1. PICK known \in SUBSET Boards :
          /\ server = {<<b>> : b \in known}
          /\ saved \in known \cup {Nil}
          /\ fresh = (Boards \ known) \cup Posts
  BY DEF Init
<1>2. server \subseteq Docs /\ saved \in Saved /\ fresh \subseteq Boards \cup Posts
  BY <1>1 DEF Docs, Saved
<1>3. Idle \in Read /\ Idle.kind = "idle"
  BY DEF Idle, Read, Saved
<1>4. RepoTypeOK /\ \A s \in Slots : ReadKindOK(reads[s])
  BY <1>2, <1>3 DEF Init, RepoTypeOK, ReadKindOK
<1>5. screen \in Screens /\ screen.at = "main"
  BY DEF Init, MainScreen, Push, Screens
<1>6. TypeOK
  BY <1>2, <1>4, <1>5, TabsAssumption DEF Init, TypeOK, Saved
<1> QED BY <1>4, <1>5, <1>6 DEF Init, TInv, KindsOK

\* The screens: what each of them captures has the type its name promises.
LEMMA ScreensType ==
    ASSUME TInv
    PROVE  /\ MainScreen \in Screens /\ MainScreen.at = "main"
           /\ Leaving \in Screens /\ Leaving.at = "leaving"
  BY DEF MainScreen, Leaving, Push, Screens

\* onAppear loads the boards with the board saved at that moment.
LEMMA LoadUserDataType ==
    ASSUME TInv, LoadUserData
    PROVE  /\ reads' \in [Slots -> Read]
           /\ \A t \in Slots : ReadKindOK(reads'[t])
           /\ isLoading' \in BOOLEAN
<1>1. PICK s \in Slots : GetAllBoards(s, saved)
  BY DEF LoadUserData
<1>2. saved \in Saved
  BY DEF TInv, TypeOK
<1> QED BY <1>1, <1>2, GetAllBoardsType DEF LoadUserData

LEMMA NotificationsType ==
    ASSUME TInv
    PROVE  /\ \A uids : DeleteNotificationWith(uids) \in [Posts -> Saved]
           /\ \A p \in Posts, b \in Saved : SetUserNotification(p, b) \in [Posts -> Saved]
  BY DEF TInv, TypeOK, DeleteNotificationWith, SetUserNotification, Saved

\* What the user does on the main screen and on the screens over it.
LEMMA NavigationType ==
    ASSUME TInv,
           \/ Launch \/ Back \/ DismissAlert \/ OpenProfile \/ OpenCreate
           \/ \E t \in Tabs : SelectTab(t)
           \/ \E b \in Boards : SelectBoard(b) \/ OpenEdit(b)
           \/ \E p \in Posts : OpenDetails(p)
    PROVE  TInv'
<1> USE DEF TInv, TypeOK, RepoTypeOK, KindsOK
<1>1. CASE Launch
  BY <1>1, LoadUserDataType DEF Launch, uiVars, histVars
<1>2. CASE Back
  BY <1>2, LoadUserDataType, ScreensType DEF Back, histVars
<1>3. CASE DismissAlert
  BY <1>3 DEF DismissAlert, repoVars, histVars
<1>4. CASE OpenProfile
  <2>1. Push("profile", NoUid, Nil) \in Screens
    BY DEF Push, Screens
  <2> QED BY <1>4, <2>1 DEF OpenProfile, Open, Push, repoVars, histVars
<1>5. CASE OpenCreate
  <2>1. Push("create", NoUid, Nil) \in Screens
    BY DEF Push, Screens
  <2> QED BY <1>5, <2>1 DEF OpenCreate, Open, Push, repoVars, histVars
<1>6. CASE \E t \in Tabs : SelectTab(t)
  BY <1>6 DEF SelectTab, repoVars, histVars
<1>7. ASSUME NEW b \in Boards, SelectBoard(b) PROVE TInv'
  <2>1. GetAllPosts(b, main)
    BY <1>7 DEF SelectBoard
  <2>2. /\ reads' \in [Slots -> Read]
        /\ \A t \in Slots : ReadKindOK(reads'[t])
        /\ main' \in Seq(Answers)
        /\ \A i \in DOMAIN main' : AnswerKindOK(main'[i])
        /\ board' \in Boards /\ saved' \in Saved
        /\ isLoading' \in BOOLEAN /\ shownNewest' \in BOOLEAN
        /\ UNCHANGED <<alive, tab, errorAlert, screen>>
    BY <2>1, GetAllPostsType
  <2> QED BY <1>7, <2>2 DEF SelectBoard
<1>8. ASSUME NEW b \in Boards, OpenEdit(b) PROVE TInv'
  <2>1. Push("edit", b, Nil) \in Screens
    BY DEF Push, Screens
  <2> QED BY <1>8, <2>1 DEF OpenEdit, Open, Push, repoVars, histVars
<1>9. ASSUME NEW p \in Posts, OpenDetails(p) PROVE TInv'
  <2>1. Push("details", board, p) \in Screens
    BY DEF Push, Screens
  <2> QED BY <1>9, <2>1 DEF OpenDetails, Open, Push, repoVars, histVars
<1> QED BY <1>1, <1>2, <1>3, <1>4, <1>5, <1>6, <1>7, <1>8, <1>9

\* Creating, changing and deleting posts and boards.
LEMMA EditingType ==
    ASSUME TInv,
           \/ \E b \in Boards : CreateBoard(b) \/ DeleteCurrent(b) \/ DeleteLast(b)
                                \/ DeleteOther(b)
           \/ \E p \in Posts : \E scheduled \in BOOLEAN : AddPostToBoard(p, scheduled)
           \/ \E scheduled \in BOOLEAN : SaveChangesToPost(scheduled)
           \/ DeletePost
    PROVE  TInv'
<1> USE DEF TInv, TypeOK, RepoTypeOK, KindsOK
<1>a. \A b \in Boards : <<b>> \in Docs
  BY DEF Docs
<1>b. \A b \in Boards, p \in Posts : <<b, p>> \in Docs
  BY DEF Docs
<1>c. writes \in Seq(Write)
  OBVIOUS
<1>1. ASSUME NEW b \in Boards, CreateBoard(b) PROVE TInv'
  <2>1. writes' \in Seq(Write)
    BY <1>1, <1>a, EnqueueType DEF CreateBoard, Create
  <2> QED BY <1>1, <2>1, ScreensType DEF CreateBoard, histVars
<1>2. ASSUME NEW b \in Boards, DeleteCurrent(b) PROVE TInv'
  <2>1. writes' \in Seq(Write)
    BY <1>2, <1>a, EnqueueType DEF DeleteCurrent, DeleteSelected, Delete
  <2>2. PICK next \in boards \ {b} : GetAllPosts(next, main)
    BY <1>2 DEF DeleteCurrent
  <2>3. /\ reads' \in [Slots -> Read]
        /\ \A t \in Slots : ReadKindOK(reads'[t])
        /\ main' \in Seq(Answers)
        /\ \A i \in DOMAIN main' : AnswerKindOK(main'[i])
        /\ board' \in Boards /\ saved' \in Saved
        /\ isLoading' \in BOOLEAN /\ shownNewest' \in BOOLEAN
        /\ UNCHANGED <<alive, tab, errorAlert, screen>>
    BY <2>2, GetAllPostsType
  <2> QED BY <1>2, <2>1, <2>3, NotificationsType DEF DeleteCurrent, DeleteSelected
<1>3. ASSUME NEW b \in Boards, DeleteLast(b) PROVE TInv'
  <2> DEFINE deletion == [op |-> "delete", doc |-> <<b>>, done |-> "none"]
             queued == Append(writes, deletion)
  <2>1. deletion \in Write
    BY <1>a DEF Write
  <2>2. queued \in Seq(Write)
    BY <1>c, <2>1
  <2>3. ProcessEnds(queued) /\ saved' = NoUid
    BY <1>3 DEF DeleteLast, GetAllPostsOfNoBoard, SaveCurrent
  <2>4. notif' \in [Posts -> Saved] /\ overtaken' \in BOOLEAN
    BY <1>3, NotificationsType DEF DeleteLast
  <2>5. server' \subseteq Docs /\ refused' \subseteq Docs /\ fresh' \subseteq Boards \cup Posts
    BY <1>3 DEF DeleteLast
  <2>6. saved' \in Saved
    BY <2>3 DEF Saved
  <2> HIDE DEF queued, TInv, TypeOK, RepoTypeOK, KindsOK
  <2> QED BY <2>2, <2>3, <2>4, <2>5, <2>6, ProcessEndsType
<1>4. ASSUME NEW b \in Boards, DeleteOther(b) PROVE TInv'
  BY <1>4, GetAllItensToPurgeType DEF DeleteOther, uiVars, histVars
<1>5. ASSUME NEW p \in Posts, NEW scheduled \in BOOLEAN, AddPostToBoard(p, scheduled)
      PROVE  TInv'
  <2>1. CASE board = NoUid
    <3>1. /\ ProcessEnds(writes)
          /\ UNCHANGED <<server, refused, saved, overtaken, notif, fresh>>
      BY <1>5, <2>1 DEF AddPostToBoard
    <3> QED BY <1>c, <3>1, ProcessEndsType
  <2>2. CASE board # NoUid
    <3>1. board \in Boards
      BY <2>2
    <3>2. writes' \in Seq(Write)
      BY <1>5, <2>2, <1>b, <3>1, EnqueueType DEF AddPostToBoard, SetItem
    <3>3. notif' \in [Posts -> Saved]
      <4>1. notif' = SetUserNotification(p, board) \/ notif' = notif
        BY <1>5, <2>2 DEF AddPostToBoard
      <4>2. SetUserNotification(p, board) \in [Posts -> Saved]
        BY <3>1, NotificationsType DEF Saved
      <4> QED BY <4>1, <4>2
    <3> QED BY <1>5, <2>2, <3>2, <3>3, ScreensType DEF AddPostToBoard
  <2> QED BY <2>1, <2>2
<1>6. ASSUME NEW scheduled \in BOOLEAN, NEW op \in {"set", "delete"},
             NEW done \in {"none", "post"},
             ChangePost(scheduled, /\ Enqueue(op, <<screen.board, screen.post>>, done)
                                   /\ screen' \in {Leaving, screen})
      PROVE  TInv'
  <2>1. screen.post \in Posts /\ screen.board \in Boards \cup {NoUid}
    BY <1>6 DEF ChangePost, Screens
  <2>2. notif' \in [Posts -> Saved]
    BY <1>6, <2>1, NotificationsType DEF ChangePost, Saved
  <2>3. CASE screen.board = NoUid
    <3>1. ProcessEnds(writes) /\ UNCHANGED <<server, refused, saved, fresh, overtaken>>
      BY <1>6, <2>3 DEF ChangePost
    <3> QED BY <1>c, <2>2, <3>1, ProcessEndsType
  <2>4. CASE screen.board # NoUid
    <3>1. <<screen.board, screen.post>> \in Docs
      BY <1>b, <2>1, <2>4
    <3>2. writes' \in Seq(Write)
      BY <1>6, <2>4, <1>c, <3>1, EnqueueType DEF ChangePost
    <3> QED BY <1>6, <2>2, <2>4, <3>2, ScreensType DEF ChangePost
  <2> QED BY <2>3, <2>4
<1>7. ASSUME NEW scheduled \in BOOLEAN, SaveChangesToPost(scheduled) PROVE TInv'
  BY <1>6, <1>7 DEF SaveChangesToPost, SetItem
<1>8. CASE DeletePost
  BY <1>6, <1>8 DEF DeletePost, DeleteItem, ChangePost
<1> QED BY <1>1, <1>2, <1>3, <1>4, <1>5, <1>7, <1>8

\* The completion handlers.
LEMMA MainQueueStepType == ASSUME TInv, MainQueue PROVE TInv'
<1> DEFINE a == Head(main)
           rest == Tail(main)
<1>1. main # <<>>
  BY DEF MainQueue, BoardsLoaded, BoardsFailed, PostsLoaded, PostsFailed, PurgeLoaded,
         DeletionReported, PostDeletionReported, Delivers
<1>2. /\ a \in Answers /\ AnswerKindOK(a)
      /\ rest \in Seq(Answers)
      /\ \A i \in DOMAIN rest : AnswerKindOK(rest[i])
  BY <1>1, MainQueueType
<1> HIDE DEF a, rest
<1> USE DEF TInv, TypeOK, RepoTypeOK, KindsOK
<1>3. CASE BoardsLoaded
  <2>1. a.kind = "boards" /\ a.found \subseteq Boards /\ a.captured \in Saved
    BY <1>2, <1>3 DEF BoardsLoaded, Delivers, AnswerKindOK, Answers, a
  <2>2. ASSUME NEW b \in Chosen(a), GetAllPosts(b, rest), boards' = a.found,
               UNCHANGED <<writes, posts, shownOf>>
        PROVE  TInv'
    <3>1. b \in Boards \cup {NoUid, Nil}
      BY <2>1 DEF Chosen, Saved
    <3>2. b # Nil
      BY <2>1, UidAssumption DEF Chosen
    <3>3. /\ reads' \in [Slots -> Read]
          /\ \A t \in Slots : ReadKindOK(reads'[t])
          /\ main' \in Seq(Answers)
          /\ \A i \in DOMAIN main' : AnswerKindOK(main'[i])
          /\ board' \in Boards /\ saved' \in Saved
          /\ isLoading' \in BOOLEAN /\ shownNewest' \in BOOLEAN
          /\ UNCHANGED <<alive, tab, errorAlert, screen>>
      BY <1>2, <2>2, <3>1, <3>2, GetAllPostsType
    <3>4. UNCHANGED <<server, refused, notif, fresh, overtaken>>
      BY <1>3 DEF BoardsLoaded
    <3> QED BY <2>1, <2>2, <3>3, <3>4
  <2>3. CASE GetAllPostsOfNoBoard(writes)
    <3>1. /\ ProcessEnds(writes) /\ saved' \in Saved
          /\ UNCHANGED <<server, refused, notif, fresh, overtaken>>
      BY <1>3, <2>3 DEF BoardsLoaded, GetAllPostsOfNoBoard, SaveCurrent, Saved
    <3> QED BY <3>1, ProcessEndsType
  <2> QED BY <1>3, <2>2, <2>3 DEF BoardsLoaded, a, rest
<1>4. CASE BoardsFailed
  BY <1>2, <1>4 DEF BoardsFailed, SaveCurrent, Saved, histVars, rest
<1>5. CASE PostsLoaded
  <2>1. a.found \subseteq Posts /\ a.board \in Boards /\ a.newest \in BOOLEAN
    BY <1>2, <1>5 DEF PostsLoaded, Delivers, AnswerKindOK, Answers, a
  <2> QED BY <1>2, <1>5, <2>1 DEF PostsLoaded, uiVars, a, rest
<1>6. CASE PostsFailed
  BY <1>2, <1>6 DEF PostsFailed, histVars, rest
<1>7. CASE PurgeLoaded
  <2>1. a.board \in Boards
    BY <1>2, <1>7 DEF PurgeLoaded, Delivers, AnswerKindOK, a
  <2>2. writes' \in Seq(Write)
    <3>1. <<a.board>> \in Docs
      BY <2>1 DEF Docs
    <3>2. Enqueue("delete", <<a.board>>, "board")
      BY <1>7 DEF PurgeLoaded, DeleteSelected, Delete, a
    <3> QED BY <3>1, <3>2, EnqueueType
  <2> QED BY <1>2, <1>7, <2>2, NotificationsType DEF PurgeLoaded, DeleteSelected, uiVars, rest
<1>8. CASE DeletionReported
  <2>1. CASE screen = Push("edit", a.board, Nil)
    <3>1. screen' = MainScreen /\ LoadUserData
      BY <1>8, <2>1 DEF DeletionReported, Dismissed, a
    <3> QED BY <1>2, <1>8, <3>1, LoadUserDataType, ScreensType
            DEF DeletionReported, histVars, rest
  <2>2. CASE screen # Push("edit", a.board, Nil)
    BY <1>2, <1>8, <2>2 DEF DeletionReported, Dismissed, histVars, a, rest
  <2> QED BY <2>1, <2>2
<1>9. CASE PostDeletionReported
  BY <1>2, <1>9 DEF PostDeletionReported, uiVars, histVars, rest
<1> QED BY <1>3, <1>4, <1>5, <1>6, <1>7, <1>8, <1>9 DEF MainQueue

\* What is found under a read is what the kind of the read asks for.
LEMMA FoundType ==
    ASSUME NEW r \in Read
    PROVE  /\ Found(r) \subseteq Boards \cup Posts
           /\ r.kind = "boards" => Found(r) \subseteq Boards
           /\ r.kind # "boards" => Found(r) \subseteq Posts
  BY DEF Found, BoardsInView, PostsInView

\* The answer to a read is well formed.
LEMMA AnswerType ==
    ASSUME TInv, NEW s \in Slots, NEW ok \in BOOLEAN, ~Free(s)
    PROVE  LET r == reads[s]
               a == [kind |-> r.kind, board |-> r.board, captured |-> r.captured,
                     newest |-> r.newest, ok |-> ok, found |-> IF ok THEN Found(r) ELSE {}]
           IN  a \in Answers /\ AnswerKindOK(a)
<1> DEFINE r == reads[s]
           a == [kind |-> r.kind, board |-> r.board, captured |-> r.captured,
                 newest |-> r.newest, ok |-> ok, found |-> IF ok THEN Found(r) ELSE {}]
<1>1. r \in Read /\ ReadKindOK(r) /\ r.kind # "idle"
  BY DEF TInv, TypeOK, RepoTypeOK, KindsOK, Free
<1>2. a.found \subseteq Found(r)
  OBVIOUS
<1>3. /\ r.kind \in {"boards", "posts", "purge"}
      /\ r.board \in Boards \cup {NoUid}
      /\ r.captured \in Saved /\ r.newest \in BOOLEAN
      /\ r.kind # "boards" => r.board \in Boards
  BY <1>1 DEF Read, ReadKindOK
<1>4. a.found \in SUBSET (Boards \cup Posts)
  BY <1>1, <1>2, FoundType
<1>5. a \in Answers
  BY <1>3, <1>4, Zenon DEF Answers
<1>6. AnswerKindOK(a)
  BY <1>1, <1>2, <1>3, FoundType DEF AnswerKindOK
<1> QED BY <1>5, <1>6

LEMMA ReadAnsweredType == ASSUME TInv, NEW s \in Slots, ReadAnswered(s) PROVE TInv'
<1> DEFINE r == reads[s]
<1>1. PICK ok \in BOOLEAN : Answer(s, ok) /\ UNCHANGED vmVars
  BY OutcomesAssumption DEF ReadAnswered
<1> DEFINE a == [kind |-> r.kind, board |-> r.board, captured |-> r.captured,
                 newest |-> r.newest, ok |-> ok, found |-> IF ok THEN Found(r) ELSE {}]
<1>2. a \in Answers /\ AnswerKindOK(a)
  BY <1>1, AnswerType DEF Answer
<1>3. main' = Append(main, a)
  BY <1>1 DEF Answer
<1> HIDE DEF a
<1>4. main' \in Seq(Answers) /\ \A i \in DOMAIN main' : AnswerKindOK(main'[i])
  <2>1. main \in Seq(Answers) /\ \A i \in DOMAIN main : AnswerKindOK(main[i])
    BY DEF TInv, TypeOK, RepoTypeOK, KindsOK
  <2> QED BY <1>2, <1>3, <2>1
<1>5. reads' \in [Slots -> Read] /\ \A t \in Slots : ReadKindOK(reads'[t])
  <2>1. Idle \in Read /\ ReadKindOK(Idle)
    BY DEF Idle, Read, Saved, ReadKindOK
  <2> QED BY <1>1, <2>1 DEF Answer, TInv, TypeOK, RepoTypeOK, KindsOK
<1> QED BY <1>1, <1>4, <1>5 DEF Answer, TInv, TypeOK, RepoTypeOK, KindsOK, vmVars, uiVars,
                                histVars

LEMMA WriteSettledType == ASSUME TInv, WriteSettled PROVE TInv'
<1>1. PICK ok \in BOOLEAN : Settle(ok) /\ UNCHANGED vmVars
  BY OutcomesAssumption DEF WriteSettled
<1> DEFINE w == Head(writes)
<1>2. w \in Write /\ writes' \in Seq(Write)
  BY <1>1 DEF Settle, TInv, TypeOK, RepoTypeOK
<1>3. w.doc \in Docs /\ w.doc[1] \in Boards
  BY <1>2 DEF Write, Docs
<1>4. server' \subseteq Docs /\ refused' \subseteq Docs
  BY <1>1, <1>3 DEF Settle, TInv, TypeOK, RepoTypeOK
<1>5. main' \in Seq(Answers) /\ \A i \in DOMAIN main' : AnswerKindOK(main'[i])
  <2>1. main \in Seq(Answers) /\ \A i \in DOMAIN main : AnswerKindOK(main[i])
    BY DEF TInv, TypeOK, RepoTypeOK, KindsOK
  <2>2. CASE w.done = "none"
    BY <1>1, <2>1, <2>2 DEF Settle
  <2>3. CASE w.done # "none"
    <3> DEFINE a == Completed(w, ok)
    <3>1. w.done \in {"board", "post"}
      BY <1>2, <2>3 DEF Write
    <3>2. a \in Answers /\ AnswerKindOK(a)
      BY <1>3, <3>1 DEF Completed, Answers, AnswerKindOK, Saved
    <3>3. main' = Append(main, a)
      BY <1>1, <2>3 DEF Settle
    <3> HIDE DEF a
    <3> QED BY <2>1, <3>2, <3>3
  <2> QED BY <2>2, <2>3
<1> QED BY <1>1, <1>2, <1>4, <1>5 DEF Settle, TInv, TypeOK, RepoTypeOK, KindsOK, vmVars,
                                      uiVars, histVars

LEMMA NotificationLeavesType ==
    ASSUME TInv, NEW p \in Posts, NotificationLeaves(p)
    PROVE  TInv'
  BY NotificationsType
  DEF NotificationLeaves, TInv, TypeOK, RepoTypeOK, KindsOK, repoVars, uiVars, histVars

LEMMA KillType == ASSUME TInv, Kill PROVE TInv'
<1>1. /\ ProcessEnds(writes) /\ writes \in Seq(Write)
      /\ UNCHANGED <<server, refused, saved, notif, fresh, overtaken>>
  BY DEF Kill, TInv, TypeOK, RepoTypeOK
<1> QED BY <1>1, ProcessEndsType DEF TInv, TypeOK, RepoTypeOK

LEMMA StepType == TInv /\ [Next]_vars => TInv'
<1> SUFFICES ASSUME TInv, [Next]_vars PROVE TInv'
  OBVIOUS
<1>1. CASE Launch \/ Kill
  BY <1>1, NavigationType, KillType
<1>2. CASE User
  <2>1. ASSUME NEW p \in Posts, PublishScheduled(p) PROVE TInv'
    BY <2>1, NotificationLeavesType DEF PublishScheduled
  <2> QED BY <1>2, <2>1, NavigationType, EditingType DEF User
<1>3. CASE MainQueue
  BY <1>3, MainQueueStepType
<1>4. ASSUME NEW p \in Posts, NotificationLeaves(p) PROVE TInv'
  BY <1>4, NotificationLeavesType
<1>5. ASSUME NEW s \in Slots, ReadAnswered(s) PROVE TInv'
  BY <1>5, ReadAnsweredType
<1>6. CASE WriteSettled
  BY <1>6, WriteSettledType
<1>7. CASE UNCHANGED vars
  BY <1>7 DEF vars, repoVars, uiVars, histVars, TInv, TypeOK, RepoTypeOK, KindsOK
<1> QED BY <1>1, <1>2, <1>3, <1>4, <1>5, <1>6, <1>7 DEF Next

\* Every variable keeps its type, whatever the interleaving of the user, the
\* completion handlers and Firestore: what InsideBoardViewModel.getAllBoards
\* shows and saves is the uid of a board or the empty one, never nil.
THEOREM TypeCorrect == Spec => []TypeOK
<1>1. TInv => TypeOK
  BY DEF TInv
<1> QED BY InitType, StepType, <1>1, PTL DEF Spec

-----------------------------------------------------------------------------
(* The effects of a step.                                                    *)

shownVars == <<board, saved, shownOf, shownNewest>>

\* The process ends.
Ends == \E queued : ProcessEnds(queued)

\* The main queue q after a step that consumes at most one answer.
AtMostOneConsumed(q) == q = main \/ (main # <<>> /\ q = Tail(main))

\* A board becomes, or stays, the current one, and its posts are fetched.
Fetches ==
    \E b \in Boards : \E rest :
        AtMostOneConsumed(rest) /\ GetAllPosts(b, rest) /\ UNCHANGED shownOf

\* The main screen appears and loads.
Reloads ==
    /\ UNCHANGED shownVars
    /\ LoadUserData
    /\ AtMostOneConsumed(main')

\* An answer about something that was deleted is consumed.
ConsumesDeletion ==
    /\ main # <<>>
    /\ Head(main).kind \in {"purge", "board", "post"}
    /\ main' = Tail(main)
    /\ UNCHANGED <<alive, isLoading, reads, shownVars>>

\* The posts of a board to delete are read.
ReadsToPurge ==
    /\ \E s \in Slots, b \in Boards : GetAllItensToPurge(s, b)
    /\ UNCHANGED <<alive, isLoading, main, shownVars>>

Answered ==
    /\ \E s \in Slots, ok \in BOOLEAN : Answer(s, ok)
    /\ UNCHANGED <<alive, isLoading, shownVars>>

\* The completion of a deletion, or no completion.
Settled ==
    /\ \/ UNCHANGED main
       \/ \E a \in Answers : a.kind \in {"board", "post"} /\ main' = Append(main, a)
    /\ UNCHANGED <<alive, isLoading, reads, shownVars>>

Elsewhere == UNCHANGED <<alive, isLoading, reads, main, shownVars>>

Effect ==
    \/ Ends
    \/ Fetches
    \/ Reloads
    \/ ConsumesDeletion
    \/ ReadsToPurge
    \/ Answered
    \/ Settled
    \/ BoardsFailed
    \/ PostsLoaded
    \/ PostsFailed
    \/ Elsewhere

\* The effects of the steps of the user.
LEMMA UserEffects == ASSUME TInv, User PROVE Effect
<1> USE DEF Effect, shownVars, AtMostOneConsumed
<1>1. ASSUME NEW t \in Tabs, SelectTab(t) PROVE Effect
  BY <1>1 DEF SelectTab, Elsewhere, repoVars, histVars
<1>2. ASSUME NEW b \in Boards, SelectBoard(b) PROVE Effect
  BY <1>2 DEF SelectBoard, Fetches
<1>3. ASSUME NEW b \in Boards, OpenEdit(b) PROVE Effect
  BY <1>3 DEF OpenEdit, Open, Elsewhere, repoVars, histVars
<1>4. ASSUME NEW b \in Boards, CreateBoard(b) PROVE Effect
  BY <1>4 DEF CreateBoard, Elsewhere, histVars
<1>5. ASSUME NEW b \in Boards, DeleteCurrent(b) PROVE Effect
  BY <1>5 DEF DeleteCurrent, Fetches, TInv, TypeOK
<1>6. ASSUME NEW b \in Boards, DeleteLast(b) PROVE Effect
  BY <1>6 DEF DeleteLast, GetAllPostsOfNoBoard, Ends
<1>7. ASSUME NEW b \in Boards, DeleteOther(b) PROVE Effect
  BY <1>7 DEF DeleteOther, ReadsToPurge, histVars
<1>8. ASSUME NEW p \in Posts, OpenDetails(p) PROVE Effect
  BY <1>8 DEF OpenDetails, Open, Elsewhere, repoVars, histVars
<1>9. ASSUME NEW p \in Posts, PublishScheduled(p) PROVE Effect
  BY <1>9 DEF PublishScheduled, NotificationLeaves, Elsewhere, repoVars, histVars
<1>10. ASSUME NEW p \in Posts, NEW scheduled \in BOOLEAN, AddPostToBoard(p, scheduled)
       PROVE  Effect
  BY <1>10 DEF AddPostToBoard, Ends, Elsewhere
<1>11. CASE OpenProfile \/ OpenCreate
  BY <1>11 DEF OpenProfile, OpenCreate, Open, Elsewhere, repoVars, histVars
<1>12. CASE Back
  BY <1>12 DEF Back, Reloads, histVars
<1>13. CASE DismissAlert
  BY <1>13 DEF DismissAlert, Elsewhere, repoVars, histVars
<1>14. ASSUME NEW scheduled \in BOOLEAN, SaveChangesToPost(scheduled) PROVE Effect
  BY <1>14 DEF SaveChangesToPost, ChangePost, Ends, Elsewhere
<1>15. CASE DeletePost
  BY <1>15 DEF DeletePost, ChangePost, Ends, Elsewhere
<1> QED BY <1>1, <1>2, <1>3, <1>4, <1>5, <1>6, <1>7, <1>8, <1>9, <1>10, <1>11, <1>12,
           <1>13, <1>14, <1>15 DEF User

\* The effects of the completion handlers.
LEMMA MainQueueEffects == ASSUME TInv, MainQueue PROVE Effect
<1> USE DEF Effect, shownVars, AtMostOneConsumed
<1>1. CASE BoardsLoaded
  <2> DEFINE a == Head(main)
  <2>1. a.found \subseteq Boards /\ a.captured \in Saved
    BY <1>1, MainQueueType DEF BoardsLoaded, Delivers, AnswerKindOK, Answers
  <2>2. CASE GetAllPostsOfNoBoard(writes)
    BY <2>2 DEF GetAllPostsOfNoBoard, Ends
  <2>3. ASSUME NEW b \in Chosen(a), GetAllPosts(b, Tail(main)), UNCHANGED shownOf
        PROVE  Effect
    <3>1. b \in Boards
      BY <2>1, <2>3, UidAssumption DEF Chosen, Saved, GetAllPosts
    <3>2. main # <<>>
      BY <1>1 DEF BoardsLoaded, Delivers
    <3> QED BY <2>3, <3>1, <3>2 DEF Fetches
  <2> QED BY <1>1, <2>2, <2>3 DEF BoardsLoaded
<1>2. CASE BoardsFailed \/ PostsLoaded \/ PostsFailed
  BY <1>2
<1>3. CASE PurgeLoaded
  BY <1>3 DEF PurgeLoaded, Delivers, ConsumesDeletion
<1>4. CASE DeletionReported
  BY <1>4 DEF DeletionReported, Dismissed, Delivers, ConsumesDeletion, Reloads, histVars
<1>5. CASE PostDeletionReported
  BY <1>5 DEF PostDeletionReported, Delivers, ConsumesDeletion, histVars
<1> QED BY <1>1, <1>2, <1>3, <1>4, <1>5 DEF MainQueue

LEMMA StepEffects == ASSUME TInv, [Next]_vars PROVE Effect
<1> USE DEF Effect, shownVars, AtMostOneConsumed
<1>1. CASE Launch
  BY <1>1 DEF Launch, Reloads, histVars
<1>2. CASE Kill
  BY <1>2 DEF Kill, Ends
<1>3. ASSUME NEW p \in Posts, NotificationLeaves(p) PROVE Effect
  BY <1>3 DEF NotificationLeaves, Elsewhere, repoVars, histVars
<1>4. ASSUME NEW s \in Slots, ReadAnswered(s) PROVE Effect
  BY <1>4, OutcomesAssumption DEF ReadAnswered, Answered, vmVars, histVars
<1>5. CASE WriteSettled
  <2>1. PICK ok \in BOOLEAN : Settle(ok) /\ UNCHANGED vmVars
    BY <1>5, OutcomesAssumption DEF WriteSettled
  <2> DEFINE w == Head(writes)
             a == Completed(w, ok)
  <2>2. w \in Write
    BY <2>1 DEF Settle, TInv, TypeOK, RepoTypeOK
  <2>3. CASE w.done = "none"
    BY <2>1, <2>3 DEF Settle, Settled, vmVars, histVars
  <2>4. CASE w.done # "none"
    <3>1. w.done \in {"board", "post"} /\ w.doc[1] \in Boards
      BY <2>2, <2>4 DEF Write, Docs
    <3>2. a \in Answers /\ a.kind \in {"board", "post"}
      BY <3>1 DEF Completed, Answers, Saved
    <3>3. main' = Append(main, a)
      BY <2>1, <2>4 DEF Settle
    <3> HIDE DEF a
    <3> QED BY <2>1, <3>2, <3>3 DEF Settle, Settled, vmVars, histVars
  <2> QED BY <2>3, <2>4
<1>6. CASE UNCHANGED vars
  BY <1>6 DEF vars, Elsewhere, repoVars, histVars
<1> QED BY <1>1, <1>2, <1>3, <1>4, <1>5, <1>6, UserEffects, MainQueueEffects DEF Next

-----------------------------------------------------------------------------
(* The saved board.                                                          *)

SavedInv == board # NoUid => saved = board

LEMMA SavedStep == ASSUME TInv, SavedInv, Effect PROVE SavedInv'
<1> USE DEF SavedInv, shownVars
<1>1. CASE Ends
  BY <1>1 DEF Ends, ProcessEnds
<1>2. CASE Fetches
  BY <1>2 DEF Fetches, GetAllPosts, SaveCurrent
<1>3. CASE Reloads
  BY <1>3 DEF Reloads
<1>4. CASE BoardsFailed
  BY <1>4 DEF BoardsFailed
<1>5. CASE PostsLoaded
  BY <1>5 DEF PostsLoaded
<1>6. CASE PostsFailed
  BY <1>6 DEF PostsFailed
<1>7. CASE ConsumesDeletion \/ ReadsToPurge \/ Answered \/ Settled \/ Elsewhere
  BY <1>7 DEF ConsumesDeletion, ReadsToPurge, Answered, Settled, Elsewhere
<1> QED BY <1>1, <1>2, <1>3, <1>4, <1>5, <1>6, <1>7 DEF Effect

\* The board on display is the board saved in UserDefaults, so that the next
\* launch shows it again: InsideBoardViewModel saves it on every path that
\* changes it (LocalRepository.saveCurrent in getAllPosts and getAllBoards).
THEOREM SavedIsShownAlways == Spec => []SavedIsShown
<1>1. Init => SavedInv
  BY DEF Init, SavedInv
<1>2. TInv /\ SavedInv /\ [Next]_vars => SavedInv'
  BY StepEffects, SavedStep
<1>3. SavedInv => SavedIsShown
  BY DEF SavedInv, SavedIsShown
<1> QED BY InitType, StepType, <1>1, <1>2, <1>3, PTL DEF Spec

-----------------------------------------------------------------------------
(* The grid.                                                                 *)

\* The newest fetch, in flight or answered, is a fetch for the current board.
\* This is what makes PostsOfNewestFetch inductive: the answer that will fill
\* the grid is tied to the board before it arrives.
NewestIsCurrent ==
    board # NoUid =>
        /\ \A s \in Slots :
               reads[s].kind = "posts" /\ reads[s].newest => reads[s].board = board
        /\ \A i \in DOMAIN main :
               main[i].kind = "posts" /\ main[i].newest => main[i].board = board
        /\ shownNewest => shownOf = board

\* What stays on the main queue was on it.
LEMMA RemainingEntries ==
    ASSUME TInv, NEW q, AtMostOneConsumed(q)
    PROVE  /\ q \in Seq(Answers)
           /\ \A i \in DOMAIN q : \E j \in DOMAIN main : q[i] = main[j]
<1>1. main \in Seq(Answers)
  BY DEF TInv, TypeOK, RepoTypeOK
<1>2. CASE q = main
  BY <1>1, <1>2
<1>3. CASE main # <<>> /\ q = Tail(main)
  <2>1. DOMAIN main = 1..Len(main) /\ Len(main) \in Nat \ {0}
    BY <1>1, <1>3, EmptySeq, LenProperties
  <2>2. /\ q \in Seq(Answers)
        /\ Len(q) = Len(main) - 1
        /\ \A i \in 1..Len(q) : q[i] = main[i + 1]
    BY <1>1, <1>3, HeadTailProperties
  <2>3. DOMAIN q = 1..(Len(main) - 1)
    BY <2>2, LenProperties
  <2>4. ASSUME NEW i \in DOMAIN q PROVE i + 1 \in DOMAIN main /\ q[i] = main[i + 1]
    BY <2>1, <2>2, <2>3, <2>4
  <2> QED BY <2>2, <2>4
<1> QED BY <1>2, <1>3 DEF AtMostOneConsumed

LEMMA NewestStep == ASSUME TInv, NewestIsCurrent, Effect PROVE NewestIsCurrent'
<1>1. CASE Ends
  BY <1>1 DEF Ends, ProcessEnds, NewestIsCurrent
<1>2. CASE Fetches
  <2>0. PICK b \in Boards : \E rest : AtMostOneConsumed(rest) /\ GetAllPosts(b, rest)
    BY <1>2 DEF Fetches
  <2>1. PICK rest : AtMostOneConsumed(rest) /\ GetAllPosts(b, rest)
    BY <2>0
  <2>2. PICK s \in Slots : GetAllItensToShow(s, b)
    BY <2>1 DEF GetAllPosts
  <2>3. board' = b /\ ~shownNewest' /\ main' = NoLongerNewest(rest)
    BY <2>1 DEF GetAllPosts
  <2>4. ASSUME NEW t \in Slots, reads'[t].newest PROVE reads'[t].board = b
    <3>1. CASE t = s
      BY <2>2, <3>1 DEF GetAllItensToShow
    <3>2. CASE t # s
      <4>1. reads[t] \in Read
        BY DEF TInv, TypeOK, RepoTypeOK
      <4>2. reads'[t] = [reads[t] EXCEPT !.newest = FALSE]
        BY <2>2, <3>2 DEF GetAllItensToShow
      <4>3. reads'[t].newest = FALSE
        BY <4>1, <4>2 DEF Read
      <4> QED BY <2>4, <4>3
    <3> QED BY <3>1, <3>2
  <2>5. ASSUME NEW i \in DOMAIN main' PROVE ~main'[i].newest
    <3>1. i \in DOMAIN rest /\ main'[i] = [rest[i] EXCEPT !.newest = FALSE]
      BY <2>3, <2>5 DEF NoLongerNewest
    <3>2. rest[i] \in Answers
      BY <2>1, <3>1, RemainingEntries, LenProperties, ElementOfSeq
    <3>3. main'[i].newest = FALSE
      BY <3>1, <3>2 DEF Answers
    <3> QED BY <3>3
  <2> QED BY <2>3, <2>4, <2>5 DEF NewestIsCurrent
<1>3. CASE Reloads
  <2>1. PICK s \in Slots : GetAllBoards(s, saved)
    BY <1>3 DEF Reloads, LoadUserData
  <2>2. \A t \in Slots : t # s => reads'[t] = reads[t]
    BY <2>1 DEF GetAllBoards, TInv, TypeOK, RepoTypeOK
  <2>3. reads'[s].kind = "boards"
    BY <2>1 DEF GetAllBoards, TInv, TypeOK, RepoTypeOK
  <2>4. \A i \in DOMAIN main' : \E j \in DOMAIN main : main'[i] = main[j]
    BY <1>3, RemainingEntries DEF Reloads
  <2> QED BY <1>3, <2>2, <2>3, <2>4 DEF Reloads, NewestIsCurrent, shownVars
<1>4. CASE ConsumesDeletion
  <2>1. \A i \in DOMAIN main' : \E j \in DOMAIN main : main'[i] = main[j]
    BY <1>4, RemainingEntries DEF ConsumesDeletion, AtMostOneConsumed
  <2> QED BY <1>4, <2>1 DEF ConsumesDeletion, NewestIsCurrent, shownVars
<1>5. CASE ReadsToPurge
  BY <1>5 DEF ReadsToPurge, GetAllItensToPurge, NewestIsCurrent, shownVars, TInv, TypeOK,
              RepoTypeOK
<1>6. CASE Answered
  <2>1. PICK s \in Slots, ok \in BOOLEAN : Answer(s, ok)
    BY <1>6 DEF Answered
  <2> DEFINE r == reads[s]
             a == [kind |-> r.kind, board |-> r.board, captured |-> r.captured,
                   newest |-> r.newest, ok |-> ok, found |-> IF ok THEN Found(r) ELSE {}]
  <2>2. main' = Append(main, a)
    BY <2>1 DEF Answer
  <2>3. a.kind = r.kind /\ a.board = r.board /\ a.newest = r.newest
    OBVIOUS
  <2>4. reads' = [reads EXCEPT ![s] = Idle] /\ Idle.kind = "idle"
    BY <2>1 DEF Answer, Idle
  <2> HIDE DEF a
  <2>5. \A i \in DOMAIN main' : main'[i] = a \/ (i \in DOMAIN main /\ main'[i] = main[i])
    BY <2>2 DEF TInv, TypeOK, RepoTypeOK
  <2>6. \A t \in Slots : t # s => reads'[t] = reads[t]
    BY <2>4 DEF TInv, TypeOK, RepoTypeOK
  <2>7. reads'[s].kind = "idle"
    BY <2>4 DEF TInv, TypeOK, RepoTypeOK
  <2> QED BY <1>6, <2>3, <2>5, <2>6, <2>7 DEF Answered, NewestIsCurrent, shownVars
<1>7. CASE Settled
  <2>1. CASE UNCHANGED main
    BY <1>7, <2>1 DEF Settled, NewestIsCurrent, shownVars
  <2>2. ASSUME NEW a \in Answers, a.kind \in {"board", "post"}, main' = Append(main, a)
        PROVE  NewestIsCurrent'
    <3>1. \A i \in DOMAIN main' : main'[i] = a \/ (i \in DOMAIN main /\ main'[i] = main[i])
      BY <2>2 DEF TInv, TypeOK, RepoTypeOK
    <3> QED BY <1>7, <2>2, <3>1 DEF Settled, NewestIsCurrent, shownVars
  <2> QED BY <1>7, <2>1, <2>2 DEF Settled
<1>8. CASE BoardsFailed
  BY <1>8 DEF BoardsFailed, NewestIsCurrent
<1>9. CASE PostsLoaded
  <2>1. main # <<>> /\ Head(main).kind = "posts" /\ main' = Tail(main)
    BY <1>9 DEF PostsLoaded, Delivers
  <2>2. \A i \in DOMAIN main' : \E j \in DOMAIN main : main'[i] = main[j]
    BY <2>1, RemainingEntries DEF AtMostOneConsumed
  <2>3. 1 \in DOMAIN main /\ Head(main) = main[1]
    BY <2>1, EmptySeq, LenProperties DEF TInv, TypeOK, RepoTypeOK
  <2>4. shownNewest' = Head(main).newest /\ shownOf' = Head(main).board
    BY <1>9 DEF PostsLoaded
  <2>5. UNCHANGED <<board, reads>>
    BY <1>9 DEF PostsLoaded
  <2> QED BY <2>1, <2>2, <2>3, <2>4, <2>5 DEF NewestIsCurrent
<1>10. CASE PostsFailed
  <2>1. \A i \in DOMAIN main' : \E j \in DOMAIN main : main'[i] = main[j]
    BY <1>10, RemainingEntries DEF PostsFailed, Delivers, AtMostOneConsumed
  <2> QED BY <1>10, <2>1 DEF PostsFailed, NewestIsCurrent, histVars
<1>11. CASE Elsewhere
  BY <1>11 DEF Elsewhere, NewestIsCurrent, shownVars
<1> QED BY <1>1, <1>2, <1>3, <1>4, <1>5, <1>6, <1>7, <1>8, <1>9, <1>10, <1>11 DEF Effect

\* The posts on display belong to the board on display as soon as the answer to
\* the newest getAllPosts has been delivered last: whatever the answers'
\* order, no answer of an older fetch passes for the newest one.
THEOREM PostsOfNewestFetchAlways == Spec => []PostsOfNewestFetch
<1>1. Init => NewestIsCurrent
  BY DEF Init, NewestIsCurrent
<1>2. TInv /\ NewestIsCurrent /\ [Next]_vars => NewestIsCurrent'
  BY StepEffects, NewestStep
<1>3. NewestIsCurrent => PostsOfNewestFetch
  BY DEF NewestIsCurrent, PostsOfNewestFetch
<1> QED BY InitType, StepType, <1>1, <1>2, <1>3, PTL DEF Spec

-----------------------------------------------------------------------------
(* The overlay.                                                              *)

Work == Outstanding({"boards", "posts"})
SpinnerInv == isLoading => Work

\* A load that was under way still is, unless its answer is what was consumed.
LEMMA WorkRemains ==
    ASSUME TInv, NEW kinds, Outstanding(kinds),
           \A s \in Slots : reads[s].kind \in kinds => reads'[s].kind \in kinds,
           \/ UNCHANGED main
           \/ \E a \in Answers : main' = Append(main, a)
           \/ /\ main # <<>> /\ Head(main).kind \notin kinds
              /\ main' = Tail(main)
    PROVE  Outstanding(kinds)'
<1>1. CASE \E s \in Slots : reads[s].kind \in kinds
  BY <1>1 DEF Outstanding
<1>2. ASSUME NEW i \in DOMAIN main, main[i].kind \in kinds PROVE Outstanding(kinds)'
  <2>1. main \in Seq(Answers)
    BY DEF TInv, TypeOK, RepoTypeOK
  <2>2. CASE UNCHANGED main
    BY <1>2, <2>2 DEF Outstanding
  <2>3. ASSUME NEW a \in Answers, main' = Append(main, a) PROVE Outstanding(kinds)'
    <3>1. i \in DOMAIN main' /\ main'[i] = main[i]
      BY <2>1, <2>3, AppendKeeps
    <3> QED BY <1>2, <3>1 DEF Outstanding
  <2>4. CASE main # <<>> /\ Head(main).kind \notin kinds /\ main' = Tail(main)
    <3>1. Head(main) = main[1]
      BY <2>1
    <3>2. i # 1
      BY <1>2, <2>4, <3>1
    <3>3. i - 1 \in DOMAIN main' /\ main'[i - 1] = main[i]
      BY <2>1, <2>4, <3>2, TailKeeps
    <3> QED BY <1>2, <3>3 DEF Outstanding
  <2> QED BY <2>2, <2>3, <2>4
<1> QED BY <1>1, <1>2 DEF Outstanding

\* What an answered read leaves: its answer, and the other reads.
LEMMA WorkAnswered ==
    ASSUME TInv, Answered, NEW kinds, Outstanding(kinds), "idle" \notin kinds
    PROVE  Outstanding(kinds)'
<1>a. reads \in [Slots -> Read] /\ main \in Seq(Answers)
  BY DEF TInv, TypeOK, RepoTypeOK
<1>1. PICK s \in Slots, ok \in BOOLEAN : Answer(s, ok)
  BY DEF Answered
<1> DEFINE r == reads[s]
           a == [kind |-> r.kind, board |-> r.board, captured |-> r.captured,
                 newest |-> r.newest, ok |-> ok, found |-> IF ok THEN Found(r) ELSE {}]
<1>2. main' = Append(main, a) /\ a.kind = r.kind /\ a \in Answers
  BY <1>1, AnswerType DEF Answer
<1>3. \A t \in Slots : t # s => reads'[t] = reads[t]
  BY <1>a, <1>1 DEF Answer
<1> HIDE DEF a
<1>4. CASE r.kind \in kinds
  <2>1. Len(main) + 1 \in DOMAIN main' /\ main'[Len(main) + 1] = a
    BY <1>a, <1>2, LenProperties
  <2> QED BY <1>2, <1>4, <2>1 DEF Outstanding
<1>5. CASE r.kind \notin kinds
  <2>1. \A t \in Slots : reads[t].kind \in kinds => reads'[t] = reads[t]
    BY <1>3, <1>5
  <2> QED BY <1>2, <2>1, WorkRemains
<1> QED BY <1>4, <1>5

LEMMA SpinnerStep == ASSUME TInv, SpinnerInv, Effect PROVE SpinnerInv'
<1> SUFFICES ASSUME isLoading' PROVE Work'
  BY DEF SpinnerInv
<1>a. reads \in [Slots -> Read] /\ main \in Seq(Answers)
  BY DEF TInv, TypeOK, RepoTypeOK
<1>1. CASE Ends \/ BoardsFailed \/ PostsLoaded \/ PostsFailed
  BY <1>1 DEF Ends, ProcessEnds, BoardsFailed, PostsLoaded, PostsFailed
<1>2. CASE Fetches
  <2>1. PICK b \in Boards, s \in Slots : GetAllItensToShow(s, b)
    BY <1>2 DEF Fetches, GetAllPosts
  <2>2. reads'[s].kind = "posts"
    BY <2>1 DEF GetAllItensToShow
  <2> QED BY <2>2 DEF Work, Outstanding
<1>3. CASE Reloads
  <2>1. PICK s \in Slots : GetAllBoards(s, saved)
    BY <1>3 DEF Reloads, LoadUserData
  <2>2. reads'[s].kind = "boards"
    BY <1>a, <2>1 DEF GetAllBoards
  <2> QED BY <2>2 DEF Work, Outstanding
<1>4. CASE ConsumesDeletion
  <2>1. Work /\ UNCHANGED reads
    BY <1>4 DEF ConsumesDeletion, SpinnerInv
  <2> QED BY <1>4, <2>1, WorkRemains DEF ConsumesDeletion, Work
<1>5. CASE ReadsToPurge
  <2>1. PICK s \in Slots, b \in Boards : GetAllItensToPurge(s, b)
    BY <1>5 DEF ReadsToPurge
  <2>2. \A t \in Slots : reads[t].kind \in {"boards", "posts"} => reads'[t] = reads[t]
    BY <1>a, <2>1 DEF GetAllItensToPurge, Free
  <2>3. Work /\ UNCHANGED main
    BY <1>5 DEF ReadsToPurge, SpinnerInv
  <2> QED BY <2>2, <2>3, WorkRemains DEF Work
<1>6. CASE Answered
  BY <1>6, WorkAnswered DEF Answered, SpinnerInv, Work
<1>7. CASE Settled
  <2>1. Work /\ UNCHANGED reads
    BY <1>7 DEF Settled, SpinnerInv
  <2> QED BY <1>7, <2>1, WorkRemains DEF Settled, Work
<1>8. CASE Elsewhere
  BY <1>8 DEF Elsewhere, SpinnerInv, Work, Outstanding
<1> QED BY <1>1, <1>2, <1>3, <1>4, <1>5, <1>6, <1>7, <1>8 DEF Effect

\* The overlay that takes the user's taps away is never up without a load under
\* way: isLoading is lowered by every path of getAllBoards and getAllPosts that
\* starts no further load, also the failing ones.
THEOREM SpinnerHasWorkAlways == Spec => []SpinnerHasWork
<1>1. Init => SpinnerInv
  BY DEF Init, SpinnerInv
<1>2. TInv /\ SpinnerInv /\ [Next]_vars => SpinnerInv'
  BY StepEffects, SpinnerStep
<1>3. SpinnerInv => SpinnerHasWork
  BY DEF SpinnerInv, SpinnerHasWork, Work
<1> QED BY InitType, StepType, <1>1, <1>2, <1>3, PTL DEF Spec

-----------------------------------------------------------------------------
(* The device's view of the documents.                                       *)

\* A document is held when the device sees it, or the server refused a version of it.
Held(d) == InView(d) \/ d \in refused
Kept(docs) == \A d \in docs : Held(d) => Held(d)'

\* The view depends on the documents and the operations of the queued writes only.
LEMMA ViewKept ==
    ASSUME DOMAIN writes' = DOMAIN writes, UNCHANGED server,
           \A i \in DOMAIN writes : /\ writes'[i].doc = writes[i].doc
                                    /\ writes'[i].op = writes[i].op
    PROVE  \A d : InView(d)' <=> InView(d)
<1> TAKE d
<1>1. {i \in DOMAIN writes' : writes'[i].doc = d} = {i \in DOMAIN writes : writes[i].doc = d}
  OBVIOUS
<1> QED
  BY <1>1 DEF InView

\* A further write decides about its document, and about no other.
LEMMA ViewAppended ==
    ASSUME writes \in Seq(Write), NEW w \in Write, UNCHANGED server,
           DOMAIN writes' = 1..(Len(writes) + 1),
           \A i \in 1..(Len(writes) + 1) :
               /\ writes'[i].doc = Append(writes, w)[i].doc
               /\ writes'[i].op = Append(writes, w)[i].op
    PROVE  \A d : InView(d)' <=> IF d = w.doc THEN w.op = "set" ELSE InView(d)
<1> DEFINE n == Len(writes)
           on(d) == {i \in DOMAIN writes : writes[i].doc = d}
           onNext(d) == {i \in DOMAIN writes' : writes'[i].doc = d}
<1>1. n \in Nat /\ DOMAIN writes = 1..n
  BY LenProperties
<1>2. \A i \in 1..n : Append(writes, w)[i] = writes[i]
  BY <1>1, AppendProperties
<1>3. Append(writes, w)[n + 1] = w
  BY <1>1, AppendProperties
<1>4. \A i \in 1..n : writes'[i].doc = writes[i].doc /\ writes'[i].op = writes[i].op
  BY <1>1, <1>2
<1>5. writes'[n + 1].doc = w.doc /\ writes'[n + 1].op = w.op
  BY <1>1, <1>3
<1> TAKE d
<1>6. CASE d = w.doc
  <2>1. n + 1 \in onNext(d) /\ \A j \in onNext(d) : j \in Nat /\ j <= n + 1
    BY <1>1, <1>5, <1>6
  <2>2. \A i \in onNext(d) : (\A j \in onNext(d) : j <= i) => i = n + 1
    BY <1>1, <2>1
  <2> QED
    BY <1>5, <1>6, <2>1, <2>2 DEF InView
<1>7. CASE d # w.doc
  <2>1. onNext(d) = on(d)
    BY <1>1, <1>4, <1>5, <1>7
  <2>2. \A i \in on(d) : writes'[i].op = writes[i].op
    BY <1>1, <1>4
  <2> QED
    BY <1>7, <2>1, <2>2 DEF InView
<1> QED
  BY <1>6, <1>7

\* When the server has settled the oldest write, the device still sees what it saw,
\* unless the server refused to store it.
LEMMA SettleKeeps ==
    ASSUME writes \in Seq(Write), NEW ok \in BOOLEAN, Settle(ok)
    PROVE  \A d : Held(d) => Held(d)'
<1> DEFINE w == Head(writes)
           on(d) == {i \in DOMAIN writes : writes[i].doc = d}
           onNext(d) == {i \in DOMAIN writes' : writes'[i].doc = d}
<1>1. writes # <<>> /\ writes' = Tail(writes)
  BY DEF Settle
<1>2. /\ Len(writes) \in Nat \ {0} /\ DOMAIN writes = 1..Len(writes)
      /\ DOMAIN writes' = 1..(Len(writes) - 1)
      /\ \A i \in DOMAIN writes' : writes'[i] = writes[i + 1]
      /\ w = writes[1]
  BY <1>1, EmptySeq, LenProperties, HeadTailProperties
<1>3. w.op \in {"set", "delete"}
  <2>1. writes[1] \in Write
    BY <1>2, ElementOfSeq
  <2> QED
    BY <1>2, <2>1 DEF Write
<1>4. refused \subseteq refused'
  BY DEF Settle
<1> TAKE d
<1>5. \A i \in on(d) : i # 1 => i - 1 \in onNext(d) /\ writes'[i - 1].op = writes[i].op
  BY <1>2
<1>6. \A j \in onNext(d) : j + 1 \in on(d)
  BY <1>2
<1>7. CASE \E i \in on(d) : i # 1
  <2>1. onNext(d) # {} /\ on(d) # {}
    BY <1>5, <1>7
  <2>2. ASSUME NEW i \in on(d), writes[i].op = "set", \A j \in on(d) : j <= i
        PROVE  InView(d)'
    <3>1. i # 1
      BY <1>2, <1>7, <2>2
    <3>2. i - 1 \in onNext(d) /\ writes'[i - 1].op = "set"
      BY <1>5, <2>2, <3>1
    <3>3. \A j \in onNext(d) : j <= i - 1
      BY <1>2, <1>6, <2>2
    <3> QED
      BY <2>1, <3>2, <3>3 DEF InView
  <2>3. InView(d) => InView(d)'
    BY <2>1, <2>2 DEF InView
  <2> QED
    BY <1>4, <2>3 DEF Held
<1>8. CASE \A i \in on(d) : i = 1
  <2>1. onNext(d) = {}
    BY <1>2, <1>6, <1>8
  <2>2. InView(d)' <=> d \in server'
    BY <2>1 DEF InView
  <2>3. CASE on(d) = {}
    <3>1. d # w.doc
      BY <1>2, <2>3
    <3>2. InView(d) <=> d \in server
      BY <2>3 DEF InView
    <3>3. d \in server => d \in server'
      BY <3>1 DEF Settle
    <3> QED
      BY <1>4, <2>2, <3>2, <3>3 DEF Held
  <2>4. CASE 1 \in on(d)
    <3>1. d = w.doc
      BY <1>2, <2>4
    <3>2. InView(d) => w.op = "set"
      BY <1>2, <1>8, <2>4 DEF InView
    <3>3. w.op = "set" => d \in server' \/ d \in refused'
      BY <3>1 DEF Settle
    <3> QED
      BY <1>4, <2>2, <3>2, <3>3 DEF Held
  <2> QED
    BY <1>8, <2>3, <2>4
<1> QED
  BY <1>7, <1>8

-----------------------------------------------------------------------------
(* What each step does to the documents held and to the notifications.       *)

\* Some notifications go, or name the board without uid.
NotificationsFade == \A p \in Posts : notif'[p] \in {notif[p], Nil, NoUid}

\* A post is stored, and then announced or no longer announced.
Announces(b, p) ==
    /\ Kept(Docs) /\ Held(<<b, p>>)'
    /\ \A q \in Posts : notif'[q] = notif[q] \/ (q = p /\ notif'[q] \in {b, Nil})

DropsPost(b, p) ==
    /\ Kept(Docs \ {<<b, p>>})
    /\ NotificationsFade
    /\ notif'[p] = Nil

Deletes(b) == DeleteCurrent(b) \/ DeleteLast(b) \/ (PurgeLoaded /\ Head(main).board = b)
DropsBoard(b) ==
    /\ Kept(Docs \ {<<b>>})
    /\ NotificationsFade
    /\ Deletes(b)

StoreEffect ==
    \/ Kept(Docs) /\ NotificationsFade
    \/ \E b \in Boards, p \in Posts : Announces(b, p) \/ DropsPost(b, p)
    \/ \E b \in Boards : DropsBoard(b)

LEMMA NothingKeeps == ASSUME UNCHANGED <<server, writes, refused>> PROVE Kept(Docs)
  BY DEF Kept, Held, InView

LEMMA EnqueueKeeps ==
    ASSUME TInv, NEW op \in {"set", "delete"}, NEW doc \in Docs,
           NEW done \in {"none", "board", "post"}, Enqueue(op, doc, done),
           UNCHANGED <<server, refused>>
    PROVE  /\ Kept(Docs \ {doc})
           /\ op = "set" => Kept(Docs) /\ Held(doc)'
<1> DEFINE w == [op |-> op, doc |-> doc, done |-> done]
<1>1. writes \in Seq(Write) /\ w \in Write /\ w.doc = doc /\ w.op = op
  BY DEF TInv, TypeOK, RepoTypeOK, Write
<1>2. writes' = Append(writes, w)
  BY DEF Enqueue
<1> HIDE DEF w
<1>3. DOMAIN writes' = 1..(Len(writes) + 1)
  BY <1>1, <1>2, AppendProperties, LenProperties
<1>4. \A d : InView(d)' <=> IF d = doc THEN op = "set" ELSE InView(d)
  BY <1>1, <1>2, <1>3, ViewAppended
<1> QED
  BY <1>4 DEF Kept, Held

LEMMA EndKeeps ==
    ASSUME TInv, ProcessEnds(writes), UNCHANGED <<server, refused>>
    PROVE  Kept(Docs)
<1>1. DOMAIN writes = 1..Len(writes) /\ \A i \in DOMAIN writes : writes[i] \in Write
  BY LenProperties, ElementOfSeq DEF TInv, TypeOK, RepoTypeOK
<1>2. writes' = [i \in DOMAIN writes |-> [writes[i] EXCEPT !.done = "none"]]
  BY DEF ProcessEnds
<1>3. \A i \in DOMAIN writes : writes'[i].doc = writes[i].doc /\ writes'[i].op = writes[i].op
  BY <1>1, <1>2 DEF Write
<1>4. \A d : InView(d)' <=> InView(d)
  BY <1>2, <1>3, ViewKept
<1> QED
  BY <1>4 DEF Kept, Held

\* The process that ends right after a deletion was queued.
LEMMA EndDeletes ==
    ASSUME TInv, NEW b \in Boards, UNCHANGED <<server, refused>>,
           ProcessEnds(Append(writes, [op |-> "delete", doc |-> <<b>>, done |-> "none"]))
    PROVE  Kept(Docs \ {<<b>>})
<1> DEFINE w == [op |-> "delete", doc |-> <<b>>, done |-> "none"]
           queued == Append(writes, w)
<1>1. writes \in Seq(Write) /\ w \in Write /\ w.doc = <<b>>
  BY DEF TInv, TypeOK, RepoTypeOK, Write, Docs
<1>2. writes' = [i \in DOMAIN queued |-> [queued[i] EXCEPT !.done = "none"]]
  BY DEF ProcessEnds
<1> HIDE DEF w
<1>3. queued \in Seq(Write) /\ DOMAIN queued = 1..(Len(writes) + 1)
  BY <1>1, AppendProperties, LenProperties
<1> HIDE DEF queued
<1>4. \A i \in DOMAIN queued : queued[i] \in Write
  BY <1>3, LenProperties, ElementOfSeq
<1>5. \A i \in DOMAIN queued : writes'[i].doc = queued[i].doc /\ writes'[i].op = queued[i].op
  BY <1>2, <1>4 DEF Write
<1>6. \A d : InView(d)' <=> IF d = w.doc THEN w.op = "set" ELSE InView(d)
  BY <1>1, <1>2, <1>3, <1>5, ViewAppended DEF queued
<1> QED
  BY <1>1, <1>6 DEF Kept, Held

LEMMA DocsOfPosts ==
    /\ \A b \in Boards : <<b>> \in Docs
    /\ \A b \in Boards, p \in Posts : <<b, p>> \in Docs
    /\ \A a, b, p : <<a>> # <<b, p>>
  BY DEF Docs

\* A change of the post of the details screen: its notification, then its write.
LEMMA ChangePostEffect ==
    ASSUME TInv, NEW scheduled \in BOOLEAN, NEW op \in {"set", "delete"},
           NEW done \in {"none", "post"}, op = "delete" => ~scheduled,
           ChangePost(scheduled, /\ Enqueue(op, <<screen.board, screen.post>>, done)
                                 /\ screen' \in {Leaving, screen})
    PROVE  StoreEffect
<1>1. PICK b \in Boards \cup {NoUid}, p \in Posts : b = screen.board /\ p = screen.post
  BY DEF ChangePost, TInv, TypeOK, KindsOK, Screens
<1>2. notif \in [Posts -> Saved] /\ UNCHANGED <<server, refused>>
  BY DEF ChangePost, TInv, TypeOK
<1>3. notif' = IF scheduled THEN SetUserNotification(p, b) ELSE DeleteNotificationWith({p})
  BY <1>1 DEF ChangePost
<1>4. \A q \in Posts : notif'[q] = IF q = p THEN (IF scheduled THEN b ELSE Nil) ELSE notif[q]
  BY <1>1, <1>2, <1>3 DEF SetUserNotification, DeleteNotificationWith
<1>5. CASE b = NoUid
  <2>1. ProcessEnds(writes)
    BY <1>1, <1>5 DEF ChangePost
  <2>2. Kept(Docs)
    BY <1>2, <2>1, EndKeeps
  <2> QED
    BY <1>4, <1>5, <2>2 DEF StoreEffect, NotificationsFade
<1>6. CASE b # NoUid
  <2>1. b \in Boards /\ <<b, p>> \in Docs
    BY <1>1, <1>6, DocsOfPosts
  <2>2. Enqueue(op, <<b, p>>, done)
    BY <1>1, <1>6 DEF ChangePost
  <2>3. /\ Kept(Docs \ {<<b, p>>})
        /\ op = "set" => Kept(Docs) /\ Held(<<b, p>>)'
    BY <1>2, <2>1, <2>2, EnqueueKeeps
  <2>4. CASE op = "set"
    BY <1>1, <1>4, <2>1, <2>3, <2>4 DEF StoreEffect, Announces
  <2>5. CASE op = "delete"
    BY <1>1, <1>4, <2>1, <2>3, <2>5 DEF StoreEffect, DropsPost, NotificationsFade
  <2> QED
    BY <2>4, <2>5
<1> QED
  BY <1>5, <1>6

\* What the user creates, changes and deletes.
LEMMA EditingEffects ==
    ASSUME TInv,
           \/ \E b \in Boards : CreateBoard(b) \/ DeleteCurrent(b) \/ DeleteLast(b)
           \/ \E p \in Posts : \E scheduled \in BOOLEAN : AddPostToBoard(p, scheduled)
           \/ \E scheduled \in BOOLEAN : SaveChangesToPost(scheduled)
           \/ DeletePost
    PROVE  StoreEffect
<1>a. notif \in [Posts -> Saved]
  BY DEF TInv, TypeOK
<1>b. \A uids : \A p \in Posts : DeleteNotificationWith(uids)[p] \in {notif[p], Nil}
  BY DEF DeleteNotificationWith
<1>1. ASSUME NEW b \in Boards, CreateBoard(b) PROVE StoreEffect
  <2>1. Enqueue("set", <<b>>, "none") /\ UNCHANGED <<server, refused, notif>>
    BY <1>1 DEF CreateBoard, Create
  <2>2. Kept(Docs)
    BY <2>1, DocsOfPosts, EnqueueKeeps
  <2> QED
    BY <2>1, <2>2 DEF StoreEffect, NotificationsFade
<1>2. ASSUME NEW b \in Boards, DeleteCurrent(b) PROVE StoreEffect
  <2>1. Enqueue("delete", <<b>>, "board") /\ UNCHANGED <<server, refused>>
        /\ notif' = DeleteNotificationWith(posts)
    BY <1>2 DEF DeleteCurrent, DeleteSelected, Delete
  <2>2. Kept(Docs \ {<<b>>})
    BY <2>1, DocsOfPosts, EnqueueKeeps
  <2> QED
    BY <1>b, <1>2, <2>1, <2>2 DEF StoreEffect, DropsBoard, Deletes, NotificationsFade
<1>3. ASSUME NEW b \in Boards, DeleteLast(b) PROVE StoreEffect
  <2>1. /\ ProcessEnds(Append(writes, [op |-> "delete", doc |-> <<b>>, done |-> "none"]))
        /\ UNCHANGED <<server, refused>>
        /\ notif' = DeleteNotificationWith(posts)
    BY <1>3 DEF DeleteLast, GetAllPostsOfNoBoard
  <2>2. Kept(Docs \ {<<b>>})
    BY <2>1, EndDeletes
  <2> QED
    BY <1>b, <1>3, <2>1, <2>2 DEF StoreEffect, DropsBoard, Deletes, NotificationsFade
<1>4. ASSUME NEW p \in Posts, NEW scheduled \in BOOLEAN, AddPostToBoard(p, scheduled)
      PROVE  StoreEffect
  <2>1. UNCHANGED <<server, refused>>
    BY <1>4 DEF AddPostToBoard
  <2>2. CASE board = NoUid
    <3>1. ProcessEnds(writes) /\ notif' = notif
      BY <1>4, <2>2 DEF AddPostToBoard
    <3>2. Kept(Docs)
      BY <2>1, <3>1, EndKeeps
    <3> QED
      BY <3>1, <3>2 DEF StoreEffect, NotificationsFade
  <2>3. CASE board # NoUid
    <3>1. PICK b \in Boards : b = board
      BY <2>3 DEF TInv, TypeOK
    <3>2. Enqueue("set", <<b, p>>, "none")
      BY <1>4, <2>3, <3>1 DEF AddPostToBoard, SetItem
    <3>3. notif' = SetUserNotification(p, b) \/ notif' = notif
      BY <1>4, <2>3, <3>1 DEF AddPostToBoard
    <3>4. Kept(Docs) /\ Held(<<b, p>>)'
      BY <2>1, <3>2, DocsOfPosts, EnqueueKeeps
    <3>5. \A q \in Posts : notif'[q] = notif[q] \/ (q = p /\ notif'[q] \in {b, Nil})
      BY <1>a, <3>3 DEF SetUserNotification
    <3> QED
      BY <3>4, <3>5 DEF StoreEffect, Announces
  <2> QED
    BY <2>2, <2>3
<1>5. ASSUME NEW scheduled \in BOOLEAN, SaveChangesToPost(scheduled) PROVE StoreEffect
  <2>1. ChangePost(scheduled, /\ Enqueue("set", <<screen.board, screen.post>>, "none")
                              /\ screen' \in {Leaving, screen})
    BY <1>5 DEF SaveChangesToPost, SetItem
  <2> QED
    BY <2>1, ChangePostEffect
<1>6. CASE DeletePost
  <2>1. ChangePost(FALSE, /\ Enqueue("delete", <<screen.board, screen.post>>, "post")
                          /\ screen' \in {Leaving, screen})
    BY <1>6 DEF DeletePost, DeleteItem, ChangePost
  <2> QED
    BY <2>1, ChangePostEffect
<1> QED
  BY <1>1, <1>2, <1>3, <1>4, <1>5, <1>6

\* The steps of the main queue, of Firestore and of the notifications.
LEMMA SystemEffects ==
    ASSUME TInv,
           \/ MainQueue \/ WriteSettled \/ Kill
           \/ \E p \in Posts : NotificationLeaves(p)
    PROVE  StoreEffect
<1> USE DEF StoreEffect, NotificationsFade
<1>a. \A uids : \A p \in Posts : DeleteNotificationWith(uids)[p] \in {notif[p], Nil}
  BY DEF DeleteNotificationWith
<1>1. CASE BoardsLoaded
  <2>1. UNCHANGED <<server, refused, notif>> /\ (UNCHANGED writes \/ ProcessEnds(writes))
    BY <1>1 DEF BoardsLoaded, GetAllPostsOfNoBoard
  <2>2. Kept(Docs)
    BY <2>1, NothingKeeps, EndKeeps
  <2> QED
    BY <2>1, <2>2
<1>2. CASE BoardsFailed \/ PostsLoaded \/ PostsFailed \/ DeletionReported \/ PostDeletionReported
  <2>1. UNCHANGED <<server, writes, refused, notif>>
    BY <1>2 DEF BoardsFailed, PostsLoaded, PostsFailed, DeletionReported, PostDeletionReported
  <2> QED
    BY <2>1, NothingKeeps
<1>3. CASE PurgeLoaded
  <2> DEFINE b == Head(main).board
  <2>1. b \in Boards
    BY <1>3, MainQueueType DEF PurgeLoaded, Delivers, AnswerKindOK
  <2>2. /\ Enqueue("delete", <<b>>, "board") /\ UNCHANGED <<server, refused>>
        /\ notif' = DeleteNotificationWith(Head(main).found)
    BY <1>3 DEF PurgeLoaded, DeleteSelected, Delete
  <2>3. Kept(Docs \ {<<b>>})
    BY <2>1, <2>2, DocsOfPosts, EnqueueKeeps
  <2> HIDE DEF b
  <2>4. Deletes(b)
    BY <1>3 DEF Deletes, b
  <2> QED
    BY <1>a, <2>1, <2>2, <2>3, <2>4 DEF DropsBoard
<1>4. CASE WriteSettled
  <2>1. PICK ok \in BOOLEAN : Settle(ok) /\ UNCHANGED notif
    BY <1>4, OutcomesAssumption DEF WriteSettled, vmVars
  <2>2. Kept(Docs)
    BY <2>1, SettleKeeps DEF Kept, TInv, TypeOK, RepoTypeOK
  <2> QED
    BY <2>1, <2>2
<1>5. CASE Kill
  <2>1. Kept(Docs) /\ UNCHANGED notif
    BY <1>5, EndKeeps DEF Kill
  <2> QED
    BY <2>1
<1>6. ASSUME NEW p \in Posts, NotificationLeaves(p) PROVE StoreEffect
  <2>1. UNCHANGED <<server, writes, refused>> /\ notif' = DeleteNotificationWith({p})
    BY <1>6 DEF NotificationLeaves, repoVars
  <2> QED
    BY <1>a, <2>1, NothingKeeps
<1> QED
  BY <1>1, <1>2, <1>3, <1>4, <1>5, <1>6 DEF MainQueue

LEMMA StoreEffects == ASSUME TInv, [Next]_vars PROVE StoreEffect
<1>1. CASE UNCHANGED <<server, writes, refused, notif>>
  BY <1>1, NothingKeeps DEF StoreEffect, NotificationsFade
<1>2. CASE \/ MainQueue \/ WriteSettled \/ Kill
           \/ \E p \in Posts : NotificationLeaves(p)
  BY <1>2, SystemEffects
<1>3. CASE Launch \/ (\E s \in Slots : ReadAnswered(s)) \/ UNCHANGED vars
  <2>1. UNCHANGED <<server, writes, refused, notif>>
    BY <1>3 DEF Launch, ReadAnswered, Answer, vmVars, vars, repoVars
  <2> QED
    BY <1>1, <2>1
<1>4. CASE User
  <2>1. ASSUME NEW p \in Posts, PublishScheduled(p) PROVE StoreEffect
    BY <1>2, <2>1 DEF PublishScheduled
  <2>2. CASE \/ \E t \in Tabs : SelectTab(t)
             \/ \E b \in Boards : SelectBoard(b) \/ OpenEdit(b) \/ DeleteOther(b)
             \/ \E p \in Posts : OpenDetails(p)
             \/ OpenProfile \/ OpenCreate \/ Back \/ DismissAlert
    <3>1. UNCHANGED <<server, writes, refused, notif>>
      BY <2>2 DEF SelectTab, SelectBoard, OpenEdit, DeleteOther, OpenDetails, OpenProfile,
                  OpenCreate, Open, Back, DismissAlert, repoVars
    <3> QED
      BY <1>1, <3>1
  <2> QED
    BY <1>4, <2>1, <2>2, EditingEffects DEF User
<1> QED
  BY <1>2, <1>3, <1>4 DEF Next

-----------------------------------------------------------------------------
(* The notifications.                                                        *)

LEMMA NotificationsStep ==
    ASSUME NotificationHasPost, StoreEffect
    PROVE  NotificationHasPost'
<1>1. NotificationHasPost <=>
          \A p \in Posts, b \in Boards : notif[p] = b => Held(<<b, p>>)
  BY DEF NotificationHasPost, Held
<1>2. NotificationHasPost' <=>
          \A p \in Posts, b \in Boards : notif'[p] = b => Held(<<b, p>>)'
  BY DEF NotificationHasPost, Held
<1>3. SUFFICES ASSUME NEW p \in Posts, NEW c \in Boards, notif'[p] = c
               PROVE  Held(<<c, p>>)'
  BY <1>2
<1>4. c \notin {Nil, NoUid}
  BY UidAssumption
<1>5. <<c, p>> \in Docs /\ (notif'[p] = notif[p] => Held(<<c, p>>))
  BY <1>1, <1>3, DocsOfPosts
<1>6. CASE Kept(Docs) /\ NotificationsFade
  BY <1>3, <1>4, <1>5, <1>6 DEF Kept, NotificationsFade
<1>7. ASSUME NEW b \in Boards, NEW q \in Posts, Announces(b, q)
      PROVE  Held(<<c, p>>)'
  BY <1>3, <1>4, <1>5, <1>7 DEF Kept, Announces
<1>8. ASSUME NEW b \in Boards, NEW q \in Posts, DropsPost(b, q)
      PROVE  Held(<<c, p>>)'
  BY <1>3, <1>4, <1>5, <1>8 DEF Kept, DropsPost, NotificationsFade
<1>9. ASSUME NEW b \in Boards, DropsBoard(b)
      PROVE  Held(<<c, p>>)'
  BY <1>3, <1>4, <1>5, <1>9, DocsOfPosts DEF Kept, DropsBoard, NotificationsFade
<1> QED
  BY <1>6, <1>7, <1>8, <1>9 DEF StoreEffect

\* No notification outlives its post: every deletion of a post, of its board or of a
\* board behind the current one, and every replacement of a notification under another
\* board, leaves the notifications of posts that the device still sees, or that the
\* server refused.
THEOREM NotificationHasPostAlways == Spec => []NotificationHasPost
<1>1. Init => NotificationHasPost
  BY UidAssumption DEF Init, NotificationHasPost
<1>2. TInv /\ NotificationHasPost /\ [Next]_vars => NotificationHasPost'
  BY StoreEffects, NotificationsStep
<1> QED
  BY InitType, StepType, <1>1, <1>2, PTL DEF Spec

\* Deleting the current board leaves none of its notifications behind when the grid
\* shows all of its posts: deleteSelected removes the notifications of exactly those.
THEOREM DeletionSilencesAlways == Spec => DeletionSilences
<1> DEFINE Silent ==
        \A b \in Boards :
            DeleteCurrent(b) /\ PostsInView(b) \subseteq posts
                             /\ (\A p \in Posts : <<b, p>> \notin refused)
            => \A p \in Posts : notif'[p] # b
<1>1. ASSUME NotificationHasPost PROVE Silent
  <2> SUFFICES ASSUME NEW b \in Boards, NEW p \in Posts, DeleteCurrent(b),
                      PostsInView(b) \subseteq posts, <<b, p>> \notin refused,
                      notif'[p] = b
               PROVE  FALSE
    OBVIOUS
  <2>1. notif' = DeleteNotificationWith(posts)
    BY DEF DeleteCurrent, DeleteSelected
  <2>2. p \notin posts /\ notif[p] = b
    BY <2>1, UidAssumption DEF DeleteNotificationWith
  <2>3. InView(<<b, p>>)
    BY <1>1, <2>2 DEF NotificationHasPost
  <2> QED
    BY <2>2, <2>3 DEF PostsInView
<1>2. NotificationHasPost => [Silent]_vars
  BY <1>1
<1> QED
  BY <1>2, NotificationHasPostAlways, PTL DEF DeletionSilences

-----------------------------------------------------------------------------
(* The boards the app knows of.                                              *)

\* A board is saved, listed, or captured or found by a load of the boards.
Knows(b) ==
    \/ saved = b
    \/ b \in boards
    \/ \E s \in Slots : reads[s].kind = "boards" /\ reads[s].captured = b
    \/ \E i \in DOMAIN main :
           main[i].kind = "boards" /\ (main[i].captured = b \/ b \in main[i].found)

\* The boards the app knows of are held, unless one was deleted under a load or under
\* the user: the current board is, because it is one of them.
KnownIsHeld == overtaken \/ \A b \in Boards : Knows(b) => Held(<<b>>)

\* While a process shows no board, the saved one is what a load is about to show.
SavedIsLoading == alive /\ board = NoUid /\ saved \in Boards => Outstanding({"boards"})

LEMMA SavedIsLoadingStep ==
    ASSUME TInv, SavedIsLoading, Effect
    PROVE  SavedIsLoading'
<1> SUFFICES ASSUME alive', board' = NoUid, saved' \in Boards
             PROVE  Outstanding({"boards"})'
  BY DEF SavedIsLoading
<1>a. reads \in [Slots -> Read]
  BY DEF TInv, TypeOK, RepoTypeOK
<1>1. CASE Ends \/ Fetches \/ BoardsFailed
  BY <1>1, UidAssumption DEF Ends, ProcessEnds, Fetches, GetAllPosts, BoardsFailed, SaveCurrent
<1>2. CASE Reloads
  <2>1. PICK s \in Slots : GetAllBoards(s, saved)
    BY <1>2 DEF Reloads, LoadUserData
  <2>2. reads'[s].kind = "boards"
    BY <1>a, <2>1 DEF GetAllBoards
  <2> QED BY <2>2 DEF Outstanding
<1>3. CASE ConsumesDeletion
  BY <1>3, WorkRemains DEF ConsumesDeletion, shownVars, SavedIsLoading
<1>4. CASE ReadsToPurge
  <2>1. PICK s \in Slots, b \in Boards : GetAllItensToPurge(s, b)
    BY <1>4 DEF ReadsToPurge
  <2>2. \A t \in Slots : reads[t].kind \in {"boards"} => reads'[t] = reads[t]
    BY <1>a, <2>1 DEF GetAllItensToPurge, Free
  <2> QED BY <1>4, <2>2, WorkRemains DEF ReadsToPurge, shownVars, SavedIsLoading
<1>5. CASE Answered
  BY <1>5, WorkAnswered DEF Answered, shownVars, SavedIsLoading
<1>6. CASE Settled
  BY <1>6, WorkRemains DEF Settled, shownVars, SavedIsLoading
<1>7. CASE PostsLoaded \/ PostsFailed
  BY <1>7, WorkRemains DEF PostsLoaded, PostsFailed, Delivers, SavedIsLoading
<1>8. CASE Elsewhere
  BY <1>8 DEF Elsewhere, shownVars, SavedIsLoading, Outstanding
<1> QED BY <1>1, <1>2, <1>3, <1>4, <1>5, <1>6, <1>7, <1>8 DEF Effect

\* A load of the boards captures the saved board.
LEMMA CapturedIsKnown ==
    ASSUME TInv, Effect, NEW s \in Slots, reads'[s].kind = "boards"
    PROVE  \/ reads'[s].captured = saved
           \/ reads[s].kind = "boards" /\ reads'[s].captured = reads[s].captured
<1>a. reads \in [Slots -> Read]
  BY DEF TInv, TypeOK, RepoTypeOK
<1>1. CASE Ends
  BY <1>1 DEF Ends, ProcessEnds, Idle
<1>2. CASE Fetches
  <2>1. PICK t \in Slots, b \in Boards : GetAllItensToShow(t, b)
    BY <1>2 DEF Fetches, GetAllPosts
  <2>2. t # s
    BY <2>1 DEF GetAllItensToShow
  <2>3. reads'[s] = [reads[s] EXCEPT !.newest = FALSE] /\ reads[s] \in Read
    BY <1>a, <2>1, <2>2 DEF GetAllItensToShow
  <2> QED BY <2>3 DEF Read
<1>3. CASE Reloads
  <2>1. PICK t \in Slots : GetAllBoards(t, saved)
    BY <1>3 DEF Reloads, LoadUserData
  <2> QED BY <1>a, <2>1 DEF GetAllBoards
<1>4. CASE ReadsToPurge
  BY <1>a, <1>4 DEF ReadsToPurge, GetAllItensToPurge
<1>5. CASE Answered
  BY <1>a, <1>5 DEF Answered, Answer, Idle
<1>6. CASE ConsumesDeletion \/ Settled \/ BoardsFailed \/ PostsLoaded \/ PostsFailed \/ Elsewhere
  BY <1>6 DEF ConsumesDeletion, Settled, BoardsFailed, PostsLoaded, PostsFailed, Elsewhere
<1> QED BY <1>1, <1>2, <1>3, <1>4, <1>5, <1>6 DEF Effect

\* An answer to a load of the boards brings what the load captured, and boards that the
\* device saw.
LEMMA AnswerIsKnown ==
    ASSUME TInv, Effect, NEW i \in DOMAIN main', main'[i].kind = "boards"
    PROVE  \/ \E j \in DOMAIN main : /\ main[j].kind = "boards"
                                     /\ main'[i].captured = main[j].captured
                                     /\ main'[i].found = main[j].found
           \/ \E s \in Slots : /\ reads[s].kind = "boards"
                               /\ main'[i].captured = reads[s].captured
                               /\ main'[i].found \subseteq BoardsInView
<1>a. main \in Seq(Answers)
  BY DEF TInv, TypeOK, RepoTypeOK
<1>1. CASE Ends
  BY <1>1 DEF Ends, ProcessEnds
<1>2. CASE Fetches
  <2>1. PICK b \in Boards : \E rest : AtMostOneConsumed(rest) /\ GetAllPosts(b, rest)
    BY <1>2 DEF Fetches
  <2>2. PICK rest : AtMostOneConsumed(rest) /\ GetAllPosts(b, rest)
    BY <2>1
  <2>3. i \in DOMAIN rest /\ main'[i] = [rest[i] EXCEPT !.newest = FALSE]
    BY <2>2 DEF GetAllPosts, NoLongerNewest
  <2>4. rest \in Seq(Answers) /\ \E j \in DOMAIN main : rest[i] = main[j]
    BY <2>2, <2>3, RemainingEntries
  <2>5. rest[i] \in Answers
    BY <2>3, <2>4, LenProperties, ElementOfSeq
  <2>6. /\ main'[i].kind = rest[i].kind /\ main'[i].captured = rest[i].captured
        /\ main'[i].found = rest[i].found
    BY <2>3, <2>5 DEF Answers
  <2> QED BY <2>4, <2>6
<1>3. CASE Reloads \/ ConsumesDeletion \/ PostsLoaded \/ PostsFailed \/ BoardsFailed
  <2>1. AtMostOneConsumed(main')
    BY <1>3 DEF Reloads, ConsumesDeletion, PostsLoaded, PostsFailed, BoardsFailed, Delivers,
                AtMostOneConsumed
  <2> QED BY <2>1, RemainingEntries
<1>4. CASE Answered
  <2>1. PICK s \in Slots, ok \in BOOLEAN : Answer(s, ok)
    BY <1>4 DEF Answered
  <2> DEFINE r == reads[s]
             a == [kind |-> r.kind, board |-> r.board, captured |-> r.captured,
                   newest |-> r.newest, ok |-> ok, found |-> IF ok THEN Found(r) ELSE {}]
  <2>2. /\ main' = Append(main, a) /\ a \in Answers
        /\ a.kind = r.kind /\ a.captured = r.captured /\ a.found \subseteq Found(r)
    BY <2>1, AnswerType DEF Answer
  <2>3. r.kind = "boards" => Found(r) = BoardsInView
    BY DEF Found
  <2> HIDE DEF a
  <2>4. main'[i] = a \/ (i \in DOMAIN main /\ main'[i] = main[i])
    BY <1>a, <2>2
  <2> QED BY <2>2, <2>3, <2>4
<1>5. CASE Settled
  <2>1. CASE UNCHANGED main
    BY <2>1
  <2>2. ASSUME NEW a \in Answers, a.kind \in {"board", "post"}, main' = Append(main, a)
        PROVE  i \in DOMAIN main /\ main'[i] = main[i]
    BY <1>a, <2>2
  <2> QED BY <1>5, <2>1, <2>2 DEF Settled
<1>6. CASE ReadsToPurge \/ Elsewhere
  BY <1>6 DEF ReadsToPurge, Elsewhere
<1> QED BY <1>1, <1>2, <1>3, <1>4, <1>5, <1>6 DEF Effect

\* The saved board and the list come from what was known.
LEMMA ChoiceIsKnown ==
    ASSUME TInv, [Next]_vars, NEW b \in Boards, saved' = b \/ b \in boards'
    PROVE  Knows(b)
<1> USE DEF Knows
<1>1. CASE BoardsLoaded
  <2> DEFINE a == Head(main)
  <2>1. main # <<>> /\ a.kind = "boards"
    BY <1>1 DEF BoardsLoaded, Delivers
  <2>2. 1 \in DOMAIN main /\ a = main[1]
    BY <2>1, EmptySeq, LenProperties DEF TInv, TypeOK, RepoTypeOK
  <2>3. a.captured = b \/ b \in a.found => Knows(b)
    BY <2>1, <2>2
  <2>4. CASE ProcessEnds(writes) /\ saved' = NoUid
    BY <2>4, UidAssumption DEF ProcessEnds
  <2>5. ASSUME NEW c \in Chosen(a), saved' = c, boards' = a.found PROVE Knows(b)
    BY <2>3, <2>5, UidAssumption DEF Chosen
  <2> QED BY <1>1, <2>4, <2>5 DEF BoardsLoaded, GetAllPosts, GetAllPostsOfNoBoard, SaveCurrent
<1>2. ASSUME NEW c \in Boards, SelectBoard(c) PROVE Knows(b)
  BY <1>2 DEF SelectBoard, GetAllPosts, SaveCurrent
<1>3. ASSUME NEW c \in Boards, DeleteCurrent(c) PROVE Knows(b)
  BY <1>3 DEF DeleteCurrent, DeleteSelected, GetAllPosts, SaveCurrent
<1>4. ASSUME NEW c \in Boards, DeleteLast(c) PROVE Knows(b)
  BY <1>4, UidAssumption DEF DeleteLast, GetAllPostsOfNoBoard, ProcessEnds, SaveCurrent
<1>5. CASE PurgeLoaded
  BY <1>5 DEF PurgeLoaded, DeleteSelected
<1>6. CASE BoardsFailed
  BY <1>6, UidAssumption DEF BoardsFailed, SaveCurrent
<1>7. CASE saved' = saved /\ boards' \in {boards, {}}
  BY <1>7
<1>8. CASE \/ Launch \/ Kill \/ WriteSettled \/ UNCHANGED vars
           \/ \E p \in Posts : NotificationLeaves(p) \/ PublishScheduled(p)
           \/ \E s \in Slots : ReadAnswered(s)
  BY <1>7, <1>8 DEF Launch, Kill, ProcessEnds, WriteSettled, vars, NotificationLeaves,
                    PublishScheduled, ReadAnswered, vmVars
<1>9. CASE PostsLoaded \/ PostsFailed \/ DeletionReported \/ PostDeletionReported
  BY <1>7, <1>9 DEF PostsLoaded, PostsFailed, DeletionReported, PostDeletionReported
<1>10. CASE \/ \E t \in Tabs : SelectTab(t)
            \/ \E c \in Boards : OpenEdit(c) \/ CreateBoard(c) \/ DeleteOther(c)
            \/ \E p \in Posts : OpenDetails(p)
            \/ OpenProfile \/ OpenCreate \/ Back \/ DismissAlert
  BY <1>7, <1>10 DEF SelectTab, OpenEdit, CreateBoard, DeleteOther, OpenDetails, OpenProfile,
                     OpenCreate, Open, Back, DismissAlert
<1>11. CASE \/ \E p \in Posts : \E scheduled \in BOOLEAN : AddPostToBoard(p, scheduled)
            \/ \E scheduled \in BOOLEAN : SaveChangesToPost(scheduled)
            \/ DeletePost
  BY <1>7, <1>11 DEF AddPostToBoard, SaveChangesToPost, DeletePost, ChangePost, ProcessEnds
<1> HIDE DEF Knows
<1>12. CASE User
  BY <1>2, <1>3, <1>4, <1>8, <1>10, <1>11, <1>12 DEF User
<1>13. CASE MainQueue
  BY <1>1, <1>5, <1>6, <1>9, <1>13 DEF MainQueue
<1> QED BY <1>8, <1>12, <1>13 DEF Next

LEMMA KnownGrows ==
    ASSUME TInv, [Next]_vars, NEW b \in Boards, Knows(b)'
    PROVE  Knows(b) \/ Held(<<b>>)
<1>1. Effect
  BY StepEffects
<1>2. CASE saved' = b \/ b \in boards'
  BY <1>2, ChoiceIsKnown
<1>3. ASSUME NEW s \in Slots, reads'[s].kind = "boards", reads'[s].captured = b
      PROVE  Knows(b)
  BY <1>1, <1>3, CapturedIsKnown DEF Knows
<1>4. ASSUME NEW i \in DOMAIN main', main'[i].kind = "boards",
             main'[i].captured = b \/ b \in main'[i].found
      PROVE  Knows(b) \/ InView(<<b>>)
  <2>1. CASE \E j \in DOMAIN main : /\ main[j].kind = "boards"
                                    /\ main'[i].captured = main[j].captured
                                    /\ main'[i].found = main[j].found
    BY <1>4, <2>1 DEF Knows
  <2>2. CASE \E s \in Slots : /\ reads[s].kind = "boards"
                              /\ main'[i].captured = reads[s].captured
                              /\ main'[i].found \subseteq BoardsInView
    BY <1>4, <2>2 DEF Knows, BoardsInView
  <2> QED BY <1>1, <1>4, <2>1, <2>2, AnswerIsKnown
<1> QED BY <1>2, <1>3, <1>4 DEF Knows, Held

\* The app forgets a board that it deletes, unless a load or the user got in between.
LEMMA DeletedIsUnknown ==
    ASSUME TInv, SavedInv, SavedIsLoading, NEW b \in Boards, Deletes(b), ~overtaken'
    PROVE  ~Knows(b)'
<1>1. ~Outstanding({"boards"})
  BY DEF Deletes, DeleteCurrent, DeleteLast, PurgeLoaded
<1>2. /\ \A s \in Slots : reads[s].kind # "boards"
      /\ \A i \in DOMAIN main : main[i].kind # "boards"
  BY <1>1 DEF Outstanding
<1>3. CASE DeleteCurrent(b)
  <2>1. PICK next \in boards \ {b} : GetAllPosts(next, main)
    BY <1>3 DEF DeleteCurrent
  <2>2. saved' # b /\ b \notin boards'
    BY <1>3, <2>1 DEF DeleteCurrent, DeleteSelected, GetAllPosts, SaveCurrent
  <2>3. PICK s \in Slots : GetAllItensToShow(s, next)
    BY <2>1 DEF GetAllPosts
  <2>4. ASSUME NEW t \in Slots PROVE reads'[t].kind # "boards"
    <3>1. CASE t = s
      BY <2>3, <3>1 DEF GetAllItensToShow
    <3>2. CASE t # s
      <4>1. reads'[t] = [reads[t] EXCEPT !.newest = FALSE] /\ reads[t] \in Read
        BY <2>3, <3>2 DEF GetAllItensToShow, TInv, TypeOK, RepoTypeOK
      <4> QED BY <1>2, <4>1 DEF Read
    <3> QED BY <3>1, <3>2
  <2>5. ASSUME NEW i \in DOMAIN main' PROVE main'[i].kind # "boards"
    <3>1. i \in DOMAIN main /\ main'[i] = [main[i] EXCEPT !.newest = FALSE]
      BY <2>1 DEF GetAllPosts, NoLongerNewest
    <3>2. main[i] \in Answers
      BY <3>1, LenProperties, ElementOfSeq DEF TInv, TypeOK, RepoTypeOK
    <3> QED BY <1>2, <3>1, <3>2 DEF Answers
  <2> QED BY <2>2, <2>4, <2>5 DEF Knows
<1>4. CASE DeleteLast(b)
  <2>1. /\ saved' = NoUid /\ boards' = {} /\ main' = <<>>
        /\ reads' = [s \in Slots |-> Idle]
    BY <1>4 DEF DeleteLast, GetAllPostsOfNoBoard, SaveCurrent, ProcessEnds
  <2> QED BY <2>1, UidAssumption DEF Knows, Idle
<1>5. CASE PurgeLoaded /\ Head(main).board = b
  <2>1. board # b /\ alive
    BY <1>5 DEF PurgeLoaded, Delivers
  <2>2. saved # b
    BY <1>1, <2>1 DEF SavedInv, SavedIsLoading, TInv, TypeOK
  <2>3. /\ saved' = saved /\ boards' = boards \ {b} /\ reads' = reads
        /\ main # <<>> /\ main' = Tail(main)
    BY <1>5 DEF PurgeLoaded, DeleteSelected, Delivers
  <2>4. \A i \in DOMAIN main' : \E j \in DOMAIN main : main'[i] = main[j]
    BY <2>3, RemainingEntries DEF AtMostOneConsumed
  <2> QED BY <1>2, <2>2, <2>3, <2>4 DEF Knows
<1> QED BY <1>3, <1>4, <1>5 DEF Deletes

LEMMA OvertakenStays == ASSUME overtaken, [Next]_vars PROVE overtaken'
<1>1. CASE \/ UNCHANGED overtaken
           \/ overtaken' = (overtaken \/ Outstanding({"boards"}))
           \/ overtaken' = (overtaken \/ Head(main).board = board \/ Outstanding({"boards"}))
  BY <1>1
<1>2. CASE User
  BY <1>1, <1>2 DEF User, SelectTab, SelectBoard, OpenEdit, CreateBoard, DeleteCurrent,
     DeleteLast, DeleteOther, OpenDetails, PublishScheduled, NotificationLeaves,
     AddPostToBoard, OpenProfile, OpenCreate, Open, Back, DismissAlert, SaveChangesToPost,
     DeletePost, ChangePost, histVars
<1>3. CASE MainQueue
  BY <1>1, <1>3 DEF MainQueue, BoardsLoaded, BoardsFailed, PostsLoaded, PostsFailed,
     PurgeLoaded, DeletionReported, PostDeletionReported, histVars
<1>4. CASE \/ Launch \/ Kill \/ WriteSettled \/ UNCHANGED vars
           \/ \E p \in Posts : NotificationLeaves(p)
           \/ \E s \in Slots : ReadAnswered(s)
  BY <1>1, <1>4 DEF Launch, Kill, WriteSettled, NotificationLeaves, ReadAnswered, vmVars,
     vars, histVars
<1> QED BY <1>2, <1>3, <1>4 DEF Next

LEMMA KnownIsHeldStep ==
    ASSUME TInv, SavedInv, SavedIsLoading, KnownIsHeld, [Next]_vars
    PROVE  KnownIsHeld'
<1> SUFFICES ASSUME ~overtaken', NEW b \in Boards, Knows(b)' PROVE Held(<<b>>)'
  BY DEF KnownIsHeld
<1>1. ~overtaken
  BY OvertakenStays
<1>2. Held(<<b>>) /\ <<b>> \in Docs
  BY <1>1, KnownGrows, DocsOfPosts DEF KnownIsHeld
<1>3. CASE Kept(Docs) \/ \E c \in Boards, p \in Posts : Announces(c, p)
  BY <1>2, <1>3 DEF Kept, Announces
<1>4. ASSUME NEW c \in Boards, NEW p \in Posts, DropsPost(c, p) PROVE Held(<<b>>)'
  BY <1>2, <1>4, DocsOfPosts DEF Kept, DropsPost
<1>5. ASSUME NEW c \in Boards, DropsBoard(c) PROVE Held(<<b>>)'
  <2>1. b # c
    BY <1>5, DeletedIsUnknown DEF DropsBoard
  <2>2. <<b>> # <<c>>
    BY <2>1
  <2> QED BY <1>2, <1>5, <2>2 DEF Kept, DropsBoard
<1> QED BY <1>3, <1>4, <1>5, StoreEffects DEF StoreEffect

\* The current board is a board that the device sees, or that the server refused to
\* store, unless a board was deleted while a load had captured it or after the user had
\* moved to it: no selection, load or deletion ends on a board that is gone.
THEOREM CurrentBoardExistsAlways == Spec => []CurrentBoardExists
<1>1. Init => SavedInv /\ SavedIsLoading /\ KnownIsHeld
  <2> SUFFICES ASSUME Init PROVE KnownIsHeld
    BY DEF Init, SavedInv, SavedIsLoading
  <2>1. PICK known \in SUBSET Boards :
            server = {<<b>> : b \in known} /\ saved \in known \cup {Nil}
    BY DEF Init
  <2>2. ASSUME NEW b \in Boards, Knows(b) PROVE b \in known
    BY <2>1, <2>2, UidAssumption DEF Init, Knows, Idle
  <2>3. writes = <<>>
    BY DEF Init
  <2> QED BY <2>1, <2>2, <2>3 DEF KnownIsHeld, Held, InView
<1>2. /\ TInv /\ SavedInv /\ SavedIsLoading /\ KnownIsHeld /\ [Next]_vars
      => SavedInv' /\ SavedIsLoading' /\ KnownIsHeld'
  BY StepEffects, SavedStep, SavedIsLoadingStep, KnownIsHeldStep
<1>3. TInv /\ SavedInv /\ KnownIsHeld => CurrentBoardExists
  BY DEF TInv, TypeOK, SavedInv, KnownIsHeld, Knows, Held, CurrentBoardExists
<1> QED BY InitType, StepType, <1>1, <1>2, <1>3, PTL DEF Spec
=============================================================================
