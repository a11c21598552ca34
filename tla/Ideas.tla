------------------------------- MODULE Ideas -------------------------------
(***************************************************************************)
(* The tab of the ideas: IdeaView, CreateIdeaSceneView, EditIdeaView and   *)
(* CreatePasteView, their view models, and the listeners of                *)
(* BoardsRepository that feed them.                                        *)
(*                                                                         *)
(* A listener is told of every change of the device's view of the          *)
(* documents, local writes included; its snapshots wait on the main queue. *)
(* The screens pushed over the list are rebuilt by every snapshot, and by  *)
(* every change of the main screen: what was typed or chosen goes.  Texts  *)
(* are left out; an idea is its "paste", the category it is filed under.   *)
(***************************************************************************)
EXTENDS Naturals, Sequences, FiniteSets

CONSTANTS
    Boards, Ideas, Pastes,  \* document ids
    NoPaste,    \* the uid "none" of an idea without category
    BoardOf,    \* the board to whose collections a document id belongs
    TitleOf,    \* what the user calls each paste
    NoSort, AllCards,       \* "" and "todos" of the filter's picker
    Nil,
    MaxWrites, MaxMain      \* bounds: writes queued, snapshots of a collection waiting

Uids == Pastes \cup {NoPaste}
Titles == {TitleOf[p] : p \in Pastes}

ASSUME UidAssumption ==
    /\ NoPaste \notin Pastes
    /\ Ideas \cap Uids = {}
    /\ Nil \notin Boards \cup Ideas \cup Uids
    /\ BoardOf \in [Ideas \cup Pastes -> Boards]
    /\ {NoSort, AllCards} \cap Titles = {}

ASSUME BoundsAssumption == MaxWrites \in Nat /\ MaxMain \in Nat

VARIABLES
    server,     \* the documents the server has, by document id
    writes,     \* the writes queued on the device, oldest first
    fresh,      \* document ids not given out yet
    main,       \* the snapshots waiting on the main queue
    status,     \* what the listeners of each collection have come to
    current,    \* InsideBoardViewModel.states.board
    open,       \* the tab of the ideas is on
    board,      \* IdeaViewModel.board, captured when the tab was opened
    ideas,      \* states.ideas: the pastes of the ideas, by uid
    filtered,   \* states.filteredIdeas
    pastes,     \* states.pastes, pastesUidsDict
    sort,       \* the selection of the filter's picker
    screen,     \* the screen on top and its view model
    chose       \* history: the user chose a paste on this screen

docVars == <<server, writes, fresh>>
listenVars == <<main, status>>
viewVars == <<open, board, ideas, filtered, pastes, sort>>
vars == <<docVars, listenVars, current, viewVars, screen, chose>>

Kinds == {"ideas", "pastes"}
Keys(kind) == IF kind = "ideas" THEN Ideas ELSE Pastes
AllKeys == Ideas \cup Pastes
Doc == Uids \cup {Nil}         \* the category; pastes have none

\* A document as a query returns it: key |-> paste.
Items(kind) == UNION {[S -> Uids] : S \in SUBSET Keys(kind)}
None == [k \in {} |-> NoPaste]

\* states.paste, viewModel.pastes, the branch of the list that holds the link
\* to the screen, and CreatePasteView as a sheet over it.
Screens == [at : {"list", "create", "edit"}, idea : Ideas \cup {Nil}, paste : Uids,
            known : SUBSET Pastes, blank : BOOLEAN, sheet : BOOLEAN]
List == [at |-> "list", idea |-> Nil, paste |-> NoPaste, known |-> {},
         blank |-> FALSE, sheet |-> FALSE]

TypeOK ==
    /\ server \in [AllKeys -> Doc]
    /\ writes \in Seq([key : AllKeys, doc : Doc]) /\ Len(writes) <= MaxWrites
    /\ fresh \subseteq AllKeys
    /\ \A n \in DOMAIN main : main[n].kind \in Kinds /\ main[n].items \in Items(main[n].kind)
    /\ status \in [Kinds -> {"off", "awaits", "listens", "failed"}]
    /\ current \in Boards
    /\ open \in BOOLEAN
    /\ board \in Boards \cup {Nil} /\ (open => board \in Boards)
    /\ ideas \in Items("ideas")
    /\ filtered \subseteq DOMAIN ideas
    /\ pastes \in Items("pastes")
    /\ sort \in Titles \cup {NoSort, AllCards}
    /\ screen \in Screens
    /\ (screen.at = "edit" => screen.idea \in filtered)
    /\ chose \in BOOLEAN

Init ==
    /\ server = [k \in AllKeys |-> Nil]
    /\ writes = <<>> /\ fresh = AllKeys
    /\ main = <<>> /\ status = [kind \in Kinds |-> "off"]
    /\ current \in Boards
    /\ open = FALSE /\ board = Nil
    /\ ideas = None /\ filtered = {} /\ pastes = None
    /\ sort = NoSort
    /\ screen = List /\ chose = FALSE

-----------------------------------------------------------------------------
(* The documents and the listeners.                                          *)

\* The device's view of a document: the newest queued write, or the server's.
View(k) ==
    LET on == {n \in DOMAIN writes : writes[n].key = k}
    IN  IF on = {} THEN server[k]
        ELSE writes[CHOOSE n \in on : \A m \in on : m <= n].doc

\* What a query of a collection of board b returns.
Found(kind, b) ==
    [k \in {k \in Keys(kind) : BoardOf[k] = b /\ View(k) # Nil} |-> View(k)]

Snapshots(kinds, b) ==
    LET of(kind) == IF kind \in kinds THEN <<[kind |-> kind, items |-> Found(kind, b)]>>
                    ELSE <<>>
    IN  of("pastes") \o of("ideas")

Listening == {kind \in Kinds : status[kind] = "listens"}

\* q waits on the main queue; after it the listeners hear of what changed in this
\* step, and new listeners of collections that are listened to of what there is.
Tell(q, new) ==
    \E b \in {board}, added \in {new} :
        \E changed \in {{kind \in Listening : Found(kind, b)' # Found(kind, b)}} :
            main' = q \o Snapshots(changed, b)' \o Snapshots(added, b)'

\* setListeners, at every appearance of the list; no listener is ever removed,
\* so those of earlier appearances stay.
SetListeners(q) ==
    /\ Tell(q, Listening)
    /\ status' = [kind \in Kinds |-> IF kind \in Listening THEN "listens" ELSE "awaits"]

Waiting(kind) == Cardinality({n \in DOMAIN main : main[n].kind = kind})

\* The bounds on what may start.
QueueRoom == \A kind \in Kinds : Waiting(kind) < MaxMain
Room == Len(writes) < MaxWrites /\ \A kind \in Kinds : Waiting(kind) <= MaxMain

\* add, update, delete of an item; the two writes of add are taken as one.
Write(k, doc) ==
    /\ Room
    /\ writes' = Append(writes, [key |-> k, doc |-> doc])
    /\ fresh' = fresh \ {k}
    /\ UNCHANGED server

Answer(kind, next) ==
    /\ status[kind] = "awaits"
    /\ status' = [status EXCEPT ![kind] = next]
    /\ main' = main \o Snapshots({kind}, board)
    /\ UNCHANGED <<docVars, current, viewVars, screen, chose>>

\* Mutant: one reading of the collection instead of a listener.
FirstSnapshotOnly(kind) == Answer(kind, "off")

\* setListener: the first snapshot, from the cache or from the server; the two
\* collections in either order.
FirstSnapshot(kind) == Answer(kind, "listens")

\* An error ends every listener of the query; its handler only prints.
ListenerFails(kind) ==
    /\ status[kind] \in {"awaits", "listens"}
    /\ status' = [status EXCEPT ![kind] = "failed"]
    /\ UNCHANGED <<docVars, main, current, viewVars, screen, chose>>

\* The server accepts the oldest write, or refuses it and the view rolls back.
Settle ==
    /\ writes # <<>>
    /\ QueueRoom
    /\ writes' = Tail(writes)
    /\ \/ server' = [server EXCEPT ![Head(writes).key] = Head(writes).doc]
       \/ UNCHANGED server
    /\ Tell(main, {})
    /\ UNCHANGED <<fresh, status, current, viewVars, screen, chose>>

-----------------------------------------------------------------------------
(* Snapshots on the main queue, and what they do to the screen on top.       *)

\* getPasteBy(uid:) ?? Paste(uid: "none").
PasteBy(uid, known) == IF uid \in known THEN uid ELSE NoPaste

\* The links of the list build the screens again, with new view models.
Rebuilt(ids, known) ==
    CASE screen.at = "create" ->
            [screen EXCEPT !.paste = NoPaste, !.known = known]
      [] screen.at = "edit" ->
            [screen EXCEPT !.paste = PasteBy(ids[screen.idea], known), !.known = known]
      [] OTHER -> screen

\* A screen goes when the link that pushed it does: that of its idea, or that of
\* the branch of the list for no ideas, or for some.
Popped(ids) ==
    \/ screen.at = "create" /\ screen.blank # (DOMAIN ids = {})
    \/ screen.at = "edit" /\ screen.idea \notin DOMAIN ids

\* Mutants of Refresh: the screens keep their view models (@StateObject); a
\* screen outlives its link.
RefreshKeeping(q, ids, known) ==
    IF Popped(ids)
    THEN screen' = List /\ chose' = FALSE /\ SetListeners(q)
    ELSE main' = q /\ UNCHANGED <<status, screen, chose>>
RefreshStaying(q, ids, known) ==
    /\ screen' = IF Popped(ids) THEN screen ELSE Rebuilt(ids, known)
    /\ chose' = FALSE
    /\ main' = q
    /\ UNCHANGED status

Refresh(q, ids, known) ==
    /\ chose' = FALSE
    /\ IF Popped(ids)
       THEN screen' = List /\ SetListeners(q)
       ELSE screen' = Rebuilt(ids, known) /\ main' = q /\ UNCHANGED status

PastesShown ==
    /\ main # <<>> /\ Head(main).kind = "pastes"
    /\ pastes' = Head(main).items
    /\ UNCHANGED <<docVars, current, open, board, ideas, filtered, sort>>
    /\ Refresh(Tail(main), ideas, DOMAIN pastes')

\* Mutant: the filtered ideas stay as they are.
IdeasShownUnfiltered ==
    /\ main # <<>> /\ Head(main).kind = "ideas"
    /\ ideas' = Head(main).items
    /\ UNCHANGED <<docVars, current, open, board, filtered, pastes, sort>>
    /\ Refresh(Tail(main), ideas', DOMAIN pastes)

\* The filtered ideas become all of them; the picker keeps its selection.
IdeasShown ==
    /\ main # <<>> /\ Head(main).kind = "ideas"
    /\ ideas' = Head(main).items
    /\ filtered' = DOMAIN ideas'
    /\ UNCHANGED <<docVars, current, open, board, pastes, sort>>
    /\ Refresh(Tail(main), ideas', DOMAIN pastes)

\* A change of the main screen, as when its loads are answered.
MainScreenChanges ==
    /\ screen.at # "list"
    /\ UNCHANGED <<docVars, current, viewVars>>
    /\ Refresh(main, ideas, DOMAIN pastes)

-----------------------------------------------------------------------------
(* The user.                                                                 *)

OnList == open /\ screen = List
OnScreen(at) == screen.at = at /\ ~screen.sheet

\* Mutant: the listeners are not set when the tab appears.
OpenTabUnheard ==
    /\ ~open
    /\ open' = TRUE
    /\ board' = current
    /\ UNCHANGED <<docVars, listenVars, current, ideas, filtered, pastes, sort, screen, chose>>

\* @StateObject: the view model of the board of this moment, for as long as the
\* tab is on.
OpenTab ==
    /\ ~open
    /\ open' = TRUE
    /\ board' = current
    /\ UNCHANGED <<docVars, current, ideas, filtered, pastes, sort, screen, chose>>
    /\ SetListeners(main)

\* The view model goes, and its handlers ([weak self]) do nothing more.
Closed ==
    /\ open' = FALSE /\ board' = Nil
    /\ ideas' = None /\ filtered' = {} /\ pastes' = None
    /\ sort' = NoSort
    /\ screen' = List /\ chose' = FALSE
    /\ main' = <<>> /\ status' = [kind \in Kinds |-> "off"]
    /\ UNCHANGED <<docVars, current>>

CloseTab == OnList /\ Closed
Kill == open /\ Closed

\* A tap on a board of the profile sheet; the tab keeps its own.
SelectBoard(b) ==
    /\ screen = List
    /\ current' = b
    /\ UNCHANGED <<docVars, listenVars, viewVars, screen, chose>>

\* filterIdeas(by:) compares the uid of the paste with what it is given.
FilterIdeas(query) == {i \in DOMAIN ideas : ideas[i] = query}

\* The rows of the picker are tagged with the titles of the pastes.
ChooseFilter(p) ==
    /\ OnList
    /\ p \in DOMAIN pastes
    /\ sort # TitleOf[p]
    /\ sort' = TitleOf[p]
    /\ filtered' = FilterIdeas(TitleOf[p])
    /\ UNCHANGED <<docVars, listenVars, current, open, board, ideas, pastes, screen, chose>>

ChooseAll ==
    /\ OnList
    /\ sort # AllCards
    /\ sort' = AllCards
    /\ filtered' = DOMAIN ideas
    /\ UNCHANGED <<docVars, listenVars, current, open, board, ideas, pastes, screen, chose>>

\* The row "create filter" of the picker, or the button of the screens.
OpenSheet ==
    /\ open
    /\ ~screen.sheet
    /\ screen' = [screen EXCEPT !.sheet = TRUE]
    /\ sort' = IF screen.at = "list" THEN NoSort ELSE sort
    /\ UNCHANGED <<docVars, listenVars, current, open, board, ideas, filtered, pastes, chose>>

\* CreatePasteView: the paste joins those of the screen below at once.
AddPaste(p) ==
    /\ screen.sheet
    /\ p \in fresh
    /\ BoardOf[p] = board
    /\ Write(p, NoPaste)
    /\ screen' = [screen EXCEPT !.sheet = FALSE,
                                !.known = IF screen.at = "list" THEN @ ELSE @ \cup {p}]
    /\ Tell(main, {})
    /\ UNCHANGED <<status, current, viewVars, chose>>

CancelSheet ==
    /\ screen.sheet
    /\ screen' = [screen EXCEPT !.sheet = FALSE]
    /\ UNCHANGED <<docVars, listenVars, current, viewVars, chose>>

Push(next) ==
    /\ OnList
    /\ screen' = [next EXCEPT !.known = DOMAIN pastes]
    /\ UNCHANGED <<docVars, listenVars, current, viewVars, chose>>

OpenCreate == Push([List EXCEPT !.at = "create", !.blank = (DOMAIN ideas = {})])
OpenEdit(i) ==
    /\ i \in filtered
    /\ Push([List EXCEPT !.at = "edit", !.idea = i, !.paste = PasteBy(ideas[i], DOMAIN pastes)])

SelectPaste(p) ==
    /\ OnScreen("create") \/ OnScreen("edit")
    /\ p \in screen.known
    /\ screen' = [screen EXCEPT !.paste = p]
    /\ chose' = (screen.at = "edit")
    /\ UNCHANGED <<docVars, listenVars, current, viewVars>>

\* The list appears again.
Return ==
    /\ screen' = List
    /\ chose' = FALSE
    /\ UNCHANGED <<current, viewVars>>
    /\ SetListeners(main)

Back ==
    /\ OnScreen("create") \/ OnScreen("edit")
    /\ QueueRoom
    /\ UNCHANGED docVars
    /\ Return

SaveIdea(i) ==
    /\ OnScreen("create")
    /\ i \in fresh
    /\ BoardOf[i] = board
    /\ Write(i, screen.paste)
    /\ Return

UpdateIdea ==
    /\ OnScreen("edit")
    /\ Write(screen.idea, screen.paste)
    /\ Return

DeleteIdea ==
    /\ OnScreen("edit")
    /\ Write(screen.idea, Nil)
    /\ Return

-----------------------------------------------------------------------------
User ==
    \/ OpenTab \/ CloseTab \/ ChooseAll \/ OpenSheet \/ CancelSheet \/ OpenCreate
    \/ Back \/ UpdateIdea \/ DeleteIdea
    \/ \E b \in Boards : SelectBoard(b)
    \/ \E p \in Pastes : ChooseFilter(p) \/ AddPaste(p) \/ SelectPaste(p)
    \/ \E i \in Ideas : OpenEdit(i) \/ SaveIdea(i)

Next ==
    \/ User
    \/ PastesShown \/ IdeasShown \/ MainScreenChanges
    \/ \E kind \in Kinds : FirstSnapshot(kind) \/ ListenerFails(kind)
    \/ Settle
    \/ Kill

\* The main queue runs, and Firestore answers a listener, from its cache when
\* offline.  Nothing is assumed of the user or of the server.
Fairness ==
    /\ WF_vars(PastesShown \/ IdeasShown)
    /\ \A kind \in Kinds : WF_vars(FirstSnapshot(kind))

Spec == Init /\ [][Next]_vars
FairSpec == Spec /\ Fairness

-----------------------------------------------------------------------------
(* Properties.                                                               *)

Quiet(kind) ==
    /\ status[kind] \notin {"awaits", "failed"}
    /\ \A n \in DOMAIN main : main[n].kind # kind

\* Once the listeners have nothing more to tell, the tab shows what is stored
\* for the board it was opened on, whatever was written, accepted or refused
\* meanwhile and however many listeners there are.
ListFollowsBoard ==
    open /\ board = current =>
        /\ Quiet("ideas") => ideas = Found("ideas", current)
        /\ Quiet("pastes") => pastes = Found("pastes", current)

\* Saving an idea without choosing another category keeps the one it has: the
\* edit screen, built before the pastes arrive or after, ends up with it.
UpdateKeepsPaste ==
    [][\A i \in Ideas :
          UpdateIdea /\ i = screen.idea /\ ~chose /\ Quiet("ideas") /\ Quiet("pastes")
          => View(i)' = View(i) \/ View(View(i)) = Nil]_vars

\* An update stores the whole idea, and would bring back a deleted one: it is
\* not offered for an idea that is known to be gone.
UpdatedIdeaExists == [][UpdateIdea /\ Quiet("ideas") => View(screen.idea) # Nil]_vars

\* A stored idea of the board appears in the list, unless the tab is closed, the
\* listener fails, or it is deleted or refused.
StoredIdeaAppears ==
    \A i \in Ideas :
        open /\ View(i) # Nil ~>
            ~open \/ View(i) = Nil \/ BoardOf[i] # board
                  \/ i \in DOMAIN ideas \/ status["ideas"] = "failed"

\* Localizable.strings:219-221 calls a paste a filter with a name: the ideas
\* shown after choosing it are those filed under it.
FilterShowsPaste ==
    [][\A p \in Pastes :
          ChooseFilter(p) => filtered' = {i \in DOMAIN ideas : ideas[i] = p}]_vars
=============================================================================
