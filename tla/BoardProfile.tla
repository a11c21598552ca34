---------------------------- MODULE BoardProfile ----------------------------
(***************************************************************************)
(* Creating a board and editing it: AddProfileViewModel, EditProfileViewModel *)
(* and the cell of the profile sheet that opens the editor.                 *)
(*                                                                          *)
(* One board, whose data (title, account) are a version: 1 when it is       *)
(* created, a later one for every change that the user types.  The app has  *)
(* five copies of them besides the document.  0 stands for another board in *)
(* shown and saved, for no board elsewhere.  Of the cover's uploads only the *)
(* completions matter here; the copies of an image are in ImagesRepository. *)
(* The user is on a tab without the overlay of the loads; what the grid's   *)
(* tab allows is a part of that.                                            *)
(***************************************************************************)
EXTENDS Naturals, Sequences, FiniteSets, SequencesExt

CONSTANTS
    MaxVersion, \* bound: versions of the board
    MaxSaves,   \* bound: changes under way, from the write to the cover's upload
    Slots,      \* bound: getAllBoards in flight
    Nil         \* no board saved

ASSUME MaxVersionAssumption == MaxVersion \in Nat \ {0} /\ Nil \notin Nat

Versions == 1..MaxVersion
AnyBoard == 0..MaxVersion

VARIABLES
    doc,        \* the document on the server
    writes,     \* Firestore's queue of writes of the document, oldest first
    reads,      \* getAllBoards not yet delivered: the board captured, or NoRead
    main,       \* the completions waiting on the main queue
    saved,      \* UserDefaults "currentBoard"
    shown,      \* states.board of the main screen
    listed,     \* the board in states.boards
    cell,       \* @State board of ProfileListCellView
    uploads,    \* uploads of the cover whose completion somebody hears
    screen,     \* the screen pushed over the main one
    editor,     \* EditProfileViewModel: none, on screen, or kept by its download
    mine,       \* its board
    asking,     \* its download of the cover is under way
    picked,     \* states.inputImage # pastPhoto, on either screen
    overlay,    \* the progress bar over the pushed screen
    launching,  \* the first load since the launch is not answered
    newest,     \* history: the newest version
    told,       \* history: the version of which an editor has told the others
    refused,    \* history: the server refused the creation
    overtaken,  \* history: what is on display came back from an old load or list
    covered     \* history: the cover's upload was begun, or cut off by a kill

storeVars == <<doc, writes, reads, main>>
copyVars == <<saved, shown, listed, cell>>
coverVars == <<uploads, covered>>
formVars == <<editor, mine, asking, picked, overlay>>
pastVars == <<newest, told, refused, overtaken>>
vars == <<storeVars, copyVars, coverVars, screen, formVars, launching, pastVars>>

\* heard: somebody waits for the completion.
Write == [v : Versions, op : {"add", "edit"}, heard : BOOLEAN]
Answer == [kind : {"boards", "add", "edit", "gone"}, ok : BOOLEAN, slot : Slots \cup {Nil},
           found : AnyBoard]
NoRead == MaxVersion + 1

TypeOK ==
    /\ doc \in AnyBoard
    /\ writes \in Seq(Write)
    /\ reads \in [Slots -> AnyBoard \cup {Nil, NoRead}]
    /\ main \in Seq(Answer)
    /\ saved \in AnyBoard \cup {Nil}
    /\ shown \in AnyBoard /\ listed \in AnyBoard /\ cell \in AnyBoard
    /\ uploads \in Seq({"running", "done", "failed"})
    /\ screen \in {"main", "add", "edit", "leaving"}
    /\ editor \in {"none", "up", "kept"}
    /\ mine \in AnyBoard
    /\ asking \in BOOLEAN /\ picked \in BOOLEAN /\ overlay \in BOOLEAN
    /\ launching \in BOOLEAN
    /\ newest \in AnyBoard /\ told \in AnyBoard
    /\ refused \in BOOLEAN /\ overtaken \in BOOLEAN /\ covered \in BOOLEAN

NewForm ==
    /\ editor' = "none" /\ mine' = 0
    /\ asking' = FALSE /\ picked' = FALSE /\ overlay' = FALSE

\* A launch, for a user who has the board, or has not.
Init ==
    /\ doc \in {0, 1}
    /\ writes = <<>> /\ main = <<>> /\ uploads = <<>>
    /\ saved \in {0, doc, Nil}
    /\ reads \in {[s \in Slots |-> IF s = t THEN saved ELSE NoRead] : t \in Slots}
    /\ shown = 0 /\ listed = 0 /\ cell = 0
    /\ screen = "main"
    /\ editor = "none" /\ mine = 0
    /\ asking = FALSE /\ picked = FALSE /\ overlay = FALSE
    /\ launching = TRUE
    /\ newest = doc /\ told = doc
    /\ refused = FALSE /\ overtaken = FALSE
    /\ covered = (doc = 1)

-----------------------------------------------------------------------------
(* Loads of the boards.                                                      *)

\* The document as the device sees it: a change of a document that does not
\* exist has no effect.
View ==
    IF writes # <<>> /\ (doc # 0 \/ writes[1].op = "add")
    THEN writes[Len(writes)].v ELSE doc

\* onAppear of the main screen, when a pushed one has gone.
Appear ==
    /\ screen = "leaving"
    /\ screen' = "main"
    /\ \E s \in Slots :
           /\ reads[s] = NoRead
           /\ reads' = [reads EXCEPT ![s] = saved]
    /\ UNCHANGED <<doc, writes, main, copyVars, coverVars, formVars, launching, pastVars>>

BoardsAnswered(s) ==
    /\ reads[s] # NoRead
    /\ \A i \in DOMAIN main : main[i].slot # s
    /\ \E ok \in BOOLEAN :
           main' = Append(main, [kind |-> "boards", ok |-> ok, slot |-> s,
                                 found |-> IF ok THEN View ELSE 0])
    /\ UNCHANGED <<doc, writes, reads, copyVars, coverVars, screen, formVars, launching, pastVars>>

Delivers(kind) == main # <<>> /\ Head(main).kind = kind

\* Mutant: the saved board is not checked for nil.
ChosenUnchecked(captured, found) == {captured}
\* The saved board as it was before the call; else the first of the list.
Chosen(captured, found) == IF captured # Nil THEN {captured} ELSE {0, found}

\* For the history: older than a copy that the user has seen.
ComesBack(v) == v \in 1..(newest - 1) /\ (overtaken \/ v < shown \/ v < cell)

\* A cell that stays in the list keeps the board it was made with.
BoardsLoaded ==
    /\ Delivers("boards")
    /\ Head(main).ok
    /\ main' = Tail(main)
    /\ reads' = [reads EXCEPT ![Head(main).slot] = NoRead]
    /\ shown' \in Chosen(reads[Head(main).slot], Head(main).found)
    /\ saved' = shown'
    /\ overtaken' = ComesBack(shown')
    /\ listed' = Head(main).found
    /\ cell' = IF listed' = 0 THEN 0 ELSE IF cell = 0 THEN listed' ELSE cell
    /\ launching' = FALSE
    /\ UNCHANGED <<doc, writes, coverVars, screen, formVars, newest, told, refused>>

\* "Empty Profile" becomes the current board, also for the next launch.
BoardsFailed ==
    /\ Delivers("boards")
    /\ ~Head(main).ok
    /\ main' = Tail(main)
    /\ reads' = [reads EXCEPT ![Head(main).slot] = NoRead]
    /\ shown' = 0 /\ saved' = 0
    /\ overtaken' = FALSE
    /\ launching' = FALSE
    /\ UNCHANGED <<doc, writes, listed, cell, coverVars, screen, formVars, newest, told, refused>>

-----------------------------------------------------------------------------
(* The main screen, its profile sheet, and the screens pushed from it.       *)

OnMain == screen = "main" /\ ~launching

\* A tap on a cell: the board is the one of the list, not the one of the cell.
SelectBoard(b) ==
    /\ OnMain
    /\ b \in {0, listed}
    /\ shown' = b /\ saved' = b
    /\ overtaken' = ComesBack(b)
    /\ UNCHANGED <<storeVars, listed, cell, coverVars, screen, formVars, launching, newest,
                   told, refused>>

\* The board's creation; that of another one changes nothing of this one.
OpenAdd ==
    /\ OnMain
    /\ newest = 0
    /\ screen' = "add"
    /\ UNCHANGED <<storeVars, copyVars, coverVars, formVars, launching, pastVars>>

\* The editor takes the board of the cell, and asks for its cover, which may be
\* on the device.
OpenEdit ==
    /\ OnMain
    /\ cell # 0
    /\ editor = "none"
    /\ screen' = "edit" /\ editor' = "up" /\ mine' = cell
    /\ asking' \in BOOLEAN
    /\ UNCHANGED <<storeVars, copyVars, coverVars, picked, overlay, launching, pastVars>>

Pick ==
    /\ screen \in {"add", "edit"}
    /\ ~overlay
    /\ picked' = TRUE
    /\ UNCHANGED <<storeVars, copyVars, coverVars, screen, editor, mine, asking, overlay,
                   launching, pastVars>>

\* What is lost with a view model: the completions that look for it.
NobodyHears(ops) ==
    [i \in DOMAIN writes |-> [writes[i] EXCEPT !.heard = @ /\ writes[i].op \notin ops]]
Forgotten(completions) ==
    [i \in DOMAIN completions |->
        [completions[i] EXCEPT !.kind = IF @ = "edit" THEN "gone" ELSE @]]
Released(completions) ==
    /\ NewForm
    /\ writes' = NobodyHears({"edit"})
    /\ main' = Forgotten(completions)
    /\ uploads' = <<>>

\* A kept view model toggles a progress bar that nobody sees.
Covered(e) == e # "kept"

\* The editor's download of the cover holds its view model until it ends.
CloseScreen(completions, rest) ==
    /\ screen' = IF screen \in {"add", "edit"} THEN "leaving" ELSE screen
    /\ IF asking
       THEN /\ editor' = "kept" /\ overlay' = FALSE
            /\ main' = completions /\ uploads' = rest
            /\ UNCHANGED <<mine, asking, picked, writes>>
       ELSE Released(completions)

\* Cancel, or the back button of the navigation bar, which no overlay covers.
Back ==
    /\ screen \in {"add", "edit"}
    /\ CloseScreen(main, uploads)
    /\ UNCHANGED <<doc, reads, copyVars, covered, launching, pastVars>>

\* The end of the editor's download, which shows the cover instead of what was
\* picked, or lets a kept view model go.
CoverDownloaded ==
    /\ asking
    /\ IF editor = "kept"
       THEN Released(main)
       ELSE /\ asking' = FALSE
            /\ picked' \in {FALSE, picked}
            /\ UNCHANGED <<uploads, writes, main, editor, mine, overlay>>
    /\ UNCHANGED <<doc, reads, copyVars, covered, screen, launching, pastVars>>

-----------------------------------------------------------------------------
(* Creating and changing the board.                                          *)

Enqueue(v, op) ==
    /\ Len(writes) + Cardinality({i \in DOMAIN main : main[i].slot = Nil}) + Len(uploads) < MaxSaves
    /\ writes' = Append(writes, [v |-> v, op |-> op, heard |-> TRUE])

\* createBoard with a name and a cover; without, it only shows an alert.
CreateBoard ==
    /\ screen = "add"
    /\ newest = 0
    /\ picked
    /\ Enqueue(1, "add")
    /\ newest' = 1
    /\ overlay' = ~overlay
    /\ UNCHANGED <<doc, reads, main, copyVars, coverVars, screen, editor, mine, asking,
                   picked, launching, told, refused, overtaken>>

\* saveChangesToBoard: what the user has typed, or the board as it was.
SaveChanges(v) ==
    /\ screen = "edit"
    /\ ~overlay
    /\ v \in {mine, newest + 1} \cap Versions
    /\ mine' = v
    /\ Enqueue(v, "edit")
    /\ newest' = IF v > newest THEN v ELSE newest
    /\ UNCHANGED <<doc, reads, main, copyVars, coverVars, screen, editor, asking, picked,
                   overlay, launching, told, refused, overtaken>>

\* The server accepts the oldest write or refuses it.
WriteSettled ==
    /\ writes # <<>>
    /\ writes' = Tail(writes)
    /\ LET w == Head(writes)
       IN  \E ok \in BOOLEAN :
               /\ ok => doc # 0 \/ w.op = "add"
               /\ doc' = IF ok THEN w.v ELSE doc
               /\ refused' = (refused \/ (~ok /\ w.op = "add"))
               /\ main' = IF ~w.heard THEN main
                          ELSE Append(main, [kind |-> w.op, ok |-> ok, slot |-> Nil,
                                             found |-> 0])
    /\ UNCHANGED <<reads, copyVars, coverVars, screen, formVars, launching, newest, told,
                   overtaken>>

\* Mutant: no upload once the screen is gone.
BoardCreatedOnScreen ==
    /\ Delivers("add")
    /\ main' = Tail(main)
    /\ uploads' = IF Head(main).ok /\ screen = "add" THEN <<"running">> ELSE uploads
    /\ covered' = (covered \/ (Head(main).ok /\ screen = "add"))
    /\ UNCHANGED <<doc, writes, reads, copyVars, screen, formVars, launching, pastVars>>

\* The cover is uploaded, whether the screen is still there or not.  After a
\* failure the code only prints.
BoardCreated ==
    /\ Delivers("add")
    /\ main' = Tail(main)
    /\ uploads' = IF Head(main).ok /\ screen = "add" THEN <<"running">> ELSE uploads
    /\ covered' = (covered \/ Head(main).ok)
    /\ UNCHANGED <<doc, writes, reads, copyVars, screen, formVars, launching, pastVars>>

\* Mutants of the callback: the saved board, or the cell, is forgotten.
TellUnsaved(v) ==
    /\ shown' = IF shown # 0 THEN v ELSE 0
    /\ cell' = IF cell = 0 THEN 0 ELSE v
    /\ told' = v /\ overtaken' = (overtaken /\ shown = 0)
    /\ UNCHANGED saved
TellMainOnly(v) ==
    /\ IF shown # 0 THEN shown' = v /\ saved' = v ELSE UNCHANGED <<shown, saved>>
    /\ told' = v /\ overtaken' = (overtaken /\ shown = 0)
    /\ UNCHANGED cell

\* The editor's callback.
Tell(v) ==
    /\ IF shown # 0 THEN shown' = v /\ saved' = v ELSE UNCHANGED <<shown, saved>>
    /\ cell' = IF cell = 0 THEN 0 ELSE v
    /\ told' = v /\ overtaken' = (overtaken /\ shown = 0)

\* The result is ignored; what the user has picked by now replaces the cover: a
\* deletion and an upload, of which neither waits for the other.
BoardUpdated ==
    /\ Delivers("edit")
    /\ IF picked
       THEN /\ uploads' = Append(uploads, "running")
            /\ overlay' = (Covered(editor) /\ ~overlay)
            /\ main' = Tail(main)
            /\ UNCHANGED <<writes, shown, saved, cell, told, overtaken, screen, editor, mine, asking,
                           picked>>
       ELSE /\ Tell(mine)
            /\ CloseScreen(Tail(main), uploads)
    /\ UNCHANGED <<doc, reads, listed, covered, launching, newest, refused>>

\* A completion whose view model has gone ([weak self]) does nothing.
Unheard ==
    /\ Delivers("gone")
    /\ main' = Tail(main)
    /\ UNCHANGED <<doc, writes, reads, copyVars, coverVars, screen, formVars, launching, pastVars>>

-----------------------------------------------------------------------------
(* The uploads end.                                                          *)

UploadSettled(k) ==
    /\ uploads[k] = "running"
    /\ \E outcome \in {"done", "failed"} : uploads' = [uploads EXCEPT ![k] = outcome]
    /\ UNCHANGED <<storeVars, copyVars, covered, screen, formVars, launching, pastVars>>

\* Mutant: a failed upload leaves the progress bar.
UploadFailedQuietly(rest) ==
    /\ uploads' = rest
    /\ UNCHANGED <<writes, main, screen, formVars>>
UploadFailed(rest) ==
    /\ uploads' = rest
    /\ overlay' = (Covered(editor) /\ ~overlay)
    /\ UNCHANGED <<writes, main, screen, editor, mine, asking, picked>>

\* The completion of an upload takes the progress bar down.  After a failure the
\* editor stays; the other screen is dismissed in any case.
UploadReported(k) ==
    /\ uploads[k] # "running"
    /\ IF uploads[k] = "done" \/ screen = "add"
       THEN CloseScreen(main, RemoveAt(uploads, k))
       ELSE UploadFailed(RemoveAt(uploads, k))
    /\ IF uploads[k] = "done" /\ screen # "add" THEN Tell(mine)
       ELSE UNCHANGED <<shown, saved, cell, told, overtaken>>
    /\ UNCHANGED <<doc, reads, listed, covered, launching, newest, refused>>

\* The process ends and starts again; Firestore's queue survives.
Relaunch ==
    /\ writes' = NobodyHears({"add", "edit"})
    /\ main' = <<>>
    /\ \E s \in Slots : reads' = [t \in Slots |-> IF t = s THEN saved ELSE NoRead]
    /\ shown' = 0 /\ listed' = 0 /\ cell' = 0
    /\ uploads' = <<>>
    /\ covered' = TRUE
    /\ screen' = "main"
    /\ NewForm
    /\ launching' = TRUE
    /\ UNCHANGED <<doc, saved, pastVars>>

User ==
    \/ Appear \/ OpenAdd \/ OpenEdit \/ Pick \/ Back \/ CreateBoard
    \/ \E b \in AnyBoard : SelectBoard(b)
    \/ \E v \in Versions : SaveChanges(v)

MainQueue == BoardsLoaded \/ BoardsFailed \/ BoardCreated \/ BoardUpdated \/ Unheard

Next ==
    \/ User \/ MainQueue \/ WriteSettled \/ CoverDownloaded \/ Relaunch
    \/ \E s \in Slots : BoardsAnswered(s)
    \/ \E k \in DOMAIN uploads : UploadSettled(k) \/ UploadReported(k)

\* The servers answer and the main queue runs.
Fairness ==
    /\ WF_vars(MainQueue) /\ WF_vars(WriteSettled)
    /\ \A k \in 1..MaxSaves :
           /\ WF_vars(k \in DOMAIN uploads /\ UploadSettled(k))
           /\ WF_vars(k \in DOMAIN uploads /\ UploadReported(k))

Spec == Init /\ [][Next]_vars
FairSpec == Spec /\ Fairness

-----------------------------------------------------------------------------
(* Properties.                                                               *)

Quiet == writes = <<>> /\ main = <<>> /\ \A s \in Slots : reads[s] = NoRead

\* When nothing is on its way, the board on display is the one of the next launch;
\* and if the newest change was accepted, and its editor told the others, it has
\* its data, unless an old copy came back: a load that had begun before the change
\* ended after it, or the board was chosen from a list of before the change.
ShownIsStored ==
    Quiet /\ screen = "main" =>
        /\ saved = shown
        /\ shown # 0 /\ doc = newest /\ told = newest => shown = newest \/ overtaken

\* A change never takes the document back to older data, unless no editor has told
\* the others of the document's data.
NoLostUpdate == [][doc' >= doc \/ told # doc]_vars

\* The cover of a stored board is uploaded, also when its screen has gone, unless
\* the process ended in between.
CoverFollows == Quiet /\ doc # 0 => covered

\* The progress bar goes away, unless the board could not be created.
ProgressEnds == overlay ~> ~overlay \/ refused
=============================================================================
