-------------------------------- MODULE Grid --------------------------------
(***************************************************************************)
(* The grid's tab of the main screen: the posts that the user drags, and    *)
(* the pictures of the account, that a web view gathers from its page.      *)
(*                                                                          *)
(* A board stands for its account, and pictures for the account whose page  *)
(* had them.  Loads come from InsideBoard, taken from getAllPosts on.       *)
(* SwiftUI updates the web view in the step that changes the account.       *)
(***************************************************************************)
EXTENDS Reorder, FiniteSets

CONSTANTS
    Boards,     \* boards, each with its account
    Empty,      \* the "Empty Profile" of a failed load, without account
    Nothing,    \* no post, no page, no pictures
    PostsOf,    \* posts of each board, in the order of their uids
    Versions,   \* what the other fields of a post are
    MaxLoads,   \* bound: getAllPosts in flight
    MaxAnswers  \* bound: pages read whose HTML is awaited

ASSUME BoardsAssumption == Empty \notin Boards /\ Nothing \notin Boards \cup {Empty}
ASSUME PostsOfAssumption ==
    \A b \in Boards : PostsOf[b] \in Seq(Range(PostsOf[b])) /\ IsInjective(PostsOf[b])
ASSUME VersionsAssumption == Versions # {} /\ Nothing \notin Versions
ASSUME MaxAnswersAssumption == MaxAnswers \in Nat

Accounts == Boards \cup {Empty}
Pictures == Accounts \cup {Nothing}
Post == [uid : UNION {Range(PostsOf[b]) : b \in Boards}, v : Versions]

VARIABLES
    board,      \* states.board, with states.igAccount
    posts,      \* posts on display
    isLoading,  \* the overlay
    loads,      \* getAllPosts in flight: their boards
    stored,     \* posts in Firestore: their fields, or Nothing when deleted
    grid,       \* the tab is on
    dragging,   \* @State dragging
    drag,       \* the session of the system: none, of a post, of another text
    nav,        \* the page that the web view is loading
    page,       \* the page in the web view, and whether its HTML comes with pictures
    answers,    \* evaluateJavaScript not yet answered: the pages asked for theirs
    urls,       \* states.imagesUrls
    saved,      \* UserDefaults "instagramUrlsFrom=..."
    crashed,    \* a nil was unwrapped
    replaced,   \* history: a load was answered since dragging was set
    hurried     \* history: the account changed while an answer was awaited

dragVars == <<dragging, drag, crashed, replaced>>
webVars == <<nav, page, answers>>
vars == <<board, posts, isLoading, loads, stored, grid, dragVars, webVars, urls, saved, hurried>>

\* What evaluateJavaScript brings of a page: its pictures, the wall of the login, or
\* an error.
Html == {"pictures", "wall", "none"}

\* latest: the account has not changed since the page was read.
NoPage == [of |-> Nothing, pictures |-> FALSE, latest |-> FALSE]

TypeOK ==
    /\ board \in Accounts
    /\ posts \in Seq(Post) /\ IsInjective(posts)
    /\ isLoading \in BOOLEAN /\ grid \in BOOLEAN
    /\ loads \in Seq(Boards)
    /\ DOMAIN stored = {p.uid : p \in Post} /\ Range(stored) \subseteq Versions \cup {Nothing}
    /\ dragging \in Post \cup {Nothing}
    /\ drag \in {"none", "post", "text"}
    /\ nav \in Pictures
    /\ page \in [of : Pictures, pictures : BOOLEAN, latest : BOOLEAN]
    /\ answers \in Seq([of : Accounts, html : Html]) /\ Len(answers) <= MaxAnswers
    /\ urls \in Pictures
    /\ saved \in [Accounts -> Pictures]
    /\ crashed \in BOOLEAN /\ replaced \in BOOLEAN /\ hurried \in BOOLEAN

\* The main screen after a launch, with what earlier ones saved.
Fresh(b) ==
    /\ board = b /\ grid = TRUE
    /\ posts = <<>> /\ isLoading = TRUE /\ loads = <<b>>
    /\ dragging = Nothing /\ drag = "none"
    /\ nav = b /\ page = NoPage /\ answers = <<>>
    /\ urls = saved[b]
    /\ crashed = FALSE /\ replaced = FALSE

Init ==
    /\ saved = [a \in Accounts |-> Nothing]
    /\ \E b \in Boards : Fresh(b)
    /\ stored \in [{p.uid : p \in Post} -> Versions]
    /\ hurried = FALSE

-----------------------------------------------------------------------------
(* Loads.                                                                    *)

\* updateUIView, when the account changes: the web view gives up the page that it
\* was loading.  Mutant: it does not.
OpenUnlessLoading(a) == nav' = IF grid /\ a # board /\ nav = Nothing THEN a ELSE nav
Open(a) == nav' = IF grid /\ a # board THEN a ELSE nav

Changes(a) ==
    /\ board' = a
    /\ Open(a)
    /\ page' = [page EXCEPT !.latest = @ /\ a = board]
    /\ hurried' = (hurried \/ (a # board /\ answers # <<>>))
    /\ UNCHANGED answers

\* A board is selected, or the one on display loaded again: getAllPosts.
GetAllPosts(b) ==
    /\ ~crashed
    /\ ~isLoading
    /\ Len(loads) < MaxLoads
    /\ loads' = Append(loads, b)
    /\ isLoading' = grid
    /\ urls' = saved[b]
    /\ Changes(b)
    /\ UNCHANGED <<posts, stored, grid, dragVars, saved>>

\* The boards could not be loaded; posts and pictures stay.
BoardsFailed ==
    /\ ~crashed
    /\ isLoading' = FALSE
    /\ Changes(Empty)
    /\ UNCHANGED <<posts, loads, stored, grid, dragVars, urls, saved>>

\* Mutant: deleted posts are listed.
ListedAll(b) == [i \in DOMAIN PostsOf[b] |-> [uid |-> PostsOf[b][i], v |-> stored[PostsOf[b][i]]]]

Listed(b) ==
    LET there == {i \in DOMAIN PostsOf[b] : stored[PostsOf[b][i]] # Nothing}
        uid(k) == PostsOf[b][CHOOSE i \in there : Cardinality(there \cap 1..i) = k]
    IN  [k \in 1..Cardinality(there) |-> [uid |-> uid(k), v |-> stored[uid(k)]]]

PostsAnswered(k) ==
    /\ ~crashed
    /\ loads' = RemoveAt(loads, k)
    /\ isLoading' = FALSE
    /\ posts' \in {posts, Listed(loads[k])}
    /\ replaced' = TRUE
    /\ UNCHANGED <<board, stored, grid, dragging, drag, crashed, webVars, urls, saved, hurried>>

\* A post changes, or goes, on one of its screens or on another device.
PostChanges(u) ==
    /\ stored[u] # Nothing
    /\ \E v \in Versions \cup {Nothing} : stored' = [stored EXCEPT ![u] = v]
    /\ UNCHANGED <<board, posts, isLoading, loads, grid, dragVars, webVars, urls, saved, hurried>>

-----------------------------------------------------------------------------
(* Dragging.                                                                 *)

OnGrid == grid /\ ~isLoading /\ ~crashed

\* Mutant: a drag that was cancelled goes on.
DragOnce(k) ==
    /\ OnGrid
    /\ drag = "none"
    /\ drag' = "post" /\ dragging' = IF dragging = Nothing THEN posts[k] ELSE dragging
    /\ replaced' = FALSE
    /\ UNCHANGED <<board, posts, isLoading, loads, stored, grid, crashed, webVars, urls, saved,
                   hurried>>

Drag(k) ==
    /\ OnGrid
    /\ drag = "none"
    /\ drag' = "post" /\ dragging' = posts[k]
    /\ replaced' = FALSE
    /\ UNCHANGED <<board, posts, isLoading, loads, stored, grid, crashed, webVars, urls, saved,
                   hurried>>

\* A text comes from another app.
DragText ==
    /\ OnGrid
    /\ drag = "none"
    /\ drag' = "text"
    /\ UNCHANGED <<board, posts, isLoading, loads, stored, grid, dragging, crashed, replaced,
                   webVars, urls, saved, hurried>>

\* dropEntered, of the k-th cell: current! and its place in the list are unwrapped.
DropEntered(k) ==
    /\ OnGrid
    /\ drag # "none"
    /\ posts[k] # dragging
    /\ IF dragging \in Range(posts)
       THEN posts' = Relocate(posts, CHOOSE i \in DOMAIN posts : posts[i] = dragging, k)
            /\ UNCHANGED crashed
       ELSE crashed' = TRUE /\ UNCHANGED posts
    /\ UNCHANGED <<board, isLoading, loads, stored, grid, dragging, drag, replaced, webVars,
                   urls, saved, hurried>>

\* performDrop; a drag that ends elsewhere leaves dragging as it is.
DragEnds ==
    /\ ~crashed
    /\ drag # "none"
    /\ drag' = "none"
    /\ \/ OnGrid /\ posts # <<>> /\ dragging' = Nothing
       \/ UNCHANGED dragging
    /\ UNCHANGED <<board, posts, isLoading, loads, stored, grid, crashed, replaced, webVars,
                   urls, saved, hurried>>

-----------------------------------------------------------------------------
(* The web view.                                                             *)

\* Its tab is left, and entered again with a new web view; what the old one was asked
\* for comes as an error.
LeaveGrid ==
    /\ OnGrid
    /\ grid' = FALSE
    /\ nav' = Nothing /\ page' = NoPage /\ answers' = <<>>
    /\ UNCHANGED <<board, posts, isLoading, loads, stored, dragVars, urls, saved, hurried>>

EnterGrid ==
    /\ ~grid /\ ~crashed
    /\ grid' = TRUE
    /\ nav' = board
    /\ UNCHANGED <<board, posts, isLoading, loads, stored, dragVars, page, answers, urls, saved,
                   hurried>>

\* didFinish: the HTML of the page is asked for.
PageFinished ==
    /\ ~crashed
    /\ nav # Nothing
    /\ Len(answers) < MaxAnswers
    /\ \E html \in Html :
           /\ page' = [of |-> nav, pictures |-> (html = "pictures"), latest |-> TRUE]
           /\ answers' = Append(answers, [of |-> nav, html |-> html])
    /\ nav' = Nothing
    /\ UNCHANGED <<board, posts, isLoading, loads, stored, grid, dragVars, urls, saved, hurried>>

PageFailed ==
    /\ ~crashed
    /\ nav # Nothing
    /\ nav' = Nothing
    /\ UNCHANGED <<board, posts, isLoading, loads, stored, grid, dragVars, page, answers, urls,
                   saved, hurried>>

\* Mutant: the pictures are not saved.
KeepShown(pictures) == urls' = pictures /\ UNCHANGED saved

\* The pictures are shown, and saved under the account of now.
Keep(pictures) ==
    /\ urls' = pictures
    /\ saved' = [saved EXCEPT ![board] = pictures]

\* The HTML, in the order of the pages: without pictures, those saved are shown;
\* with an error, nothing is shown nor saved.
HtmlAnswered ==
    /\ ~crashed
    /\ answers # <<>>
    /\ answers' = Tail(answers)
    /\ LET read == Head(answers)
       IN  \/ read.html = "pictures" /\ Keep(read.of)
           \/ read.html = "wall" /\ urls' = saved[board] /\ UNCHANGED saved
           \/ read.html = "none" /\ UNCHANGED <<urls, saved>>
    /\ UNCHANGED <<board, posts, isLoading, loads, stored, grid, dragVars, nav, page, hurried>>

\* The process ends, by a kill or a crash, and starts again.
Relaunch ==
    /\ \E b \in Boards :
           /\ board' = b /\ loads' = <<b>> /\ nav' = b /\ urls' = saved[b]
    /\ grid' = TRUE /\ posts' = <<>> /\ isLoading' = TRUE
    /\ dragging' = Nothing /\ drag' = "none"
    /\ page' = NoPage /\ answers' = <<>>
    /\ crashed' = FALSE /\ replaced' = FALSE
    /\ UNCHANGED <<stored, saved, hurried>>

Next ==
    \/ \E b \in Boards : GetAllPosts(b)
    \/ BoardsFailed
    \/ \E k \in DOMAIN loads : PostsAnswered(k)
    \/ \E u \in DOMAIN stored : PostChanges(u)
    \/ \E k \in DOMAIN posts : Drag(k) \/ DropEntered(k)
    \/ DragText \/ DragEnds
    \/ LeaveGrid \/ EnterGrid
    \/ PageFinished \/ PageFailed \/ HtmlAnswered
    \/ Relaunch

Spec == Init /\ [][Next]_vars

-----------------------------------------------------------------------------
(* Properties.                                                               *)

\* Once a page was read since the account was chosen, and its HTML came with pictures,
\* the pictures on display and those saved for the account are its own, whatever was
\* shown and saved for it before.  A page whose HTML is the wall, or an error, leaves
\* what earlier ones saved.
PreviewIsOwn ==
    page.latest /\ page.pictures /\ answers = <<>> => saved[board] = board /\ urls = board

\* Pictures are saved under another account only when the account changed between
\* the end of a page's load and its HTML: a load given up never comes back.
SavedIsOwn == \A a \in Accounts : saved[a] \in {a, Nothing} \/ hurried

\* A cell that is entered gives its place to the dragged post, and all other posts
\* keep their order.
DragMovesOne ==
    [][\A k \in DOMAIN posts :
           DropEntered(k) /\ ~crashed' =>
               \E from \in DOMAIN posts :
                   posts[from] = dragging /\ MovesOne(posts, posts', from, k)]_vars

\* No sequence of drags, dropped or cancelled, ends the process, unless a load
\* replaced the list since the drag began, or what is dragged is no post.
CrashNeedsReload == crashed => replaced \/ drag = "text"
=============================================================================
