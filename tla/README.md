# A verification project for Plani (Marketeiros)

Plani is an iOS app, written in Swift with SwiftUI, in which a user plans the
posts of several Instagram profiles ("boards"): the grid of posts, the ideas,
the calendar of scheduled posts and the notifications that announce them.  The
documents live in Cloud Firestore, the images in Firebase Storage, the account
in Firebase Auth; `UserDefaults`, an `NSCache`, the notification center and the
view models hold the rest.

This directory holds TLA+ modules that model the program's own logic, TLC
configurations that check them on small instances, and proofs that TLAPS checks
for every value of the constants.  Paths below are relative to
`src/Marketeiros/Marketeiros/`, the current app.

## 1. Inventory

| Component | State | Operations | Hard part |
|---|---|---|---|
| Board repository (`Data/Repositories/BoardRepository.swift`, `Board.swift`, `Post.swift`) over Firestore | documents `boards/*`, `boards/*/posts/*`, `ideas/*`, `pastes/*`; queued writes; reads in flight | `getAllBoards`, `getAllItens`, `create`, `update`, `delete`, `add`, listeners, queries | every answer is posted to the main queue and may be late; a write may be refused long after it was shown; an empty uid is fatal |
| Main screen (`UI/Shared Views/InsideBoardViewModel.swift`, `InsideBoardView.swift`, profile, create, details screens) | current board, list, posts, overlay, alert, pushed screen, saved board | load, select, create, change, delete | loads that overtake each other; the saved board captured before a load; deletions in two steps |
| Image repository (`Data/Repositories/ImagesRepository.swift`, `ImagesLocalRepository.swift`) | `NSCache`, `UserDefaults`, Storage | `upload`, `getImage`, `deleteImage` | three copies; a delete and an upload in flight together; a late answer of a read |
| Notifications (`Domain/Services/UserNotificationService.swift`) | pending requests | set, delete, list, remove all | must follow the posts |
| Session (`Domain/Services/AuthService.swift`, `AuthenticationViewModel.swift`, `UserProfileRepository.swift`) | signed-in user, profile document, flags of the screens | sign in/up/out, Apple, anonymous | several callbacks write the same flags; a sign-up in three steps |
| Calendar (`DatePickerViewModel.swift`, `CalendarPageView.swift`, `CalendarExtensions.swift`) | month shown, days, selected day | next/previous month, select, filter by week | boundaries of months, weeks and days |
| Ideas and pastes (`IdeaView.swift`, `IdeaViewModel.swift`, `CreateIdeaSceneViewModel.swift`, `EditIdeaViewModel.swift`, `CreatePasteView.swift`) | ideas, pastes, filter, the screen pushed over the list | listen, create, edit, delete, filter | two listeners in any order; each snapshot undoes the filter and rebuilds, or pops, the screen above the list |
| Profile editing (`AddProfileView.swift`, `AddProfileViewModel.swift`, `EditProfileView.swift`, `EditProfileViewModel.swift`, `ProfileListCellView.swift`) | name, description, cover of a board, in five copies | create, change, delete a board | completions of editors that are gone; old copies that come back; a failure that leaves the overlay |
| Grid reorder (`DragRelocateDelegate.swift`) | order of the posts on display, dragged post | drag over, drop | the list is replaced while a drag is on, and what is dragged is unwrapped |
| Instagram preview (`IgWebView.swift`, `AsyncImage.swift`) | pictures kept by account, loader state | load page, load image | answers for an account that is no longer shown |

How they interact.  The screens call the repositories and pass completion
handlers; every completion comes back as a block of the main queue, so the view
models are single-threaded and the concurrency is that of calls in flight.  The
main screen owns the current board; the tabs (grid, calendar, ideas) and the
pushed screens get it by value, and keep the value they got until SwiftUI
rebuilds them.  Posts reach the calendar only through the pending notifications.
The session decides whether the main screen exists at all; the board saved for the
next launch belongs to the device and so passes from one user to the next.

What makes each of them correct:

- main screen: what is shown is what was asked for last and what is saved for the
  next launch; the overlay is up exactly as long as somebody will take it down;
- posts: no notification announces a post that is gone;
- images: what the device shows and what Storage keeps is what was uploaded last;
- session: a user who is let in is signed in, and has a profile and a board; the
  screen always becomes usable again; on a shared device a new user sees the own
  board;
- profiles: the copies of a board agree with its newest change, and no change is
  undone by an older copy;
- grid: a drag moves one post and never ends the process by itself; an account's
  pictures are kept under that account;
- calendar: days, weekdays and marks are where they belong, for the board shown;
- ideas: the list is what is stored; an edit changes only what the user changed.

The hazards, each at its line of the code and with the properties that cover it,
are listed in `PROJECT.json` under "hazards"; those that no property covers yet
say why.

## 2. Plan

In the order of importance of the behaviour:

| Module | Models | State |
|---|---|---|
| `BoardsRepository` | Firestore as the repository uses it: queue of writes, view of the device, reads, answers | done |
| `InsideBoard` (extends it) | main screen, post screens, profile sheet, saved board, notifications | done; every safety property proved |
| `ImagesRepository`, `PostImage` (extends it) | the three copies of an image, and the screens of a post that change it | done; every safety property proved |
| `Session` | authentication, sign-up chains, first launch | done; all of its invariants proved |
| `Account` | abstract: what the session promises | done; `Session` and `Device` proved to implement it |
| `Device` (extends `Session`) | the session composed with the saved board and the main screen, for users who share a device | done; every safety property proved |
| `Gregorian`, `CalendarPage` | calendar tab | done; every invariant proved |
| `Ideas` | ideas tab, listeners, its screens | done; every safety property proved |
| `BoardProfile` | creation and change of a board, its cover, the copies of its data | done; every safety property proved |
| `Reorder`, `Grid` (extends it) | the tab of the grid: drags, and the pictures of the account | done; every safety property proved |

Left out of the plan after a look at the code: the loader of one picture
(`AsyncImage`), whose only hazard is a picture fetched twice.  An abstract register
for an image, which `PostImage` would implement while `late` and `spoiled` are
false, says no more than `LocalIsLatest` and `RemoteSettles`.

Every invariant and action property of the passing runs is a theorem, and so is the
implementation of `Account`.  What is left is liveness, which stays with TLC.

## 3. The modules and the code

### BoardsRepository

A document of `boards` is `<<b>>`, one of its `posts` is `<<b, p>>`; their fields
are left out.  Firestore is external and modelled as the code relies on it.  A
write is appended to `writes` and shows at once in the device's view (`InView`);
`Settle` lets the server accept or refuse it, in the order of the queue, and
posts its completion.  A read occupies one of the `Slots`; `Answer` takes the
view of that moment, or fails, and appends to `main`, the main queue, which the
handlers of the view models consume from its head.  Reads overtake each other and
writes; blocks of the main queue do not.

`add` is `addDocument` and then `updateData` of the uid; the models take the two
as one write.  The document ids that Firestore generates are taken from `fresh`.

### InsideBoard

| Code | Model |
|---|---|
| `states.board`, `boards`, `isLoading`, `errorAlertIsShowing`, `selectedIndex`, `posts` | `board`, `boards`, `isLoading`, `errorAlert`, `tab`, `posts` |
| the pushed screen and what its view model captured | `screen`; `Leaving` after an operation, until the dismissal |
| `LocalRepository` "currentBoard" | `saved` |
| pending requests | `notif`: post to board |
| `loadUserData`, at every appearance | `LoadUserData`, in `Launch`, `Back`, `Dismissed` |
| `getAllBoards` and its handler | `GetAllBoards` (with the saved board `captured` before the call), `BoardsLoaded`, `BoardsFailed` |
| `getAllPosts` and its handler | `GetAllPosts`, `PostsLoaded`, `PostsFailed` |
| `bindings.board` setter | `SelectBoard` |
| `delete(board:)`, `deleteSelected` | `DeleteCurrent`, `DeleteLast`, `DeleteOther` with `PurgeLoaded`, `DeletionReported` |
| `CreatePostViewModel`, `PostDetailsViewModel` | `AddPostToBoard`, `SaveChangesToPost`, `DeletePost` |
| the end of the process, by the system or by a fatal error | `Kill`, `GetAllPostsOfNoBoard` |

What a process loses when it ends (view model, reads, main queue, completion
handlers) and what survives (queued writes, `UserDefaults`, notifications) is in
`ProcessEnds`.  The overlay and the alert take the taps of the main screen away
(`OnMain`).  `shownOf`, `shownNewest`, `overtaken` and `refused` are history
variables: the code does not have them, the properties need them.

The user is signed in throughout and no other device writes.

### ImagesRepository and PostImage

One path suffices, since paths share nothing: `cache` (NSCache), `local`
(UserDefaults) and `remote` (Storage).  `getImage` answers at once from the first
copy it finds, or starts a download, which reads the object at one moment and is
delivered at a later one (`GetRead`, `GetDelivered`) into both copies and, when
the details screen asked, into the screen.  `upload` and `deleteImage` change
`local` at once and the object when `CallSettled` says; calls settle and report
in any order.  `Replace` is the deletion and the upload that `saveChangesToPost`
starts without waiting.  A `UIImage` is its data and where it came from, because
`saveChangesToPost` compares objects, not data.

The history variables state the exceptions: `late`, an old download ended after
the newest call, and `spoiled`, an older call took effect after the newest one, or
the newest failed or was cut off.  Other devices, and the documents that hold the
path, are left out.  The cover of a board takes the same private operations of the
repository (`Replace` is also what `saveChangesToBoard` does); its screens are in
`BoardProfile`.

### Session

`currentUser` is what the Keychain keeps, over relaunches and reinstallations.
The four chains (sign in; sign up with a password: `create`, `commit`, `profile`,
`board`; sign up with Apple; the alerts of invalid fields) are calls whose
`...Reported` steps are their completion handlers; `isLoading`, `existError` and
`isLoggedIn` are toggled where the code toggles them.  The answer of a creation
may be lost after the account was made.  `Launch` is the `onAppear` of the wrapper
view: it starts the sign-out of a first launch and reads the current user before
that sign-out runs (`SignOutRuns`).  `ForcedSignOut` is Firebase Auth giving up a
token.  `Kill` cuts a chain anywhere; a write that Firestore had queued may still
reach the server.

### Account

The abstract specification of the session: `phase` is closed, out, busy or in,
`user` is who is signed in, and `ready` are the users with a profile and a board, or
whose sign-up is known to have broken off.  `Enter` is its point: nobody is let in
but a user of `ready`, or nobody at all after a forced sign-out.  `Session` maps
`isLoading` and `isLoggedIn` to `phase` and its `profiles`, `boards` and `partial`
to `ready`; a toggle too many, a tab bar opened one completion early, or a launch
that lets in a stranger would be a step that `Account` does not have.

### Device

The saved board (`saved` of `Session` and `savedUid`, whether it has a uid) outlives
processes and users.  `SessionMoves` is a step of `Session` together with what it
does to the main screen: when `isLoggedIn` turns true the screen appears and its
`onAppear` starts `getAllBoards` with the saved board captured before the call
(`Appears`); when it turns false the screen goes (`Disappears`).  The view model goes
with it, except that `getAllPosts` holds it strongly: with a fetch in flight it lives
on as a "ghost", and a load of boards in flight then still finds it and saves a
board.  `BoardsLoaded`, `BoardsFailed`, `PostsAnswered`, `SelectBoard` and `Back` are
those of `InsideBoard`, reduced to the owner of a board and whether it has a uid; a
board without one sets `doomed`, after which only the end of the process remains.

`newcomer` and `emptied` are history variables: whose sign-up opened the screen, and
whether a load failed or missed a board that it might have found.

### BoardProfile

The data of one board are a version number, and the app has five copies of it
besides the document: on display (`shown`), saved (`saved`), in the list (`listed`),
in the cell of the sheet (`cell`, `@State`, which a load does not refresh while the
cell stays) and in the editor (`mine`).

| Code | Model |
|---|---|
| `createBoard`, completion of `create`, completion of `upload` | `CreateBoard`, `BoardCreated`, `UploadReported` |
| `EditProfileViewModel.init`, its `getImage` | `OpenEdit`, `CoverDownloaded` |
| `saveChangesToBoard`, completion of `update`, completion of `upload` | `SaveChanges`, `BoardUpdated`, `UploadReported` or `UploadFailed` |
| the callback of the cell | `Tell` |
| `[weak self]` of the completions | `Released`: a write still queued is heard by nobody (`NobodyHears`), a completion already waiting finds no view model (`Forgotten`, `Unheard`); the download of the cover holds the editor strongly, so it may be `kept` after its screen has gone |
| `getAllBoards` and its handler | `Appear`, `BoardsAnswered`, `BoardsLoaded`, `BoardsFailed` |
| tap on a cell | `SelectBoard` |

The two writes of `create` are one.  A second editor is opened only when no kept one
is left (`OpenEdit`), and only one load runs at a time.  Of the cover's upload only
its completion matters here.

### Reorder and Grid

`Relocate` is the body of `dropEntered`: the offset it computes and what
`Array.move(fromOffsets:toOffset:)` does with it.  In `Grid` posts are on display,
`dragging` is the `@State` of the view, which a cancelled drag leaves set, and
`DropEntered` unwraps it and looks it up in a list that `PostsAnswered` may have
replaced; a nil there is `crashed`.  `updateUIView` loads the page of a new account
(`Open`) and gives up the one that was loading; `PageFinished` asks for the HTML of
the page, and `answers` are the pages whose HTML is awaited, each with what will come
of it.  `HtmlAnswered` takes them in their order: pictures are shown and saved under the
account of that moment, for the wall of the login the saved ones are shown, and for an
error, or no string (`IgWebView.swift:35`), nothing is shown nor saved.  Pictures stand
for the account whose page had them.  `hurried` is the history that the account changed
while HTML was awaited.  A launch starts in `Fresh` at the load of a board's posts: the
screen before it, whose first page is that of an empty account, is left out.

### Gregorian and CalendarPage

`Gregorian` is Foundation's `Calendar`, external: lengths of months, weekdays and
the number of a week in its year for any locale (`FirstWeekday`, `MinimalDays`).
`BuildDays` is `buildDays` of the date picker, `WeekNotifications` the list of the
sheet, `InWeekOf` the comparison of `isDate(_:inCurrentWeekOf:)`.  The reading of
the pending requests is answered on another thread (`NotificationsRead`, where it
is filtered by the board of that moment) and shown by a block of the main queue
(`NotificationsShown`).  `Midnight` moves the clock.  The number of blanks at the
end is always what is missing to 42, whatever the comment above it
(`DatePickerViewModel.swift:130`, "until the next 7 multiple") says; no behaviour
depends on the difference, so it is noted here and not among the findings.

### Ideas

Documents are kept by id with the paste an idea is filed under; texts are left
out, so a draft that a rebuild loses is not seen.  `SetListeners` runs at every
appearance of the list and never removes an older listener; `Tell` sends a
snapshot for every change of the view of a collection that is listened to.
`Refresh` is what a change of the published state does to the screen above the
list: the link that pushed it is evaluated again, so the screen is rebuilt with a
new view model (`Rebuilt`) or goes with its link (`Popped`).  The view model keeps
the board it was created with (`board`) while the main screen moves on
(`current`).

## 4. Checks

Each passing run lets TLC explore every reachable state of its instance.

| Run | Instance | Distinct states | Shows |
|---|---|---|---|
| `loads` | 2 boards, no posts, 2 slots, 1 write, reads and writes may fail | 1 583 612 | `SavedIsShown`, `PostsOfNewestFetch`, `SpinnerHasWork`, `CurrentBoardExists`, types |
| `posts` | 2 boards, 1 post, 1 slot, 2 writes that may be refused | 243 106 | `NotificationHasPost`, `DeletionSilences` |
| `spinner` | 1 board, 2 slots, fairness | 6 360 | `SpinnerStops` |
| `empty_uid` | 1 board, 1 slot | stops at the error | finding: the board without uid ends the process |
| `images` | 2 images, 2 downloads, 3 calls, fairness | 699 352 | `LocalIsLatest`, `RemoteSettles`, `UploadsOnlyPicked`, `OverlayGoes`, types |
| `profiles` | 2 versions, 2 changes under way, 1 load, fairness | 478 278 | `ShownIsStored`, `CoverFollows`, `NoLostUpdate`, `ProgressEnds`, types |
| `session` | a password user and an Apple user, 2 fetches, fairness | 543 004 | `ImplementsAccount`, `NewcomerSeesOwn`, `DiesOnlyAfterFailure`, `OutOnlyAfterFailure`, `LoadingIsCall`, `LoadingEnds`, types |
| `calendar` | 2 boards, 2 posts, 3 months around a turn of the year, 2 reads | 24 886 | `MonthIsAligned`, `MarksAreScheduled`, `SheetShowsWeek`, `PostsAreOfBoard`, types |
| `week_of_another_year` | 12 months, a post in the last week of December | stops at the error | finding: weeks compared without their years |
| `ideas` | 2 boards, 1 idea, 1 paste, 1 write, 1 snapshot waiting of each collection, fairness | 716 262 | `ListFollowsBoard`, `UpdateKeepsPaste`, `UpdatedIdeaExists`, `StoredIdeaAppears`, types |
| `filter` | the same | stops at the error | finding: the filter compares titles with uids |
| `grid` | 1 board with 3 posts, 1 load, 1 page awaited | 2 472 949 | `DragMovesOne`, `CrashNeedsReload`, `PreviewIsOwn`, `SavedIsOwn`, types |

### Bounds, and why they are enough

- `Slots`: reads in flight and answers waiting together.  Two let a load of the
  boards overtake, or be overtaken by, a load of the posts, and two loads of posts
  come back in the wrong order; every property is about one load against another.
  The bound stops a user from starting more, never a completion handler from
  starting its next call.
- Boards: two give "the current one" and "another"; with two, deleting one leaves
  one, and a load that captured the deleted one brings it back.  `spinner` and
  `empty_uid` need no second one.
- Posts and notifications: `posts` has two queued writes, so that a post can be
  stored and deleted, or stored twice, before the server says anything.  In it
  reads succeed: a failed read shows nothing new about notifications, and `loads`
  covers it.
- Images: two make "the old one" and "the new one"; three calls are a replacement
  (two calls) and one more; two downloads are the cell's and the screen's.
- Session and device: one call at a time is what the screen allows.  A user with a
  password and one with an Apple ID are every kind of user, and each can follow the
  other on the device; every property is about one user, or one and the one before,
  and the theorems hold for any sets.  Two fetches are the load's and a selection's.
  One ghost, and one load of boards of a view model at a time, bound how many may
  overlap; a user has one board, since the properties only ask whose it is.
- Profiles: two versions are "old" and "new"; two changes under way let the second
  overtake the callback of the first.  A tab without the overlay is assumed, which
  lets the user do more than the grid's does.
- Grid: three posts are the fewest among which a move downwards, a move upwards and
  a post that stays can be told apart.  A failed load changes the account to the
  empty one, which is enough for two accounts; the theorems cover any boards.
- Calendar: the week of 27 December 2020 belongs to two years; December, January
  and February have 31, 31 and 28 days and start on different weekdays; a tap on
  20 December is a week without posts.
- Ideas: `Room` and `QueueRoom` hold back new writes, first listeners and the
  settling of writes while a snapshot of the same collection waits, so that the
  main queue stays finite.  Waiting snapshots of both collections, in either
  order, remain possible, and that is what the properties turn on.

Symmetry is used only in safety runs, for values that are only compared for
equality.  Deadlock is checked for `PostImage`, `Device`, `CalendarPage` and `Grid`.  The
other specifications may stop at their bounds (no document id left to give out, no
slot free, no version left), so their configurations switch the check off.

Type invariants are run with a mutation too: for `loads` it is the saved board used
without a test for nil, as for `profiles`; for `session` a chain that goes on for
nobody, for `calendar` a wrong index of the weekday, for `grid` a deleted post that is
listed.

### Fairness, and what justifies it

- The main queue runs its blocks (`MainQueue`, `PastesShown \/ IdeasShown`,
  `Reports`, `SignOutRuns`): GCD runs what was posted.
- Firestore answers each read and each new listener (`ReadAnswered`,
  `FirstSnapshot`), from its cache when the network does not help.
- A fatal error ends the process (`Device`).
- Storage answers every call (`CallSettled`, `CallReported`), with an error once it
  gives up retrying.
- `LoadingEnds` of the session and `ProgressEnds` of the profiles assume that the
  servers answer (`AuthAnswered`, `StoreAnswered`, `WriteSettled`).  This is an assumption on the environment: the completion of a
  Firestore write comes only with the server's acknowledgement, so a sign-up that
  loses the network between its calls keeps its overlay until the process ends.
- Nothing is assumed of the user, of kills, of evictions or of notifications, and
  elsewhere not of the settling of Firestore's writes.

### Findings

1. `empty_uid` (`InsideBoardViewModel.swift:191`): the board without uid that
   stands for "no board", or for a failed load, is saved and reaches
   `collection.document("")`, which Firestore refuses with a fatal assertion, at
   this launch and at the next ones.
2. `week_of_another_year` (`CalendarExtensions.swift:17`): weeks are compared by
   number only, so the "Events of the week" may be those of another year's week.
3. `filter` (`IdeaView.swift:42`): the rows of the filter are tagged with titles,
   and the filter compares them with uids; choosing one empties the list.

Behaviour that the models show and no statement of the repository contradicts is
no finding, and is written into the exceptions of the properties: a deleted board
comes back as the current one after a load that had captured it (`overtaken`); an
old download brings an old image back (`late`); the deletion and the upload of a
replacement may take effect in the other order (`spoiled`); a user whose sign-up
broke off is let in later without profile or board (`partial`); ideas are shown and
added under the title of another board after a change of board (`board` and
`current`); an older load or list brings old data of a board back (`overtaken` of
`BoardProfile`); a refused creation leaves the progress bar (`refused`); a drag over a
list that was replaced, or of a text, ends the process (`replaced`); pictures are
saved under an account chosen while their HTML was awaited (`hurried`); a page whose HTML
cannot be read, or is the wall of the login, leaves the pictures that earlier ones saved,
and after an error also those on display (`page.pictures` of `PreviewIsOwn`); while a
listener has not answered yet, has failed, or has told a snapshot that still waits, an idea
may be saved without its category, or after its deletion (`Quiet` of `UpdateKeepsPaste`
and `UpdatedIdeaExists`); a view model
that outlives its screen saves the board of the user who left (`newcomer`); a load
that fails, or misses a board offline, saves a board without uid (`emptied`).  The
mark of today (`isToday`) is made when the month is built and not remade at midnight,
although `DayOfMonth.swift:25` says that it marks "the live, current, day".

## 5. Proofs

TLAPS checks the theorems below for every value of the constants that satisfies the
assumptions the modules name: uids differ from the empty one and from nil, the sets
of users are disjoint, the posts of a board have distinct uids and some version, the
dates of the calendar are dates, bounds are natural numbers.  `Ideas` also assumes that no
category is called "" or "todos", as the filter's own rows are tagged, which the code does
not prevent; no theorem turns on it.  Nothing else is assumed; TLC evaluates the assumptions
in each run.

Every invariant follows the same way: an inductive invariant that implies it (TLC has
checked the conjuncts it can evaluate on the runs' instances), one lemma for each conjunct with a step
for each action, and a theorem that combines them.  `Lists_proofs` has the lemmas about
sequences that the components share: what `RemoveAt`, `InsertAt`, `Append`, `Tail` and
concatenation return, element by element.

### The main screen: `InsideBoard_proofs`

`TypeCorrect`: types are not inductive alone.  That the board of a delivered purge is a
board, and not the empty uid, holds because only such reads are started; `KindsOK` says
this of reads in flight, of answers and of pushed screens.

The first part reduces the twenty-odd actions to eleven effects on the variables that
the properties read (`StepEffects`: a step ends the process, fetches posts, reloads,
consumes an answer, ...), and proves over the effects:

- `SavedIsShownAlways`: each effect that changes the board saves it;
- `PostsOfNewestFetchAlways`: needs `NewestIsCurrent`, that the newest fetch is for
  the current board already while it is in flight and while its answer waits; only
  then does its delivery establish the property;
- `SpinnerHasWorkAlways`: the work is counted in reads and answers; a handler that
  consumes an answer either takes the overlay down or starts another load.

The second part is about the documents.  `Held(d)` says that the device sees the
document, or that the server refused it, which the properties except; `Kept` that a
step takes no such document away.  `StoreEffect` sorts the steps by what they do to
documents and notifications: a step keeps both, announces a post of a stored board,
drops a post with its notification, or deletes a board, which keeps all other documents.

- `NotificationHasPostAlways` and `DeletionSilencesAlways` follow from these effects.
- `CurrentBoardExistsAlways` needs `KnownIsHeld`: every board that is current, saved,
  listed, captured or found by a load under way is held, unless an old load brought a
  deleted one back; and `SavedIsLoading`: a board saved but not on display has a load
  under way.

### The session and the device: `Device_proofs`

The type invariant and all four safety properties of `Session` come from one inductive
invariant, `IInv`.  Beyond the properties it says that a call excludes the tab bar and
a queued sign-out (`CallsAreAlone`), that the user of a chain past its account is the
one signed in (`SignedInIsCaller`), that whoever has an account is initialised, known
to be broken off, or signing up now (`AccountsAreDone`), and that a signed-in user
outside the tab bar is in a chain or known to be stuck (`OutIsInChain`).

`SessionImplementsAccount` maps the initial states of `Session` to those of `Account`
and every step to one of `Account`'s or to none, under `IInv`: `Entered` is `Enter`
because of `AccountsAreDone` and `SignedInIsCaller`; a toggle of `isLoading` means
`Authenticate`, `Enter` or `GiveUp` because of `LoadingIsCall`.  That the user is in
the tab bar only when initialised, and signed in unless forced out, is part of the
promise (`LoggedInIsInitialisedAlways` and `LoggedInHasUserAlways` state it directly).

For `Device`, `SessionStep` says what the main screen has to know of a step of the
session, `ModelStep` what a step of one view model has to keep.  The inductive
invariant `DInv` adds two parts to `IInv`.  `NewcomerIsAlone`: as long as no ghost has
saved, the screen, its list, its load, the board that the load captured and the saved
board are all the newcomer's; that a sign-up saves the board before the screen appears
is what starts it.  `BoardsHaveUid`: without a failure the saved board and all captured
ones have a uid, and every load asks for a user with a board; this is where
`LoggedInIsInitialised` of the session is used.  From it follow
`NewcomerSeesOwnAlways`, `DiesOnlyAfterFailureAlways`, `DeviceTypeCorrect`,
`DeviceKeepsSession`, and `DeviceImplementsAccount`: the composition implements
`Account` too, since the main screen takes no step of it.

### Images: `PostImage_proofs`

`LocalIsLatest` is about every order in which downloads and calls may end, so its
invariant follows each download: `DownloadsOK` says that one begun since the newest call
was begun when nothing had been uploaded from here, and reads, or has read, what Storage
had from the start.  `CallsOK` says that the newest call asks for the newest image, and
that Storage has it once that call has taken effect.  `UploadsOnlyPickedAlways` needs where the images on the screen
come from (`KindsOK`, `ScreensOK`).

### The calendar: `CalendarPage_proofs`

The first lemmas are arithmetic, for every date and every locale: a month has 28 to 31
days and follows its predecessor without a gap, a week lies in one year of weeks, and
dates of one week have one number.  From them: `MonthIsAlignedAlways` (42 cells always
suffice, each day of the month in the column of its weekday) and
`SheetShowsWeekAlways`, with `SheetOK`, that the sheet's list is that of the page's
notifications and date.  `MarksAreScheduledAlways` needs `PickerOK`, that what is on
display was built by `BuildDays` from the control's month and the scheduled dates, at
some moment of the clock.  `PostsAreOfBoardAlways` needs `LastIsOfBoard`: once no read
is under way, the last answer on the main queue, or the page if there is none, is of the
current board.

### The grid: `Grid_proofs`

`RelocateMovesOne` says for any list and places what the offset of `dropEntered` makes of
`Array.move`: one element out, and back at the other place.  `ListInv` (lists on display
have no gaps) lifts it to `DragMovesOneAlways`; `CountReaches` (the answered load lists
each of the remaining posts once) and `RelocateKeeps` (an entered cell takes no post out
of the list) give `TypeCorrect`, that a list never repeats a post.  `CrashNeedsReloadAlways`
adds `DraggedIsListed`.  `SavedIsOwnAlways` and `PreviewIsOwnAlways` come from `WebInv`,
which ties the page that is loading, and those whose HTML is awaited, to the account on
display, and the last answer that is awaited to the page in the web view (`AsksFor`).

### Ideas: `Ideas_proofs`

`TypeCorrect` is proved in three parts: documents and writes (`DocsOK`), snapshots
(`QueueOK`), and the screen on top (`ViewOK`: a pushed screen is of an idea that is
listed).  `ListFollowsBoardAlways` rests on `FeedOK`: for each collection that is listened
to, the last waiting snapshot, or what is on display if none waits, is what its query
returns of the device's view; a change of the view sends one, so that it stays true
(`Reaches`).  `UpdateKeepsPasteAlways` needs `EditOK`, that an idea on screen whose category was not
touched has the one it has in the list, and that ideas are filed under pastes of their own board (`OwnOK`, `FiledOK`).

### Creating and changing a board: `BoardProfile_proofs`

`TypeCorrect` needs `CallsOK` (each answer of a load has its own slot) and `EditorOK`
(whoever hears of a save, of an upload or of the cover is there).  `EditorEffects` says
once what the steps that close, keep or call back the editor do; the other lemmas use it.

- `CoverFollowsAlways`, by `CoverOK`: while a stored board has no cover, the news of its
  creation is queued with a listener or waits on the main queue.
- `NoLostUpdateAlways`, by `SavesOK`: nothing older is queued behind a version that is
  told, in the device's view, in the cell or in the editor (`Clean`), and those that
  an editor may start from are no older than what was told and can still be seen
  (`Sound`).  That a load may show the cell a board for the first time needs `FoundOK`,
  which says the same of what loads have found.
- `ShownIsStoredAlways`, by `ShownOK`: as long as the newest version, told by an editor,
  can still be met, an older one on display or saved is known to have come back.  The
  hard case is a list that is empty because the first load since the launch is not
  answered; `OnceOK` says that then no other load is under way.

The last three parts hold only while the board is stored or may be (`Alive`): after the
server has refused the creation, saves are refused too and the copies are of no document.

### Only model-checked

`SpinnerStops`, `OverlayGoes`, `ProgressEnds`, `LoadingEnds` and `StoredIdeaAppears` are
liveness properties under fairness, whose proofs need `ENABLED`, which the provers do
not have.  The three statements of the findings are refuted by TLC.

## 6. Not modelled

- The loader of one picture of the preview, and the image of a scheduled post that
  the sheet of the week reads from the device: pictures fetched or missed, no state
  that a property could relate.
- The second write of `add` and `create`, which gives the new document its uid.
- Other devices of the same user, which would change documents and images under the
  app; the anonymous account, the password reset and the update of the user's
  profile, which no reachable screen calls.
- Sharing to Instagram, the onboarding, the layout and the conversions of strings,
  colours and images: one step each, without state that a property could relate.
- Firebase itself, `UserNotifications`, SwiftUI: external, modelled as the code
  uses them; an older copy of the app (`Marketeiros 2`) is left aside.
