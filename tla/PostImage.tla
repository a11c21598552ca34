----------------------------- MODULE PostImage -----------------------------
(***************************************************************************)
(* The image of one post: the screens that read and change it (grid cells,  *)
(* CreatePostViewModel, PostDetailsViewModel), over ImagesRepository.       *)
(***************************************************************************)
EXTENDS ImagesRepository

VARIABLES
    post,       \* the post: not created yet, stored, being deleted, deleted
    screen,     \* the screen over the grid
    overlay,    \* states.showingAlertView of that screen
    inputImage, \* states.inputImage
    pastPhoto   \* pastPhoto

editVars == <<screen, overlay, inputImage, pastPhoto>>
screenVars == <<post, editVars>>
vars == <<imageVars, screenVars>>

TypeOK ==
    /\ ImagesTypeOK
    /\ post \in {"new", "stored", "deleting", "deleted"}
    /\ screen \in {"grid", "create", "details"}
    /\ overlay \in BOOLEAN
    /\ inputImage \in Objects /\ pastPhoto \in Objects

\* A post to create, or one that exists already, with its image in Storage and
\* perhaps on the device.
Init ==
    /\ post \in {"new", "stored"}
    /\ ImagesInit(IF post = "new" THEN {NoImage} ELSE Images)
    /\ screen = "grid" /\ overlay = FALSE
    /\ inputImage = NoImage /\ pastPhoto = NoImage

-----------------------------------------------------------------------------
(* The screens.                                                              *)

\* The loader of a cell downloads the image if there is no copy here.
CellAppears ==
    /\ post = "stored"
    /\ screen = "grid"
    /\ CopyHere = NoImage
    /\ Download(FALSE)
    /\ UNCHANGED <<cache, local, remote, calls, post, editVars, histVars>>

\* Mutant: the screen shows the image without noting that it is the stored one.
ShowUnmarked(i) == inputImage' = Loaded(i) /\ UNCHANGED pastPhoto
Show(i) == inputImage' = Loaded(i) /\ pastPhoto' = Loaded(i)

OpenCreate ==
    /\ post = "new"
    /\ screen = "grid"
    /\ screen' = "create"
    /\ UNCHANGED <<cache, local, remote, gets, calls, post, overlay, inputImage,
                   pastPhoto, histVars>>

\* PostDetailsViewModel.init: the image comes at once, or from Storage, later.
OpenDetails ==
    /\ post = "stored"
    /\ screen = "grid"
    /\ screen' = "details"
    /\ IF CopyHere # NoImage
       THEN Show(CopyHere) /\ UNCHANGED gets
       ELSE /\ Download(TRUE)
            /\ UNCHANGED <<inputImage, pastPhoto>>
    /\ UNCHANGED <<cache, local, remote, calls, post, overlay, histVars>>

\* The image picker; the overlay disables the screen.
Pick(i) ==
    /\ screen # "grid"
    /\ ~overlay
    /\ inputImage' = Picked(i)
    /\ UNCHANGED <<cache, local, remote, gets, calls, post, screen, overlay,
                   pastPhoto, histVars>>

CloseScreen ==
    /\ screen' = "grid"
    /\ overlay' = FALSE
    /\ inputImage' = NoImage
    /\ pastPhoto' = NoImage

\* The back button of the navigation bar, which the overlay does not cover.
Back ==
    /\ screen # "grid"
    /\ CloseScreen
    /\ gets' = [g \in GetSlots |-> NobodyShown(gets[g])]
    /\ calls' = NobodyWaits(calls)
    /\ UNCHANGED <<cache, local, remote, post, histVars>>

\* addPostToBoard; without an image the code returns at once.  (A second tap
\* creates a second post.)
AddPost ==
    /\ screen = "create"
    /\ post = "new"
    /\ inputImage # NoImage
    /\ Upload(inputImage[2])
    /\ post' = "stored"
    /\ overlay' = ~overlay
    /\ UNCHANGED <<cache, remote, screen, inputImage, pastPhoto>>

\* saveChangesToPost with another image; in the bar, like Back.
SaveImage ==
    /\ screen = "details"
    /\ inputImage \notin {pastPhoto, NoImage}
    /\ Replace(inputImage[2])
    /\ overlay' = ~overlay
    /\ UNCHANGED <<cache, remote, post, screen, inputImage, pastPhoto>>

\* deletePost: the screen closes; the document goes first, the image after it.
DeletePost ==
    /\ screen = "details"
    /\ ~overlay
    /\ post' = "deleting"
    /\ CloseScreen
    /\ gets' = [g \in GetSlots |-> NobodyShown(gets[g])]
    /\ calls' = NobodyWaits(calls)
    /\ UNCHANGED <<cache, local, remote, histVars>>

\* The completion of the document's deletion.  The view model may be gone, and
\* then the image stays; if the deletion was refused the post comes back.
DeletionReported ==
    /\ post = "deleting"
    /\ \/ post' = "deleted" /\ DeleteImage
       \/ post' \in {"deleted", "stored"} /\ UNCHANGED <<local, gets, calls, histVars>>
    /\ UNCHANGED <<cache, remote, editVars>>

-----------------------------------------------------------------------------
(* Storage, and its answers on the main queue.                               *)

Read(g) == GetRead(g) /\ UNCHANGED screenVars

\* The screen, if it is the one that asked, shows the image, whatever the user
\* has picked since.
Delivered(g) ==
    /\ GetKept(g)
    /\ IF gets[g].shown THEN Show(gets[g].image) ELSE UNCHANGED <<inputImage, pastPhoto>>
    /\ UNCHANGED <<calls, post, screen, overlay>>

Failed(g) == GetFailed(g) /\ UNCHANGED <<calls, screenVars>>

Settled(k) == CallSettled(k) /\ UNCHANGED screenVars

\* Mutant: only a successful upload dismisses the screen.
DismissesIfOk(k) == calls[k].waiting /\ calls[k].ok

\* The completion of an upload dismisses the screen, also after a failure;
\* the completion of deleteImage is ignored.
Dismisses(k) == calls[k].waiting

CallReported(k) ==
    /\ calls[k].settled
    /\ IF Dismisses(k)
       THEN /\ CloseScreen
            /\ gets' = [g \in GetSlots |-> NobodyShown(gets[g])]
            /\ calls' = NobodyWaits(OtherCalls(k))
       ELSE /\ calls' = OtherCalls(k)
            /\ UNCHANGED <<editVars, gets>>
    /\ UNCHANGED <<cache, local, remote, post, histVars>>

Evict == EvictCache /\ UNCHANGED screenVars

\* The process ends and starts again.
Relaunch ==
    /\ LoseCalls
    /\ post' = IF post = "deleting" THEN "deleted" ELSE post
    /\ CloseScreen

User ==
    \/ CellAppears \/ OpenCreate \/ OpenDetails \/ Back
    \/ \E i \in Images : Pick(i)
    \/ AddPost \/ SaveImage \/ DeletePost

Storage ==
    \/ \E g \in GetSlots : Read(g) \/ Delivered(g) \/ Failed(g)
    \/ \E k \in DOMAIN calls : Settled(k) \/ CallReported(k)

Next == User \/ DeletionReported \/ Storage \/ Evict \/ Relaunch

\* Storage answers every call (with an error when it gives up retrying).
Fairness ==
    \A k \in 1..MaxCalls :
        /\ WF_vars(k \in DOMAIN calls /\ Settled(k))
        /\ WF_vars(k \in DOMAIN calls /\ CallReported(k))

Spec == Init /\ [][Next]_vars
FairSpec == Spec /\ Fairness

-----------------------------------------------------------------------------
(* Properties.                                                               *)

\* saveChangesToPost uploads only images that the user picked: an image that
\* came from the repository is not sent back, even when it comes late.
UploadsOnlyPicked == [][SaveImage => inputImage[1] = "picked"]_vars

\* The overlay of a save goes away.
OverlayGoes == overlay ~> ~overlay
=============================================================================
