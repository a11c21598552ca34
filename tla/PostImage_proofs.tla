--------------------------- MODULE PostImage_proofs ---------------------------
(***************************************************************************)
(* The copies of the image of a post: proofs of the invariants of PostImage  *)
(* for any images and any numbers of downloads and calls under way.         *)
(***************************************************************************)
EXTENDS PostImage, Lists_proofs

\* An image that was read from Storage is one; what a screen has is the stored image
\* or one that the user picked; the details are those of a stored post.
KindsOK ==
    /\ \A g \in GetSlots : gets[g].stage = "read" => gets[g].image \in Images
    /\ inputImage \in {pastPhoto, NoImage} \cup {Picked(i) : i \in Images}
    /\ screen = "details" => post = "stored"

\* Until something is uploaded or deleted from here, Storage has what it had.
Untouched == calls = <<>> /\ remote = latest

\* The downloads: one begun since the newest call was begun when nothing had been
\* uploaded from here, and reads, or has read, what Storage had from the start.
DownloadsOK ==
    /\ ours => latest \in Images
    /\ ~ours /\ post # "deleted" => Untouched
    /\ \A g \in GetSlots :
           gets[g].stage # "idle" /\ ~gets[g].old =>
               \/ late
               \/ /\ ~ours
                  /\ Untouched
                  /\ gets[g].stage = "read" => gets[g].image = latest

\* The calls: the newest asks for what Storage will have, and once it has taken
\* effect Storage has it.
CallsOK ==
    /\ \A k \in DOMAIN calls : calls[k].newest => calls[k].image = latest
    /\ ~spoiled /\ NewestSettled => remote = latest

IInv == TypeOK /\ KindsOK /\ DownloadsOK /\ CallsOK /\ LocalIsLatest

-----------------------------------------------------------------------------
(* Lemmas about the calls.                                                   *)

\* New calls make the older ones no longer the newest, and join them.
LEMMA IssueElements ==
    ASSUME calls \in Seq(Call), NEW new \in Seq(Call), Issue(new)
    PROVE  /\ calls' \in Seq(Call)
           /\ \A k \in DOMAIN calls' :
                  calls'[k].newest => \E j \in DOMAIN new : calls'[k] = new[j]
           /\ \A j \in DOMAIN new : \E k \in DOMAIN calls' : calls'[k] = new[j]
<1> DEFINE older == [k \in DOMAIN calls |-> [calls[k] EXCEPT !.newest = FALSE]]
<1>1. Len(calls) \in Nat /\ DOMAIN calls = 1..Len(calls)
  BY LenProperties
<1>2. \A k \in 1..Len(calls) : calls[k] \in Call
  BY <1>1, ElementOfSeq
<1>3. \A k \in 1..Len(calls) : /\ [calls[k] EXCEPT !.newest = FALSE] \in Call
                               /\ [calls[k] EXCEPT !.newest = FALSE].newest = FALSE
  BY <1>2 DEF Call
<1>4. older = [k \in 1..Len(calls) |-> [calls[k] EXCEPT !.newest = FALSE]]
  BY <1>1
<1>5. older \in Seq(Call) /\ DOMAIN older = 1..Len(calls)
  BY <1>1, <1>3, <1>4
<1>6. \A k \in DOMAIN older : older[k].newest = FALSE
  BY <1>3, <1>4, <1>5
<1>7. calls' = older \o new
  BY DEF Issue
<1> HIDE DEF older
<1>8. /\ calls' \in Seq(Call)
      /\ \A k \in DOMAIN calls' : \/ k \in DOMAIN older /\ calls'[k] = older[k]
                                  \/ k - Len(older) \in DOMAIN new
                                     /\ calls'[k] = new[k - Len(older)]
      /\ \A j \in DOMAIN new : Len(older) + j \in DOMAIN calls'
                               /\ calls'[Len(older) + j] = new[j]
  BY <1>5, <1>7, ConcatElements
<1> QED
  BY <1>6, <1>8

\* The calls of a screen that is gone.
LEMMA NobodyWaitsElements ==
    ASSUME NEW queue \in Seq(Call)
    PROVE  /\ NobodyWaits(queue) \in Seq(Call)
           /\ DOMAIN NobodyWaits(queue) = DOMAIN queue
           /\ \A k \in DOMAIN queue :
                  /\ NobodyWaits(queue)[k].newest = queue[k].newest
                  /\ NobodyWaits(queue)[k].image = queue[k].image
                  /\ NobodyWaits(queue)[k].settled = queue[k].settled
           /\ queue = <<>> => NobodyWaits(queue) = <<>>
<1> DEFINE left == NobodyWaits(queue)
<1>1. Len(queue) \in Nat /\ DOMAIN queue = 1..Len(queue)
  BY LenProperties
<1>2. \A k \in 1..Len(queue) : queue[k] \in Call
  BY <1>1, ElementOfSeq
<1>3. \A k \in 1..Len(queue) : /\ [queue[k] EXCEPT !.waiting = FALSE] \in Call
                               /\ [queue[k] EXCEPT !.waiting = FALSE].newest = queue[k].newest
                               /\ [queue[k] EXCEPT !.waiting = FALSE].image = queue[k].image
                               /\ [queue[k] EXCEPT !.waiting = FALSE].settled = queue[k].settled
  BY <1>2 DEF Call
<1>4. left = [k \in 1..Len(queue) |-> [queue[k] EXCEPT !.waiting = FALSE]]
  BY <1>1 DEF NobodyWaits
<1>5. left \in Seq(Call) /\ Len(left) = Len(queue) /\ DOMAIN left = 1..Len(queue)
  BY <1>1, <1>3, <1>4
<1>6. queue = <<>> => left = <<>>
  BY <1>5, EmptySeq
<1> HIDE DEF left
<1>7. \A k \in DOMAIN queue : left[k] = [queue[k] EXCEPT !.waiting = FALSE]
  BY <1>1, <1>4
<1> QED
  BY <1>1, <1>3, <1>5, <1>6, <1>7 DEF left

\* The other calls, when one has been answered.
LEMMA OtherCallsElements ==
    ASSUME calls \in Seq(Call), NEW k \in DOMAIN calls
    PROVE  /\ OtherCalls(k) \in Seq(Call)
           /\ \A i \in DOMAIN OtherCalls(k) :
                  \E j \in DOMAIN calls \ {k} : OtherCalls(k)[i] = calls[j]
           /\ \A j \in DOMAIN calls \ {k} :
                  \E i \in DOMAIN OtherCalls(k) : OtherCalls(k)[i] = calls[j]
<1>1. OtherCalls(k) = RemoveAt(calls, k)
  BY DEF OtherCalls, RemoveAt
<1> QED
  BY <1>1, RemovedElements

\* Only what the screens do not see changes in the downloads of a screen that goes.
LEMMA NobodyShownGets ==
    ASSUME gets \in [GetSlots -> Get], gets' = [g \in GetSlots |-> NobodyShown(gets[g])]
    PROVE  /\ gets' \in [GetSlots -> Get]
           /\ \A g \in GetSlots : /\ gets'[g].stage = gets[g].stage
                                  /\ gets'[g].image = gets[g].image
                                  /\ gets'[g].old = gets[g].old
<1>1. ASSUME NEW g \in GetSlots
      PROVE  /\ NobodyShown(gets[g]) \in Get
             /\ NobodyShown(gets[g]).stage = gets[g].stage
             /\ NobodyShown(gets[g]).image = gets[g].image
             /\ NobodyShown(gets[g]).old = gets[g].old
  <2>1. gets[g] \in Get
    OBVIOUS
  <2> QED
    BY <2>1 DEF NobodyShown, Get
<1> QED
  BY <1>1

-----------------------------------------------------------------------------
(* The effects of a step on the copies, the downloads and the calls.         *)

\* The screens, after a step.
ScreensOK ==
    /\ post \in {"new", "stored", "deleting", "deleted"}
    /\ screen \in {"grid", "create", "details"}
    /\ overlay \in BOOLEAN
    /\ inputImage \in Objects /\ pastPhoto \in Objects
    /\ inputImage \in {pastPhoto, NoImage} \cup {Picked(i) : i \in Images}
    /\ screen = "details" => post = "stored"

\* An upload, a replacement or a deletion: new are its calls to Storage, of which
\* the newest asks for i.
LEMMA ChangeStep ==
    ASSUME IInv, ScreensOK', NEW i \in Stored, Changes(i), local' = i,
           UNCHANGED <<cache, remote>>, i = NoImage => post' = "deleted",
           NEW new \in Seq(Call), Issue(new),
           \A j \in DOMAIN new : new[j].newest => new[j].image = i,
           \E j \in DOMAIN new : new[j].newest /\ ~new[j].settled
    PROVE  IInv'
<1> USE DEF IInv, TypeOK, ImagesTypeOK
<1>1. /\ calls' \in Seq(Call)
      /\ \A k \in DOMAIN calls' : calls'[k].newest => \E j \in DOMAIN new : calls'[k] = new[j]
      /\ \A j \in DOMAIN new : \E k \in DOMAIN calls' : calls'[k] = new[j]
  BY IssueElements
<1>2. ASSUME NEW g \in GetSlots
      PROVE  /\ gets'[g] \in Get
             /\ gets'[g].stage = gets[g].stage /\ gets'[g].image = gets[g].image
             /\ gets'[g].old = (gets[g].stage # "idle")
  <2>1. gets[g] \in Get
    OBVIOUS
  <2>2. gets'[g] = [gets[g] EXCEPT !.old = gets[g].stage # "idle"]
    BY DEF Changes
  <2> QED
    BY <2>1, <2>2 DEF Get
<1>3. gets' = [g \in GetSlots |-> gets'[g]]
  BY DEF Changes
<1>4. latest' = i /\ ours' = (i # NoImage) /\ late' = FALSE /\ spoiled' = FALSE
  BY DEF Changes
<1>5. TypeOK'
  BY <1>1, <1>2, <1>3, <1>4 DEF ScreensOK
<1>6. KindsOK'
  BY <1>2 DEF ScreensOK, KindsOK
<1>7. DownloadsOK'
  BY <1>2, <1>4 DEF DownloadsOK, Stored
<1>8. CallsOK'
  <2>1. ASSUME NEW k \in DOMAIN calls', calls'[k].newest
        PROVE  calls'[k].image = latest'
    <3>1. PICK j \in DOMAIN new : calls'[k] = new[j]
      BY <1>1, <2>1
    <3>2. new[j].newest
      BY <2>1, <3>1
    <3>3. new[j].image = i
      BY <3>2
    <3> QED
      BY <1>4, <3>1, <3>3
  <2>2. ~NewestSettled'
    BY <1>1 DEF NewestSettled
  <2> QED
    BY <2>1, <2>2 DEF CallsOK
<1>9. LocalIsLatest'
  BY <1>4 DEF LocalIsLatest
<1> QED
  BY <1>5, <1>6, <1>7, <1>8, <1>9

\* A screen or a cell asks Storage for the image that the device does not have.
LEMMA DownloadStep ==
    ASSUME IInv, ScreensOK', post = "stored", CopyHere = NoImage, NEW shown \in BOOLEAN,
           Download(shown), UNCHANGED <<cache, local, remote, calls, post, histVars>>
    PROVE  IInv'
<1> USE DEF IInv, TypeOK, ImagesTypeOK
<1>1. PICK h \in GetSlots :
          gets' = [gets EXCEPT ![h] = [IdleGet EXCEPT !.stage = "asked", !.shown = shown]]
  BY DEF Download
<1>2. /\ [IdleGet EXCEPT !.stage = "asked", !.shown = shown] \in Get
      /\ [IdleGet EXCEPT !.stage = "asked", !.shown = shown].stage = "asked"
  BY DEF IdleGet, Get, Stored
<1>3. gets' \in [GetSlots -> Get] /\ gets'[h].stage = "asked"
  BY <1>1, <1>2
<1>4. \A g \in GetSlots : g # h => gets'[g] = gets[g]
  BY <1>1
<1>5. TypeOK'
  BY <1>3 DEF ScreensOK, histVars
<1>6. KindsOK'
  BY <1>3, <1>4 DEF ScreensOK, KindsOK
<1>7. late \/ (~ours /\ Untouched)
  <2>1. local = NoImage
    BY DEF CopyHere
  <2> QED
    BY <2>1, NoImageAssumption DEF LocalIsLatest, DownloadsOK
<1>8. DownloadsOK'
  BY <1>3, <1>4, <1>7 DEF DownloadsOK, Untouched, histVars
<1>9. CallsOK' /\ LocalIsLatest'
  BY DEF CallsOK, NewestSettled, LocalIsLatest, histVars
<1> QED
  BY <1>5, <1>6, <1>8, <1>9

\* A step of the screens alone.
LEMMA ScreenStep ==
    ASSUME IInv, ScreensOK', UNCHANGED imageVars, post = "deleted" => post' = post
    PROVE  IInv'
  BY DEF IInv, TypeOK, ImagesTypeOK, ScreensOK, KindsOK, DownloadsOK, Untouched, CallsOK,
         NewestSettled, LocalIsLatest, imageVars, histVars

\* A screen closes.
LEMMA CloseStep ==
    ASSUME IInv, CloseScreen, gets' = [g \in GetSlots |-> NobodyShown(gets[g])],
           calls' = NobodyWaits(calls), UNCHANGED <<cache, local, remote, histVars>>,
           post' \in {"new", "stored", "deleting", "deleted"},
           post = "deleted" => post' = "deleted"
    PROVE  IInv'
<1> USE DEF IInv, TypeOK, ImagesTypeOK
<1>1. /\ gets' \in [GetSlots -> Get]
      /\ \A g \in GetSlots : /\ gets'[g].stage = gets[g].stage
                             /\ gets'[g].image = gets[g].image
                             /\ gets'[g].old = gets[g].old
  BY NobodyShownGets
<1>2. /\ calls' \in Seq(Call)
      /\ DOMAIN calls' = DOMAIN calls
      /\ \A k \in DOMAIN calls : /\ calls'[k].newest = calls[k].newest
                                 /\ calls'[k].image = calls[k].image
                                 /\ calls'[k].settled = calls[k].settled
      /\ calls = <<>> => calls' = <<>>
  BY NobodyWaitsElements
<1>3. TypeOK' /\ KindsOK'
  BY <1>1, <1>2 DEF KindsOK, CloseScreen, Objects, histVars
<1>4. DownloadsOK'
  BY <1>1, <1>2 DEF DownloadsOK, Untouched, histVars
<1>5. CallsOK'
  BY <1>2 DEF CallsOK, NewestSettled, histVars
<1>6. LocalIsLatest'
  BY DEF LocalIsLatest, histVars
<1> QED
  BY <1>3, <1>4, <1>5, <1>6

-----------------------------------------------------------------------------
(* One step per action.                                                      *)

LEMMA InitIInv == Init => IInv
<1> SUFFICES ASSUME Init PROVE IInv
  OBVIOUS
<1>1. IdleGet \in Get /\ IdleGet.stage = "idle"
  BY DEF IdleGet, Get, Stored
<1>a. remote \in Stored /\ local \in Stored /\ cache \in Stored /\ latest \in Stored
  BY DEF Init, ImagesInit, Stored
<1>b. ImagesTypeOK
  <2>1. gets = [g \in GetSlots |-> IdleGet] /\ calls = <<>> /\ ~ours /\ ~late /\ ~spoiled
    BY DEF Init, ImagesInit
  <2>2. ours \in BOOLEAN /\ late \in BOOLEAN /\ spoiled \in BOOLEAN
    BY DEF Init, ImagesInit
  <2> QED
    BY <1>1, <1>a, <2>1, <2>2 DEF ImagesTypeOK
<1>2. TypeOK /\ KindsOK
  BY <1>1, <1>b DEF Init, ImagesInit, TypeOK, KindsOK, Objects
<1>3. DownloadsOK /\ CallsOK /\ LocalIsLatest
  BY <1>1 DEF Init, ImagesInit, DownloadsOK, Untouched, CallsOK, NewestSettled, LocalIsLatest
<1> QED
  BY <1>2, <1>3 DEF IInv

\* The two calls of a replacement, and the one of an upload or a deletion.
LEMMA NewCalls ==
    ASSUME NEW i \in Stored, NEW op \in {"put", "delete"}
    PROVE  /\ NewCall(op, i) \in Call
           /\ [NewCall(op, i) EXCEPT !.newest = FALSE] \in Call
           /\ [NewCall(op, i) EXCEPT !.newest = FALSE].newest = FALSE
           /\ NewCall(op, i).image = i /\ NewCall(op, i).newest /\ ~NewCall(op, i).settled
  BY DEF NewCall, Call

\* An object that a screen has holds an image.
LEMMA ObjectHasImage ==
    ASSUME NEW o \in Objects, o # NoImage
    PROVE  o[2] \in Images
  BY DEF Objects

LEMMA UserStep == ASSUME IInv, User PROVE IInv'
<1>a. ScreensOK /\ local \in Stored /\ cache \in Stored
  BY DEF IInv, TypeOK, ImagesTypeOK, KindsOK, ScreensOK
<1>1. CASE CellAppears
  BY <1>1, <1>a, DownloadStep DEF CellAppears, ScreensOK, editVars
<1>2. CASE OpenCreate
  BY <1>2, <1>a, ScreenStep DEF OpenCreate, ScreensOK, imageVars
<1>3. CASE OpenDetails
  <2>1. CASE CopyHere # NoImage
    <3>1. CopyHere \in Images
      BY <1>a, <2>1 DEF CopyHere, Stored
    <3>2. Loaded(CopyHere) \in Objects
      BY <3>1 DEF Loaded, Objects
    <3>3. ScreensOK'
      BY <1>3, <1>a, <2>1, <3>2 DEF OpenDetails, Show, ScreensOK
    <3> QED
      BY <1>3, <2>1, <3>3, ScreenStep DEF OpenDetails, imageVars
  <2>2. CASE CopyHere = NoImage
    BY <1>3, <1>a, <2>2, DownloadStep DEF OpenDetails, ScreensOK
  <2> QED
    BY <2>1, <2>2
<1>4. ASSUME NEW i \in Images, Pick(i) PROVE IInv'
  <2>1. Picked(i) \in Objects
    BY DEF Picked, Objects
  <2> QED
    BY <1>4, <1>a, <2>1, ScreenStep DEF Pick, ScreensOK, imageVars
<1>5. CASE Back
  BY <1>5, <1>a, CloseStep DEF Back, ScreensOK
<1>6. CASE AddPost
  <2> DEFINE i == inputImage[2]
             put == NewCall("put", i)
             new == <<put>>
  <2>1. i \in Images /\ i \in Stored /\ i # NoImage
    BY <1>6, <1>a, ObjectHasImage, NoImageAssumption DEF AddPost, ScreensOK, Stored
  <2>2. /\ new \in Seq(Call)
        /\ \A j \in DOMAIN new : new[j].newest => new[j].image = i
        /\ \E j \in DOMAIN new : new[j].newest /\ ~new[j].settled
    <3>1. put \in Call /\ put.image = i /\ put.newest /\ ~put.settled
      BY <2>1, NewCalls
    <3> HIDE DEF put
    <3>2. new \in Seq(Call) /\ DOMAIN new = {1} /\ new[1] = put
      BY <3>1
    <3> HIDE DEF new
    <3> QED
      BY <3>1, <3>2
  <2>3. ScreensOK'
    BY <1>6, <1>a DEF AddPost, ScreensOK
  <2>4. local' = i /\ Issue(new) /\ Changes(i) /\ UNCHANGED <<cache, remote>>
    BY <1>6 DEF AddPost, Upload
  <2> HIDE DEF i, new
  <2> QED
    BY <2>1, <2>2, <2>3, <2>4, ChangeStep
<1>7. CASE SaveImage
  <2> DEFINE i == inputImage[2]
             put == NewCall("put", i)
             delete == [NewCall("delete", NoImage) EXCEPT !.newest = FALSE]
             new == <<delete, put>>
  <2>1. i \in Images /\ i \in Stored /\ i # NoImage /\ NoImage \in Stored
    BY <1>7, <1>a, ObjectHasImage, NoImageAssumption DEF SaveImage, ScreensOK, Stored
  <2>2. /\ new \in Seq(Call)
        /\ \A j \in DOMAIN new : new[j].newest => new[j].image = i
        /\ \E j \in DOMAIN new : new[j].newest /\ ~new[j].settled
    <3>1. put \in Call /\ put.image = i /\ put.newest /\ ~put.settled
      BY <2>1, NewCalls
    <3>2. delete \in Call /\ delete.newest = FALSE
      BY <2>1, NewCalls
    <3> HIDE DEF put, delete
    <3>3. new \in Seq(Call) /\ DOMAIN new = {1, 2} /\ new[1] = delete /\ new[2] = put
      BY <3>1, <3>2
    <3> HIDE DEF new
    <3> QED
      BY <3>1, <3>2, <3>3
  <2>3. ScreensOK'
    BY <1>7, <1>a DEF SaveImage, ScreensOK
  <2>4. local' = i /\ Issue(new) /\ Changes(i) /\ UNCHANGED <<cache, remote>>
    BY <1>7 DEF SaveImage, Replace
  <2> HIDE DEF i, new
  <2> QED
    BY <2>1, <2>2, <2>3, <2>4, ChangeStep
<1>8. CASE DeletePost
  BY <1>8, <1>a, CloseStep DEF DeletePost, ScreensOK
<1> QED
  BY <1>1, <1>2, <1>3, <1>4, <1>5, <1>6, <1>7, <1>8 DEF User

\* The completion of the document's deletion.
LEMMA DeletionStep == ASSUME IInv, DeletionReported PROVE IInv'
<1>a. ScreensOK
  BY DEF IInv, TypeOK, KindsOK, ScreensOK
<1>1. CASE post' = "deleted" /\ DeleteImage
  <2> DEFINE delete == NewCall("delete", NoImage)
             new == <<delete>>
  <2>1. NoImage \in Stored
    BY DEF Stored
  <2>2. delete \in Call /\ delete.image = NoImage /\ delete.newest /\ ~delete.settled
    BY <2>1, NewCalls
  <2>3. local' = NoImage /\ Issue(new) /\ Changes(NoImage) /\ UNCHANGED <<cache, remote>>
    BY <1>1 DEF DeletionReported, DeleteImage
  <2> HIDE DEF delete
  <2>4. new \in Seq(Call) /\ DOMAIN new = {1} /\ new[1] = delete
    BY <2>2
  <2> HIDE DEF new
  <2>5. /\ \A j \in DOMAIN new : new[j].newest => new[j].image = NoImage
        /\ \E j \in DOMAIN new : new[j].newest /\ ~new[j].settled
    BY <2>2, <2>4
  <2>6. ScreensOK'
    BY <1>1, <1>a DEF DeletionReported, ScreensOK, editVars
  <2> QED
    BY <1>1, <2>1, <2>3, <2>4, <2>5, <2>6, ChangeStep
<1>2. CASE post' \in {"deleted", "stored"} /\ UNCHANGED <<local, gets, calls, histVars>>
  <2>1. ScreensOK'
    BY <1>2, <1>a DEF DeletionReported, ScreensOK, editVars
  <2> QED
    BY <1>2, <2>1, ScreenStep DEF DeletionReported, imageVars
<1> QED
  BY <1>1, <1>2 DEF DeletionReported

\* The downloads: read, delivered or failed.
LEMMA DownloadsStep ==
    ASSUME IInv, NEW g \in GetSlots, Read(g) \/ Delivered(g) \/ Failed(g)
    PROVE  IInv'
<1> USE DEF IInv, TypeOK, ImagesTypeOK
<1>a. gets[g] \in Get
  OBVIOUS
<1>1. CASE Read(g)
  <2>1. /\ UNCHANGED <<cache, local, remote, calls, latest, ours, late, spoiled>>
        /\ UNCHANGED <<post, screen, overlay, inputImage, pastPhoto>>
    BY <1>1 DEF Read, GetRead, histVars, screenVars, editVars
  <2>2. gets[g].stage = "asked"
    BY <1>1 DEF Read, GetRead
  <2>3. /\ gets' \in [GetSlots -> Get]
        /\ \A h \in GetSlots : h # g => gets'[h] = gets[h]
        /\ gets'[g].old = gets[g].old
        /\ gets'[g].stage = "read" => gets'[g].image = remote /\ remote \in Images
    <3>1. CASE remote # NoImage
               /\ gets' = [gets EXCEPT ![g].stage = "read", ![g].image = remote]
      BY <1>a, <3>1 DEF Get, Stored
    <3>2. CASE gets' = [gets EXCEPT ![g].stage = "failed"]
      BY <1>a, <3>2 DEF Get, Stored
    <3> QED
      BY <1>1, <3>1, <3>2 DEF Read, GetRead
  <2>4. TypeOK' /\ KindsOK'
    BY <2>1, <2>3 DEF KindsOK
  <2>5. DownloadsOK'
    BY <2>1, <2>2, <2>3 DEF DownloadsOK, Untouched
  <2>6. CallsOK' /\ LocalIsLatest'
    BY <2>1 DEF CallsOK, NewestSettled, LocalIsLatest
  <2> QED
    BY <2>4, <2>5, <2>6
<1>2. CASE Delivered(g) \/ Failed(g)
  <2>1. UNCHANGED <<remote, calls, latest, ours, spoiled, post, screen, overlay>>
    BY <1>2 DEF Delivered, Failed, GetKept, GetFailed, histVars, screenVars, editVars
  <2>2. IdleGet \in Get /\ IdleGet.stage = "idle"
    BY DEF IdleGet, Get, Stored
  <2>3. gets' = [gets EXCEPT ![g] = IdleGet]
    BY <1>2 DEF Delivered, Failed, GetKept, GetFailed
  <2>4. /\ gets' \in [GetSlots -> Get]
        /\ gets'[g].stage = "idle"
        /\ \A h \in GetSlots : h # g => gets'[h] = gets[h]
    BY <2>2, <2>3
  <2>5. CallsOK'
    BY <2>1 DEF CallsOK, NewestSettled
  <2>6. CASE Delivered(g)
    <3>1. /\ gets[g].image \in Images
          /\ cache' = gets[g].image /\ local' = gets[g].image
          /\ late' = (late \/ gets[g].old)
          /\ gets[g].stage = "read"
      BY <2>6 DEF Delivered, GetKept, KindsOK
    <3>2. Loaded(gets[g].image) \in Objects
      BY <3>1 DEF Loaded, Objects
    <3>3. TypeOK'
      BY <1>a, <2>1, <2>4, <2>6, <3>1, <3>2 DEF Delivered, Show, Stored, Get
    <3>4. KindsOK'
      BY <2>1, <2>4, <2>6 DEF KindsOK, Delivered, Show
    <3>5. DownloadsOK'
      BY <2>1, <2>4, <3>1 DEF DownloadsOK, Untouched
    <3>6. LocalIsLatest'
      BY <2>1, <3>1 DEF LocalIsLatest, DownloadsOK
    <3> QED
      BY <2>5, <3>3, <3>4, <3>5, <3>6
  <2>7. CASE Failed(g)
    <3>1. UNCHANGED <<cache, local, late, inputImage, pastPhoto>>
      BY <2>7 DEF Failed, GetFailed, histVars, screenVars, editVars
    <3>2. TypeOK' /\ KindsOK'
      BY <2>1, <2>4, <3>1 DEF KindsOK
    <3>3. DownloadsOK' /\ LocalIsLatest'
      BY <2>1, <2>4, <3>1 DEF DownloadsOK, Untouched, LocalIsLatest
    <3> QED
      BY <2>5, <3>2, <3>3
  <2> QED
    BY <1>2, <2>6, <2>7
<1> QED
  BY <1>1, <1>2

\* A call takes effect, or fails.
LEMMA SettledStep == ASSUME IInv, NEW k \in DOMAIN calls, Settled(k) PROVE IInv'
<1> USE DEF IInv, TypeOK, ImagesTypeOK
<1>1. PICK ok \in BOOLEAN :
          /\ calls' = [calls EXCEPT ![k].settled = TRUE, ![k].ok = ok]
          /\ remote' = IF ok THEN calls[k].image ELSE remote
          /\ spoiled' = (spoiled \/ (IF calls[k].newest THEN ~ok ELSE ok /\ NewestSettled))
  BY DEF Settled, CallSettled
<1>2. /\ UNCHANGED <<cache, local, gets, latest, ours, late>>
      /\ UNCHANGED <<post, screen, overlay, inputImage, pastPhoto>>
      /\ ~calls[k].settled
  BY DEF Settled, CallSettled, screenVars, editVars
<1>3. Len(calls) \in Nat /\ DOMAIN calls = 1..Len(calls) /\ \A j \in 1..Len(calls) : calls[j] \in Call
  BY LenProperties, ElementOfSeq
<1>4. /\ calls' \in Seq(Call)
      /\ DOMAIN calls' = DOMAIN calls
      /\ \A j \in DOMAIN calls : j # k => calls'[j] = calls[j]
      /\ calls'[k].newest = calls[k].newest /\ calls'[k].image = calls[k].image
      /\ calls'[k].settled
  <2>1. calls[k] \in Call
    BY <1>3
  <2>2. [[calls[k] EXCEPT !.settled = TRUE] EXCEPT !.ok = ok] \in Call
    BY <2>1 DEF Call
  <2>3. calls' = [j \in 1..Len(calls) |->
                     IF j = k THEN [[calls[k] EXCEPT !.settled = TRUE] EXCEPT !.ok = ok]
                     ELSE calls[j]]
    BY <1>1, <1>3, <2>1 DEF Call
  <2>4. calls' \in Seq(Call) /\ DOMAIN calls' = 1..Len(calls)
    BY <1>3, <2>2, <2>3
  <2>5. calls'[k] = [[calls[k] EXCEPT !.settled = TRUE] EXCEPT !.ok = ok]
    BY <1>3, <2>3
  <2> QED
    BY <1>3, <2>1, <2>3, <2>4, <2>5 DEF Call
<1>5. calls[k].image \in Stored
  BY <1>3 DEF Call
<1>6. TypeOK' /\ KindsOK'
  <2>1. remote' \in Stored /\ spoiled' \in BOOLEAN
    BY <1>1, <1>3, <1>5 DEF Call
  <2> QED
    BY <1>2, <1>4, <2>1 DEF KindsOK
<1>7. DownloadsOK'
  <2>1. calls # <<>>
    OBVIOUS
  <2> QED
    BY <1>2, <2>1 DEF DownloadsOK, Untouched
<1>8. CallsOK'
  <2>1. \A j \in DOMAIN calls' : calls'[j].newest => calls'[j].image = latest'
    BY <1>2, <1>4 DEF CallsOK
  <2>2. ASSUME ~spoiled', NewestSettled' PROVE remote' = latest'
    <3>1. CASE calls[k].newest
      BY <1>1, <1>2, <2>2, <3>1 DEF CallsOK
    <3>2. CASE ~calls[k].newest
      <4>1. NewestSettled
        BY <1>4, <2>2, <3>2 DEF NewestSettled
      <4> QED
        BY <1>1, <1>2, <2>2, <3>2, <4>1 DEF CallsOK
    <3> QED
      BY <3>1, <3>2
  <2> QED
    BY <2>1, <2>2 DEF CallsOK
<1>9. LocalIsLatest'
  BY <1>2 DEF LocalIsLatest
<1> QED
  BY <1>6, <1>7, <1>8, <1>9

\* A call is reported, and the screen that waits for it goes.
LEMMA ReportedStep == ASSUME IInv, NEW k \in DOMAIN calls, CallReported(k) PROVE IInv'
<1> USE DEF IInv, TypeOK, ImagesTypeOK
<1> DEFINE rest == OtherCalls(k)
<1>1. /\ rest \in Seq(Call)
      /\ \A i \in DOMAIN rest : \E j \in DOMAIN calls \ {k} : rest[i] = calls[j]
      /\ \A j \in DOMAIN calls \ {k} : \E i \in DOMAIN rest : rest[i] = calls[j]
  BY OtherCallsElements
<1>2. calls # <<>> /\ calls[k].settled
  BY DEF CallReported
<1>3. UNCHANGED <<cache, local, remote, post, latest, ours, late, spoiled>>
  BY DEF CallReported, histVars
<1> HIDE DEF rest
<1>4. /\ \A i \in DOMAIN rest : rest[i].newest => rest[i].image = latest
      /\ (\A i \in DOMAIN rest : rest[i].newest => rest[i].settled) => NewestSettled
  <2>1. ASSUME NEW i \in DOMAIN rest, rest[i].newest PROVE rest[i].image = latest
    <3>1. PICK j \in DOMAIN calls : rest[i] = calls[j]
      BY <1>1
    <3> QED
      BY <2>1, <3>1 DEF CallsOK
  <2>2. ASSUME \A i \in DOMAIN rest : rest[i].newest => rest[i].settled,
               NEW j \in DOMAIN calls, calls[j].newest
        PROVE  calls[j].settled
    <3>1. CASE j = k
      BY <1>2, <3>1
    <3>2. CASE j # k
      <4>1. PICK i \in DOMAIN rest : rest[i] = calls[j]
        BY <1>1, <3>2
      <4>2. rest[i].newest
        BY <2>2, <4>1
      <4>3. rest[i].settled
        BY <2>2, <4>2
      <4> QED
        BY <4>1, <4>3
    <3> QED
      BY <3>1, <3>2
  <2> QED
    BY <2>1, <2>2 DEF NewestSettled
<1>5. ASSUME calls' \in Seq(Call), DOMAIN calls' = DOMAIN rest,
             \A i \in DOMAIN rest : /\ calls'[i].newest = rest[i].newest
                                    /\ calls'[i].image = rest[i].image
                                    /\ calls'[i].settled = rest[i].settled
      PROVE  CallsOK'
  BY <1>3, <1>4, <1>5 DEF CallsOK, NewestSettled
<1>6. LocalIsLatest'
  BY <1>3 DEF LocalIsLatest
<1>7. CASE Dismisses(k)
  <2>1. /\ CloseScreen
        /\ gets' = [g \in GetSlots |-> NobodyShown(gets[g])]
        /\ calls' = NobodyWaits(rest)
    BY <1>7 DEF CallReported, rest
  <2>2. /\ gets' \in [GetSlots -> Get]
        /\ \A g \in GetSlots : /\ gets'[g].stage = gets[g].stage
                               /\ gets'[g].image = gets[g].image
                               /\ gets'[g].old = gets[g].old
    BY <2>1, NobodyShownGets
  <2>3. CallsOK' /\ calls' \in Seq(Call)
    BY <1>1, <1>5, <2>1, NobodyWaitsElements
  <2>4. TypeOK' /\ KindsOK'
    BY <1>3, <2>1, <2>2, <2>3 DEF KindsOK, CloseScreen, Objects
  <2>5. DownloadsOK'
    BY <1>2, <1>3, <2>2 DEF DownloadsOK, Untouched
  <2> QED
    BY <1>6, <2>3, <2>4, <2>5
<1>8. CASE ~Dismisses(k)
  <2>1. calls' = rest /\ UNCHANGED <<gets, screen, overlay, inputImage, pastPhoto>>
    BY <1>8 DEF CallReported, rest, editVars
  <2>2. CallsOK'
    BY <1>1, <1>5, <2>1
  <2>3. TypeOK' /\ KindsOK'
    BY <1>1, <1>3, <2>1 DEF KindsOK
  <2>4. DownloadsOK'
    BY <1>2, <1>3, <2>1 DEF DownloadsOK, Untouched
  <2> QED
    BY <1>6, <2>2, <2>3, <2>4
<1> QED
  BY <1>7, <1>8

LEMMA EvictStep == ASSUME IInv, Evict PROVE IInv'
  BY DEF IInv, TypeOK, ImagesTypeOK, KindsOK, DownloadsOK, Untouched, CallsOK, NewestSettled,
         LocalIsLatest, Evict, EvictCache, Stored, screenVars, editVars, histVars

\* The process ends: an unsettled newest call is lost, and known to be.
LEMMA RelaunchStep == ASSUME IInv, Relaunch PROVE IInv'
<1> USE DEF IInv, TypeOK, ImagesTypeOK
<1>1. /\ UNCHANGED <<local, remote, latest, ours, late>>
      /\ cache' = NoImage /\ calls' = <<>> /\ gets' = [g \in GetSlots |-> IdleGet]
      /\ spoiled' = (spoiled \/ ~NewestSettled)
      /\ post' = IF post = "deleting" THEN "deleted" ELSE post
      /\ CloseScreen
  BY DEF Relaunch, LoseCalls, NewestSettled
<1>2. IdleGet \in Get /\ IdleGet.stage = "idle"
  BY DEF IdleGet, Get, Stored
<1>3. spoiled' \in BOOLEAN /\ (~spoiled' => ~spoiled /\ NewestSettled)
  BY <1>1 DEF Relaunch, LoseCalls
<1>4. calls' \in Seq(Call) /\ DOMAIN calls' = {}
  BY <1>1
<1>5. TypeOK'
  <2>1. ImagesTypeOK'
    BY <1>1, <1>2, <1>3, <1>4 DEF Stored
  <2> QED
    BY <1>1, <2>1 DEF CloseScreen, Objects
<1>6. KindsOK'
  BY <1>1, <1>2 DEF KindsOK, CloseScreen
<1>7. DownloadsOK'
  BY <1>1, <1>2 DEF DownloadsOK, Untouched
<1>8. CallsOK' /\ LocalIsLatest'
  <2>1. ~spoiled' => remote' = latest'
    BY <1>1, <1>3 DEF CallsOK
  <2> QED
    BY <1>1, <1>4, <2>1 DEF CallsOK, LocalIsLatest
<1> QED
  BY <1>5, <1>6, <1>7, <1>8

LEMMA NextIInv == IInv /\ [Next]_vars => IInv'
<1> SUFFICES ASSUME IInv, [Next]_vars PROVE IInv'
  OBVIOUS
<1>1. CASE User
  BY <1>1, UserStep
<1>2. CASE DeletionReported
  BY <1>2, DeletionStep
<1>3. CASE Storage
  BY <1>3, DownloadsStep, SettledStep, ReportedStep DEF Storage
<1>4. CASE Evict \/ Relaunch
  BY <1>4, EvictStep, RelaunchStep
<1>5. CASE UNCHANGED vars
  BY <1>5, ScreenStep DEF vars, screenVars, editVars, IInv, TypeOK, KindsOK, ScreensOK
<1> QED
  BY <1>1, <1>2, <1>3, <1>4, <1>5 DEF Next

LEMMA Invariance == Spec => []IInv
  BY InitIInv, NextIInv, PTL DEF Spec

-----------------------------------------------------------------------------
(* The theorems.                                                             *)

\* Every variable of the image repository and of the screens of a post keeps its type.
THEOREM TypeCorrect == Spec => []TypeOK
<1>1. IInv => TypeOK
  BY DEF IInv
<1> QED
  BY <1>1, Invariance, PTL

\* The copy in UserDefaults, which getImage prefers to Storage, is the image of the
\* newest upload or deletion, however many downloads, uploads and deletions are under
\* way and in whatever order they end, unless a download of before came after it.
THEOREM LocalIsLatestAlways == Spec => []LocalIsLatest
<1>1. IInv => LocalIsLatest
  BY DEF IInv
<1> QED
  BY <1>1, Invariance, PTL

\* When nothing is in flight Storage has what the newest call asked for, unless that
\* one failed or was lost, or an older one took effect after it.
THEOREM RemoteSettlesAlways == Spec => []RemoteSettles
<1>1. IInv => RemoteSettles
  BY DEF IInv, CallsOK, NewestSettled, RemoteSettles
<1> QED
  BY <1>1, Invariance, PTL

\* saveChangesToPost sends only images that the user picked.
THEOREM UploadsOnlyPickedAlways == Spec => UploadsOnlyPicked
<1>1. IInv => (SaveImage => inputImage[1] = "picked")
  BY DEF IInv, KindsOK, SaveImage, Picked
<1>2. IInv => [SaveImage => inputImage[1] = "picked"]_vars
  BY <1>1
<1> QED
  BY <1>2, Invariance, PTL DEF UploadsOnlyPicked
=============================================================================
