-------------------------- MODULE ImagesRepository --------------------------
(***************************************************************************)
(* Data/Repositories/ImagesRepository.swift: the copies of one image.       *)
(*                                                                          *)
(* Three copies: the NSCache of the process, UserDefaults, and the object   *)
(* in Firebase Storage.  The calls to Storage run at the same time and take *)
(* effect in any order; nothing else writes the object meanwhile.  Paths    *)
(* do not share state, so one is enough.  Images are what their data says;  *)
(* two UIImage objects are equal only if they are the same object.          *)
(*                                                                          *)
(* The operators are parts of the steps of the screens that use the         *)
(* repository: PostImage and BoardProfile.                                  *)
(***************************************************************************)
EXTENDS Naturals, Sequences

CONSTANTS
    Images,     \* image data
    NoImage,    \* nil
    GetSlots,   \* bound: downloads in flight
    MaxCalls    \* bound: uploads and deletions in flight

ASSUME NoImageAssumption == NoImage \notin Images

VARIABLES
    cache,      \* NSCache
    local,      \* UserDefaults
    remote,     \* the object in Storage
    gets,       \* getImage calls that went to Storage
    calls,      \* uploads and deletions, oldest first
    latest,     \* history: what the newest call asked Storage to hold
    ours,       \* history: latest is an upload of this installation
    late,       \* history: a download of before the newest call ended after it
    spoiled     \* history: an older call took effect last, or the newest did not

histVars == <<latest, ours, late, spoiled>>
imageVars == <<cache, local, remote, gets, calls, histVars>>

Stored == Images \cup {NoImage}

\* UIImage objects: one that getImage returned, one that the user picked.
Loaded(i) == <<"loaded", i>>
Picked(i) == <<"picked", i>>
Objects == ({"loaded", "picked"} \X Images) \cup {NoImage}

\* shown: the screen that asked is up; old: a call was made since.
Get == [stage : {"idle", "asked", "read", "failed"}, image : Stored,
        shown : BOOLEAN, old : BOOLEAN]
IdleGet == [stage |-> "idle", image |-> NoImage, shown |-> FALSE, old |-> FALSE]

\* settled: Storage has answered, with ok; waiting: the screen that asked is up.
Call == [op : {"put", "delete"}, image : Stored, settled : BOOLEAN, ok : BOOLEAN,
         newest : BOOLEAN, waiting : BOOLEAN]

ImagesTypeOK ==
    /\ cache \in Stored /\ local \in Stored /\ remote \in Stored
    /\ gets \in [GetSlots -> Get]
    /\ calls \in Seq(Call)
    /\ latest \in Stored /\ ours \in BOOLEAN /\ late \in BOOLEAN /\ spoiled \in BOOLEAN

\* An image that Storage has, or not, and perhaps the device too.
ImagesInit(in) ==
    /\ remote \in in
    /\ local \in {NoImage, remote}
    /\ cache = NoImage
    /\ gets = [g \in GetSlots |-> IdleGet]
    /\ calls = <<>>
    /\ latest = remote
    /\ ours = FALSE /\ late = FALSE /\ spoiled = FALSE

-----------------------------------------------------------------------------
(* The calls of the repository.                                              *)

CopyHere == IF cache # NoImage THEN cache ELSE local

\* getImage, when neither the cache nor UserDefaults has a copy.
Download(shown) ==
    \E g \in GetSlots :
        /\ gets[g].stage = "idle"
        /\ gets' = [gets EXCEPT ![g] = [IdleGet EXCEPT !.stage = "asked", !.shown = shown]]

NewCall(op, i) == [op |-> op, image |-> i, settled |-> FALSE, ok |-> FALSE,
                   newest |-> TRUE, waiting |-> op = "put"]
Issue(new) ==
    LET older == [k \in DOMAIN calls |-> [calls[k] EXCEPT !.newest = FALSE]]
    IN  /\ Len(calls) + Len(new) <= MaxCalls
        /\ calls' = older \o new

\* The newest call makes every download under way an old one.
Changes(i) ==
    /\ gets' = [g \in GetSlots |-> [gets[g] EXCEPT !.old = gets[g].stage # "idle"]]
    /\ latest' = i
    /\ ours' = (i # NoImage)
    /\ late' = FALSE
    /\ spoiled' = FALSE

Upload(i) ==
    /\ local' = i
    /\ Issue(<<NewCall("put", i)>>)
    /\ Changes(i)

\* Mutants: the upload before the deletion; a deletion that forgets UserDefaults.
ReplaceSwapped(i) ==
    /\ local' = NoImage
    /\ Issue(<<[NewCall("put", i) EXCEPT !.newest = FALSE], NewCall("delete", NoImage)>>)
    /\ Changes(i)
DeleteImageRemotely ==
    /\ UNCHANGED local
    /\ Issue(<<NewCall("delete", NoImage)>>)
    /\ Changes(NoImage)

\* deleteImage and then upload, without waiting for the first to finish.
Replace(i) ==
    /\ local' = i
    /\ Issue(<<[NewCall("delete", NoImage) EXCEPT !.newest = FALSE], NewCall("put", i)>>)
    /\ Changes(i)

DeleteImage ==
    /\ local' = NoImage
    /\ Issue(<<NewCall("delete", NoImage)>>)
    /\ Changes(NoImage)

\* What is left of the calls when the screens that made them are gone.
NobodyShown(g) == [g EXCEPT !.shown = FALSE]
NobodyWaits(queue) == [k \in DOMAIN queue |-> [queue[k] EXCEPT !.waiting = FALSE]]

-----------------------------------------------------------------------------
(* Storage, and its answers on the main queue.                               *)

\* Mutant: the error of a download without an object is not looked at.
GetReadUnchecked(g) ==
    /\ gets[g].stage = "asked"
    /\ gets' = [gets EXCEPT ![g].stage = "read", ![g].image = remote]
    /\ UNCHANGED <<cache, local, remote, calls, histVars>>

\* The download reads the object, or fails.
GetRead(g) ==
    /\ gets[g].stage = "asked"
    /\ \/ /\ remote # NoImage
          /\ gets' = [gets EXCEPT ![g].stage = "read", ![g].image = remote]
       \/ gets' = [gets EXCEPT ![g].stage = "failed"]
    /\ UNCHANGED <<cache, local, remote, calls, histVars>>

\* The answer: both copies here take the image.  (calls is for the screen to say.)
GetKept(g) ==
    /\ gets[g].stage = "read"
    /\ cache' = gets[g].image
    /\ local' = gets[g].image
    /\ late' = (late \/ gets[g].old)
    /\ gets' = [gets EXCEPT ![g] = IdleGet]
    /\ UNCHANGED <<remote, latest, ours, spoiled>>

GetFailed(g) ==
    /\ gets[g].stage = "failed"
    /\ gets' = [gets EXCEPT ![g] = IdleGet]
    /\ UNCHANGED <<cache, local, remote, histVars>>

NewestSettled == \A k \in DOMAIN calls : calls[k].newest => calls[k].settled

\* A call takes effect, or fails; Storage orders them as it likes.
CallSettled(k) ==
    /\ ~calls[k].settled
    /\ \E ok \in BOOLEAN :
           /\ calls' = [calls EXCEPT ![k].settled = TRUE, ![k].ok = ok]
           /\ remote' = IF ok THEN calls[k].image ELSE remote
           /\ spoiled' = (spoiled \/ (IF calls[k].newest THEN ~ok ELSE ok /\ NewestSettled))
    /\ UNCHANGED <<cache, local, gets, latest, ours, late>>

\* The other calls, when the answer to the k-th is delivered.
OtherCalls(k) == SubSeq(calls, 1, k - 1) \o SubSeq(calls, k + 1, Len(calls))

\* The NSCache drops its objects when memory is short.
EvictCache ==
    /\ cache # NoImage
    /\ cache' = NoImage
    /\ UNCHANGED <<local, remote, gets, calls, histVars>>

\* The process ends: what was in flight is lost.
LoseCalls ==
    /\ cache' = NoImage
    /\ gets' = [g \in GetSlots |-> IdleGet]
    /\ calls' = <<>>
    /\ spoiled' = (spoiled \/ \E k \in DOMAIN calls : calls[k].newest /\ ~calls[k].settled)
    /\ UNCHANGED <<local, remote, latest, ours, late>>

-----------------------------------------------------------------------------
(* Properties.                                                               *)

\* The copy in UserDefaults, which every later getImage prefers to Storage, is
\* the image of the newest upload or deletion, unless the answer to an older
\* download came after it; an image uploaded from here is always there.
LocalIsLatest ==
    late \/ local = latest \/ (local = NoImage /\ ~ours)

\* When nothing is in flight Storage holds what the newest call asked for, unless
\* that call failed or was lost, or an older one took effect after it.
RemoteSettles == calls = <<>> /\ ~spoiled => remote = latest
=============================================================================
