------------------------- MODULE BoardProfile_proofs -------------------------
(***************************************************************************)
(* Creating a board and editing it, for any numbers of versions, of saves   *)
(* under way and of loads: the copies of the board's data agree, no save    *)
(* takes the document back behind what an editor has told the others, and   *)
(* its cover is uploaded.                                                   *)
(***************************************************************************)
EXTENDS BoardProfile, Lists_proofs

-----------------------------------------------------------------------------
(* The invariant.                                                            *)

Loads(a) == a.kind = "boards" /\ a.ok

\* Every answer has its call; who hears of a save or of a cover is there.
CallsOK ==
    /\ \A i \in DOMAIN main :
           main[i].kind = "boards" => main[i].slot \in Slots /\ reads[main[i].slot] # NoRead
    /\ \A i, j \in DOMAIN main :
           main[i].kind = "boards" /\ main[j].kind = "boards" /\ main[i].slot = main[j].slot
               => i = j

EditorOK ==
    /\ \A i \in DOMAIN main : main[i].kind = "edit" => editor # "none"
    /\ \A i \in DOMAIN writes : writes[i].op = "edit" /\ writes[i].heard => editor # "none"
    /\ uploads # <<>> => screen = "add" \/ editor # "none"
    /\ screen = "add" => editor = "none"
    /\ screen = "edit" => editor = "up"
    /\ asking => editor # "none"

\* From the launch to the answer of its load nothing is on display.
LaunchOK ==
    /\ launching => /\ \E s \in Slots : reads[s] # NoRead
                    /\ screen = "main" /\ editor = "none" /\ shown = 0 /\ cell = 0
    /\ ~launching => saved = shown

\* The versions are those given out so far.
Past == 0..newest
PastOK ==
    /\ doc \in Past /\ told \in Past /\ shown \in Past /\ listed \in Past /\ cell \in Past
    /\ mine \in Past
    /\ saved \in Past \cup {Nil}
    /\ \A s \in Slots : reads[s] \in Past \cup {Nil, NoRead}
    /\ \A i \in DOMAIN main : main[i].found \in Past
    /\ \A i \in DOMAIN writes : writes[i].v \in Past
    /\ newest = 0 => writes = <<>> /\ editor = "none"
    /\ editor # "none" => mine # 0
    /\ cell = 0 <=> listed = 0
    /\ \A i \in DOMAIN writes : i # 1 => writes[i].op = "edit"

\* The board is stored, or will be unless the server refuses.
Alive == doc # 0 \/ (writes # <<>> /\ writes[1].op = "add")

\* Of the document d and the queue q of its writes: v is, or may become, what the
\* document has.
Live(d, q, v) == d = v \/ \E i \in DOMAIN q : q[i].v = v
\* Nothing older is queued behind it.
Clean(d, q, v) ==
    /\ d = v => \A i \in DOMAIN q : v <= q[i].v
    /\ \A i, j \in DOMAIN q : i < j /\ q[i].v = v => v <= q[j].v
\* Nor is v older than t, what an editor has told, as long as t can be seen.
Sound(d, q, t, v) == Clean(d, q, v) /\ (Live(d, q, t) => t <= v)

\* Whatever an editor starts from, or tells, can be saved again without taking
\* the document back behind what an editor has told.
SavesOK ==
    /\ Clean(doc, writes, told)
    /\ Clean(doc, writes, View)
    /\ cell # 0 => Sound(doc, writes, told, cell)
    /\ editor # "none" =>
           /\ cell # 0 /\ Sound(doc, writes, told, mine)
           /\ cell <= mine /\ (mine = cell \/ told < mine)

\* A load that found the board is followed by those only that did.
FoundOK ==
    /\ cell # 0 => \A i \in DOMAIN main : Loads(main[i]) => main[i].found # 0
    /\ \A i, j \in DOMAIN main :
           i < j /\ Loads(main[i]) /\ Loads(main[j]) /\ main[i].found # 0 => main[j].found # 0
    /\ cell = 0 =>
           \A i \in DOMAIN main :
               Loads(main[i]) /\ main[i].found # 0 => Sound(doc, writes, told, main[i].found)

\* A board that is stored but not listed is waited for by the launch's load only.
OnceOK ==
    cell = 0 /\ newest > 1 =>
        /\ screen = "main"
        /\ \E s \in Slots :
               /\ reads[s] \in {NoRead, saved}
               /\ ~launching => reads[s] = NoRead
               /\ \A t \in Slots \ {s} : reads[t] = NoRead

Old(v) == v \in 1..(newest - 1)
\* The newest version, told by an editor, can be met again.
Met == \/ Live(doc, writes, newest) \/ cell = newest
       \/ cell = 0 /\ \E i \in DOMAIN main : Loads(main[i]) /\ main[i].found = newest
ShownOK ==
    told = newest /\ Met =>
        /\ Old(shown) => overtaken
        /\ Old(saved) => overtaken

DataOK == Alive => SavesOK /\ FoundOK /\ OnceOK /\ ShownOK

\* A board that is stored has its cover, or its creation is still to be reported.
CoverOK ==
    ~covered =>
        /\ \A i \in DOMAIN writes : writes[i].op = "add" => writes[i].heard
        /\ doc # 0 => \E i \in DOMAIN main : main[i].kind = "add" /\ main[i].ok

-----------------------------------------------------------------------------
(* The queues.                                                               *)

\* What is lost with a view model changes only who hears.
LEMMA NobodyHearsIs ==
    ASSUME writes \in Seq(Write), NEW ops
    PROVE  /\ NobodyHears(ops) \in Seq(Write)
           /\ DOMAIN NobodyHears(ops) = DOMAIN writes
           /\ \A i \in DOMAIN writes :
                  /\ NobodyHears(ops)[i].v = writes[i].v
                  /\ NobodyHears(ops)[i].op = writes[i].op
                  /\ NobodyHears(ops)[i].heard <=> writes[i].heard /\ writes[i].op \notin ops
<1> DEFINE on(i) == [writes[i] EXCEPT !.heard = @ /\ writes[i].op \notin ops]
<1>1. \A i \in DOMAIN writes : writes[i] \in Write
  BY ElementOfSeq
<1>2. \A i \in DOMAIN writes :
          /\ on(i) \in Write /\ on(i).v = writes[i].v /\ on(i).op = writes[i].op
          /\ on(i).heard <=> writes[i].heard /\ writes[i].op \notin ops
  BY <1>1 DEF Write
<1>3. NobodyHears(ops) = [i \in DOMAIN writes |-> on(i)]
  BY DEF NobodyHears
<1> HIDE DEF on
<1>4. NobodyHears(ops) \in Seq(Write)
  <2>1. Len(writes) \in Nat /\ DOMAIN writes = 1..Len(writes)
    BY LenProperties
  <2> QED
    BY <1>2, <1>3, <2>1
<1> QED
  BY <1>2, <1>3, <1>4

\* q has the answers of p, perhaps without the oldest, with the editor's known or forgotten.
Follows(q, p) ==
    \E k \in {0, 1} : \A i \in DOMAIN q :
        /\ i + k \in DOMAIN p
        /\ q[i].ok = p[i + k].ok /\ q[i].slot = p[i + k].slot /\ q[i].found = p[i + k].found
        /\ q[i].kind = p[i + k].kind \/ (p[i + k].kind = "edit" /\ q[i].kind = "gone")

\* q has what p has for others than the editor.
Keeps(q, p) ==
    \A j \in DOMAIN p : p[j].kind # "edit" =>
        \E i \in DOMAIN q : q[i].kind = p[j].kind /\ q[i].ok = p[j].ok

LEMMA ForgottenIs ==
    ASSUME NEW q \in Seq(Answer)
    PROVE  /\ Forgotten(q) \in Seq(Answer)
           /\ DOMAIN Forgotten(q) = DOMAIN q
           /\ \A i \in DOMAIN q :
                  /\ Forgotten(q)[i].ok = q[i].ok
                  /\ Forgotten(q)[i].slot = q[i].slot
                  /\ Forgotten(q)[i].found = q[i].found
                  /\ Forgotten(q)[i].kind = IF q[i].kind = "edit" THEN "gone" ELSE q[i].kind
<1> DEFINE on(i) == [q[i] EXCEPT !.kind = IF @ = "edit" THEN "gone" ELSE @]
<1>1. \A i \in DOMAIN q : q[i] \in Answer
  BY ElementOfSeq
<1>2. \A i \in DOMAIN q :
          /\ on(i) \in Answer
          /\ on(i).ok = q[i].ok /\ on(i).slot = q[i].slot /\ on(i).found = q[i].found
          /\ on(i).kind = IF q[i].kind = "edit" THEN "gone" ELSE q[i].kind
  BY <1>1 DEF Answer
<1>3. Forgotten(q) = [i \in DOMAIN q |-> on(i)]
  BY DEF Forgotten
<1> HIDE DEF on
<1>4. Forgotten(q) \in Seq(Answer)
  <2>1. Len(q) \in Nat /\ DOMAIN q = 1..Len(q)
    BY LenProperties
  <2> QED
    BY <1>2, <1>3, <2>1
<1> QED
  BY <1>2, <1>3, <1>4

LEMMA FollowsItself ==
    ASSUME NEW q \in Seq(Answer)
    PROVE  /\ Follows(q, q) /\ Follows(Forgotten(q), q)
           /\ Keeps(q, q) /\ Keeps(Forgotten(q), q)
<1>1. \A i \in DOMAIN q : i + 0 = i
  BY LenProperties
<1> QED
  BY <1>1, ForgottenIs DEF Follows, Keeps

LEMMA FollowsTail ==
    ASSUME NEW p \in Seq(Answer), p # <<>>, NEW q, q = Tail(p)
    PROVE  /\ q \in Seq(Answer)
           /\ Follows(q, p) /\ Follows(Forgotten(q), p)
           /\ Head(p).kind = "edit" => Keeps(q, p) /\ Keeps(Forgotten(q), p)
           /\ \A i \in DOMAIN q : i + 1 \in DOMAIN p /\ q[i] = p[i + 1]
           /\ Head(p) = p[1] /\ 1 \in DOMAIN p /\ Head(p) \in Answer
<1>1. q \in Seq(Answer) /\ \A i \in DOMAIN q : i + 1 \in DOMAIN p /\ q[i] = p[i + 1]
  BY TailElements
<1>2. Head(p) = p[1] /\ 1 \in DOMAIN p
  BY HeadTailProperties, EmptySeq, LenProperties
<1>3. Follows(q, p)
  BY <1>1 DEF Follows
<1>4. Follows(Forgotten(q), p)
  <2>1. PICK r : r = Forgotten(q)
    OBVIOUS
  <2>2. /\ DOMAIN r = DOMAIN q
        /\ \A i \in DOMAIN q :
               /\ r[i].ok = q[i].ok /\ r[i].slot = q[i].slot /\ r[i].found = q[i].found
               /\ r[i].kind = IF q[i].kind = "edit" THEN "gone" ELSE q[i].kind
    BY <1>1, <2>1, ForgottenIs
  <2>3. Follows(r, p)
    BY <1>1, <2>2 DEF Follows
  <2> QED
    BY <2>1, <2>3
<1>5. ASSUME Head(p).kind = "edit" PROVE Keeps(q, p)
  <2>1. \A j \in DOMAIN p : j # 1 => j - 1 \in DOMAIN q /\ q[j - 1] = p[j]
    BY TailKeeps
  <2> QED
    BY <1>2, <1>5, <2>1 DEF Keeps
<1>6. ASSUME Keeps(q, p) PROVE Keeps(Forgotten(q), p)
  <2>1. PICK r : r = Forgotten(q)
    OBVIOUS
  <2>2. /\ DOMAIN r = DOMAIN q
        /\ \A i \in DOMAIN q :
               r[i].ok = q[i].ok /\ (q[i].kind # "edit" => r[i].kind = q[i].kind)
    BY <1>1, <2>1, ForgottenIs
  <2>3. Keeps(r, p)
    BY <1>6, <2>2 DEF Keeps
  <2> QED
    BY <2>1, <2>3
<1> QED
  BY <1>1, <1>2, <1>3, <1>4, <1>5, <1>6, ElementOfSeq

-----------------------------------------------------------------------------
(* What the editor's steps do.                                               *)

\* The documents and what is written of them stay; no more is heard than before.
Stays ==
    /\ doc' = doc
    /\ writes' \in Seq(Write)
    /\ DOMAIN writes' = DOMAIN writes
    /\ \A i \in DOMAIN writes :
           /\ writes'[i].v = writes[i].v
           /\ writes'[i].op = writes[i].op
           /\ writes'[i].heard => writes[i].heard

AddsStay == \A i \in DOMAIN writes : writes[i].op = "add" => (writes'[i].heard <=> writes[i].heard)

LEMMA Still == writes \in Seq(Write) /\ UNCHANGED <<doc, writes>> => Stays /\ AddsStay
  BY DEF Stays, AddsStay

\* The editor's view model has gone, and with it all that would be heard.
Parted(form, completions, queued, rest) ==
    /\ form = "none" /\ rest = <<>>
    /\ \A i \in DOMAIN completions : completions[i].kind # "edit"
    /\ \A i \in DOMAIN queued : queued[i].op = "edit" => ~queued[i].heard

LEMMA ReleasedIs ==
    ASSUME TypeOK, NEW q \in Seq(Answer), Released(q), doc' = doc
    PROVE  /\ Stays /\ AddsStay
           /\ main' = Forgotten(q) /\ main' \in Seq(Answer)
           /\ mine' = 0 /\ asking' = FALSE /\ picked' = FALSE /\ overlay' = FALSE
           /\ Parted(editor', main', writes', uploads')
<1>1. PICK r : r = Forgotten(q)
  OBVIOUS
<1>2. /\ r \in Seq(Answer) /\ main' = r /\ writes \in Seq(Write)
      /\ \A i \in DOMAIN r : r[i].kind # "edit"
  BY <1>1, ForgottenIs DEF Released, TypeOK
<1>3. PICK queued : queued = NobodyHears({"edit"})
  OBVIOUS
<1>4. /\ writes' = queued /\ queued \in Seq(Write) /\ DOMAIN queued = DOMAIN writes
      /\ \A i \in DOMAIN writes :
             /\ queued[i].v = writes[i].v /\ queued[i].op = writes[i].op
             /\ queued[i].heard <=> writes[i].heard /\ writes[i].op \notin {"edit"}
  BY <1>2, <1>3, NobodyHearsIs DEF Released
<1>5. Stays /\ AddsStay
  BY <1>4 DEF Stays, AddsStay
<1>6. \A i \in DOMAIN queued : queued[i].op = "edit" => ~queued[i].heard
  BY <1>4
<1> QED
  BY <1>1, <1>2, <1>4, <1>5, <1>6 DEF Released, NewForm, Parted

EditorMoves ==
    Back \/ CoverDownloaded \/ BoardUpdated \/ \E k \in DOMAIN uploads : UploadReported(k)

Outcomes == {"running", "done", "failed"}

\* The editor stays, stays unseen, or goes; it may tell the others of its board.
EditorEffects ==
    /\ Stays /\ AddsStay
    /\ main' \in Seq(Answer) /\ Follows(main', main) /\ Keeps(main', main)
    /\ uploads' \in Seq(Outcomes)
    /\ UNCHANGED <<reads, listed, covered, launching, newest, refused>>
    /\ screen' = screen \/ (screen \in {"add", "edit"} /\ screen' = "leaving")
    /\ asking' \in BOOLEAN /\ picked' \in BOOLEAN /\ overlay' \in BOOLEAN
    /\ asking' => asking
    /\ uploads' # <<>> => uploads # <<>> \/ editor # "none"
    /\ \/ UNCHANGED <<editor, mine, screen>>
       \/ editor # "none" /\ editor' = "kept" /\ mine' = mine /\ screen' # "edit"
       \/ screen' # "edit" /\ mine' = 0 /\ asking' = FALSE /\ Parted(editor', main', writes', uploads')
    /\ \/ UNCHANGED <<shown, saved, cell, told, overtaken>>
       \/ editor # "none" /\ Tell(mine)

LEMMA CloseScreenIs ==
    ASSUME TypeOK, EditorOK, NEW q \in Seq(Answer), NEW rest \in Seq(Outcomes),
           CloseScreen(q, rest), doc' = doc,
           Follows(q, main), Follows(Forgotten(q), main),
           Keeps(q, main), Keeps(Forgotten(q), main), rest # <<>> => uploads # <<>> \/ editor # "none"
    PROVE  /\ Stays /\ AddsStay
           /\ main' \in Seq(Answer) /\ Follows(main', main) /\ Keeps(main', main)
           /\ uploads' \in Seq(Outcomes)
           /\ screen' = screen \/ (screen \in {"add", "edit"} /\ screen' = "leaving")
           /\ screen' # "edit"
           /\ asking' \in BOOLEAN /\ picked' \in BOOLEAN /\ overlay' \in BOOLEAN
           /\ asking' => asking
           /\ uploads' # <<>> => uploads # <<>> \/ editor # "none"
           /\ \/ editor # "none" /\ editor' = "kept" /\ mine' = mine
              \/ mine' = 0 /\ asking' = FALSE /\ Parted(editor', main', writes', uploads')
<1>1. asking \in BOOLEAN /\ picked \in BOOLEAN /\ writes \in Seq(Write)
  BY DEF TypeOK
<1>2. /\ screen' = screen \/ (screen \in {"add", "edit"} /\ screen' = "leaving")
      /\ screen' # "edit"
  BY DEF CloseScreen
<1>3. CASE asking
  <2>1. /\ editor' = "kept" /\ overlay' = FALSE /\ main' = q /\ uploads' = rest
        /\ UNCHANGED <<mine, asking, picked, writes>>
    BY <1>3 DEF CloseScreen
  <2>2. editor # "none"
    BY <1>3 DEF EditorOK
  <2> QED
    BY <1>1, <1>2, <2>1, <2>2, Still
<1>4. CASE ~asking
  <2>1. Released(q)
    BY <1>4 DEF CloseScreen
  <2>2. <<>> \in Seq(Outcomes)
    OBVIOUS
  <2> QED
    BY <1>2, <2>1, <2>2, ReleasedIs DEF Parted
<1> QED
  BY <1>1, <1>3, <1>4

LEMMA EditorSteps ==
    ASSUME TypeOK, EditorOK, EditorMoves
    PROVE  EditorEffects
<1>1. /\ writes \in Seq(Write) /\ main \in Seq(Answer) /\ uploads \in Seq(Outcomes)
      /\ asking \in BOOLEAN /\ picked \in BOOLEAN /\ overlay \in BOOLEAN
  BY DEF TypeOK, Outcomes
<1>2. PICK p : p = main
  OBVIOUS
<1>3. /\ Follows(p, main) /\ Follows(Forgotten(p), main)
      /\ Keeps(p, main) /\ Keeps(Forgotten(p), main)
  BY <1>1, <1>2, FollowsItself
<1>4. ASSUME Back PROVE EditorEffects
  <2>1. CloseScreen(p, uploads)
    BY <1>2, <1>4 DEF Back
  <2> QED
    BY <1>1, <1>2, <1>3, <1>4, <2>1, CloseScreenIs DEF Back, EditorEffects, copyVars, pastVars
<1>5. ASSUME CoverDownloaded PROVE EditorEffects
  <2>1. UNCHANGED <<reads, listed, covered, launching, newest, refused, doc, screen,
                    shown, saved, cell, told, overtaken>> /\ asking
    BY <1>5 DEF CoverDownloaded, copyVars, pastVars
  <2>2. CASE editor = "kept"
    <3>1. Released(p)
      BY <1>2, <1>5, <2>2 DEF CoverDownloaded
    <3>2. <<>> \in Seq(Outcomes)
      OBVIOUS
    <3>3. /\ Stays /\ AddsStay /\ main' \in Seq(Answer) /\ main' = Forgotten(p)
          /\ mine' = 0 /\ asking' = FALSE /\ picked' = FALSE /\ overlay' = FALSE
          /\ Parted(editor', main', writes', uploads')
      BY <1>1, <1>2, <2>1, <3>1, ReleasedIs
    <3>4. screen # "edit"
      BY <2>2 DEF EditorOK
    <3> QED
      BY <1>3, <2>1, <3>2, <3>3, <3>4 DEF EditorEffects, Parted
  <2>3. CASE editor # "kept"
    <3>1. /\ asking' = FALSE /\ picked' \in {FALSE, picked}
          /\ UNCHANGED <<uploads, writes, main, editor, mine, overlay>>
      BY <1>5, <2>3 DEF CoverDownloaded
    <3> QED
      BY <1>1, <1>2, <1>3, <2>1, <3>1, Still DEF EditorEffects
  <2> QED
    BY <2>2, <2>3
<1>6. ASSUME BoardUpdated PROVE EditorEffects
  <2>1. UNCHANGED <<reads, listed, covered, launching, newest, refused, doc>> /\ p # <<>>
    BY <1>2, <1>6 DEF BoardUpdated, Delivers
  <2>2. PICK q : q = Tail(p)
    OBVIOUS
  <2>3. /\ q \in Seq(Answer) /\ Follows(q, main) /\ Follows(Forgotten(q), main)
        /\ Keeps(q, main) /\ Keeps(Forgotten(q), main)
        /\ Head(p) = p[1] /\ 1 \in DOMAIN p
    BY <1>1, <1>2, <1>6, <2>1, <2>2, FollowsTail DEF BoardUpdated, Delivers
  <2>4. editor # "none"
    BY <1>2, <1>6, <2>3 DEF BoardUpdated, Delivers, EditorOK
  <2>5. CASE picked
    <3>1. /\ uploads' = Append(uploads, "running")
          /\ overlay' = (Covered(editor) /\ ~overlay) /\ main' = q
          /\ UNCHANGED <<writes, shown, saved, cell, told, overtaken, screen, editor, mine, asking,
                         picked>>
      BY <1>2, <1>6, <2>2, <2>5 DEF BoardUpdated
    <3>2. "running" \in Outcomes
      BY DEF Outcomes
    <3>3. uploads' \in Seq(Outcomes)
      BY <1>1, <3>1, <3>2, AppendProperties
    <3>4. Stays /\ AddsStay
      BY <1>1, <2>1, <3>1, Still
    <3> QED
      BY <1>1, <2>1, <2>3, <2>4, <3>1, <3>3, <3>4 DEF EditorEffects, Covered
  <2>6. CASE ~picked
    <3>1. Tell(mine) /\ CloseScreen(q, uploads)
      BY <1>2, <1>6, <2>2, <2>6 DEF BoardUpdated
    <3> QED
      BY <1>1, <2>1, <2>3, <2>4, <3>1, CloseScreenIs DEF EditorEffects
  <2> QED
    BY <1>1, <2>5, <2>6
<1>7. ASSUME NEW k \in DOMAIN uploads, UploadReported(k) PROVE EditorEffects
  <2>1. UNCHANGED <<reads, listed, covered, launching, newest, refused, doc>>
    BY <1>7 DEF UploadReported
  <2>2. PICK rest : rest = RemoveAt(uploads, k)
    OBVIOUS
  <2>3. rest \in Seq(Outcomes)
    BY <1>1, <1>7, <2>2, RemovedElements
  <2>4. uploads # <<>>
    BY <1>7
  <2>5. screen # "add" => editor # "none"
    BY <2>4 DEF EditorOK
  <2>6. \/ UNCHANGED <<shown, saved, cell, told, overtaken>>
        \/ editor # "none" /\ Tell(mine)
    BY <1>7, <2>5 DEF UploadReported
  <2>7. CASE uploads[k] = "done" \/ screen = "add"
    <3>1. CloseScreen(p, rest)
      BY <1>2, <1>7, <2>2, <2>7 DEF UploadReported
    <3> QED
      BY <1>1, <1>2, <1>3, <2>1, <2>3, <2>4, <2>6, <3>1, CloseScreenIs DEF EditorEffects
  <2>8. CASE ~(uploads[k] = "done" \/ screen = "add")
    <3>1. UploadFailed(rest)
      BY <1>7, <2>2, <2>8 DEF UploadReported
    <3>2. /\ uploads' = rest /\ overlay' = (Covered(editor) /\ ~overlay)
          /\ UNCHANGED <<writes, main, screen, editor, mine, asking, picked>>
      BY <3>1 DEF UploadFailed
    <3>3. Stays /\ AddsStay
      BY <1>1, <2>1, <3>2, Still
    <3> QED
      BY <1>1, <1>2, <1>3, <2>1, <2>3, <2>4, <2>6, <3>2, <3>3 DEF EditorEffects, Covered
  <2> QED
    BY <2>7, <2>8
<1> QED
  BY <1>4, <1>5, <1>6, <1>7 DEF EditorMoves

-----------------------------------------------------------------------------
(* Types, calls, and who hears.                                              *)

Base == TypeOK /\ CallsOK /\ EditorOK

LEMMA NumbersAre ==
    /\ MaxVersion \in Nat \ {0} /\ NoRead \in Nat /\ NoRead \notin AnyBoard
    /\ Nil \notin AnyBoard /\ Nil # NoRead
    /\ 0 \in AnyBoard /\ 1 \in Versions /\ Versions \subseteq AnyBoard /\ AnyBoard \subseteq Nat
  BY MaxVersionAssumption DEF NoRead, AnyBoard, Versions

LEMMA LastWrite ==
    ASSUME writes \in Seq(Write)
    PROVE  /\ Len(writes) \in Nat /\ DOMAIN writes = 1..Len(writes)
           /\ writes # <<>> => 1 \in DOMAIN writes /\ Len(writes) \in DOMAIN writes
           /\ \A i \in DOMAIN writes : writes[i].v \in Versions /\ writes[i].op \in {"add", "edit"}
<1>1. \A i \in DOMAIN writes : writes[i] \in Write
  BY ElementOfSeq
<1> QED
  BY <1>1, LenProperties, EmptySeq DEF Write

LEMMA ViewType == TypeOK => View \in AnyBoard
  BY LastWrite, NumbersAre DEF TypeOK, View

LEMMA InitBase == Init => Base
<1> SUFFICES ASSUME Init PROVE Base
  OBVIOUS
<1>1. doc \in AnyBoard /\ saved \in AnyBoard \cup {Nil}
  BY NumbersAre DEF Init, Versions
<1>2. PICK s \in Slots : reads = [t \in Slots |-> IF t = s THEN saved ELSE NoRead]
  BY DEF Init
<1>3. reads \in [Slots -> AnyBoard \cup {Nil, NoRead}]
  BY <1>1, <1>2
<1>4. TypeOK
  <2>1. covered \in BOOLEAN /\ newest = doc /\ told = doc
    BY DEF Init
  <2>2. writes \in Seq(Write) /\ main \in Seq(Answer) /\ uploads \in Seq({"running", "done", "failed"})
    BY DEF Init
  <2>3. /\ shown = 0 /\ listed = 0 /\ cell = 0 /\ screen = "main" /\ editor = "none" /\ mine = 0
        /\ asking = FALSE /\ picked = FALSE /\ overlay = FALSE /\ launching = TRUE
        /\ refused = FALSE /\ overtaken = FALSE
    BY DEF Init
  <2> QED
    BY <1>1, <1>3, <2>1, <2>2, <2>3, NumbersAre DEF TypeOK
<1>5. CallsOK /\ EditorOK
  BY DEF Init, CallsOK, EditorOK
<1> QED
  BY <1>4, <1>5 DEF Base

\* What a load delivers, and where it was called.
LEMMA DeliveredIs ==
    ASSUME TypeOK, CallsOK, Delivers("boards")
    PROVE  /\ main # <<>> /\ Head(main) = main[1] /\ 1 \in DOMAIN main /\ Head(main) \in Answer
           /\ Head(main).slot \in Slots
           /\ reads[Head(main).slot] \in AnyBoard \cup {Nil}
           /\ Head(main).found \in AnyBoard
           /\ Tail(main) \in Seq(Answer)
           /\ \A i \in DOMAIN Tail(main) : i + 1 \in DOMAIN main /\ Tail(main)[i] = main[i + 1]
           /\ \A i \in DOMAIN main : i # 1 /\ main[i].kind = "boards" => main[i].slot # Head(main).slot
<1>1. PICK p, q : p = main /\ q = Tail(p)
  OBVIOUS
<1>2. p # <<>> /\ p \in Seq(Answer) /\ Head(p).kind = "boards"
  BY <1>1 DEF Delivers, TypeOK
<1>3. /\ q \in Seq(Answer) /\ Head(p) = p[1] /\ 1 \in DOMAIN p /\ Head(p) \in Answer
      /\ \A i \in DOMAIN q : i + 1 \in DOMAIN p /\ q[i] = p[i + 1]
  BY <1>1, <1>2, FollowsTail
<1>4. Head(p).slot \in Slots /\ reads[Head(p).slot] # NoRead
  BY <1>1, <1>2, <1>3 DEF CallsOK
<1>5. \A i \in DOMAIN p : i # 1 /\ p[i].kind = "boards" => p[i].slot # Head(p).slot
  BY <1>1, <1>2, <1>3 DEF CallsOK
<1>6. reads[Head(p).slot] \in AnyBoard \cup {Nil} /\ Head(p).found \in AnyBoard
  BY <1>3, <1>4 DEF TypeOK, Answer
<1> QED
  BY <1>1, <1>2, <1>3, <1>4, <1>5, <1>6

LEMMA ChosenType ==
    ASSUME NEW c \in AnyBoard \cup {Nil}, NEW f \in AnyBoard, NEW x \in Chosen(c, f)
    PROVE  x \in AnyBoard /\ (c # Nil => x = c) /\ (c = Nil => x = 0 \/ x = f)
  BY NumbersAre DEF Chosen

LEMMA ComesBackType == \A v : ComesBack(v) \in BOOLEAN
  BY DEF ComesBack

LEMMA TypeStep == Base /\ [Next]_vars => TypeOK'
<1> SUFFICES ASSUME Base, [Next]_vars PROVE TypeOK'
  OBVIOUS
<1> USE NumbersAre
<1>1. TypeOK /\ CallsOK /\ EditorOK
  BY DEF Base
<1>2. ASSUME EditorMoves PROVE TypeOK'
  <2>1. EditorEffects
    BY <1>1, <1>2, EditorSteps
  <2>2. /\ doc' \in AnyBoard /\ writes' \in Seq(Write) /\ main' \in Seq(Answer)
        /\ uploads' \in Seq({"running", "done", "failed"})
        /\ reads' \in [Slots -> AnyBoard \cup {Nil, NoRead}]
        /\ listed' \in AnyBoard /\ covered' \in BOOLEAN /\ launching' \in BOOLEAN
        /\ newest' \in AnyBoard /\ refused' \in BOOLEAN
        /\ asking' \in BOOLEAN /\ picked' \in BOOLEAN /\ overlay' \in BOOLEAN
    BY <1>1, <2>1 DEF EditorEffects, TypeOK, Stays, Outcomes
  <2>3. screen' \in {"main", "add", "edit", "leaving"}
    BY <1>1, <2>1 DEF EditorEffects, TypeOK
  <2>4. editor' \in {"none", "up", "kept"} /\ mine' \in AnyBoard
    BY <1>1, <2>1 DEF EditorEffects, TypeOK, Parted
  <2>5. /\ shown' \in AnyBoard /\ saved' \in AnyBoard \cup {Nil} /\ cell' \in AnyBoard
        /\ told' \in AnyBoard /\ overtaken' \in BOOLEAN
    <3>1. CASE UNCHANGED <<shown, saved, cell, told, overtaken>>
      BY <1>1, <3>1 DEF TypeOK
    <3>2. CASE Tell(mine)
      BY <1>1, <3>2 DEF TypeOK, Tell
    <3> QED
      BY <2>1, <3>1, <3>2 DEF EditorEffects
  <2> QED
    BY <2>2, <2>3, <2>4, <2>5 DEF TypeOK
<1>3. ASSUME Appear PROVE TypeOK'
  <2>1. reads' \in [Slots -> AnyBoard \cup {Nil, NoRead}] /\ screen' = "main"
    BY <1>1, <1>3 DEF Appear, TypeOK
  <2> QED
    BY <1>1, <1>3, <2>1 DEF Appear, TypeOK, copyVars, coverVars, formVars, pastVars
<1>4. ASSUME NEW s \in Slots, BoardsAnswered(s) PROVE TypeOK'
  <2>1. PICK ok \in BOOLEAN, found \in {View, 0} :
            main' = Append(main, [kind |-> "boards", ok |-> ok, slot |-> s, found |-> found])
    BY <1>4 DEF BoardsAnswered
  <2>2. found \in AnyBoard
    BY <1>1, <2>1, ViewType
  <2>3. [kind |-> "boards", ok |-> ok, slot |-> s, found |-> found] \in Answer
    BY <2>2 DEF Answer
  <2>4. main' \in Seq(Answer)
    BY <1>1, <2>1, <2>3, AppendProperties DEF TypeOK
  <2> QED
    BY <1>1, <1>4, <2>4 DEF BoardsAnswered, TypeOK, copyVars, coverVars, formVars, pastVars
<1>5. ASSUME BoardsLoaded \/ BoardsFailed PROVE TypeOK'
  <2>1. PICK a : a = Head(main)
    OBVIOUS
  <2>2. /\ a.slot \in Slots /\ reads[a.slot] \in AnyBoard \cup {Nil} /\ a.found \in AnyBoard
        /\ Tail(main) \in Seq(Answer)
    BY <1>1, <1>5, <2>1, DeliveredIs DEF BoardsLoaded, BoardsFailed
  <2>3. /\ main' \in Seq(Answer) /\ reads' \in [Slots -> AnyBoard \cup {Nil, NoRead}]
    BY <1>1, <1>5, <2>1, <2>2 DEF BoardsLoaded, BoardsFailed, TypeOK
  <2>4. ASSUME BoardsLoaded
        PROVE  /\ shown' \in AnyBoard /\ saved' \in AnyBoard /\ overtaken' \in BOOLEAN
               /\ listed' \in AnyBoard /\ cell' \in AnyBoard /\ launching' = FALSE
               /\ UNCHANGED <<doc, writes, coverVars, screen, formVars, newest, told, refused>>
    <3>1. shown' \in AnyBoard
      <4>1. PICK c, f, x : c = reads[a.slot] /\ f = a.found /\ x = shown'
        OBVIOUS
      <4>2. x \in Chosen(c, f)
        BY <2>1, <2>4, <4>1 DEF BoardsLoaded
      <4> QED
        BY <2>2, <4>1, <4>2, ChosenType
    <3>2. listed' \in AnyBoard /\ cell \in AnyBoard
      BY <1>1, <2>1, <2>2, <2>4 DEF BoardsLoaded, TypeOK
    <3> QED
      BY <2>4, <3>1, <3>2, ComesBackType DEF BoardsLoaded
  <2>5. ASSUME BoardsFailed
        PROVE  /\ shown' = 0 /\ saved' = 0 /\ overtaken' = FALSE /\ launching' = FALSE
               /\ UNCHANGED <<doc, writes, listed, cell, coverVars, screen, formVars, newest, told,
                              refused>>
    BY <2>5 DEF BoardsFailed
  <2>6. CASE BoardsLoaded
    BY <1>1, <2>3, <2>4, <2>6 DEF TypeOK, coverVars, formVars
  <2>7. CASE BoardsFailed
    BY <1>1, <2>3, <2>5, <2>7 DEF TypeOK, coverVars, formVars
  <2> QED
    BY <1>5, <2>6, <2>7
<1>6. ASSUME NEW b \in AnyBoard, SelectBoard(b) PROVE TypeOK'
  BY <1>1, <1>6, ComesBackType DEF SelectBoard, TypeOK, storeVars, coverVars, formVars
<1>7. ASSUME OpenAdd \/ OpenEdit \/ Pick PROVE TypeOK'
  <2>1. UNCHANGED <<storeVars, copyVars, coverVars, overlay, launching, pastVars>>
    BY <1>7 DEF OpenAdd, OpenEdit, Pick, formVars
  <2>2. /\ screen' \in {"main", "add", "edit", "leaving"} /\ editor' \in {"none", "up", "kept"}
        /\ mine' \in AnyBoard /\ asking' \in BOOLEAN /\ picked' \in BOOLEAN
    BY <1>1, <1>7 DEF OpenAdd, OpenEdit, Pick, TypeOK, formVars
  <2> QED
    BY <1>1, <2>1, <2>2 DEF TypeOK, storeVars, copyVars, coverVars, pastVars
<1>8. ASSUME NEW v \in Versions, NEW op \in {"add", "edit"}, Enqueue(v, op)
      PROVE  writes' \in Seq(Write)
  <2>1. [v |-> v, op |-> op, heard |-> TRUE] \in Write
    BY DEF Write
  <2> QED
    BY <1>1, <1>8, <2>1, AppendProperties DEF Enqueue, TypeOK
<1>9. ASSUME CreateBoard PROVE TypeOK'
  <2>1. writes' \in Seq(Write) /\ newest' = 1 /\ overlay' \in BOOLEAN
    BY <1>8, <1>9 DEF CreateBoard
  <2> QED
    BY <1>1, <1>9, <2>1 DEF CreateBoard, TypeOK, copyVars, coverVars
<1>10. ASSUME NEW v \in Versions, SaveChanges(v) PROVE TypeOK'
  <2>1. writes' \in Seq(Write) /\ mine' = v
    BY <1>8, <1>10 DEF SaveChanges
  <2>2. newest' \in AnyBoard
    BY <1>1, <1>10 DEF SaveChanges, TypeOK
  <2> QED
    BY <1>1, <1>10, <2>1, <2>2 DEF SaveChanges, TypeOK, copyVars, coverVars
<1>11. ASSUME WriteSettled PROVE TypeOK'
  <2>1. PICK w : w = Head(writes)
    OBVIOUS
  <2>2. writes # <<>> /\ writes' = Tail(writes) /\ writes \in Seq(Write)
    BY <1>1, <1>11 DEF WriteSettled, TypeOK
  <2>3. w \in Write /\ writes' \in Seq(Write)
    BY <2>1, <2>2, HeadTailProperties
  <2>4. PICK ok \in BOOLEAN :
            /\ doc' = IF ok THEN w.v ELSE doc
            /\ refused' = (refused \/ (~ok /\ w.op = "add"))
            /\ main' = IF ~w.heard THEN main
                       ELSE Append(main, [kind |-> w.op, ok |-> ok, slot |-> Nil, found |-> 0])
    BY <1>11, <2>1 DEF WriteSettled
  <2>5. [kind |-> w.op, ok |-> ok, slot |-> Nil, found |-> 0] \in Answer
    BY <2>3 DEF Answer, Write
  <2>6. main' \in Seq(Answer)
    BY <1>1, <2>4, <2>5, AppendProperties DEF TypeOK
  <2>7. doc' \in AnyBoard /\ refused' \in BOOLEAN
    BY <1>1, <2>3, <2>4 DEF TypeOK, Write
  <2> QED
    BY <1>1, <1>11, <2>3, <2>6, <2>7 DEF WriteSettled, TypeOK, copyVars, coverVars, formVars
<1>12. ASSUME BoardCreated \/ Unheard PROVE TypeOK'
  <2>1. main # <<>> /\ main' = Tail(main) /\ main \in Seq(Answer)
    BY <1>1, <1>12 DEF BoardCreated, Unheard, Delivers, TypeOK
  <2>2. main' \in Seq(Answer) /\ Head(main) \in Answer
    BY <2>1, HeadTailProperties
  <2>3. <<"running">> \in Seq({"running", "done", "failed"})
    OBVIOUS
  <2>4. uploads' \in Seq({"running", "done", "failed"}) /\ covered' \in BOOLEAN
    BY <1>1, <1>12, <2>2, <2>3 DEF BoardCreated, Unheard, coverVars, TypeOK, Answer
  <2> QED
    BY <1>1, <1>12, <2>2, <2>4 DEF BoardCreated, Unheard, TypeOK, copyVars, coverVars, formVars, pastVars
<1>13. ASSUME NEW k \in DOMAIN uploads, UploadSettled(k) PROVE TypeOK'
  <2>1. PICK outcome \in {"done", "failed"} : uploads' = [uploads EXCEPT ![k] = outcome]
    BY <1>13 DEF UploadSettled
  <2>2. uploads' \in Seq({"running", "done", "failed"})
    BY <1>1, <1>13, <2>1, ExceptSeq DEF TypeOK
  <2> QED
    BY <1>1, <1>13, <2>2 DEF UploadSettled, TypeOK, storeVars, copyVars, formVars, pastVars
<1>14. ASSUME Relaunch PROVE TypeOK'
  <2>1. writes' \in Seq(Write)
    BY <1>1, <1>14, NobodyHearsIs DEF Relaunch, TypeOK
  <2>2. reads' \in [Slots -> AnyBoard \cup {Nil, NoRead}]
    BY <1>1, <1>14 DEF Relaunch, TypeOK
  <2>3. /\ main' \in Seq(Answer) /\ uploads' \in Seq({"running", "done", "failed"})
        /\ shown' = 0 /\ listed' = 0 /\ cell' = 0 /\ covered' = TRUE /\ screen' = "main"
        /\ editor' = "none" /\ mine' = 0 /\ asking' = FALSE /\ picked' = FALSE /\ overlay' = FALSE
        /\ launching' = TRUE
        /\ UNCHANGED <<doc, saved, newest, told, refused, overtaken>>
    BY <1>14 DEF Relaunch, NewForm, pastVars
  <2> QED
    BY <1>1, <2>1, <2>2, <2>3 DEF TypeOK
<1>15. ASSUME UNCHANGED vars PROVE TypeOK'
  BY <1>1, <1>15 DEF vars, TypeOK, storeVars, copyVars, coverVars, formVars, pastVars
<1> QED
  BY <1>2, <1>3, <1>4, <1>5, <1>6, <1>7, <1>9, <1>10, <1>11, <1>12, <1>13, <1>14, <1>15
     DEF Next, User, MainQueue, EditorMoves

\* The server's decision about the oldest write.
LEMMA SettledIs ==
    ASSUME TypeOK, WriteSettled
    PROVE  \E w \in Write, ok \in BOOLEAN :
               /\ 1 \in DOMAIN writes /\ w = writes[1]
               /\ writes' \in Seq(Write)
               /\ \A i \in DOMAIN writes' : i + 1 \in DOMAIN writes /\ writes'[i] = writes[i + 1]
               /\ ok => doc # 0 \/ w.op = "add"
               /\ doc' = IF ok THEN w.v ELSE doc
               /\ refused' = (refused \/ (~ok /\ w.op = "add"))
               /\ LET a == [kind |-> w.op, ok |-> ok, slot |-> Nil, found |-> 0]
                  IN  a \in Answer /\ main' = IF ~w.heard THEN main ELSE Append(main, a)
<1>1. PICK queued, w : queued = writes /\ w = Head(queued)
  OBVIOUS
<1>2. queued # <<>> /\ writes' = Tail(queued) /\ queued \in Seq(Write)
  BY <1>1 DEF WriteSettled, TypeOK
<1>3. /\ w = queued[1] /\ 1 \in DOMAIN queued /\ w \in Write
      /\ Tail(queued) \in Seq(Write)
      /\ \A i \in DOMAIN Tail(queued) : i + 1 \in DOMAIN queued /\ Tail(queued)[i] = queued[i + 1]
  <2>1. w = queued[1] /\ 1 \in DOMAIN queued
    BY <1>1, <1>2, HeadTailProperties, EmptySeq, LenProperties
  <2> QED
    BY <1>2, <2>1, ElementOfSeq, TailElements
<1>4. PICK ok \in BOOLEAN :
          /\ ok => doc # 0 \/ w.op = "add"
          /\ doc' = IF ok THEN w.v ELSE doc
          /\ refused' = (refused \/ (~ok /\ w.op = "add"))
          /\ main' = IF ~w.heard THEN main
                     ELSE Append(main, [kind |-> w.op, ok |-> ok, slot |-> Nil, found |-> 0])
  BY <1>1 DEF WriteSettled
<1>5. [kind |-> w.op, ok |-> ok, slot |-> Nil, found |-> 0] \in Answer
  BY <1>3, NumbersAre DEF Answer, Write
<1> QED
  BY <1>1, <1>2, <1>3, <1>4, <1>5

\* The load is answered with the device's view of the moment.
LEMMA AnsweredIs ==
    ASSUME TypeOK, NEW s \in Slots, BoardsAnswered(s)
    PROVE  \E a \in Answer :
               /\ main' = Append(main, a)
               /\ a.kind = "boards" /\ a.slot = s /\ a.found = IF a.ok THEN View ELSE 0
<1>1. PICK ok \in BOOLEAN, found \in {View, 0} :
          /\ found = IF ok THEN View ELSE 0
          /\ main' = Append(main, [kind |-> "boards", ok |-> ok, slot |-> s, found |-> found])
  BY DEF BoardsAnswered
<1>2. found \in AnyBoard
  BY <1>1, ViewType, NumbersAre
<1>3. [kind |-> "boards", ok |-> ok, slot |-> s, found |-> found] \in Answer
  BY <1>2 DEF Answer
<1> QED
  BY <1>1, <1>3

LEMMA CallsStep == Base /\ [Next]_vars => CallsOK'
<1> SUFFICES ASSUME Base, [Next]_vars PROVE CallsOK'
  OBVIOUS
<1>1. TypeOK /\ CallsOK /\ EditorOK
  BY DEF Base
<1>2. PICK p : p = main
  OBVIOUS
<1>3. p \in Seq(Answer) /\ DOMAIN p = 1..Len(p) /\ Len(p) \in Nat
  BY <1>1, <1>2, LenProperties DEF TypeOK
<1>4. /\ \A i \in DOMAIN p :
             p[i].kind = "boards" => p[i].slot \in Slots /\ reads[p[i].slot] # NoRead
      /\ \A i, j \in DOMAIN p :
             p[i].kind = "boards" /\ p[j].kind = "boards" /\ p[i].slot = p[j].slot => i = j
  BY <1>1, <1>2 DEF CallsOK
<1>5. ASSUME NEW q \in Seq(Answer), main' = q, Follows(q, p), reads' = reads PROVE CallsOK'
  <2>1. PICK k \in {0, 1} : \A i \in DOMAIN q :
            /\ i + k \in DOMAIN p
            /\ q[i].slot = p[i + k].slot
            /\ q[i].kind = p[i + k].kind \/ (p[i + k].kind = "edit" /\ q[i].kind = "gone")
    BY <1>5 DEF Follows
  <2>2. DOMAIN q \subseteq Nat
    BY <1>5, LenProperties
  <2>3. \A i \in DOMAIN q : q[i].kind = "boards" => p[i + k].kind = "boards"
    BY <2>1
  <2>4. \A i \in DOMAIN q : q[i].kind = "boards" => q[i].slot \in Slots /\ reads[q[i].slot] # NoRead
    BY <1>4, <2>1, <2>3
  <2>5. ASSUME NEW i \in DOMAIN q, NEW j \in DOMAIN q,
               q[i].kind = "boards", q[j].kind = "boards", q[i].slot = q[j].slot
        PROVE  i = j
    <3>1. i + k = j + k
      BY <1>4, <2>1, <2>3, <2>5
    <3> QED
      BY <2>2, <3>1
  <2> QED
    BY <1>5, <2>4, <2>5 DEF CallsOK
<1>6. ASSUME UNCHANGED <<main, reads>> PROVE CallsOK'
  BY <1>1, <1>6 DEF CallsOK
<1>7. ASSUME EditorMoves PROVE CallsOK'
  BY <1>1, <1>2, <1>5, <1>7, EditorSteps DEF EditorEffects
<1>8. ASSUME Appear PROVE CallsOK'
  <2>1. PICK s \in Slots : reads[s] = NoRead /\ reads' = [reads EXCEPT ![s] = saved]
    BY <1>8 DEF Appear
  <2>2. \A t \in Slots : reads[t] # NoRead => reads'[t] = reads[t]
    BY <1>1, <2>1 DEF TypeOK
  <2>3. main' = p
    BY <1>2, <1>8 DEF Appear
  <2> QED
    BY <1>4, <2>2, <2>3 DEF CallsOK
<1>9. ASSUME NEW s \in Slots, BoardsAnswered(s) PROVE CallsOK'
  <2>1. PICK a \in Answer : main' = Append(p, a) /\ a.kind = "boards" /\ a.slot = s
    BY <1>1, <1>2, <1>9, AnsweredIs
  <2>2. PICK q : q = Append(p, a)
    OBVIOUS
  <2>3. /\ q[Len(p) + 1] = a /\ \A i \in DOMAIN p : q[i] = p[i]
        /\ \A i \in DOMAIN q : i \in DOMAIN p \/ (i \notin DOMAIN p /\ i = Len(p) + 1)
    BY <1>3, <2>2, Appended
  <2>4. reads' = reads /\ reads[s] # NoRead /\ \A i \in DOMAIN p : p[i].slot # s
    BY <1>2, <1>9 DEF BoardsAnswered
  <2>5. \A i \in DOMAIN q : q[i].kind = "boards" => q[i].slot \in Slots /\ reads[q[i].slot] # NoRead
    BY <1>4, <2>1, <2>3, <2>4
  <2>6. \A i, j \in DOMAIN q :
            q[i].kind = "boards" /\ q[j].kind = "boards" /\ q[i].slot = q[j].slot => i = j
    BY <1>4, <2>1, <2>3, <2>4
  <2> QED
    BY <2>1, <2>2, <2>4, <2>5, <2>6 DEF CallsOK
<1>10. ASSUME BoardsLoaded \/ BoardsFailed PROVE CallsOK'
  <2>1. PICK a, q : a = Head(p) /\ q = Tail(p)
    OBVIOUS
  <2>2. /\ a.slot \in Slots
        /\ \A i \in DOMAIN q : i + 1 \in DOMAIN p /\ q[i] = p[i + 1]
        /\ \A i \in DOMAIN p : i # 1 /\ p[i].kind = "boards" => p[i].slot # a.slot
    BY <1>1, <1>2, <1>10, <2>1, DeliveredIs DEF BoardsLoaded, BoardsFailed
  <2>3. main' = q /\ reads' = [reads EXCEPT ![a.slot] = NoRead]
    BY <1>2, <1>10, <2>1 DEF BoardsLoaded, BoardsFailed
  <2>4. \A t \in Slots : t # a.slot => reads'[t] = reads[t]
    BY <1>1, <2>3 DEF TypeOK
  <2>5. \A i \in DOMAIN q : i \in Nat \ {0}
    BY <1>3, <2>1, LenProperties, TailElements
  <2>6. \A i \in DOMAIN q : q[i].kind = "boards" => q[i].slot \in Slots /\ reads'[q[i].slot] # NoRead
    <3> SUFFICES ASSUME NEW i \in DOMAIN q, q[i].kind = "boards"
                 PROVE  q[i].slot \in Slots /\ reads'[q[i].slot] # NoRead
      OBVIOUS
    <3>1. i + 1 \in DOMAIN p /\ i + 1 # 1 /\ q[i] = p[i + 1]
      BY <2>2, <2>5
    <3>2. q[i].slot # a.slot /\ q[i].slot \in Slots /\ reads[q[i].slot] # NoRead
      BY <1>4, <2>2, <3>1
    <3> QED
      BY <2>4, <3>2
  <2>7. ASSUME NEW i \in DOMAIN q, NEW j \in DOMAIN q,
               q[i].kind = "boards", q[j].kind = "boards", q[i].slot = q[j].slot
        PROVE  i = j
    <3>1. i + 1 = j + 1
      BY <1>4, <2>2, <2>7
    <3> QED
      BY <2>5, <3>1
  <2> QED
    BY <2>3, <2>6, <2>7 DEF CallsOK
<1>11. ASSUME WriteSettled PROVE CallsOK'
  <2>1. PICK w \in Write, a \in Answer :
            a.kind = w.op /\ main' = IF ~w.heard THEN p ELSE Append(p, a)
    <3>1. PICK w \in Write, ok \in BOOLEAN :
              LET a == [kind |-> w.op, ok |-> ok, slot |-> Nil, found |-> 0]
              IN  a \in Answer /\ main' = IF ~w.heard THEN main ELSE Append(main, a)
      BY <1>1, <1>11, SettledIs
    <3> QED
      BY <1>2, <3>1
  <2>2. reads' = reads /\ a.kind # "boards"
    BY <1>11, <2>1 DEF WriteSettled, Write
  <2>3. CASE ~w.heard
    BY <1>2, <1>6, <2>1, <2>2, <2>3
  <2>4. CASE w.heard
    <3>1. PICK q : q = Append(p, a)
      OBVIOUS
    <3>2. /\ q[Len(p) + 1] = a /\ \A i \in DOMAIN p : q[i] = p[i]
          /\ \A i \in DOMAIN q : i \in DOMAIN p \/ (i \notin DOMAIN p /\ i = Len(p) + 1)
      BY <1>3, <3>1, Appended
    <3>3. main' = q
      BY <2>1, <2>4, <3>1
    <3>4. \A i \in DOMAIN q : q[i].kind = "boards" => i \in DOMAIN p /\ q[i] = p[i]
      BY <2>2, <3>2
    <3> QED
      BY <1>4, <2>2, <3>3, <3>4 DEF CallsOK
  <2> QED
    BY <2>3, <2>4
<1>12. ASSUME BoardCreated \/ Unheard PROVE CallsOK'
  <2>1. p # <<>> /\ main' = Tail(p) /\ reads' = reads
    BY <1>2, <1>12 DEF BoardCreated, Unheard, Delivers
  <2>2. PICK q : q = Tail(p)
    OBVIOUS
  <2> QED
    BY <1>3, <1>5, <2>1, <2>2, FollowsTail
<1>13. ASSUME Relaunch PROVE CallsOK'
  BY <1>13 DEF Relaunch, CallsOK
<1>14. ASSUME NEW b \in AnyBoard, SelectBoard(b) PROVE CallsOK'
  BY <1>6, <1>14 DEF SelectBoard, storeVars
<1>15. ASSUME NEW v \in Versions, SaveChanges(v) PROVE CallsOK'
  BY <1>6, <1>15 DEF SaveChanges
<1>16. ASSUME NEW k \in DOMAIN uploads, UploadSettled(k) PROVE CallsOK'
  BY <1>6, <1>16 DEF UploadSettled, storeVars
<1>17. ASSUME OpenAdd \/ OpenEdit \/ Pick \/ CreateBoard \/ UNCHANGED vars PROVE CallsOK'
  BY <1>6, <1>17 DEF OpenAdd, OpenEdit, Pick, CreateBoard, vars, storeVars
<1> QED
  BY <1>7, <1>8, <1>9, <1>10, <1>11, <1>12, <1>13, <1>14, <1>15, <1>16, <1>17
     DEF Next, User, MainQueue, EditorMoves

LEMMA EditorStep == Base /\ PastOK /\ [Next]_vars => EditorOK'
<1> SUFFICES ASSUME Base, PastOK, [Next]_vars PROVE EditorOK'
  OBVIOUS
<1>1. TypeOK /\ CallsOK /\ EditorOK
  BY DEF Base
<1>2. PICK p : p = main
  OBVIOUS
<1>3. /\ p \in Seq(Answer) /\ writes \in Seq(Write)
      /\ \A i \in DOMAIN p : p[i].kind = "edit" => editor # "none"
  BY <1>1, <1>2 DEF TypeOK, EditorOK
\* The screens and the editor stay, and nothing is added to what is heard.
<1>4. ASSUME UNCHANGED <<uploads, screen, editor, asking>>,
             \A i \in DOMAIN main' : main'[i].kind = "edit" => editor # "none",
             \A i \in DOMAIN writes' : writes'[i].op = "edit" /\ writes'[i].heard => editor # "none"
      PROVE  EditorOK'
  BY <1>1, <1>4 DEF EditorOK
<1>5. ASSUME UNCHANGED <<main, writes>>
      PROVE  /\ \A i \in DOMAIN main' : main'[i].kind = "edit" => editor # "none"
             /\ \A i \in DOMAIN writes' : writes'[i].op = "edit" /\ writes'[i].heard => editor # "none"
  BY <1>1, <1>5 DEF EditorOK
<1>6. ASSUME EditorMoves PROVE EditorOK'
  <2>1. EditorEffects
    BY <1>1, <1>6, EditorSteps
  <2>2. \A i \in DOMAIN main' : main'[i].kind = "edit" => editor # "none"
    BY <1>2, <1>3, <2>1 DEF EditorEffects, Follows
  <2>3. \A i \in DOMAIN writes' : writes'[i].op = "edit" /\ writes'[i].heard => editor # "none"
    BY <1>1, <2>1 DEF EditorEffects, Stays, EditorOK
  <2>4. uploads' # <<>> => screen = "add" \/ editor # "none"
    BY <1>1, <2>1 DEF EditorEffects, EditorOK
  <2>5. /\ asking' => editor # "none"
        /\ screen' = "add" => screen = "add" /\ editor = "none"
        /\ screen' = "edit" => screen = "edit" /\ editor = "up"
    BY <1>1, <2>1 DEF EditorEffects, EditorOK
  <2>6. CASE UNCHANGED <<editor, mine, screen>>
    BY <2>2, <2>3, <2>4, <2>5, <2>6 DEF EditorOK
  <2>7. CASE editor # "none" /\ editor' = "kept" /\ mine' = mine /\ screen' # "edit"
    BY <2>2, <2>3, <2>4, <2>5, <2>7 DEF EditorOK
  <2>8. CASE screen' # "edit" /\ asking' = FALSE /\ Parted(editor', main', writes', uploads')
    BY <2>8 DEF EditorOK, Parted
  <2> QED
    BY <2>1, <2>6, <2>7, <2>8 DEF EditorEffects
<1>7. ASSUME NEW s \in Slots, BoardsAnswered(s) PROVE EditorOK'
  <2>1. PICK a \in Answer : main' = Append(p, a) /\ a.kind = "boards"
    BY <1>1, <1>2, <1>7, AnsweredIs
  <2>2. PICK q : q = Append(p, a)
    OBVIOUS
  <2>3. \A i \in DOMAIN q : q[i] = a \/ (i \in DOMAIN p /\ q[i] = p[i])
    BY <1>3, <2>2, Appended
  <2>4. \A i \in DOMAIN main' : main'[i].kind = "edit" => editor # "none"
    BY <1>3, <2>1, <2>2, <2>3
  <2>5. UNCHANGED <<writes, uploads, screen, editor, asking>>
    BY <1>7 DEF BoardsAnswered, coverVars, formVars
  <2> QED
    BY <1>1, <1>4, <2>4, <2>5 DEF EditorOK
<1>8. ASSUME BoardsLoaded \/ BoardsFailed \/ BoardCreated \/ Unheard PROVE EditorOK'
  <2>1. p # <<>> /\ main' = Tail(p) /\ UNCHANGED <<writes, screen, editor, asking>>
    BY <1>2, <1>8 DEF BoardsLoaded, BoardsFailed, BoardCreated, Unheard, Delivers, formVars
  <2>2. PICK q : q = Tail(p)
    OBVIOUS
  <2>3. \A i \in DOMAIN q : i + 1 \in DOMAIN p /\ q[i] = p[i + 1]
    BY <1>3, <2>1, <2>2, FollowsTail
  <2>4. \A i \in DOMAIN main' : main'[i].kind = "edit" => editor # "none"
    BY <1>3, <2>1, <2>2, <2>3
  <2>5. uploads' = uploads \/ screen = "add"
    BY <1>8 DEF BoardsLoaded, BoardsFailed, BoardCreated, Unheard, coverVars
  <2> QED
    BY <1>1, <2>1, <2>4, <2>5 DEF EditorOK
<1>9. ASSUME WriteSettled PROVE EditorOK'
  <2>1. PICK w \in Write, a \in Answer :
            /\ 1 \in DOMAIN writes /\ w = writes[1] /\ a.kind = w.op
            /\ main' = IF ~w.heard THEN p ELSE Append(p, a)
            /\ \A i \in DOMAIN writes' : i + 1 \in DOMAIN writes /\ writes'[i] = writes[i + 1]
    <3>1. PICK w \in Write, ok \in BOOLEAN :
              /\ 1 \in DOMAIN writes /\ w = writes[1]
              /\ \A i \in DOMAIN writes' : i + 1 \in DOMAIN writes /\ writes'[i] = writes[i + 1]
              /\ LET a == [kind |-> w.op, ok |-> ok, slot |-> Nil, found |-> 0]
                 IN  a \in Answer /\ main' = IF ~w.heard THEN main ELSE Append(main, a)
      BY <1>1, <1>9, SettledIs
    <3>2. PICK a \in Answer : /\ a = [kind |-> w.op, ok |-> ok, slot |-> Nil, found |-> 0]
                              /\ main' = IF ~w.heard THEN main ELSE Append(main, a)
      BY <3>1
    <3>3. a.kind = w.op
      BY <3>2
    <3> HIDE DEF WriteSettled
    <3> QED
      BY <1>2, <3>1, <3>2, <3>3
  <2>2. PICK q : q = Append(p, a)
    OBVIOUS
  <2>3. \A i \in DOMAIN q : q[i] = a \/ (i \in DOMAIN p /\ q[i] = p[i])
    BY <1>3, <2>2, Appended
  <2>4. a.kind = "edit" /\ w.heard => editor # "none"
    BY <1>1, <2>1 DEF EditorOK
  <2>5. \A i \in DOMAIN main' : main'[i].kind = "edit" => editor # "none"
    BY <1>3, <2>1, <2>2, <2>3, <2>4
  <2>6. \A i \in DOMAIN writes' : writes'[i].op = "edit" /\ writes'[i].heard => editor # "none"
    BY <1>1, <2>1 DEF EditorOK
  <2>7. UNCHANGED <<uploads, screen, editor, asking>>
    BY <1>9 DEF WriteSettled, coverVars, formVars
  <2> QED
    BY <1>4, <2>5, <2>6, <2>7
<1>10. ASSUME NEW v \in Versions, NEW op \in {"add", "edit"}, Enqueue(v, op),
              op = "edit" => editor # "none"
       PROVE  \A i \in DOMAIN writes' : writes'[i].op = "edit" /\ writes'[i].heard => editor # "none"
  <2>1. PICK e : e = [v |-> v, op |-> op, heard |-> TRUE]
    OBVIOUS
  <2>2. e \in Write /\ e.op = op /\ writes' = Append(writes, e)
    BY <1>10, <2>1 DEF Write, Enqueue
  <2>3. PICK queued : queued = Append(writes, e)
    OBVIOUS
  <2>4. \A i \in DOMAIN queued : queued[i] = e \/ (i \in DOMAIN writes /\ queued[i] = writes[i])
    BY <1>3, <2>2, <2>3, Appended
  <2> QED
    BY <1>1, <1>10, <2>2, <2>3, <2>4 DEF EditorOK
<1>11. ASSUME CreateBoard PROVE EditorOK'
  <2>1. 1 \in Versions /\ Enqueue(1, "add") /\ UNCHANGED <<main, uploads, screen, editor, asking>>
    BY <1>11, NumbersAre DEF CreateBoard, coverVars
  <2>2. \A i \in DOMAIN writes' : writes'[i].op = "edit" /\ writes'[i].heard => editor # "none"
    BY <1>10, <2>1
  <2> QED
    BY <1>2, <1>3, <1>4, <2>1, <2>2
<1>12. ASSUME NEW v \in Versions, SaveChanges(v) PROVE EditorOK'
  <2>1. /\ Enqueue(v, "edit") /\ screen = "edit"
        /\ UNCHANGED <<main, uploads, screen, editor, asking>>
    BY <1>12 DEF SaveChanges, coverVars
  <2>2. editor # "none"
    BY <1>1, <2>1 DEF EditorOK
  <2>3. \A i \in DOMAIN writes' : writes'[i].op = "edit" /\ writes'[i].heard => editor # "none"
    BY <1>10, <2>1, <2>2
  <2> QED
    BY <1>2, <1>3, <1>4, <2>1, <2>3
<1>13. ASSUME OpenAdd PROVE EditorOK'
  <2>1. /\ editor = "none" /\ screen' = "add"
        /\ UNCHANGED <<main, writes, uploads, editor, asking>>
    BY <1>13 DEF OpenAdd, PastOK, storeVars, coverVars, formVars
  <2> QED
    BY <1>1, <1>5, <2>1 DEF EditorOK
<1>14. ASSUME OpenEdit PROVE EditorOK'
  BY <1>14 DEF OpenEdit, EditorOK
<1>15. ASSUME Appear PROVE EditorOK'
  BY <1>1, <1>15 DEF Appear, EditorOK, coverVars, formVars
<1>16. ASSUME NEW k \in DOMAIN uploads, UploadSettled(k) PROVE EditorOK'
  <2>1. uploads # <<>> /\ UNCHANGED <<main, writes, screen, editor, asking>>
    BY <1>16 DEF UploadSettled, storeVars, formVars
  <2> QED
    BY <1>1, <1>5, <2>1 DEF EditorOK
<1>17. ASSUME Relaunch PROVE EditorOK'
  <2>1. PICK queued : queued = NobodyHears({"add", "edit"})
    OBVIOUS
  <2>2. DOMAIN queued = DOMAIN writes /\ \A i \in DOMAIN queued : queued[i].op = "edit" => ~queued[i].heard
    BY <1>3, <2>1, NobodyHearsIs
  <2>3. writes' = queued /\ main' = <<>> /\ uploads' = <<>> /\ screen' = "main" /\ asking' = FALSE
    BY <1>17, <2>1 DEF Relaunch, NewForm
  <2> QED
    BY <2>2, <2>3 DEF EditorOK
<1>18. ASSUME NEW b \in AnyBoard, SelectBoard(b) PROVE EditorOK'
  BY <1>4, <1>5, <1>18 DEF SelectBoard, storeVars, coverVars, formVars
<1>19. ASSUME Pick \/ UNCHANGED vars PROVE EditorOK'
  BY <1>4, <1>5, <1>19 DEF Pick, vars, storeVars, coverVars, formVars
<1> QED
  BY <1>6, <1>7, <1>8, <1>9, <1>11, <1>12, <1>13, <1>14, <1>15, <1>16, <1>17, <1>18, <1>19
     DEF Next, User, MainQueue, EditorMoves

LEMMA LaunchStep == Base /\ LaunchOK /\ [Next]_vars => LaunchOK'
<1> SUFFICES ASSUME Base, LaunchOK, [Next]_vars PROVE LaunchOK'
  OBVIOUS
<1>1. TypeOK /\ CallsOK /\ EditorOK
  BY DEF Base
<1>2. ASSUME UNCHANGED <<launching, reads, screen, editor, shown, cell, saved>> PROVE LaunchOK'
  BY <1>2 DEF LaunchOK
<1>3. ASSUME launching' = FALSE, saved' = shown' PROVE LaunchOK'
  BY <1>3 DEF LaunchOK
<1>4. ASSUME EditorMoves PROVE LaunchOK'
  <2>1. EditorEffects
    BY <1>1, <1>4, EditorSteps
  <2>2. CASE launching
    <3>1. editor = "none" /\ screen = "main"
      BY <2>2 DEF LaunchOK
    <3>2. UNCHANGED <<launching, reads, screen, editor, shown, cell, saved>>
      BY <2>1, <3>1 DEF EditorEffects, Parted
    <3> QED
      BY <1>2, <3>2
  <2>3. CASE ~launching
    <3>1. saved = shown /\ launching' = FALSE
      BY <1>1, <2>1, <2>3 DEF LaunchOK, EditorEffects, TypeOK
    <3>2. saved' = shown'
      BY <2>1, <3>1 DEF EditorEffects, Tell
    <3> QED
      BY <1>3, <3>1, <3>2
  <2> QED
    BY <2>2, <2>3
<1>5. ASSUME Relaunch PROVE LaunchOK'
  <2>1. PICK s \in Slots : reads' = [t \in Slots |-> IF t = s THEN saved ELSE NoRead]
    BY <1>5 DEF Relaunch
  <2>2. saved # NoRead
    BY <1>1, NumbersAre DEF TypeOK
  <2>3. \E t \in Slots : reads'[t] # NoRead
    BY <2>1, <2>2
  <2> QED
    BY <1>5, <2>3 DEF Relaunch, NewForm, LaunchOK
<1>6. ASSUME Appear \/ OpenAdd \/ OpenEdit \/ (\E b \in AnyBoard : SelectBoard(b)) PROVE LaunchOK'
  <2>1. launching' = launching /\ ~launching /\ launching \in BOOLEAN
    BY <1>1, <1>6 DEF Appear, OpenAdd, OpenEdit, SelectBoard, OnMain, LaunchOK, TypeOK
  <2>2. saved = shown
    BY <2>1 DEF LaunchOK
  <2>3. saved' = shown'
    BY <1>6, <2>2 DEF Appear, OpenAdd, OpenEdit, SelectBoard, copyVars
  <2> QED
    BY <1>3, <2>1, <2>3
<1>7. ASSUME BoardsLoaded \/ BoardsFailed PROVE LaunchOK'
  BY <1>3, <1>7 DEF BoardsLoaded, BoardsFailed
<1>8. ASSUME NEW s \in Slots, BoardsAnswered(s) PROVE LaunchOK'
  BY <1>2, <1>8 DEF BoardsAnswered, copyVars, formVars
<1>9. ASSUME NEW v \in Versions, SaveChanges(v) PROVE LaunchOK'
  BY <1>2, <1>9 DEF SaveChanges, copyVars
<1>10. ASSUME NEW k \in DOMAIN uploads, UploadSettled(k) PROVE LaunchOK'
  BY <1>2, <1>10 DEF UploadSettled, storeVars, copyVars, formVars
<1>11. ASSUME CreateBoard \/ Pick \/ WriteSettled \/ BoardCreated \/ Unheard \/ UNCHANGED vars
       PROVE  LaunchOK'
  BY <1>2, <1>11 DEF CreateBoard, Pick, WriteSettled, BoardCreated, Unheard, vars, storeVars, copyVars,
                     formVars
<1> QED
  BY <1>4, <1>5, <1>6, <1>7, <1>8, <1>9, <1>10, <1>11
     DEF Next, User, MainQueue, EditorMoves

\* A write more, of version v.
LEMMA EnqueueIs ==
    ASSUME writes \in Seq(Write), NEW v \in Versions, NEW op \in {"add", "edit"}, Enqueue(v, op)
    PROVE  /\ writes' \in Seq(Write) /\ Len(writes) \in Nat /\ DOMAIN writes = 1..Len(writes)
           /\ DOMAIN writes' = 1..(Len(writes) + 1)
           /\ writes'[Len(writes) + 1] = [v |-> v, op |-> op, heard |-> TRUE]
           /\ writes'[Len(writes) + 1].v = v /\ writes'[Len(writes) + 1].op = op
           /\ writes'[Len(writes) + 1].heard
           /\ \A i \in DOMAIN writes : i \in DOMAIN writes' /\ writes'[i] = writes[i]
           /\ \A i \in DOMAIN writes' : i \in DOMAIN writes \/ i = Len(writes) + 1
<1>1. PICK e, queued : e = [v |-> v, op |-> op, heard |-> TRUE] /\ queued = Append(writes, e)
  OBVIOUS
<1>2. e \in Write /\ e.v = v /\ e.op = op /\ e.heard
  BY <1>1 DEF Write
<1>3. writes' = queued
  BY <1>1 DEF Enqueue
<1> QED
  BY <1>1, <1>2, <1>3, Appended

LEMMA ViewPast == TypeOK /\ PastOK => View \in Past
  BY LastWrite DEF TypeOK, PastOK, View

LEMMA InitLaunch == Init => LaunchOK /\ PastOK
<1> SUFFICES ASSUME Init PROVE LaunchOK /\ PastOK
  OBVIOUS
<1>1. PICK s \in Slots : reads = [t \in Slots |-> IF t = s THEN saved ELSE NoRead]
  BY DEF Init
<1>2. saved # NoRead /\ NoRead \notin {0, 1}
  BY NumbersAre, InitBase DEF Base, TypeOK, AnyBoard, Versions
<1>3. reads[s] # NoRead
  BY <1>1, <1>2
<1>4. LaunchOK
  BY <1>3 DEF Init, LaunchOK
<1>5. doc \in {0, 1} /\ newest = doc /\ saved \in {0, doc, Nil}
  BY DEF Init
<1>6. \A t \in Slots : reads[t] \in Past \cup {Nil, NoRead}
  BY <1>1, <1>5 DEF Past
<1>7. PastOK
  BY <1>5, <1>6 DEF Init, PastOK, Past
<1> QED
  BY <1>4, <1>7

LEMMA PastStep == Base /\ PastOK /\ [Next]_vars => PastOK' /\ newest' \in Nat /\ newest <= newest'
<1> SUFFICES ASSUME Base, PastOK, [Next]_vars PROVE PastOK' /\ newest' \in Nat /\ newest <= newest'
  OBVIOUS
<1>1. TypeOK /\ CallsOK /\ EditorOK
  BY DEF Base
<1>2. PICK p : p = main
  OBVIOUS
<1>3. /\ p \in Seq(Answer) /\ writes \in Seq(Write) /\ newest \in Nat
      /\ \A i \in DOMAIN p : p[i].found \in Past
  BY <1>1, <1>2, NumbersAre DEF TypeOK, PastOK
<1>4. \A a, b : b = a /\ a \in Nat => b \in Nat /\ a <= b
  OBVIOUS
\* The versions stay, and nothing but what is known gets around.
<1>5. ASSUME newest' = newest,
             /\ doc' \in Past /\ told' \in Past /\ shown' \in Past /\ listed' \in Past /\ cell' \in Past
             /\ mine' \in Past
             /\ saved' \in Past \cup {Nil}
             /\ \A s \in Slots : reads'[s] \in Past \cup {Nil, NoRead}
             /\ \A i \in DOMAIN main' : main'[i].found \in Past
             /\ \A i \in DOMAIN writes' : writes'[i].v \in Past
             /\ newest = 0 => writes' = <<>> /\ editor' = "none"
             /\ editor' # "none" => mine' # 0
             /\ cell' = 0 <=> listed' = 0
             /\ \A i \in DOMAIN writes' : i # 1 => writes'[i].op = "edit"
      PROVE  PastOK' /\ newest' \in Nat /\ newest <= newest'
  <2>1. PastOK'
    BY <1>5 DEF PastOK, Past
  <2> QED
    BY <1>3, <1>4, <1>5, <2>1
<1>6. ASSUME EditorMoves PROVE PastOK' /\ newest' \in Nat /\ newest <= newest'
  <2>1. EditorEffects
    BY <1>1, <1>6, EditorSteps
  <2>2. newest' = newest /\ doc' = doc /\ listed' = listed /\ reads' = reads
    BY <2>1 DEF EditorEffects, Stays
  <2>3. \A i \in DOMAIN main' : main'[i].found \in Past
    BY <1>2, <1>3, <2>1 DEF EditorEffects, Follows
  <2>4. /\ DOMAIN writes' = DOMAIN writes
        /\ \A i \in DOMAIN writes' : writes'[i].v \in Past
        /\ \A i \in DOMAIN writes' : i # 1 => writes'[i].op = "edit"
    BY <2>1 DEF EditorEffects, Stays, PastOK
  <2>5. /\ mine' \in Past /\ (editor' # "none" => mine' # 0)
        /\ newest = 0 => editor' = "none"
    <3>1. 0 \in Past
      BY <1>3 DEF Past
    <3> QED
      BY <2>1, <3>1 DEF EditorEffects, Parted, PastOK
  <2>6. /\ shown' \in Past /\ saved' \in Past \cup {Nil} /\ told' \in Past /\ cell' \in Past
        /\ (cell' = 0 <=> listed = 0)
    <3>1. CASE UNCHANGED <<shown, saved, cell, told, overtaken>>
      BY <3>1 DEF PastOK
    <3>2. CASE editor # "none" /\ Tell(mine)
      <4>1. mine # 0 /\ mine \in Past
        BY <3>2 DEF PastOK
      <4> QED
        BY <3>2, <4>1 DEF Tell, PastOK
    <3> QED
      BY <2>1, <3>1, <3>2 DEF EditorEffects
  <2>7. newest = 0 => writes' = <<>>
    <3>1. writes' \in Seq(Write) /\ (newest = 0 => DOMAIN writes' = {})
      BY <2>1, <2>4 DEF EditorEffects, Stays, PastOK
    <3> QED
      BY <3>1, EmptySeq, LenProperties
  <2> QED
    BY <1>5, <2>2, <2>3, <2>4, <2>5, <2>6, <2>7 DEF PastOK
<1>7. ASSUME Appear PROVE PastOK' /\ newest' \in Nat /\ newest <= newest'
  <2>1. PICK s \in Slots : reads' = [reads EXCEPT ![s] = saved]
    BY <1>7 DEF Appear
  <2>2. \A t \in Slots : reads'[t] \in Past \cup {Nil, NoRead}
    BY <1>1, <2>1 DEF PastOK, TypeOK
  <2>3. UNCHANGED <<doc, writes, main, copyVars, formVars, pastVars>>
    BY <1>7 DEF Appear
  <2> QED
    BY <1>5, <2>2, <2>3 DEF PastOK, copyVars, formVars, pastVars
<1>8. ASSUME NEW s \in Slots, BoardsAnswered(s) PROVE PastOK' /\ newest' \in Nat /\ newest <= newest'
  <2>1. PICK a \in Answer : main' = Append(p, a) /\ a.found = IF a.ok THEN View ELSE 0
    BY <1>1, <1>2, <1>8, AnsweredIs
  <2>2. PICK q : q = Append(p, a)
    OBVIOUS
  <2>3. \A i \in DOMAIN q : q[i] = a \/ (i \in DOMAIN p /\ q[i] = p[i])
    BY <1>3, <2>2, Appended
  <2>4. a.found \in Past
    BY <1>1, <1>3, <2>1, ViewPast DEF Past
  <2>5. \A i \in DOMAIN main' : main'[i].found \in Past
    BY <1>3, <2>1, <2>2, <2>3, <2>4
  <2>6. UNCHANGED <<doc, writes, reads, copyVars, formVars, pastVars>>
    BY <1>8 DEF BoardsAnswered
  <2> QED
    BY <1>5, <2>5, <2>6 DEF PastOK, copyVars, formVars, pastVars
<1>9. ASSUME p # <<>>
      PROVE  \A i \in DOMAIN Tail(p) : Tail(p)[i].found \in Past
  <2>1. PICK q : q = Tail(p)
    OBVIOUS
  <2> QED
    BY <1>3, <1>9, <2>1, FollowsTail
<1>10. ASSUME BoardsLoaded \/ BoardsFailed PROVE PastOK' /\ newest' \in Nat /\ newest <= newest'
  <2>1. PICK a, c : a = Head(p) /\ c = reads[a.slot]
    OBVIOUS
  <2>2. /\ p # <<>> /\ a = p[1] /\ 1 \in DOMAIN p /\ a.slot \in Slots
        /\ c \in AnyBoard \cup {Nil} /\ a.found \in AnyBoard
    BY <1>1, <1>2, <1>10, <2>1, DeliveredIs DEF BoardsLoaded, BoardsFailed
  <2>3. main' = Tail(p) /\ reads' = [reads EXCEPT ![a.slot] = NoRead]
    BY <1>2, <1>10, <2>1 DEF BoardsLoaded, BoardsFailed
  <2>4. \A t \in Slots : reads'[t] \in Past \cup {Nil, NoRead}
    BY <1>1, <2>2, <2>3 DEF PastOK, TypeOK
  <2>5. a.found \in Past /\ c \in Past \cup {Nil} /\ 0 \in Past
    BY <1>3, <2>1, <2>2, NumbersAre DEF PastOK, Past
  <2>6. UNCHANGED <<doc, writes, formVars, newest, told>>
    BY <1>10 DEF BoardsLoaded, BoardsFailed
  <2>7. ASSUME BoardsLoaded
        PROVE  /\ shown' \in Past /\ saved' = shown' /\ listed' \in Past /\ cell' \in Past
               /\ (cell' = 0 <=> listed' = 0)
    <3>1. PICK x : x = shown'
      OBVIOUS
    <3>2. x \in Chosen(c, a.found)
      BY <1>2, <2>1, <2>7, <3>1 DEF BoardsLoaded
    <3>3. x \in Past
      BY <2>2, <2>5, <3>2, ChosenType
    <3> QED
      BY <1>2, <2>1, <2>5, <2>7, <3>1, <3>3 DEF BoardsLoaded, PastOK
  <2>8. ASSUME BoardsFailed
        PROVE  shown' = 0 /\ saved' = 0 /\ UNCHANGED <<listed, cell>>
    BY <2>8 DEF BoardsFailed
  <2>9. \A i \in DOMAIN main' : main'[i].found \in Past
    BY <1>9, <2>2, <2>3
  <2>10. CASE BoardsLoaded
    BY <1>5, <2>4, <2>6, <2>7, <2>9, <2>10 DEF PastOK, formVars
  <2>11. CASE BoardsFailed
    BY <1>5, <2>4, <2>5, <2>6, <2>8, <2>9, <2>11 DEF PastOK, formVars
  <2> QED
    BY <1>10, <2>10, <2>11
<1>11. ASSUME BoardCreated \/ Unheard PROVE PastOK' /\ newest' \in Nat /\ newest <= newest'
  <2>1. p # <<>> /\ main' = Tail(p) /\ UNCHANGED <<doc, writes, reads, copyVars, formVars, pastVars>>
    BY <1>2, <1>11 DEF BoardCreated, Unheard, Delivers
  <2>2. \A i \in DOMAIN main' : main'[i].found \in Past
    BY <1>9, <2>1
  <2> QED
    BY <1>5, <2>1, <2>2 DEF PastOK, copyVars, formVars, pastVars
<1>12. ASSUME WriteSettled PROVE PastOK' /\ newest' \in Nat /\ newest <= newest'
  <2>1. PICK w \in Write, ok \in BOOLEAN :
            /\ 1 \in DOMAIN writes /\ w = writes[1]
            /\ writes' \in Seq(Write)
            /\ \A i \in DOMAIN writes' : i + 1 \in DOMAIN writes /\ writes'[i] = writes[i + 1]
            /\ doc' = IF ok THEN w.v ELSE doc
            /\ LET a == [kind |-> w.op, ok |-> ok, slot |-> Nil, found |-> 0]
               IN  a \in Answer /\ main' = IF ~w.heard THEN main ELSE Append(main, a)
    BY <1>1, <1>12, SettledIs
  <2>2. PICK a : a = [kind |-> w.op, ok |-> ok, slot |-> Nil, found |-> 0]
    OBVIOUS
  <2>3. a \in Answer /\ a.found = 0 /\ main' = IF ~w.heard THEN p ELSE Append(p, a)
    BY <1>2, <2>1, <2>2
  <2>4. PICK q : q = Append(p, a)
    OBVIOUS
  <2>5. \A i \in DOMAIN q : q[i] = a \/ (i \in DOMAIN p /\ q[i] = p[i])
    BY <1>3, <2>3, <2>4, Appended
  <2>6. \A i \in DOMAIN main' : main'[i].found \in Past
    BY <1>3, <2>3, <2>4, <2>5 DEF Past
  <2>7. /\ doc' \in Past /\ \A i \in DOMAIN writes' : writes'[i].v \in Past
        /\ newest # 0
    BY <2>1 DEF PastOK
  <2>8. ASSUME NEW i \in DOMAIN writes', i # 1 PROVE writes'[i].op = "edit"
    <3>1. i \in Nat \ {0}
      BY <2>1, LenProperties
    <3>2. i + 1 \in DOMAIN writes /\ i + 1 # 1 /\ writes'[i] = writes[i + 1]
      BY <2>1, <3>1
    <3> QED
      BY <3>2 DEF PastOK
  <2>9. UNCHANGED <<reads, copyVars, formVars, newest, told>>
    BY <1>12 DEF WriteSettled
  <2> QED
    BY <1>5, <2>6, <2>7, <2>8, <2>9 DEF PastOK, copyVars, formVars
<1>13. ASSUME CreateBoard PROVE PastOK' /\ newest' \in Nat /\ newest <= newest'
  <2>1. /\ newest = 0 /\ newest' = 1 /\ 1 \in Versions /\ Enqueue(1, "add")
        /\ UNCHANGED <<doc, reads, main, copyVars, editor, mine, told>>
    BY <1>13, NumbersAre DEF CreateBoard
  <2>2. writes = <<>> /\ editor = "none" /\ Past = {0} /\ Past' = {0, 1}
    BY <2>1 DEF PastOK, Past
  <2>3. DOMAIN writes' = {1} /\ writes'[1].v = 1
    <3>1. Len(writes) = 0
      BY <2>2
    <3>2. /\ DOMAIN writes' = 1..(Len(writes) + 1)
          /\ writes'[Len(writes) + 1].v = 1
      BY <1>3, <2>1, EnqueueIs
    <3> QED
      BY <3>1, <3>2
  <2>4. \A i \in DOMAIN writes' : writes'[i].v \in {0, 1} /\ i = 1
    BY <2>3
  <2>5. Past \subseteq Past'
    BY <2>2
  <2>6. PastOK'
    BY <2>1, <2>2, <2>4, <2>5 DEF PastOK, copyVars
  <2> QED
    BY <2>1, <2>6
<1>14. ASSUME NEW v \in Versions, SaveChanges(v) PROVE PastOK' /\ newest' \in Nat /\ newest <= newest'
  <2>1. /\ screen = "edit" /\ v \in {mine, newest + 1} /\ mine' = v /\ Enqueue(v, "edit")
        /\ newest' = (IF v > newest THEN v ELSE newest)
        /\ UNCHANGED <<doc, reads, main, copyVars, editor, told>>
    BY <1>14 DEF SaveChanges
  <2>2. editor # "none" /\ newest # 0
    BY <1>1, <2>1 DEF EditorOK, PastOK
  <2>3. v \in Nat \ {0} /\ mine \in Nat
    BY <1>1, NumbersAre DEF Versions, TypeOK
  <2>4. newest' \in Nat \ {0} /\ newest <= newest' /\ v <= newest'
    BY <1>3, <2>1, <2>2, <2>3
  <2>5. Past \subseteq Past' /\ v \in Past'
    BY <1>3, <2>3, <2>4 DEF Past
  <2>6. \A i \in DOMAIN writes' : writes'[i].v \in Past' /\ (i # 1 => writes'[i].op = "edit")
    <3> SUFFICES ASSUME NEW i \in DOMAIN writes'
                 PROVE  writes'[i].v \in Past' /\ (i # 1 => writes'[i].op = "edit")
      OBVIOUS
    <3>1. "edit" \in {"add", "edit"}
      OBVIOUS
    <3>2. /\ writes'[Len(writes) + 1].v = v /\ writes'[Len(writes) + 1].op = "edit"
          /\ i \in DOMAIN writes \/ i = Len(writes) + 1
          /\ i \in DOMAIN writes => writes'[i] = writes[i]
      BY <1>3, <2>1, <3>1, EnqueueIs
    <3>3. CASE i \in DOMAIN writes
      BY <2>5, <3>2, <3>3 DEF PastOK
    <3>4. CASE i = Len(writes) + 1
      BY <2>5, <3>2, <3>4
    <3> QED
      BY <3>2, <3>3, <3>4
  <2>7. PastOK'
    BY <2>1, <2>2, <2>3, <2>4, <2>5, <2>6 DEF PastOK, copyVars
  <2> QED
    BY <2>4, <2>7
<1>15. ASSUME NEW b \in AnyBoard, SelectBoard(b) PROVE PastOK' /\ newest' \in Nat /\ newest <= newest'
  <2>1. /\ b \in Past /\ shown' = b /\ saved' = b
        /\ UNCHANGED <<storeVars, listed, cell, formVars, newest, told>>
    BY <1>3, <1>15 DEF SelectBoard, PastOK, Past
  <2> QED
    BY <1>5, <2>1 DEF PastOK, storeVars, formVars
<1>16. ASSUME OpenEdit PROVE PastOK' /\ newest' \in Nat /\ newest <= newest'
  <2>1. /\ cell # 0 /\ editor' = "up" /\ mine' = cell /\ UNCHANGED <<storeVars, copyVars, pastVars>>
    BY <1>16 DEF OpenEdit
  <2>2. newest # 0
    BY <2>1 DEF PastOK, Past
  <2> QED
    BY <1>5, <2>1, <2>2 DEF PastOK, storeVars, copyVars, pastVars
<1>17. ASSUME Relaunch PROVE PastOK' /\ newest' \in Nat /\ newest <= newest'
  <2>1. PICK queued : queued = NobodyHears({"add", "edit"})
    OBVIOUS
  <2>2. /\ DOMAIN queued = DOMAIN writes /\ queued \in Seq(Write)
        /\ \A i \in DOMAIN writes : queued[i].v = writes[i].v /\ queued[i].op = writes[i].op
    BY <1>3, <2>1, NobodyHearsIs
  <2>3. /\ writes' = queued /\ main' = <<>> /\ shown' = 0 /\ listed' = 0 /\ cell' = 0
        /\ editor' = "none" /\ mine' = 0 /\ UNCHANGED <<doc, saved, newest, told>>
    BY <1>17, <2>1 DEF Relaunch, NewForm, pastVars
  <2>4. \A t \in Slots : reads'[t] \in Past \cup {Nil, NoRead}
    BY <1>17 DEF Relaunch, PastOK
  <2>5. newest = 0 => queued = <<>>
    BY <1>3, <2>2, EmptySeq, LenProperties DEF PastOK
  <2>6. /\ \A i \in DOMAIN writes' : writes'[i].v \in Past /\ (i # 1 => writes'[i].op = "edit")
        /\ 0 \in Past
    BY <1>3, <2>2, <2>3 DEF PastOK, Past
  <2> QED
    BY <1>5, <2>3, <2>4, <2>5, <2>6 DEF PastOK
<1>18. ASSUME NEW k \in DOMAIN uploads, UploadSettled(k)
       PROVE  PastOK' /\ newest' \in Nat /\ newest <= newest'
  BY <1>5, <1>18 DEF UploadSettled, PastOK, storeVars, copyVars, formVars, pastVars
<1>19. ASSUME OpenAdd \/ Pick \/ UNCHANGED vars PROVE PastOK' /\ newest' \in Nat /\ newest <= newest'
  BY <1>5, <1>19 DEF OpenAdd, Pick, vars, PastOK, storeVars, copyVars, formVars, pastVars
<1> QED
  BY <1>6, <1>7, <1>8, <1>10, <1>11, <1>12, <1>13, <1>14, <1>15, <1>16, <1>17, <1>18, <1>19
     DEF Next, User, MainQueue, EditorMoves

-----------------------------------------------------------------------------
(* The cover.                                                                *)

Created(q) == \E i \in DOMAIN q : q[i].kind = "add" /\ q[i].ok

LEMMA CoverStep == Base /\ CoverOK /\ [Next]_vars => CoverOK'
<1> SUFFICES ASSUME Base, CoverOK, [Next]_vars PROVE CoverOK'
  OBVIOUS
<1>1. TypeOK /\ CallsOK /\ EditorOK
  BY DEF Base
<1>2. PICK p : p = main
  OBVIOUS
<1>3. /\ p \in Seq(Answer) /\ writes \in Seq(Write)
      /\ ~covered => \A i \in DOMAIN writes : writes[i].op = "add" => writes[i].heard
      /\ ~covered /\ doc # 0 => Created(p)
  BY <1>1, <1>2 DEF TypeOK, CoverOK, Created
<1>4. ASSUME ~covered' => ~covered,
             ~covered => \A i \in DOMAIN writes' : writes'[i].op = "add" => writes'[i].heard,
             ~covered /\ doc' # 0 => Created(main')
      PROVE  CoverOK'
  BY <1>4 DEF CoverOK, Created
<1>5. ASSUME covered' = covered, doc' = doc, writes' = writes, Created(p) => Created(main')
      PROVE  CoverOK'
  BY <1>3, <1>4, <1>5
<1>6. ASSUME NEW a \in Answer PROVE Created(p) => Created(Append(p, a))
  <2>1. PICK q : q = Append(p, a)
    OBVIOUS
  <2>2. \A i \in DOMAIN p : i \in DOMAIN q /\ q[i] = p[i]
    BY <1>3, <2>1, Appended
  <2> QED
    BY <2>1, <2>2 DEF Created
<1>7. ASSUME p # <<>>, ~(Head(p).kind = "add" /\ Head(p).ok) PROVE Created(p) => Created(Tail(p))
  <2>1. PICK q : q = Tail(p)
    OBVIOUS
  <2>2. Head(p) = p[1]
    BY <1>3, <1>7, <2>1, FollowsTail
  <2>3. \A j \in DOMAIN p : j # 1 => j - 1 \in DOMAIN q /\ q[j - 1] = p[j]
    BY <1>3, <1>7, <2>1, TailKeeps
  <2> QED
    BY <1>7, <2>1, <2>2, <2>3 DEF Created
<1>8. ASSUME EditorMoves PROVE CoverOK'
  <2>1. EditorEffects
    BY <1>1, <1>8, EditorSteps
  <2>2. PICK q : q = main'
    OBVIOUS
  <2>3. Keeps(q, p)
    BY <1>2, <2>1, <2>2 DEF EditorEffects
  <2>4. Created(p) => Created(q)
    BY <2>3 DEF Keeps, Created
  <2>5. /\ doc' = doc /\ covered' = covered
        /\ DOMAIN writes' = DOMAIN writes
        /\ \A i \in DOMAIN writes : writes'[i].op = writes[i].op
        /\ \A i \in DOMAIN writes : writes[i].op = "add" => (writes'[i].heard <=> writes[i].heard)
    BY <2>1 DEF EditorEffects, Stays, AddsStay
  <2> QED
    BY <1>3, <1>4, <2>2, <2>4, <2>5
<1>9. ASSUME NEW s \in Slots, BoardsAnswered(s) PROVE CoverOK'
  <2>1. PICK a \in Answer : main' = Append(p, a)
    BY <1>1, <1>2, <1>9, AnsweredIs
  <2> QED
    BY <1>5, <1>6, <1>9, <2>1 DEF BoardsAnswered, coverVars
<1>10. ASSUME BoardsLoaded \/ BoardsFailed \/ Unheard PROVE CoverOK'
  <2>1. /\ p # <<>> /\ main' = Tail(p) /\ Head(p).kind # "add"
        /\ UNCHANGED <<doc, writes, covered>>
    BY <1>2, <1>10 DEF BoardsLoaded, BoardsFailed, Unheard, Delivers, coverVars
  <2> QED
    BY <1>5, <1>7, <2>1
<1>11. ASSUME BoardCreated PROVE CoverOK'
  <2>1. /\ p # <<>> /\ main' = Tail(p) /\ covered' = (covered \/ Head(p).ok)
        /\ UNCHANGED <<doc, writes>>
    BY <1>2, <1>11 DEF BoardCreated, Delivers
  <2>2. CASE Head(p).ok
    BY <2>1, <2>2 DEF CoverOK
  <2>3. CASE ~Head(p).ok
    <3>1. covered' = covered
      BY <1>1, <2>1, <2>3 DEF TypeOK
    <3> QED
      BY <1>5, <1>7, <2>1, <2>3, <3>1
  <2> QED
    BY <2>2, <2>3
<1>12. ASSUME WriteSettled PROVE CoverOK'
  <2>1. PICK w \in Write, ok \in BOOLEAN :
            /\ 1 \in DOMAIN writes /\ w = writes[1]
            /\ \A i \in DOMAIN writes' : i + 1 \in DOMAIN writes /\ writes'[i] = writes[i + 1]
            /\ ok => doc # 0 \/ w.op = "add"
            /\ doc' = IF ok THEN w.v ELSE doc
            /\ LET a == [kind |-> w.op, ok |-> ok, slot |-> Nil, found |-> 0]
               IN  a \in Answer /\ main' = IF ~w.heard THEN main ELSE Append(main, a)
    BY <1>1, <1>12, SettledIs
  <2>2. PICK a \in Answer : /\ a.kind = w.op /\ a.ok = ok
                            /\ main' = IF ~w.heard THEN p ELSE Append(p, a)
    <3>1. PICK a \in Answer : /\ a = [kind |-> w.op, ok |-> ok, slot |-> Nil, found |-> 0]
                              /\ main' = IF ~w.heard THEN main ELSE Append(main, a)
      BY <2>1
    <3>2. a.kind = w.op /\ a.ok = ok
      BY <3>1
    <3> QED
      BY <1>2, <3>1, <3>2
  <2>3. covered' = covered
    BY <1>12 DEF WriteSettled, coverVars
  <2>4. ASSUME ~covered PROVE \A i \in DOMAIN writes' : writes'[i].op = "add" => writes'[i].heard
    BY <1>3, <2>1, <2>4
  <2>5. ASSUME ~covered, doc' # 0 PROVE Created(main')
    <3>1. CASE doc # 0
      BY <1>3, <1>6, <2>2, <2>5, <3>1
    <3>2. CASE doc = 0
      <4>1. ok /\ w.op = "add" /\ w.heard
        BY <1>3, <2>1, <2>5, <3>2
      <4>2. PICK q : q = Append(p, a)
        OBVIOUS
      <4>3. Len(p) + 1 \in DOMAIN q /\ q[Len(p) + 1] = a
        BY <1>3, <4>2, Appended
      <4>4. Created(q)
        BY <2>2, <4>1, <4>3 DEF Created
      <4> QED
        BY <2>2, <4>1, <4>2, <4>4
    <3> QED
      BY <3>1, <3>2
  <2> QED
    BY <1>4, <2>3, <2>4, <2>5
<1>13. ASSUME NEW v \in Versions, NEW op \in {"add", "edit"}, Enqueue(v, op),
              UNCHANGED <<doc, main, covered>>
       PROVE  CoverOK'
  <2>1. /\ writes'[Len(writes) + 1].heard
        /\ \A i \in DOMAIN writes : writes'[i] = writes[i]
        /\ \A i \in DOMAIN writes' : i \in DOMAIN writes \/ i = Len(writes) + 1
    BY <1>3, <1>13, EnqueueIs
  <2>2. ~covered => \A i \in DOMAIN writes' : writes'[i].op = "add" => writes'[i].heard
    BY <1>3, <2>1
  <2> QED
    BY <1>2, <1>3, <1>4, <1>13, <2>2
<1>14. ASSUME CreateBoard PROVE CoverOK'
  BY <1>13, <1>14, NumbersAre DEF CreateBoard, coverVars
<1>15. ASSUME NEW v \in Versions, SaveChanges(v) PROVE CoverOK'
  BY <1>13, <1>15 DEF SaveChanges, coverVars
<1>16. ASSUME Relaunch PROVE CoverOK'
  BY <1>16 DEF Relaunch, CoverOK
<1>17. ASSUME NEW b \in AnyBoard, SelectBoard(b) PROVE CoverOK'
  BY <1>2, <1>5, <1>17 DEF SelectBoard, storeVars, coverVars
<1>18. ASSUME NEW k \in DOMAIN uploads, UploadSettled(k) PROVE CoverOK'
  BY <1>2, <1>5, <1>18 DEF UploadSettled, storeVars
<1>19. ASSUME Appear \/ OpenAdd \/ OpenEdit \/ Pick \/ UNCHANGED vars PROVE CoverOK'
  BY <1>2, <1>5, <1>19 DEF Appear, OpenAdd, OpenEdit, Pick, vars, storeVars, coverVars
<1> QED
  BY <1>8, <1>9, <1>10, <1>11, <1>12, <1>14, <1>15, <1>16, <1>17, <1>18, <1>19
     DEF Next, User, MainQueue, EditorMoves

LEMMA InitCover == Init => CoverOK
<1> SUFFICES ASSUME Init, ~covered
             PROVE  /\ \A i \in DOMAIN writes : writes[i].op = "add" => writes[i].heard
                    /\ doc = 0
  BY DEF CoverOK
<1>1. doc \in {0, 1} /\ writes = <<>> /\ covered = (doc = 1)
  BY DEF Init
<1>2. DOMAIN writes = {}
  BY <1>1
<1> QED
  BY <1>1, <1>2

-----------------------------------------------------------------------------
(* The document and the queue of its writes.                                 *)

\* In whatever step: the versions queued stay, with their operations.
LEMMA SameQueue ==
    ASSUME writes \in Seq(Write), Stays
    PROVE  /\ Alive' <=> Alive
           /\ View' = View
           /\ \A v : Live(doc', writes', v) <=> Live(doc, writes, v)
           /\ \A v : Clean(doc', writes', v) <=> Clean(doc, writes, v)
           /\ \A t, v : Sound(doc', writes', t, v) <=> Sound(doc, writes, t, v)
<1>1. PICK q, p, d : q = writes /\ p = writes' /\ d = doc
  OBVIOUS
<1>2. /\ doc' = d /\ p \in Seq(Write) /\ q \in Seq(Write) /\ DOMAIN p = DOMAIN q
      /\ \A i \in DOMAIN q : p[i].v = q[i].v /\ p[i].op = q[i].op
  BY <1>1 DEF Stays
<1>3. \A v : Live(d, p, v) <=> Live(d, q, v)
  BY <1>2 DEF Live
<1>4. \A v : Clean(d, p, v) <=> Clean(d, q, v)
  BY <1>2 DEF Clean
<1>5. \A t, v : Sound(d, p, t, v) <=> Sound(d, q, t, v)
  BY <1>3, <1>4 DEF Sound
<1>6. Len(p) = Len(q) /\ Len(q) \in Nat /\ DOMAIN q = 1..Len(q) /\ (p = <<>> <=> q = <<>>)
  BY <1>2, LenProperties, EmptySeq
<1>7. q # <<>> => 1 \in DOMAIN q /\ Len(q) \in DOMAIN q
  BY <1>2, <1>6, EmptySeq
<1>8. Alive' <=> Alive
  BY <1>1, <1>2, <1>6, <1>7 DEF Alive
<1>9. View' = View
  BY <1>1, <1>2, <1>6, <1>7 DEF View
<1> QED
  BY <1>1, <1>2, <1>3, <1>4, <1>5, <1>8, <1>9

\* The oldest write leaves the queue p, perhaps into the document.
LEMMA ShorterQueue ==
    ASSUME NEW p \in Seq(Write), 1 \in DOMAIN p, NEW q \in Seq(Write), NEW d \in Nat, NEW e,
           e = d \/ e = p[1].v,
           \A i \in DOMAIN q : i + 1 \in DOMAIN p /\ q[i] = p[i + 1]
    PROVE  /\ \A v : Live(e, q, v) => Live(d, p, v)
           /\ \A v : Clean(d, p, v) => Clean(e, q, v)
           /\ \A t, v : Sound(d, p, t, v) => Sound(e, q, t, v)
<1>1. \A v : Live(e, q, v) => Live(d, p, v)
  BY DEF Live
<1>2. ASSUME NEW v, Clean(d, p, v) PROVE Clean(e, q, v)
  <2>1. DOMAIN q \subseteq Nat \ {0}
    BY LenProperties
  <2>2. ASSUME e = v, NEW i \in DOMAIN q PROVE v <= q[i].v
    <3>1. i + 1 \in DOMAIN p /\ q[i] = p[i + 1] /\ 1 < i + 1
      BY <2>1, <2>2
    <3> QED
      BY <1>2, <2>2, <3>1 DEF Clean
  <2>3. ASSUME NEW i \in DOMAIN q, NEW j \in DOMAIN q, i < j, q[i].v = v PROVE v <= q[j].v
    <3>1. /\ i + 1 \in DOMAIN p /\ q[i] = p[i + 1] /\ j + 1 \in DOMAIN p /\ q[j] = p[j + 1]
          /\ i + 1 < j + 1
      BY <2>1, <2>3
    <3> QED
      BY <1>2, <2>3, <3>1 DEF Clean
  <2> QED
    BY <2>2, <2>3 DEF Clean
<1> QED
  BY <1>1, <1>2 DEF Sound

\* A write of w joins the queue p.
LEMMA LongerQueue ==
    ASSUME NEW p \in Seq(Write), NEW q \in Seq(Write), NEW d \in Nat, NEW w \in Nat,
           DOMAIN q = 1..(Len(p) + 1), q[Len(p) + 1].v = w,
           \A i \in DOMAIN p : i \in DOMAIN q /\ q[i] = p[i]
    PROVE  /\ \A v : Live(d, q, v) <=> Live(d, p, v) \/ v = w
           /\ \A v : Clean(d, p, v) /\ (Live(d, p, v) => v <= w) => Clean(d, q, v)
<1>1. Len(p) \in Nat /\ DOMAIN p = 1..Len(p)
  BY LenProperties
<1>2. \A i \in DOMAIN q : i \in DOMAIN p \/ i = Len(p) + 1
  BY <1>1
<1>3. \A v : Live(d, q, v) <=> Live(d, p, v) \/ v = w
  BY <1>1, <1>2 DEF Live
<1>4. ASSUME NEW v, Clean(d, p, v), Live(d, p, v) => v <= w PROVE Clean(d, q, v)
  <2>1. ASSUME d = v, NEW i \in DOMAIN q PROVE v <= q[i].v
    BY <1>2, <1>4, <2>1 DEF Clean, Live
  <2>2. ASSUME NEW i \in DOMAIN q, NEW j \in DOMAIN q, i < j, q[i].v = v PROVE v <= q[j].v
    <3>1. i \in DOMAIN p
      BY <1>1, <2>2
    <3>2. p[i].v = v /\ Live(d, p, v)
      BY <2>2, <3>1 DEF Live
    <3>3. CASE j \in DOMAIN p
      BY <1>4, <2>2, <3>1, <3>2, <3>3 DEF Clean
    <3>4. CASE j = Len(p) + 1
      BY <1>4, <3>2, <3>4
    <3> QED
      BY <1>2, <3>3, <3>4
  <2> QED
    BY <2>1, <2>2 DEF Clean
<1> QED
  BY <1>3, <1>4

\* The device's view of a board that is stored, or will be.
LEMMA ViewIs ==
    ASSUME TypeOK, Alive
    PROVE  /\ View \in Nat \ {0}
           /\ Live(doc, writes, View)
           /\ \A t \in Nat : Clean(doc, writes, t) /\ Clean(doc, writes, View)
                             => Sound(doc, writes, t, View)
<1>1. /\ writes \in Seq(Write) /\ doc \in Nat /\ Len(writes) \in Nat /\ DOMAIN writes = 1..Len(writes)
      /\ writes # <<>> => 1 \in DOMAIN writes /\ Len(writes) \in DOMAIN writes
      /\ \A i \in DOMAIN writes : writes[i].v \in Nat \ {0}
  BY NumbersAre, LastWrite DEF TypeOK, Versions
<1>2. View = IF writes # <<>> THEN writes[Len(writes)].v ELSE doc
  BY DEF View, Alive
<1>3. View \in Nat \ {0} /\ Live(doc, writes, View)
  BY <1>1, <1>2 DEF Alive, Live
<1>4. ASSUME NEW t \in Nat, Clean(doc, writes, t), Live(doc, writes, t) PROVE t <= View
  <2>1. CASE writes = <<>>
    <3>1. DOMAIN writes = {}
      BY <2>1
    <3> QED
      BY <1>1, <1>2, <1>4, <2>1, <3>1 DEF Live
  <2>2. CASE writes # <<>>
    <3>1. CASE doc = t
      BY <1>1, <1>2, <1>4, <2>2, <3>1 DEF Clean
    <3>2. ASSUME NEW i \in DOMAIN writes, writes[i].v = t PROVE t <= View
      <4>1. i = Len(writes) \/ i < Len(writes)
        BY <1>1
      <4> QED
        BY <1>1, <1>2, <1>4, <2>2, <3>2, <4>1 DEF Clean
    <3> QED
      BY <1>4, <3>1, <3>2 DEF Live
  <2> QED
    BY <2>1, <2>2
<1> QED
  BY <1>3, <1>4 DEF Sound

\* A launch finds the queue of writes, of which nobody hears any more.
LEMMA RelaunchIs == ASSUME writes \in Seq(Write), Relaunch PROVE Stays
<1>1. PICK q : q = NobodyHears({"add", "edit"})
  OBVIOUS
<1>2. /\ q \in Seq(Write) /\ DOMAIN q = DOMAIN writes
      /\ \A i \in DOMAIN writes :
             q[i].v = writes[i].v /\ q[i].op = writes[i].op /\ (q[i].heard => writes[i].heard)
  BY <1>1, NobodyHearsIs
<1> QED
  BY <1>1, <1>2 DEF Relaunch, Stays

\* The steps that change the queue of writes or the document.
LEMMA QueueStep ==
    ASSUME Base, PastOK, [Next]_vars
    PROVE  \/ Stays
           \/ WriteSettled \/ CreateBoard
           \/ \E v \in Versions : SaveChanges(v)
<1>1. TypeOK /\ EditorOK /\ writes \in Seq(Write)
  BY DEF Base, TypeOK
<1>2. EditorMoves => Stays
  BY <1>1, EditorSteps DEF EditorEffects
<1>3. Relaunch => Stays
  BY <1>1, RelaunchIs
<1>4. ASSUME \/ Appear \/ OpenAdd \/ OpenEdit \/ Pick \/ BoardsLoaded \/ BoardsFailed
             \/ BoardCreated \/ Unheard \/ UNCHANGED vars
             \/ \E b \in AnyBoard : SelectBoard(b)
             \/ \E s \in Slots : BoardsAnswered(s)
             \/ \E k \in DOMAIN uploads : UploadSettled(k)
      PROVE  Stays
  <2>1. UNCHANGED <<doc, writes>>
    BY <1>4 DEF Appear, OpenAdd, OpenEdit, Pick, BoardsLoaded, BoardsFailed, BoardCreated, Unheard,
                SelectBoard, BoardsAnswered, UploadSettled, vars, storeVars
  <2> QED
    BY <1>1, <2>1, Still
<1> QED
  BY <1>2, <1>3, <1>4 DEF Next, User, MainQueue, EditorMoves

\* What the server's decision leaves: the view, if the board is still to be seen.
LEMMA SettledQueue ==
    ASSUME Base, PastOK, WriteSettled, Alive'
    PROVE  /\ Alive
           /\ \A v : Live(doc', writes', v) => Live(doc, writes, v)
           /\ \A v : Clean(doc, writes, v) => Clean(doc', writes', v)
           /\ \A t, v : Sound(doc, writes, t, v) => Sound(doc', writes', t, v)
           /\ Clean(doc, writes, View) => Clean(doc', writes', View')
           /\ UNCHANGED <<reads, copyVars, screen, formVars, launching, newest, told, overtaken>>
           /\ \E a \in Answer : ~Loads(a) /\ (main' = main \/ main' = Append(main, a))
<1>1. TypeOK
  BY DEF Base
<1>2. PICK w \in Write, ok \in BOOLEAN :
          /\ 1 \in DOMAIN writes /\ w = writes[1]
          /\ writes' \in Seq(Write)
          /\ \A i \in DOMAIN writes' : i + 1 \in DOMAIN writes /\ writes'[i] = writes[i + 1]
          /\ ok => doc # 0 \/ w.op = "add"
          /\ doc' = IF ok THEN w.v ELSE doc
          /\ LET a == [kind |-> w.op, ok |-> ok, slot |-> Nil, found |-> 0]
             IN  a \in Answer /\ main' = IF ~w.heard THEN main ELSE Append(main, a)
  BY <1>1, SettledIs
<1>3. PICK p, q, d, e : p = writes /\ q = writes' /\ d = doc /\ e = doc'
  OBVIOUS
<1>4. /\ p \in Seq(Write) /\ q \in Seq(Write) /\ d \in Nat /\ 1 \in DOMAIN p
      /\ e = d \/ e = p[1].v
      /\ \A i \in DOMAIN q : i + 1 \in DOMAIN p /\ q[i] = p[i + 1]
  BY <1>1, <1>2, <1>3, NumbersAre DEF TypeOK
<1>5. /\ \A v : Live(e, q, v) => Live(d, p, v)
      /\ \A v : Clean(d, p, v) => Clean(e, q, v)
      /\ \A t, v : Sound(d, p, t, v) => Sound(e, q, t, v)
  BY <1>4, ShorterQueue
<1>6. q # <<>> => 1 \in DOMAIN q /\ q[1].op = "edit" /\ Len(q) \in DOMAIN q
  <2> SUFFICES ASSUME q # <<>> PROVE 1 \in DOMAIN q /\ q[1].op = "edit" /\ Len(q) \in DOMAIN q
    OBVIOUS
  <2>1. 1 \in DOMAIN q /\ Len(q) \in DOMAIN q
    BY <1>4, LenProperties, EmptySeq
  <2>2. 1 + 1 \in DOMAIN p /\ 1 + 1 # 1 /\ q[1] = p[1 + 1]
    BY <1>4, <2>1
  <2> QED
    BY <1>3, <2>1, <2>2 DEF PastOK
<1>7. e # 0
  BY <1>3, <1>6 DEF Alive
<1>8. Alive
  BY <1>2, <1>3, <1>4, <1>7, EmptySeq DEF Alive
<1>9. Clean(d, p, View) => Clean(e, q, View')
  <2>1. CASE q = <<>>
    <3>1. DOMAIN q = {}
      BY <2>1
    <3> QED
      BY <3>1 DEF Clean
  <2>2. CASE q # <<>>
    <3>1. Len(q) + 1 \in DOMAIN p /\ q[Len(q)] = p[Len(q) + 1]
      BY <1>4, <1>6, <2>2
    <3>2. Len(p) = Len(q) + 1
      <4>1. Len(p) \in Nat /\ DOMAIN p = 1..Len(p) /\ Len(q) \in Nat /\ p # <<>>
        BY <1>4, LenProperties
      <4>2. q = Tail(p)
        BY <1>3 DEF WriteSettled
      <4> QED
        BY <1>4, <4>1, <4>2, HeadTailProperties
    <3>3. View' = q[Len(q)].v
      BY <1>3, <1>7, <2>2 DEF View
    <3>4. View = p[Len(p)].v
      BY <1>3, <1>4, <1>8 DEF View, Alive
    <3> QED
      BY <1>5, <3>1, <3>2, <3>3, <3>4
  <2> QED
    BY <2>1, <2>2
<1>10. \E a \in Answer : ~Loads(a) /\ (main' = main \/ main' = Append(main, a))
  <2>1. PICK a \in Answer : /\ a = [kind |-> w.op, ok |-> ok, slot |-> Nil, found |-> 0]
                            /\ main' = main \/ main' = Append(main, a)
    BY <1>2
  <2>2. a.kind = w.op /\ w.op # "boards"
    BY <2>1 DEF Write
  <2> QED
    BY <2>1, <2>2 DEF Loads
<1>11. UNCHANGED <<reads, copyVars, screen, formVars, launching, newest, told, overtaken>>
  BY DEF WriteSettled
<1> QED
  BY <1>3, <1>5, <1>8, <1>9, <1>10, <1>11

\* What saving the version v leaves: it is the view.
LEMMA SavedQueue ==
    ASSUME Base, PastOK, NEW v \in Versions, SaveChanges(v), Alive'
    PROVE  /\ Alive
           /\ v \in Nat /\ View' = v
           /\ \A x : Live(doc', writes', x) <=> Live(doc, writes, x) \/ x = v
           /\ \A x : Clean(doc, writes, x) /\ (Live(doc, writes, x) => x <= v) => Clean(doc', writes', x)
           /\ mine' = v /\ v \in {mine, newest + 1} /\ screen = "edit" /\ editor # "none"
           /\ newest' = IF v > newest THEN v ELSE newest
           /\ UNCHANGED <<reads, main, copyVars, screen, editor, launching, told, overtaken>>
<1>1. TypeOK /\ EditorOK /\ writes \in Seq(Write) /\ doc \in Nat /\ v \in Nat
  BY NumbersAre DEF Base, TypeOK
<1>2. /\ screen = "edit" /\ v \in {mine, newest + 1} /\ mine' = v /\ Enqueue(v, "edit")
      /\ newest' = (IF v > newest THEN v ELSE newest) /\ doc' = doc
      /\ UNCHANGED <<reads, main, copyVars, screen, editor, launching, told, overtaken>>
  BY DEF SaveChanges
<1>3. "edit" \in {"add", "edit"}
  OBVIOUS
<1>4. PICK p, q, d : p = writes /\ q = writes' /\ d = doc
  OBVIOUS
<1>5. /\ p \in Seq(Write) /\ q \in Seq(Write) /\ Len(p) \in Nat /\ DOMAIN p = 1..Len(p)
      /\ DOMAIN q = 1..(Len(p) + 1)
      /\ q[Len(p) + 1].v = v /\ q[Len(p) + 1].op = "edit"
      /\ \A i \in DOMAIN p : i \in DOMAIN q /\ q[i] = p[i]
  BY <1>1, <1>2, <1>3, <1>4, EnqueueIs
<1>6. /\ \A x : Live(d, q, x) <=> Live(d, p, x) \/ x = v
      /\ \A x : Clean(d, p, x) /\ (Live(d, p, x) => x <= v) => Clean(d, q, x)
  BY <1>1, <1>4, <1>5, LongerQueue
<1>7. q # <<>> /\ Len(q) = Len(p) + 1
  BY <1>5, LenProperties, EmptySeq
<1>8. Alive
  <2>1. CASE p = <<>>
    <3>1. Len(p) = 0
      BY <2>1
    <3> QED
      BY <1>2, <1>4, <1>5, <3>1 DEF Alive
  <2>2. CASE p # <<>>
    <3>1. 1 \in DOMAIN p
      BY <1>1, <1>4, <2>2, LastWrite
    <3> QED
      BY <1>2, <1>4, <1>5, <2>2, <3>1 DEF Alive
  <2> QED
    BY <2>1, <2>2
<1>9. View' = v
  BY <1>4, <1>5, <1>7 DEF View, Alive
<1>10. editor # "none"
  BY <1>1, <1>2 DEF EditorOK
<1> QED
  BY <1>1, <1>2, <1>4, <1>6, <1>8, <1>9, <1>10

\* The versions that are known are numbers up to the newest.
LEMMA PastNumbers ==
    ASSUME Base, PastOK
    PROVE  /\ newest \in Nat
           /\ doc \in 0..newest /\ told \in 0..newest /\ shown \in 0..newest
           /\ listed \in 0..newest /\ cell \in 0..newest /\ mine \in 0..newest
           /\ \A i \in DOMAIN main : main[i].found \in 0..newest
           /\ \A v : Live(doc, writes, v) => v \in 0..newest
  BY NumbersAre DEF Base, TypeOK, PastOK, Past, Live

LEMMA AliveStep ==
    ASSUME Base, PastOK, [Next]_vars, Alive'
    PROVE  /\ Alive \/ CreateBoard
           /\ CreateBoard => ~Alive
<1>1. writes \in Seq(Write)
  BY DEF Base, TypeOK
<1>2. CreateBoard => ~Alive
  BY DEF CreateBoard, PastOK, Past, Alive
<1>3. Stays => Alive
  BY <1>1, SameQueue
<1>4. WriteSettled => Alive
  BY SettledQueue
<1>5. ASSUME NEW v \in Versions, SaveChanges(v) PROVE Alive
  BY <1>5, SavedQueue
<1> QED
  BY <1>2, <1>3, <1>4, <1>5, QueueStep

-----------------------------------------------------------------------------
(* What can be saved again.                                                  *)

LEMMA SavesStep ==
    ASSUME Base, PastOK, Alive, Alive', SavesOK, FoundOK, [Next]_vars
    PROVE  SavesOK'
<1>1. TypeOK /\ CallsOK /\ EditorOK /\ writes \in Seq(Write)
  BY DEF Base, TypeOK
<1>2. /\ newest \in Nat /\ told \in 0..newest /\ cell \in 0..newest /\ mine \in 0..newest
      /\ \A v : Live(doc, writes, v) => v \in 0..newest
  BY PastNumbers
\* The queue stays; the editor has what the cell has, or later, and so has what is told.
<1>3. ASSUME Stays,
             Clean(doc, writes, told'),
             cell' # 0 => Sound(doc, writes, told', cell'),
             editor' # "none" => cell' # 0 /\ Sound(doc, writes, told', mine')
                                 /\ cell' <= mine' /\ (mine' = cell' \/ told' < mine')
      PROVE  SavesOK'
  BY <1>1, <1>3, SameQueue DEF SavesOK
<1>4. ASSUME Stays, UNCHANGED <<told, cell, editor, mine>> PROVE SavesOK'
  BY <1>3, <1>4 DEF SavesOK
<1>5. ASSUME EditorMoves PROVE SavesOK'
  <2>1. EditorEffects
    BY <1>1, <1>5, EditorSteps
  <2>2. Stays
    BY <2>1 DEF EditorEffects
  <2>3. editor' # "none" => mine' = mine /\ editor # "none"
    BY <1>1, <2>1 DEF EditorEffects, Parted
  <2>4. CASE UNCHANGED <<shown, saved, cell, told, overtaken>>
    BY <1>3, <2>2, <2>3, <2>4 DEF SavesOK
  <2>5. CASE editor # "none" /\ Tell(mine)
    <3>1. /\ told' = mine /\ cell' = mine /\ cell # 0
          /\ Clean(doc, writes, mine)
      BY <2>5 DEF SavesOK, Tell, Sound
    <3>2. Sound(doc, writes, mine, mine)
      BY <1>2, <3>1 DEF Sound
    <3> QED
      BY <1>2, <1>3, <2>2, <2>3, <2>5, <3>1, <3>2 DEF PastOK
  <2> QED
    BY <2>1, <2>4, <2>5 DEF EditorEffects
<1>6. ASSUME OpenEdit PROVE SavesOK'
  <2>1. Stays /\ told' = told /\ cell' = cell /\ cell # 0 /\ mine' = cell
    BY <1>1, <1>6, Still DEF OpenEdit, storeVars, copyVars, pastVars
  <2> QED
    BY <1>2, <1>3, <2>1 DEF SavesOK
<1>7. ASSUME BoardsLoaded PROVE SavesOK'
  <2>1. PICK p, a : p = main /\ a = p[1]
    OBVIOUS
  <2>2. /\ 1 \in DOMAIN p /\ Loads(a) /\ a.found \in AnyBoard
        /\ cell' = IF a.found = 0 THEN 0 ELSE IF cell = 0 THEN a.found ELSE cell
    BY <1>1, <1>7, <2>1, DeliveredIs DEF BoardsLoaded, Delivers, Loads
  <2>3. Stays /\ UNCHANGED <<told, editor, mine>>
    BY <1>1, <1>7, Still DEF BoardsLoaded, formVars
  <2>4. CASE cell # 0
    <3>1. cell' = cell
      BY <2>1, <2>2, <2>4 DEF FoundOK
    <3> QED
      BY <1>4, <2>3, <3>1
  <2>5. CASE cell = 0
    <3>1. editor = "none" /\ cell' = a.found
      BY <2>2, <2>5 DEF SavesOK
    <3>2. cell' # 0 => Sound(doc, writes, told, cell')
      BY <2>1, <2>2, <2>5, <3>1 DEF FoundOK
    <3> QED
      BY <1>3, <2>3, <3>1, <3>2 DEF SavesOK
  <2> QED
    BY <2>4, <2>5
<1>8. ASSUME Relaunch PROVE SavesOK'
  <2>1. cell' = 0 /\ editor' = "none" /\ told' = told
    BY <1>8 DEF Relaunch, NewForm, pastVars
  <2>2. Stays
    BY <1>1, <1>8, RelaunchIs
  <2> QED
    BY <1>3, <2>1, <2>2 DEF SavesOK
<1>9. ASSUME WriteSettled PROVE SavesOK'
  <2>1. /\ \A v : Clean(doc, writes, v) => Clean(doc', writes', v)
        /\ \A t, v : Sound(doc, writes, t, v) => Sound(doc', writes', t, v)
        /\ Clean(doc, writes, View) => Clean(doc', writes', View')
        /\ UNCHANGED <<told, cell, editor, mine>>
    BY <1>9, SettledQueue DEF copyVars, formVars
  <2> QED
    BY <2>1 DEF SavesOK
<1>10. ASSUME NEW v \in Versions, SaveChanges(v) PROVE SavesOK'
  <2>1. /\ v \in Nat /\ View' = v /\ mine' = v /\ v \in {mine, newest + 1} /\ editor # "none"
        /\ UNCHANGED <<told, cell, editor>>
        /\ \A x : Live(doc', writes', x) <=> Live(doc, writes, x) \/ x = v
        /\ \A x : Clean(doc, writes, x) /\ (Live(doc, writes, x) => x <= v) => Clean(doc', writes', x)
    BY <1>10, SavedQueue DEF copyVars
  <2>2. /\ cell # 0 /\ Sound(doc, writes, told, mine) /\ cell <= mine
        /\ mine = cell \/ told < mine
        /\ Sound(doc, writes, told, cell) /\ Clean(doc, writes, told)
    BY <2>1 DEF SavesOK
  <2>3. CASE v = mine
    <3>1. Clean(doc', writes', told) /\ Clean(doc', writes', cell) /\ Clean(doc', writes', v)
      BY <1>2, <2>1, <2>2, <2>3 DEF Sound
    <3>2. Live(doc', writes', told) => told <= cell /\ told <= v
      BY <1>2, <2>1, <2>2, <2>3 DEF Sound
    <3> QED
      BY <2>1, <2>2, <2>3, <3>1, <3>2 DEF SavesOK, Sound
  <2>4. CASE v = newest + 1
    <3>1. ~Live(doc, writes, v) /\ told < v /\ cell < v
      BY <1>2, <2>4
    <3>2. Clean(doc, writes, v)
      BY <3>1 DEF Live, Clean
    <3>3. Clean(doc', writes', told) /\ Clean(doc', writes', cell) /\ Clean(doc', writes', v)
      BY <1>2, <2>1, <2>2, <3>1, <3>2 DEF Sound
    <3>4. (Live(doc', writes', told) => told <= cell) /\ told <= v /\ cell <= v
      BY <1>2, <2>1, <2>2, <3>1 DEF Sound
    <3> QED
      BY <2>1, <2>2, <3>1, <3>3, <3>4 DEF SavesOK, Sound
  <2> QED
    BY <2>1, <2>3, <2>4
<1>11. ASSUME \/ Appear \/ OpenAdd \/ Pick \/ BoardsFailed \/ BoardCreated \/ Unheard \/ UNCHANGED vars
              \/ \E b \in AnyBoard : SelectBoard(b)
              \/ \E s \in Slots : BoardsAnswered(s)
              \/ \E k \in DOMAIN uploads : UploadSettled(k)
       PROVE  SavesOK'
  <2>1. UNCHANGED <<doc, writes, told, cell, editor, mine>>
    BY <1>11 DEF Appear, OpenAdd, Pick, BoardsFailed, BoardCreated, Unheard, SelectBoard, BoardsAnswered,
                 UploadSettled, vars, storeVars, copyVars, formVars, pastVars
  <2> QED
    BY <1>1, <1>4, <2>1, Still
<1>12. ~CreateBoard
  BY AliveStep
<1> QED
  BY <1>5, <1>6, <1>7, <1>8, <1>9, <1>10, <1>11, <1>12 DEF Next, User, MainQueue, EditorMoves

\* A load that finds the board is not followed by one that does not.
LEMMA FoundStep ==
    ASSUME Base, PastOK, Alive, Alive', SavesOK, FoundOK, [Next]_vars
    PROVE  FoundOK'
<1>1. TypeOK /\ CallsOK /\ EditorOK /\ writes \in Seq(Write)
  BY DEF Base, TypeOK
<1>2. PICK p : p = main
  OBVIOUS
<1>3. /\ p \in Seq(Answer)
      /\ cell # 0 => \A i \in DOMAIN p : Loads(p[i]) => p[i].found # 0
      /\ \A i, j \in DOMAIN p : i < j /\ Loads(p[i]) /\ Loads(p[j]) /\ p[i].found # 0 => p[j].found # 0
      /\ cell = 0 =>
             \A i \in DOMAIN p : Loads(p[i]) /\ p[i].found # 0 => Sound(doc, writes, told, p[i].found)
  BY <1>1, <1>2 DEF TypeOK, FoundOK
\* No load is answered; the board is listed once all that follow find it.
<1>4. ASSUME NEW q \in Seq(Answer), main' = q, Follows(q, p),
             cell' = 0 => cell = 0 /\ \A x : Sound(doc, writes, told, x) => Sound(doc', writes', told', x),
             cell = 0 /\ cell' # 0 => \A i \in DOMAIN q : Loads(q[i]) => q[i].found # 0
      PROVE  FoundOK'
  <2>1. PICK k \in {0, 1} : \A i \in DOMAIN q :
            /\ i + k \in DOMAIN p
            /\ q[i].ok = p[i + k].ok /\ q[i].found = p[i + k].found
            /\ q[i].kind = p[i + k].kind \/ (p[i + k].kind = "edit" /\ q[i].kind = "gone")
    BY <1>4 DEF Follows
  <2>2. \A i \in DOMAIN q : Loads(q[i]) => i + k \in DOMAIN p /\ Loads(p[i + k]) /\ p[i + k].found = q[i].found
    BY <2>1 DEF Loads
  <2>3. ASSUME NEW i \in DOMAIN q, NEW j \in DOMAIN q, i < j, Loads(q[i]), Loads(q[j]), q[i].found # 0
        PROVE  q[j].found # 0
    <3>1. i \in Nat /\ j \in Nat /\ k \in Nat
      BY <1>4, LenProperties
    <3>2. i + k < j + k
      BY <2>3, <3>1
    <3> QED
      BY <1>3, <2>2, <2>3, <3>2
  <2>4. cell' # 0 => \A i \in DOMAIN q : Loads(q[i]) => q[i].found # 0
    BY <1>3, <1>4, <2>2
  <2>5. cell' = 0 => \A i \in DOMAIN q :
            Loads(q[i]) /\ q[i].found # 0 => Sound(doc', writes', told', q[i].found)
    BY <1>3, <1>4, <2>2
  <2> QED
    BY <1>4, <2>3, <2>4, <2>5 DEF FoundOK
<1>5. ASSUME Stays, UNCHANGED <<main, told, cell>> PROVE FoundOK'
  <2>1. \A t, v : Sound(doc', writes', t, v) <=> Sound(doc, writes, t, v)
    BY <1>1, <1>5, SameQueue
  <2>2. Follows(p, p)
    BY <1>3, FollowsItself
  <2> QED
    BY <1>2, <1>3, <1>4, <1>5, <2>1, <2>2
<1>6. ASSUME EditorMoves PROVE FoundOK'
  <2>1. EditorEffects
    BY <1>1, <1>6, EditorSteps
  <2>2. PICK q : q = main'
    OBVIOUS
  <2>3. q \in Seq(Answer) /\ Follows(q, p) /\ Stays
    BY <1>2, <2>1, <2>2 DEF EditorEffects
  <2>4. cell = 0 => editor = "none"
    BY DEF SavesOK
  <2>5. /\ cell' = 0 <=> cell = 0
        /\ cell = 0 => told' = told
    BY <2>1, <2>4 DEF EditorEffects, Tell, PastOK
  <2>6. \A t, v : Sound(doc', writes', t, v) <=> Sound(doc, writes, t, v)
    BY <1>1, <2>3, SameQueue
  <2> QED
    BY <1>4, <2>2, <2>3, <2>5, <2>6
<1>7. ASSUME NEW q, p # <<>>, q = Tail(p) PROVE q \in Seq(Answer) /\ Follows(q, p)
  BY <1>3, <1>7, FollowsTail
<1>8. ASSUME BoardsLoaded PROVE FoundOK'
  <2>1. PICK a, q : a = p[1] /\ q = Tail(p)
    OBVIOUS
  <2>2. /\ p # <<>> /\ 1 \in DOMAIN p /\ Loads(a) /\ a.found \in AnyBoard
        /\ cell' = (IF a.found = 0 THEN 0 ELSE IF cell = 0 THEN a.found ELSE cell)
        /\ main' = q
        /\ \A i \in DOMAIN q : i + 1 \in DOMAIN p /\ q[i] = p[i + 1]
    BY <1>1, <1>2, <1>8, <2>1, DeliveredIs DEF BoardsLoaded, Delivers, Loads
  <2>3. UNCHANGED <<doc, writes, told>>
    BY <1>8 DEF BoardsLoaded
  <2>4. q \in Seq(Answer) /\ Follows(q, p)
    BY <1>7, <2>1, <2>2
  <2>5. cell' = 0 => cell = 0
    BY <1>3, <2>1, <2>2
  <2>6. ASSUME cell = 0, cell' # 0, NEW i \in DOMAIN q, Loads(q[i]) PROVE q[i].found # 0
    <3>1. i + 1 \in DOMAIN p /\ q[i] = p[i + 1] /\ 1 < i + 1
      BY <2>2, <2>4, <2>6, LenProperties
    <3> QED
      BY <1>3, <2>1, <2>2, <2>6, <3>1
  <2> QED
    BY <1>4, <2>2, <2>3, <2>4, <2>5, <2>6
<1>9. ASSUME BoardsFailed \/ BoardCreated \/ Unheard PROVE FoundOK'
  <2>1. p # <<>> /\ main' = Tail(p) /\ UNCHANGED <<doc, writes, told, cell>>
    BY <1>2, <1>9 DEF BoardsFailed, BoardCreated, Unheard, Delivers, copyVars, pastVars
  <2>2. PICK q : q = Tail(p)
    OBVIOUS
  <2> QED
    BY <1>4, <1>7, <2>1, <2>2
\* A completion comes last.
<1>10. ASSUME NEW a \in Answer, main' = Append(p, a), cell' = cell,
              \A x : Sound(doc, writes, told, x) => Sound(doc', writes', told', x),
              Loads(a) => a.found # 0 /\ Sound(doc', writes', told', a.found)
       PROVE  FoundOK'
  <2>1. PICK q : q = Append(p, a)
    OBVIOUS
  <2>2. /\ q[Len(p) + 1] = a /\ Len(p) \in Nat /\ DOMAIN p = 1..Len(p)
        /\ \A i \in DOMAIN p : q[i] = p[i]
        /\ \A i \in DOMAIN q : i \in DOMAIN p \/ (i \notin DOMAIN p /\ i = Len(p) + 1)
    BY <1>3, <1>10, <2>1, Appended
  <2>3. cell # 0 => \A i \in DOMAIN q : Loads(q[i]) => q[i].found # 0
    BY <1>3, <1>10, <2>2
  <2>4. ASSUME NEW i \in DOMAIN q, NEW j \in DOMAIN q, i < j, Loads(q[i]), Loads(q[j]), q[i].found # 0
        PROVE  q[j].found # 0
    <3>1. CASE j \in DOMAIN p
      <4>1. i \in DOMAIN p
        BY <2>2, <2>4, <3>1
      <4> QED
        BY <1>3, <2>2, <2>4, <3>1, <4>1
    <3>2. CASE j = Len(p) + 1
      BY <1>10, <2>2, <2>4, <3>2
    <3> QED
      BY <2>2, <3>1, <3>2
  <2>5. cell = 0 => \A i \in DOMAIN q :
            Loads(q[i]) /\ q[i].found # 0 => Sound(doc', writes', told', q[i].found)
    BY <1>3, <1>10, <2>2
  <2> QED
    BY <1>10, <2>1, <2>3, <2>4, <2>5 DEF FoundOK
<1>11. ASSUME NEW s \in Slots, BoardsAnswered(s) PROVE FoundOK'
  <2>1. PICK a \in Answer : main' = Append(p, a) /\ a.found = IF a.ok THEN View ELSE 0
    BY <1>1, <1>2, <1>11, AnsweredIs
  <2>2. UNCHANGED <<doc, writes, told, cell>>
    BY <1>11 DEF BoardsAnswered, copyVars, pastVars
  <2>3. /\ View # 0 /\ Sound(doc, writes, told, View)
    BY <1>1, NumbersAre, ViewIs DEF SavesOK, TypeOK
  <2> QED
    BY <1>10, <2>1, <2>2, <2>3 DEF Loads
<1>12. ASSUME WriteSettled PROVE FoundOK'
  <2>1. PICK a \in Answer : ~Loads(a) /\ (main' = p \/ main' = Append(p, a))
    BY <1>2, <1>12, SettledQueue
  <2>2. /\ \A t, v : Sound(doc, writes, t, v) => Sound(doc', writes', t, v)
        /\ UNCHANGED <<told, cell>>
    BY <1>12, SettledQueue DEF copyVars
  <2>3. Follows(p, p)
    BY <1>3, FollowsItself
  <2> QED
    BY <1>3, <1>4, <1>10, <2>1, <2>2, <2>3
<1>13. ASSUME Relaunch PROVE FoundOK'
  BY <1>13 DEF Relaunch, FoundOK
<1>14. ASSUME NEW v \in Versions, SaveChanges(v) PROVE FoundOK'
  <2>1. cell' = cell /\ main' = p /\ cell # 0
    BY <1>2, <1>14, SavedQueue DEF copyVars, SavesOK
  <2>2. Follows(p, p)
    BY <1>3, FollowsItself
  <2> QED
    BY <1>3, <1>4, <2>1, <2>2
<1>15. ASSUME \/ Appear \/ OpenAdd \/ OpenEdit \/ Pick \/ UNCHANGED vars
              \/ \E b \in AnyBoard : SelectBoard(b)
              \/ \E k \in DOMAIN uploads : UploadSettled(k)
       PROVE  FoundOK'
  <2>1. UNCHANGED <<doc, writes, main, told, cell>>
    BY <1>15 DEF Appear, OpenAdd, OpenEdit, Pick, SelectBoard, UploadSettled,
                 vars, storeVars, copyVars, pastVars
  <2> QED
    BY <1>1, <1>5, <2>1, Still
<1>16. ~CreateBoard
  BY AliveStep
<1> QED
  BY <1>6, <1>8, <1>9, <1>11, <1>12, <1>13, <1>14, <1>15, <1>16 DEF Next, User, MainQueue, EditorMoves

\* The launch's load alone is waited for.
LEMMA OnceStep ==
    ASSUME Base, LaunchOK, PastOK, Alive, Alive', SavesOK, FoundOK, OnceOK, [Next]_vars
    PROVE  OnceOK'
<1>1. TypeOK /\ CallsOK /\ EditorOK
  BY DEF Base
<1>2. PICK p : p = main
  OBVIOUS
<1>3. cell = 0 => editor = "none"
  BY DEF SavesOK
<1>4. ASSUME cell' = 0 => cell = 0 /\ UNCHANGED <<newest, screen, reads, launching, saved>>
      PROVE  OnceOK'
  BY <1>4 DEF OnceOK
<1>5. ASSUME EditorMoves PROVE OnceOK'
  <2>1. EditorEffects
    BY <1>1, <1>5, EditorSteps
  <2>2. cell' = 0 => cell = 0 /\ UNCHANGED <<newest, reads, launching, saved>>
    BY <1>3, <2>1 DEF EditorEffects, Tell, PastOK
  <2>3. cell = 0 /\ newest > 1 => screen' = screen
    BY <2>1 DEF EditorEffects, OnceOK
  <2> QED
    BY <2>2, <2>3 DEF OnceOK
<1>6. ASSUME Appear PROVE OnceOK'
  BY <1>6 DEF Appear, OnceOK, copyVars, pastVars
<1>7. ASSUME BoardsLoaded \/ BoardsFailed PROVE OnceOK'
  <2>1. PICK a : a = p[1]
    OBVIOUS
  <2>2. /\ 1 \in DOMAIN p /\ a.slot \in Slots /\ reads[a.slot] \in AnyBoard \cup {Nil}
        /\ reads' = [reads EXCEPT ![a.slot] = NoRead] /\ a.kind = "boards"
        /\ launching' = FALSE /\ UNCHANGED <<screen, newest>>
    BY <1>1, <1>2, <1>7, <2>1, DeliveredIs DEF BoardsLoaded, BoardsFailed, Delivers
  <2>3. ASSUME cell' = 0 PROVE cell = 0
    <3>1. CASE BoardsFailed
      BY <2>3, <3>1 DEF BoardsFailed
    <3>2. CASE BoardsLoaded
      <4>1. /\ a.ok /\ a.found \in AnyBoard
            /\ cell' = (IF a.found = 0 THEN 0 ELSE IF cell = 0 THEN a.found ELSE cell)
        BY <1>1, <1>2, <2>1, <3>2, DeliveredIs DEF BoardsLoaded
      <4>2. cell # 0 => a.found # 0
        BY <1>2, <2>1, <2>2, <4>1 DEF FoundOK, Loads
      <4> QED
        BY <2>3, <4>1, <4>2
    <3> QED
      BY <1>7, <3>1, <3>2
  <2>4. ASSUME cell = 0, newest > 1 PROVE screen = "main" /\ \A t \in Slots : reads'[t] = NoRead
    <3>1. PICK s \in Slots : \A t \in Slots \ {s} : reads[t] = NoRead
      BY <2>4 DEF OnceOK
    <3>2. a.slot = s
      BY <2>2, <3>1, NumbersAre
    <3> QED
      BY <1>1, <2>2, <2>4, <3>1, <3>2 DEF OnceOK, TypeOK
  <2>5. ASSUME cell' = 0, newest' > 1 PROVE screen' = "main" /\ \A t \in Slots : reads'[t] = NoRead
    BY <2>2, <2>3, <2>4, <2>5
  <2> QED
    BY <2>2, <2>5 DEF OnceOK
<1>8. ASSUME NEW b \in AnyBoard, SelectBoard(b) PROVE OnceOK'
  <2>1. ~launching /\ UNCHANGED <<reads, cell, screen, launching, newest>>
    BY <1>8 DEF SelectBoard, OnMain, storeVars
  <2> QED
    BY <2>1 DEF OnceOK
<1>9. ASSUME OpenAdd \/ OpenEdit PROVE OnceOK'
  BY <1>9 DEF OpenAdd, OpenEdit, OnceOK, copyVars, pastVars
<1>10. ASSUME WriteSettled PROVE OnceOK'
  BY <1>4, <1>10, SettledQueue DEF copyVars
<1>11. ASSUME NEW v \in Versions, SaveChanges(v) PROVE OnceOK'
  <2>1. editor # "none" /\ cell' = cell
    BY <1>11, SavedQueue DEF copyVars
  <2> QED
    BY <1>3, <1>4, <2>1
<1>12. ASSUME Relaunch PROVE OnceOK'
  <2>1. PICK s \in Slots : reads' = [t \in Slots |-> IF t = s THEN saved ELSE NoRead]
    BY <1>12 DEF Relaunch
  <2>2. saved' = saved /\ screen' = "main" /\ launching' = TRUE
    BY <1>12 DEF Relaunch
  <2> QED
    BY <2>1, <2>2 DEF OnceOK
<1>13. ASSUME \/ Pick \/ BoardCreated \/ Unheard \/ UNCHANGED vars
              \/ \E s \in Slots : BoardsAnswered(s)
              \/ \E k \in DOMAIN uploads : UploadSettled(k)
       PROVE  OnceOK'
  <2>1. UNCHANGED <<cell, newest, screen, reads, launching, saved>>
    BY <1>13 DEF Pick, BoardCreated, Unheard, BoardsAnswered, UploadSettled,
                 vars, storeVars, copyVars, pastVars
  <2> QED
    BY <1>4, <2>1
<1>14. ~CreateBoard
  BY AliveStep
<1> QED
  BY <1>5, <1>6, <1>7, <1>8, <1>9, <1>10, <1>11, <1>12, <1>13, <1>14 DEF Next, User, MainQueue, EditorMoves

-----------------------------------------------------------------------------
(* What is on display, and the invariant.                                    *)

\* What comes back from an old load or list is marked, when the newest version was
\* told and can still be met: as long as it can, the cell has it.
LEMMA MetIsListed ==
    ASSUME Base, PastOK, SavesOK, told = newest, Met, cell # 0
    PROVE  cell = newest
<1>1. newest \in Nat /\ cell \in 0..newest
  BY PastNumbers
<1> QED
  BY <1>1 DEF Met, SavesOK, Sound

LEMMA ShownStep ==
    ASSUME Base, LaunchOK, PastOK, Alive, Alive', SavesOK, FoundOK, OnceOK, ShownOK, [Next]_vars
    PROVE  ShownOK'
<1>1. TypeOK /\ CallsOK /\ EditorOK /\ writes \in Seq(Write)
  BY DEF Base, TypeOK
<1>2. PICK p : p = main
  OBVIOUS
<1>3. /\ newest \in Nat /\ told \in 0..newest /\ cell \in 0..newest /\ mine \in 0..newest
      /\ shown \in 0..newest /\ \A i \in DOMAIN p : p[i].found \in 0..newest
      /\ p \in Seq(Answer)
  BY <1>1, <1>2, PastNumbers DEF TypeOK
\* Nothing new can be met, and what is on display and saved stays.
<1>4. ASSUME Met' => Met, UNCHANGED <<told, newest, shown, saved, overtaken>> PROVE ShownOK'
  BY <1>4 DEF ShownOK, Old
<1>5. ASSUME newest' = newest, UNCHANGED <<cell>>,
             \A v : Live(doc', writes', v) => Live(doc, writes, v),
             cell = 0 => \A i \in DOMAIN main' : Loads(main'[i]) /\ main'[i].found = newest
                             => Live(doc, writes, newest)
                                \/ \E j \in DOMAIN p : Loads(p[j]) /\ p[j].found = newest
      PROVE  Met' => Met
  BY <1>2, <1>5 DEF Met
<1>6. ASSUME NEW q, main' = q, Follows(q, p), NEW i \in DOMAIN q, Loads(q[i])
      PROVE  \E j \in DOMAIN p : Loads(p[j]) /\ p[j].found = q[i].found
  BY <1>6 DEF Follows, Loads
<1>7. ASSUME Stays, UNCHANGED <<main, cell, newest>> PROVE Met' => Met
  <2>1. \A v : Live(doc', writes', v) <=> Live(doc, writes, v)
    BY <1>1, <1>7, SameQueue
  <2> QED
    BY <1>2, <1>5, <1>7, <2>1
<1>8. ASSUME EditorMoves PROVE ShownOK'
  <2>1. EditorEffects
    BY <1>1, <1>8, EditorSteps
  <2>2. PICK q : q = main'
    OBVIOUS
  <2>3. q \in Seq(Answer) /\ Follows(q, p) /\ Stays /\ newest' = newest
    BY <1>2, <2>1, <2>2 DEF EditorEffects
  <2>4. \A v : Live(doc', writes', v) <=> Live(doc, writes, v)
    BY <1>1, <2>3, SameQueue
  <2>5. CASE UNCHANGED <<shown, saved, cell, told, overtaken>>
    <3>1. Met' => Met
      BY <1>5, <1>6, <2>2, <2>3, <2>4, <2>5
    <3> QED
      BY <1>4, <2>3, <2>5, <3>1
  <2>6. CASE editor # "none" /\ Tell(mine)
    <3>1. told' = mine /\ newest' = newest
      BY <2>3, <2>6 DEF Tell
    <3>2. saved = shown
      BY <2>6 DEF LaunchOK
    <3>3. shown' \in {0, mine} /\ saved' \in {0, mine}
      BY <2>6, <3>2 DEF Tell
    <3>4. mine = newest => ~Old(shown)' /\ ~Old(saved)'
      BY <1>3, <3>1, <3>3 DEF Old
    <3> QED
      BY <3>1, <3>4 DEF ShownOK
  <2> QED
    BY <2>1, <2>5, <2>6 DEF EditorEffects
<1>9. ASSUME NEW q, p # <<>>, q = Tail(p) PROVE q \in Seq(Answer) /\ Follows(q, p)
  BY <1>3, <1>9, FollowsTail
<1>10. ASSUME NEW x \in 0..newest, x < shown \/ x < cell \/ overtaken, Old(x) PROVE ComesBack(x)
  BY <1>10 DEF ComesBack, Old
<1>11. ASSUME BoardsLoaded PROVE ShownOK'
  <2>1. PICK a, q, c, x : a = p[1] /\ q = Tail(p) /\ c = reads[a.slot] /\ x = shown'
    OBVIOUS
  <2>2. /\ p # <<>> /\ 1 \in DOMAIN p /\ Loads(a) /\ a.found \in AnyBoard
        /\ a.slot \in Slots /\ c \in AnyBoard \cup {Nil}
        /\ cell' = (IF a.found = 0 THEN 0 ELSE IF cell = 0 THEN a.found ELSE cell)
        /\ main' = q /\ a = Head(p)
    BY <1>1, <1>2, <1>11, <2>1, DeliveredIs DEF BoardsLoaded, Delivers, Loads
  <2>3. /\ UNCHANGED <<doc, writes, told, newest>> /\ saved' = shown'
        /\ overtaken' = ComesBack(x) /\ x \in Chosen(c, a.found)
    BY <1>2, <1>11, <2>1, <2>2 DEF BoardsLoaded
  <2>4. q \in Seq(Answer) /\ Follows(q, p)
    BY <1>9, <2>1, <2>2
  <2>5. x \in 0..newest /\ (c # Nil => x = c) /\ (c = Nil => x = 0 \/ x = a.found)
    <3>1. a.found \in 0..newest /\ (c # Nil => c \in 0..newest) /\ 0 \in 0..newest
      BY <1>3, <2>1, <2>2, NumbersAre DEF PastOK, Past
    <3> QED
      BY <2>2, <2>3, <3>1, ChosenType
  <2>6. ASSUME Met' PROVE Met
    <3>1. \A i \in DOMAIN q : Loads(q[i]) => \E j \in DOMAIN p : Loads(p[j]) /\ p[j].found = q[i].found
      BY <1>6, <2>2, <2>4
    <3>2. cell # 0 => cell' = cell
      BY <1>2, <2>1, <2>2 DEF FoundOK
    <3>3. CASE cell # 0
      BY <2>2, <2>3, <2>6, <3>2, <3>3 DEF Met
    <3>4. CASE cell = 0
      <4>1. cell' = a.found
        BY <2>2, <3>4
      <4>2. CASE Live(doc, writes, newest)
        BY <4>2 DEF Met
      <4>3. CASE cell' = newest
        BY <1>2, <2>1, <2>2, <3>4, <4>1, <4>3 DEF Met
      <4>4. CASE \E i \in DOMAIN q : Loads(q[i]) /\ q[i].found = newest
        BY <1>2, <3>1, <3>4, <4>4 DEF Met
      <4> QED
        BY <2>2, <2>3, <2>6, <4>2, <4>3, <4>4 DEF Met
    <3> QED
      BY <3>3, <3>4
  <2>7. ASSUME told = newest, Met, Old(x) PROVE x < shown \/ x < cell \/ overtaken
    <3>1. x \in Nat \ {0} /\ x < newest /\ newest > 1
      BY <1>3, <2>7 DEF Old
    <3>2. CASE cell # 0
      <4>1. cell = newest
        BY <2>7, <3>2, MetIsListed
      <4> QED
        BY <3>1, <4>1
    <3>3. CASE cell = 0
      <4>1. PICK s \in Slots :
                /\ reads[s] \in {NoRead, saved}
                /\ \A t \in Slots \ {s} : reads[t] = NoRead
        BY <3>1, <3>3 DEF OnceOK
      <4>2. a.slot = s /\ c = saved
        BY <2>1, <2>2, <4>1, NumbersAre
      <4>3. CASE c # Nil
        BY <2>5, <2>7, <4>2, <4>3 DEF ShownOK
      <4>4. CASE c = Nil
        <5>1. x = a.found /\ a.found # 0
          BY <2>5, <3>1, <4>4
        <5>2. Sound(doc, writes, told, a.found)
          BY <1>2, <2>1, <2>2, <3>3, <5>1 DEF FoundOK
        <5>3. ~Live(doc, writes, newest)
          BY <1>3, <2>7, <3>1, <5>1, <5>2 DEF Sound
        <5>4. PICK i \in DOMAIN p : Loads(p[i]) /\ p[i].found = newest
          BY <1>2, <2>7, <3>1, <3>3, <5>3 DEF Met
        <5>5. p[i].kind = "boards" /\ a.kind = "boards"
          BY <2>2, <5>4 DEF Loads
        <5>6. p[i].slot \in Slots /\ reads[p[i].slot] # NoRead
          BY <1>1, <1>2, <5>4, <5>5 DEF CallsOK
        <5>7. p[i].slot = a.slot
          BY <4>1, <4>2, <5>6
        <5>8. i = 1
          BY <1>1, <1>2, <2>1, <2>2, <5>4, <5>5, <5>7 DEF CallsOK
        <5> QED
          BY <2>1, <3>1, <5>1, <5>4, <5>8
      <4> QED
        BY <4>3, <4>4
    <3> QED
      BY <3>2, <3>3
  <2>8. ASSUME told' = newest', Met', Old(x) PROVE overtaken'
    BY <1>10, <2>3, <2>5, <2>6, <2>7, <2>8
  <2>9. Old(shown)' <=> Old(x)
    BY <2>1, <2>3 DEF Old
  <2>10. Old(saved)' <=> Old(x)
    BY <2>1, <2>3 DEF Old
  <2> QED
    BY <2>8, <2>9, <2>10 DEF ShownOK
<1>12. ASSUME BoardsFailed PROVE ShownOK'
  <2>1. shown' = 0 /\ saved' = 0
    BY <1>12 DEF BoardsFailed
  <2>2. ~Old(shown)' /\ ~Old(saved)'
    BY <2>1 DEF Old
  <2> QED
    BY <2>2 DEF ShownOK
<1>13. ASSUME BoardCreated \/ Unheard PROVE ShownOK'
  <2>1. p # <<>> /\ main' = Tail(p)
        /\ UNCHANGED <<doc, writes, told, cell, newest, shown, saved, overtaken>>
    BY <1>2, <1>13 DEF BoardCreated, Unheard, Delivers, copyVars, pastVars
  <2>2. PICK q : q = Tail(p)
    OBVIOUS
  <2>3. Met' => Met
    BY <1>5, <1>6, <1>9, <2>1, <2>2
  <2> QED
    BY <1>4, <2>1, <2>3
\* A completion comes last; a load finds what the document has or will have.
<1>14. ASSUME NEW a \in Answer, main' = Append(p, a), UNCHANGED <<cell, newest>>,
              \A v : Live(doc', writes', v) => Live(doc, writes, v),
              Loads(a) => a.found = 0 \/ Live(doc, writes, a.found)
       PROVE  Met' => Met
  <2>1. PICK q : q = Append(p, a)
    OBVIOUS
  <2>2. \A i \in DOMAIN q : q[i] = a \/ (i \in DOMAIN p /\ q[i] = p[i])
    BY <1>3, <1>14, <2>1, Appended
  <2>3. newest # 0
    BY DEF Alive, PastOK, Past
  <2>4. ASSUME NEW i \in DOMAIN q, Loads(q[i]), q[i].found = newest
        PROVE  Live(doc, writes, newest) \/ \E j \in DOMAIN p : Loads(p[j]) /\ p[j].found = newest
    BY <1>14, <2>2, <2>3, <2>4
  <2> QED
    BY <1>5, <1>14, <2>1, <2>4
<1>15. ASSUME NEW s \in Slots, BoardsAnswered(s) PROVE ShownOK'
  <2>1. PICK a \in Answer : main' = Append(p, a) /\ a.found = IF a.ok THEN View ELSE 0
    BY <1>1, <1>2, <1>15, AnsweredIs
  <2>2. UNCHANGED <<doc, writes, told, cell, newest, shown, saved, overtaken>>
    BY <1>15 DEF BoardsAnswered, copyVars, pastVars
  <2>3. Live(doc, writes, View)
    BY <1>1, ViewIs
  <2>4. Met' => Met
    BY <1>14, <2>1, <2>2, <2>3
  <2> QED
    BY <1>4, <2>2, <2>4
<1>16. ASSUME WriteSettled PROVE ShownOK'
  <2>1. PICK a \in Answer : ~Loads(a) /\ (main' = p \/ main' = Append(p, a))
    BY <1>2, <1>16, SettledQueue
  <2>2. /\ \A v : Live(doc', writes', v) => Live(doc, writes, v)
        /\ UNCHANGED <<told, cell, newest, shown, saved, overtaken>>
    BY <1>16, SettledQueue DEF copyVars
  <2>3. CASE main' = p
    <3>1. Met' => Met
      BY <1>5, <2>2, <2>3
    <3> QED
      BY <1>4, <2>2, <3>1
  <2>4. CASE main' = Append(p, a)
    <3>1. Met' => Met
      BY <1>14, <2>1, <2>2, <2>4
    <3> QED
      BY <1>4, <2>2, <3>1
  <2> QED
    BY <2>1, <2>3, <2>4
<1>17. ASSUME Relaunch PROVE ShownOK'
  <2>1. /\ shown' = 0 /\ cell' = 0 /\ main' = <<>>
        /\ UNCHANGED <<saved, told, newest, overtaken>>
    BY <1>17 DEF Relaunch, pastVars
  <2>2. \A v : Live(doc', writes', v) <=> Live(doc, writes, v)
    BY <1>1, <1>17, RelaunchIs, SameQueue
  <2>3. Met' => newest = 0 \/ Met
    BY <2>1, <2>2 DEF Met
  <2>4. newest = 0 => ~Old(saved)'
    BY <2>1 DEF Old
  <2>5. ~Old(shown)' /\ (Old(saved)' <=> Old(saved))
    BY <2>1 DEF Old
  <2> QED
    BY <2>1, <2>3, <2>4, <2>5 DEF ShownOK
<1>18. ASSUME NEW v \in Versions, SaveChanges(v) PROVE ShownOK'
  <2>1. /\ v \in Nat /\ v \in {mine, newest + 1} /\ editor # "none" /\ main' = p
        /\ newest' = (IF v > newest THEN v ELSE newest)
        /\ UNCHANGED <<told, cell, shown, saved, overtaken>>
        /\ \A x : Live(doc', writes', x) <=> Live(doc, writes, x) \/ x = v
    BY <1>2, <1>18, SavedQueue DEF copyVars
  <2>2. CASE v = newest + 1
    <3>1. told' # newest'
      BY <1>3, <2>1, <2>2
    <3> QED
      BY <3>1 DEF ShownOK
  <2>3. CASE v = mine
    <3>1. newest' = newest
      BY <1>3, <2>1, <2>3
    <3>2. ASSUME told = newest, Met' PROVE Met
      <4>1. cell <= mine /\ (mine = cell \/ told < mine) /\ cell # 0
        BY <2>1 DEF SavesOK
      <4>2. v = newest => cell = newest
        BY <1>3, <2>3, <3>2, <4>1
      <4> QED
        BY <1>2, <2>1, <3>1, <3>2, <4>1, <4>2 DEF Met
    <3> QED
      BY <2>1, <3>1, <3>2 DEF ShownOK, Old
  <2> QED
    BY <2>1, <2>2, <2>3
<1>19. ASSUME NEW b \in AnyBoard, SelectBoard(b) PROVE ShownOK'
  <2>1. /\ b \in {0, listed} /\ shown' = b /\ saved' = b /\ overtaken' = ComesBack(b)
        /\ UNCHANGED <<doc, writes, main, told, cell, newest>>
    BY <1>19 DEF SelectBoard, storeVars
  <2>2. Met' => Met
    BY <1>1, <1>7, <2>1, Still
  <2>3. ASSUME told = newest, Met, Old(b) PROVE ComesBack(b)
    <3>1. b \in 0..newest /\ b # 0 /\ b < newest
      BY <1>3, <2>3 DEF Old
    <3>2. cell # 0
      BY <2>1, <3>1 DEF PastOK
    <3>3. cell = newest
      BY <2>3, <3>2, MetIsListed
    <3> QED
      BY <1>10, <2>3, <3>1, <3>3
  <2>4. Old(shown)' <=> Old(b)
    BY <2>1 DEF Old
  <2>5. Old(saved)' <=> Old(b)
    BY <2>1 DEF Old
  <2> QED
    BY <2>1, <2>2, <2>3, <2>4, <2>5 DEF ShownOK
<1>20. ASSUME \/ Appear \/ OpenAdd \/ OpenEdit \/ Pick \/ UNCHANGED vars
              \/ \E k \in DOMAIN uploads : UploadSettled(k)
       PROVE  ShownOK'
  <2>1. UNCHANGED <<doc, writes, main, cell, told, newest, shown, saved, overtaken>>
    BY <1>20 DEF Appear, OpenAdd, OpenEdit, Pick, UploadSettled, vars, storeVars, copyVars, pastVars
  <2> QED
    BY <1>1, <1>4, <1>7, <2>1, Still
<1>21. ~CreateBoard
  BY AliveStep
<1> QED
  BY <1>8, <1>11, <1>12, <1>13, <1>15, <1>16, <1>17, <1>18, <1>19, <1>20, <1>21
     DEF Next, User, MainQueue, EditorMoves

LEMMA DataStep ==
    ASSUME Base, LaunchOK, PastOK, DataOK, [Next]_vars
    PROVE  DataOK'
<1> SUFFICES ASSUME Alive' PROVE SavesOK' /\ FoundOK' /\ OnceOK' /\ ShownOK'
  BY DEF DataOK
<1>1. CASE Alive
  BY <1>1, SavesStep, FoundStep, OnceStep, ShownStep DEF DataOK
<1>2. CASE ~Alive
  <2>1. CreateBoard
    BY <1>2, AliveStep
  <2>2. /\ newest = 0 /\ newest' = 1 /\ 1 \in Versions /\ Enqueue(1, "add")
        /\ UNCHANGED <<doc, main, copyVars, editor, told>>
    BY <2>1, NumbersAre DEF CreateBoard
  <2>3. /\ doc = 0 /\ told = 0 /\ cell = 0 /\ editor = "none" /\ writes = <<>>
        /\ \A i \in DOMAIN main : main[i].found = 0
    BY <2>2 DEF PastOK, Past
  <2>4. DOMAIN writes' = {1} /\ writes'[1].v = 1 /\ Len(writes') = 1 /\ writes' # <<>>
    <3>1. Len(writes) = 0 /\ writes \in Seq(Write)
      BY <2>3 DEF Base, TypeOK
    <3>2. /\ DOMAIN writes' = 1..(Len(writes) + 1) /\ writes' \in Seq(Write)
          /\ writes'[Len(writes) + 1].v = 1
      BY <2>2, <3>1, EnqueueIs
    <3> QED
      BY <3>1, <3>2, LenProperties, EmptySeq
  <2>5. View' = 1
    BY <2>2, <2>3, <2>4 DEF View, Alive
  <2>6. Clean(doc', writes', told') /\ Clean(doc', writes', View')
    BY <2>2, <2>3, <2>4, <2>5 DEF Clean
  <2>7. SavesOK'
    BY <2>2, <2>3, <2>6 DEF SavesOK, copyVars
  <2>8. FoundOK'
    BY <2>2, <2>3 DEF FoundOK, copyVars
  <2>9. OnceOK' /\ ShownOK'
    BY <2>2, <2>3 DEF OnceOK, ShownOK
  <2> QED
    BY <2>7, <2>8, <2>9
<1> QED
  BY <1>1, <1>2

LEMMA InitData == Init => DataOK
<1> SUFFICES ASSUME Init PROVE SavesOK /\ FoundOK /\ OnceOK /\ ShownOK
  BY DEF DataOK
<1>1. /\ doc \in {0, 1} /\ newest = doc /\ writes = <<>> /\ main = <<>> /\ cell = 0
      /\ editor = "none"
  BY DEF Init
<1>2. DOMAIN writes = {} /\ DOMAIN main = {}
  BY <1>1
<1>3. SavesOK
  BY <1>1, <1>2 DEF SavesOK, Clean
<1>4. FoundOK /\ OnceOK
  BY <1>1, <1>2 DEF FoundOK, OnceOK
<1>5. ~Old(shown) /\ ~Old(saved)
  BY <1>1 DEF Old
<1> QED
  BY <1>3, <1>4, <1>5 DEF ShownOK

IInv == Base /\ LaunchOK /\ PastOK /\ CoverOK /\ DataOK

LEMMA Inductive == Spec => []IInv
<1>1. Init => IInv
  BY InitBase, InitLaunch, InitCover, InitData DEF IInv
<1>2. IInv /\ [Next]_vars => IInv'
  <2> SUFFICES ASSUME IInv, [Next]_vars PROVE IInv'
    OBVIOUS
  <2>1. TypeOK' /\ CallsOK' /\ EditorOK'
    BY TypeStep, CallsStep, EditorStep DEF IInv
  <2>2. LaunchOK' /\ PastOK' /\ CoverOK' /\ DataOK'
    BY LaunchStep, PastStep, CoverStep, DataStep DEF IInv
  <2> QED
    BY <2>1, <2>2 DEF IInv, Base
<1> QED
  BY <1>1, <1>2, PTL DEF Spec

-----------------------------------------------------------------------------
(* The theorems.                                                             *)

\* The board's copies, the screens and Firestore's queue stay what the code
\* declares them to be, whatever is saved, loaded and told in whatever order.
THEOREM TypeCorrect == Spec => []TypeOK
<1>1. IInv => TypeOK
  BY DEF IInv, Base
<1> QED
  BY <1>1, Inductive, PTL

\* A stored board gets its cover, also when AddProfileView was left before its
\* document was written: whoever is told of the creation uploads it, and only a
\* kill of the process takes that away.
THEOREM CoverFollowsAlways == Spec => []CoverFollows
<1>1. IInv => CoverFollows
  <2> SUFFICES ASSUME IInv, Quiet, doc # 0 PROVE covered
    BY DEF CoverFollows
  <2>1. DOMAIN main = {}
    BY DEF Quiet
  <2>2. ~covered => FALSE
    BY <2>1 DEF IInv, CoverOK
  <2>3. covered \in BOOLEAN
    BY DEF IInv, Base, TypeOK
  <2> QED
    BY <2>2, <2>3
<1> QED
  BY <1>1, Inductive, PTL

\* Changes saved one after the other, from editors that are opened, kept by their
\* downloads and told in any order, reach the document in the order of their
\* making, unless nobody was told of what the document has.
THEOREM NoLostUpdateAlways == Spec => NoLostUpdate
<1>1. IInv /\ [Next]_vars => [doc' >= doc \/ told # doc]_vars
  <2> SUFFICES ASSUME IInv, [Next]_vars, told = doc PROVE doc' >= doc
    OBVIOUS
  <2>1. TypeOK /\ doc \in Nat
    BY NumbersAre DEF IInv, Base, TypeOK
  <2>2. ASSUME doc' = doc PROVE doc' >= doc
    BY <2>1, <2>2
  <2>3. CASE WriteSettled
    <3>1. PICK w \in Write, ok \in BOOLEAN :
              /\ 1 \in DOMAIN writes /\ w = writes[1]
              /\ doc' = IF ok THEN w.v ELSE doc
      BY <2>1, <2>3, SettledIs
    <3>2. w.v \in Nat
      BY NumbersAre DEF Write
    <3>3. CASE doc = 0
      BY <2>1, <3>1, <3>2, <3>3
    <3>4. CASE doc # 0
      <4>1. Clean(doc, writes, told)
        BY <3>4 DEF IInv, DataOK, Alive, SavesOK
      <4>2. doc <= w.v
        BY <3>1, <4>1 DEF Clean
      <4> QED
        BY <2>1, <3>1, <3>2, <4>2
    <3> QED
      BY <3>3, <3>4
  <2>4. CASE CreateBoard \/ \E v \in Versions : SaveChanges(v)
    BY <2>2, <2>4 DEF CreateBoard, SaveChanges
  <2>5. CASE Stays
    BY <2>2, <2>5 DEF Stays
  <2> QED
    BY <2>3, <2>4, <2>5, QueueStep DEF IInv
<1> QED
  BY <1>1, Inductive, PTL DEF Spec, NoLostUpdate

\* When nothing is under way, what is on display is what the next launch shows,
\* and it has the newest data that an editor has told, unless a load or a list
\* from before that change has brought older data back.
THEOREM ShownIsStoredAlways == Spec => []ShownIsStored
<1>1. IInv => ShownIsStored
  <2> SUFFICES ASSUME IInv, Quiet, screen = "main"
               PROVE  /\ saved = shown
                      /\ shown # 0 /\ doc = newest /\ told = newest => shown = newest \/ overtaken
    BY DEF ShownIsStored
  <2>1. Base /\ PastOK /\ TypeOK
    BY DEF IInv, Base
  <2>2. saved = shown
    BY DEF IInv, LaunchOK, Quiet
  <2>3. ASSUME shown # 0, doc = newest, told = newest PROVE shown = newest \/ overtaken
    <3>1. newest \in Nat /\ shown \in 0..newest
      BY <2>1, PastNumbers
    <3>2. newest # 0
      BY <2>3, <3>1
    <3>3. ShownOK /\ Met
      BY <2>3, <3>2 DEF IInv, DataOK, Alive, Met, Live
    <3>4. shown = newest \/ Old(shown)
      BY <2>3, <3>1 DEF Old
    <3> QED
      BY <2>3, <3>3, <3>4 DEF ShownOK
  <2> QED
    BY <2>2, <2>3
<1> QED
  BY <1>1, Inductive, PTL
=============================================================================
