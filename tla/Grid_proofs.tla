----------------------------- MODULE Grid_proofs -----------------------------
(***************************************************************************)
(* The pictures that the grid keeps for an account, for all accounts and    *)
(* any number of pages whose HTML is awaited; a step of a drag, for lists   *)
(* of any length.                                                           *)
(***************************************************************************)
EXTENDS Grid, Lists_proofs, FiniteSetTheorems

\* The awaited answer is about the page in the web view.
AsksFor(read, p) == read.of = p.of /\ p.pictures = (read.html = "pictures")

\* What the web view does with the account: it loads no page but that of the account
\* on display, and an awaited answer is about another only after a change of account;
\* the last one awaited is about the page in the web view.
WebInv ==
    /\ board \in Accounts
    /\ saved \in [Accounts -> Pictures]
    /\ answers \in Seq([of : Accounts, html : Html])
    /\ page \in [of : Pictures, pictures : BOOLEAN, latest : BOOLEAN]
    /\ nav \in {board, Nothing}
    /\ ~grid => nav = Nothing
    /\ page.latest => page.of = board
    /\ \A i \in DOMAIN answers : answers[i].of = board \/ hurried
    /\ answers # <<>> => AsksFor(answers[Len(answers)], page)

IInv == WebInv /\ PreviewIsOwn /\ SavedIsOwn

LEMMA InitIInv == Init => IInv
<1> SUFFICES ASSUME Init PROVE IInv
  OBVIOUS
<1> QED
  BY DEF Init, Fresh, IInv, WebInv, PreviewIsOwn, SavedIsOwn, NoPage, Accounts, Pictures

\* A change of account leaves the pages awaited as they are, and makes them old.
LEMMA ChangesWeb ==
    ASSUME WebInv, NEW a \in Accounts, Changes(a), UNCHANGED <<grid, saved>>
    PROVE  WebInv'
<1>1. /\ board' = a /\ answers' = answers
      /\ hurried' = (hurried \/ (a # board /\ answers # <<>>))
      /\ page' = [page EXCEPT !.latest = @ /\ a = board]
  BY DEF Changes
<1>2. /\ page' \in [of : Pictures, pictures : BOOLEAN, latest : BOOLEAN]
      /\ page'.of = page.of /\ page'.pictures = page.pictures
      /\ page'.latest => page.latest /\ a = board
  BY <1>1 DEF WebInv
<1>3. nav' \in {a, Nothing} /\ (~grid => nav' = Nothing)
  BY DEF Changes, Open, WebInv
<1>4. \A i \in DOMAIN answers : answers[i].of = a \/ hurried'
  <2>1. ASSUME NEW i \in DOMAIN answers PROVE answers[i].of = a \/ hurried'
    <3>1. answers # <<>>
      BY <2>1
    <3> QED
      BY <1>1, <3>1 DEF WebInv
  <2> QED
    BY <2>1
<1>5. answers # <<>> => AsksFor(answers[Len(answers)], page')
  BY <1>2 DEF WebInv, AsksFor
<1> QED
  BY <1>1, <1>2, <1>3, <1>4, <1>5 DEF WebInv

LEMMA NextIInv == IInv /\ [Next]_vars => IInv'
<1> SUFFICES ASSUME IInv, [Next]_vars PROVE IInv'
  OBVIOUS
<1> USE DEF IInv
<1>1. ASSUME NEW b \in Boards, GetAllPosts(b) PROVE IInv'
  <2>1. WebInv'
    BY <1>1, ChangesWeb DEF GetAllPosts, Accounts
  <2>2. SavedIsOwn'
    BY <1>1 DEF SavedIsOwn, GetAllPosts, Changes
  <2>3. PreviewIsOwn'
    BY <1>1 DEF WebInv, PreviewIsOwn, GetAllPosts, Changes
  <2> QED
    BY <2>1, <2>2, <2>3
<1>2. ASSUME BoardsFailed PROVE IInv'
  <2>1. WebInv'
    BY <1>2, ChangesWeb DEF BoardsFailed, Accounts
  <2>2. SavedIsOwn'
    BY <1>2 DEF SavedIsOwn, BoardsFailed, Changes
  <2>3. PreviewIsOwn'
    BY <1>2 DEF WebInv, PreviewIsOwn, BoardsFailed, Changes
  <2> QED
    BY <2>1, <2>2, <2>3
<1>3. ASSUME LeaveGrid PROVE IInv'
  BY <1>3 DEF LeaveGrid, WebInv, PreviewIsOwn, SavedIsOwn, NoPage, Pictures
<1>4. ASSUME EnterGrid PROVE IInv'
  BY <1>4 DEF EnterGrid, WebInv, PreviewIsOwn, SavedIsOwn
<1>5. ASSUME PageFinished PROVE IInv'
  <2>1. nav = board /\ nav \in Accounts /\ nav' = Nothing
    BY <1>5 DEF PageFinished, WebInv
  <2>2. PICK html \in Html :
            /\ page' = [of |-> nav, pictures |-> (html = "pictures"), latest |-> TRUE]
            /\ answers' = Append(answers, [of |-> nav, html |-> html])
    BY <1>5 DEF PageFinished
  <2>3. page' \in [of : Pictures, pictures : BOOLEAN, latest : BOOLEAN] /\ page'.of = board
    BY <2>1, <2>2 DEF Pictures
  <2>4. UNCHANGED <<board, grid, urls, saved, hurried>>
    BY <1>5 DEF PageFinished
  <2> DEFINE read == [of |-> nav, html |-> html]
             Answer == [of : Accounts, html : Html]
  <2>5. read \in Answer /\ read.of = board /\ AsksFor(read, page')
    BY <2>1, <2>2 DEF AsksFor
  <2> HIDE DEF read
  <2>6. /\ answers' \in Seq(Answer) /\ answers' # <<>>
        /\ answers'[Len(answers')] = read
        /\ \A i \in DOMAIN answers' :
               \/ answers'[i] = read
               \/ i \in DOMAIN answers /\ answers'[i] = answers[i]
    <3>1. answers \in Seq(Answer) /\ read \in Answer /\ answers' = Append(answers, read)
      BY <2>2, <2>5 DEF WebInv, read
    <3> HIDE DEF Answer
    <3>2. Len(answers) \in Nat /\ DOMAIN answers = 1..Len(answers)
      BY <3>1
    <3>3. /\ answers' \in Seq(Answer) /\ Len(answers') = Len(answers) + 1
          /\ answers'[Len(answers) + 1] = read
          /\ \A i \in 1..Len(answers) : answers'[i] = answers[i]
      BY <3>1, AppendProperties
    <3>4. DOMAIN answers' = 1..(Len(answers) + 1)
      BY <3>2, <3>3, LenProperties
    <3>5. answers' # <<>>
      BY <3>2, <3>3
    <3>6. \A i \in DOMAIN answers' : i = Len(answers) + 1 \/ i \in DOMAIN answers
      BY <3>2, <3>4
    <3> QED
      BY <3>2, <3>3, <3>5, <3>6
  <2>7. \A i \in DOMAIN answers' : answers'[i].of = board \/ hurried
    BY <2>5, <2>6 DEF WebInv
  <2>8. WebInv'
    BY <2>1, <2>3, <2>4, <2>5, <2>6, <2>7 DEF WebInv
  <2> QED
    BY <2>4, <2>6, <2>8 DEF PreviewIsOwn, SavedIsOwn
<1>6. ASSUME PageFailed PROVE IInv'
  BY <1>6 DEF PageFailed, WebInv, PreviewIsOwn, SavedIsOwn
<1>7. ASSUME HtmlAnswered PROVE IInv'
  <2> DEFINE Answer == [of : Accounts, html : Html]
             read == Head(answers)
             rest == Tail(answers)
  <2>1. answers \in Seq(Answer) /\ answers # <<>> /\ answers' = rest
    BY <1>7 DEF HtmlAnswered, WebInv
  <2>2. UNCHANGED <<board, grid, nav, page, hurried>>
    BY <1>7 DEF HtmlAnswered
  <2>3. /\ 1 \in DOMAIN answers /\ read = answers[1] /\ read \in Answer
        /\ rest \in Seq(Answer)
        /\ rest # <<>> => rest[Len(rest)] = answers[Len(answers)]
        /\ rest = <<>> => read = answers[Len(answers)]
    <3> HIDE DEF Answer
    <3>1. Len(answers) \in Nat \ {0} /\ DOMAIN answers = 1..Len(answers)
      BY <2>1, EmptySeq, LenProperties
    <3>2. read = answers[1] /\ rest \in Seq(Answer) /\ Len(rest) = Len(answers) - 1
          /\ \A i \in 1..Len(rest) : rest[i] = answers[i + 1]
      BY <2>1, HeadTailProperties
    <3>3. 1 \in DOMAIN answers /\ answers[1] \in Answer
      BY <2>1, <3>1, ElementOfSeq
    <3> HIDE DEF read, rest
    <3>4. ASSUME rest # <<>> PROVE rest[Len(rest)] = answers[Len(answers)]
      <4>1. Len(rest) \in Nat \ {0}
        BY <3>2, <3>4, EmptySeq, LenProperties
      <4>2. Len(rest) \in 1..Len(rest) /\ Len(rest) + 1 = Len(answers)
        BY <3>1, <3>2, <4>1
      <4> QED
        BY <3>2, <4>2
    <3>5. ASSUME rest = <<>> PROVE Len(answers) = 1
      <4>1. Len(rest) = 0
        BY <3>5
      <4>2. Len(rest) = Len(answers) - 1
        BY <3>2
      <4>3. Len(answers) \in Nat
        BY <3>1
      <4>4. ASSUME NEW n \in Nat, 0 = n - 1 PROVE n = 1
        BY <4>4
      <4> QED
        BY <4>1, <4>2, <4>3, <4>4
    <3> QED
      BY <3>2, <3>3, <3>4, <3>5
  <2>4. \A i \in DOMAIN rest : i + 1 \in DOMAIN answers /\ rest[i] = answers[i + 1]
    <3> HIDE DEF Answer
    <3> QED
      BY <2>1, TailElements
  <2>5. read.of \in Pictures /\ (read.of = board \/ hurried)
    BY <2>3 DEF WebInv, Pictures
  <2>6. \/ read.html = "pictures" /\ Keep(read.of)
        \/ read.html = "wall" /\ urls' = saved[board] /\ UNCHANGED saved
        \/ read.html = "none" /\ UNCHANGED <<urls, saved>>
    BY <1>7 DEF HtmlAnswered
  <2> HIDE DEF read, rest
  <2>7. saved' \in [Accounts -> Pictures]
    BY <2>5, <2>6 DEF WebInv, Keep
  <2>8. \A i \in DOMAIN rest : rest[i].of = board \/ hurried
    BY <2>4 DEF WebInv
  <2>9. rest # <<>> => AsksFor(rest[Len(rest)], page)
    BY <2>1, <2>3 DEF WebInv
  <2>10. WebInv'
    BY <2>1, <2>2, <2>3, <2>7, <2>8, <2>9 DEF WebInv
  <2>11. SavedIsOwn'
    BY <2>2, <2>5, <2>6 DEF WebInv, SavedIsOwn, Keep
  <2>12. PreviewIsOwn'
    <3>1. SUFFICES ASSUME page.latest, page.pictures, rest = <<>>
                   PROVE  saved'[board] = board /\ urls' = board
      BY <2>1, <2>2 DEF PreviewIsOwn
    <3>2. read.of = board /\ read.html = "pictures"
      BY <2>1, <2>3, <3>1 DEF WebInv, AsksFor
    <3> QED
      BY <2>6, <3>2 DEF WebInv, Keep
  <2> QED
    BY <2>10, <2>11, <2>12
<1>8. ASSUME Relaunch PROVE IInv'
  BY <1>8 DEF Relaunch, WebInv, PreviewIsOwn, SavedIsOwn, NoPage, Pictures, Accounts
<1>9. ASSUME UNCHANGED <<board, grid, webVars, urls, saved, hurried>> PROVE IInv'
  BY <1>9 DEF WebInv, PreviewIsOwn, SavedIsOwn, webVars
<1> QED
  BY <1>1, <1>2, <1>3, <1>4, <1>5, <1>6, <1>7, <1>8, <1>9
     DEF Next, vars, PostsAnswered, PostChanges, Drag, DragText, DropEntered, DragEnds

THEOREM Invariance == Spec => []IInv
  BY InitIInv, NextIInv, PTL DEF Spec

\* Pictures are saved under another account only when the account changed between
\* the end of a page's load and its HTML.
THEOREM SavedIsOwnAlways == Spec => []SavedIsOwn
<1>1. IInv => SavedIsOwn
  BY DEF IInv
<1> QED
  BY <1>1, Invariance, PTL

\* A page read since the account was chosen, whose HTML came with pictures, decides
\* what is shown and saved for it; one that brought no HTML changes nothing.
THEOREM PreviewIsOwnAlways == Spec => []PreviewIsOwn
<1>1. IInv => PreviewIsOwn
  BY DEF IInv
<1> QED
  BY <1>1, Invariance, PTL

-----------------------------------------------------------------------------
(* Dragging.                                                                 *)

\* Whatever the list, relocating takes the dragged post out and puts it back at the
\* place of the cell that was entered: the arithmetic of the two offsets is right.
THEOREM RelocateMovesOne ==
    ASSUME NEW S, NEW s \in Seq(S), NEW from \in 1..Len(s), NEW to \in 1..Len(s)
    PROVE  MovesOne(s, Relocate(s, from, to), from, to)
<1> DEFINE rest == RemoveAt(s, from)
           there == InsertAt(rest, to, s[from])
           moved == Relocate(s, from, to)
<1>1. /\ rest \in Seq(S) /\ Len(rest) = Len(s) - 1
      /\ \A k \in 1..(Len(s) - 1) : rest[k] = IF k < from THEN s[k] ELSE s[k + 1]
  BY Removed
<1>2. /\ there \in Seq(S) /\ Len(there) = Len(s)
      /\ \A k \in 1..Len(s) :
             there[k] = IF k < to THEN rest[k] ELSE IF k = to THEN s[from] ELSE rest[k - 1]
  <2> HIDE DEF rest
  <2>1. s[from] \in S /\ to \in 1..(Len(rest) + 1) /\ Len(rest) + 1 = Len(s)
    BY <1>1
  <2>2. rest \in Seq(S)
    BY <1>1
  <2>3. HasInserted(S, there, rest, to, s[from])
    BY <2>1, <2>2, Inserted
  <2> QED
    BY <2>1, <2>3 DEF HasInserted
<1>3. moved = [k \in 1..Len(s) |->
                  IF k = to THEN s[from]
                  ELSE IF from <= k /\ k < to THEN s[k + 1]
                  ELSE IF to < k /\ k <= from THEN s[k - 1]
                  ELSE s[k]]
  BY DEF Relocate, MoveTo
<1> HIDE DEF rest, there, moved
<1>4. ASSUME NEW k \in 1..Len(s) PROVE there[k] = moved[k]
  <2> Len(s) \in Nat /\ from \in 1..Len(s) /\ to \in 1..Len(s)
    OBVIOUS
  <2>1. CASE k < to
    <3>1. k \in 1..(Len(s) - 1)
      BY <2>1
    <3>2. there[k] = IF k < from THEN s[k] ELSE s[k + 1]
      BY <1>1, <1>2, <2>1, <3>1
    <3>3. moved[k] = IF from <= k THEN s[k + 1] ELSE s[k]
      BY <1>3, <2>1
    <3> QED
      BY <3>2, <3>3
  <2>2. CASE k = to
    BY <1>2, <1>3, <2>2
  <2>3. CASE to < k
    <3>1. k - 1 \in 1..(Len(s) - 1) /\ (k - 1) + 1 = k
      BY <2>3
    <3>2. there[k] = rest[k - 1]
      BY <1>2, <2>3
    <3>3. rest[k - 1] = IF k - 1 < from THEN s[k - 1] ELSE s[k]
      BY <1>1, <3>1
    <3>4. moved[k] = IF k <= from THEN s[k - 1] ELSE s[k]
      BY <1>3, <2>3
    <3> QED
      BY <3>2, <3>3, <3>4
  <2> QED
    BY <2>1, <2>2, <2>3
<1>5. there = moved
  BY <1>2, <1>3, <1>4
<1> QED
  BY <1>5 DEF MovesOne, rest, there, moved

\* A list has no gaps, whatever its elements are.
IsList(s) == s \in Seq(Range(s))

\* What is on display, and the loads that will replace it, as the drags need them.
ListInv == IsList(posts) /\ loads \in Seq(Boards)

\* A function on 1..n is a list.
LEMMA FunctionIsList ==
    ASSUME NEW n \in Nat, NEW f, f = [k \in 1..n |-> f[k]]
    PROVE  IsList(f)
<1>1. f \in [1..n -> Range(f)]
  BY DEF Range
<1> QED
  BY <1>1 DEF IsList

\* An answered load lists what is left of its board.
LEMMA ListedIsList == ASSUME NEW b \in Boards PROVE IsList(Listed(b))
<1> DEFINE there == {i \in DOMAIN PostsOf[b] : stored[PostsOf[b][i]] # Nothing}
<1>1. there \subseteq 1..Len(PostsOf[b]) /\ Len(PostsOf[b]) \in Nat
  BY PostsOfAssumption
<1>2. IsFiniteSet(1..Len(PostsOf[b]))
  BY <1>1, FS_Interval
<1>3. Cardinality(there) \in Nat
  BY <1>1, <1>2, FS_Subset, FS_CardinalityType
<1>4. Listed(b) = [k \in 1..Cardinality(there) |-> Listed(b)[k]]
  BY DEF Listed
<1> HIDE DEF there
<1> QED
  BY <1>3, <1>4, FunctionIsList

\* An entered cell leaves a list.
LEMMA RelocateIsList ==
    ASSUME NEW s, IsList(s), NEW from, NEW to
    PROVE  IsList(Relocate(s, from, to))
<1>1. Len(s) \in Nat
  BY DEF IsList
<1>2. Relocate(s, from, to) = [k \in 1..Len(s) |-> Relocate(s, from, to)[k]]
  BY DEF Relocate, MoveTo
<1> QED
  BY <1>1, <1>2, FunctionIsList

LEMMA ListInvariance == Spec => []ListInv
<1>1. Init => ListInv
  BY DEF Init, Fresh, ListInv, IsList
<1>2. ASSUME ListInv, [Next]_vars PROVE ListInv'
  <2> USE DEF ListInv
  <2>1. ASSUME NEW b \in Boards, GetAllPosts(b) PROVE ListInv'
    BY <1>2, <2>1 DEF GetAllPosts, IsList, Range
  <2>2. ASSUME NEW k \in DOMAIN loads, PostsAnswered(k) PROVE ListInv'
    <3>1. loads[k] \in Boards /\ k \in 1..Len(loads)
      BY <1>2, <2>2
    <3>2. IsList(Listed(loads[k]))
      BY <3>1, ListedIsList
    <3>3. IsList(posts')
      BY <1>2, <2>2, <3>2 DEF PostsAnswered
    <3>4. loads' \in Seq(Boards)
      BY <1>2, <2>2, <3>1, Removed DEF PostsAnswered
    <3> QED
      BY <3>3, <3>4 DEF IsList
  <2>3. ASSUME NEW k \in DOMAIN posts, DropEntered(k) PROVE ListInv'
    <3>1. IsList(posts')
      BY <1>2, <2>3, RelocateIsList DEF DropEntered
    <3> QED
      BY <1>2, <2>3, <3>1 DEF DropEntered, IsList
  <2>4. ASSUME Relaunch PROVE ListInv'
    BY <1>2, <2>4 DEF Relaunch, IsList
  <2>5. ASSUME UNCHANGED <<posts, loads>> PROVE ListInv'
    BY <1>2, <2>5 DEF IsList
  <2> QED
    BY <1>2, <2>1, <2>2, <2>3, <2>4, <2>5
       DEF Next, vars, BoardsFailed, PostChanges, Drag, DragText, DragEnds, LeaveGrid, EnterGrid,
           PageFinished, PageFailed, HtmlAnswered
<1> QED
  BY <1>1, <1>2, PTL DEF Spec

\* A cell that is entered gives its place to the dragged post; the others keep their
\* order: of lists of any length, after any loads.
THEOREM DragMovesOneAlways == Spec => DragMovesOne
<1>1. ASSUME ListInv, NEW k \in DOMAIN posts, DropEntered(k), ~crashed'
      PROVE  \E from \in DOMAIN posts :
                 posts[from] = dragging /\ MovesOne(posts, posts', from, k)
  <2> DEFINE from == CHOOSE i \in DOMAIN posts : posts[i] = dragging
  <2>1. dragging \in Range(posts) /\ posts' = Relocate(posts, from, k)
    BY <1>1 DEF DropEntered
  <2>2. from \in DOMAIN posts /\ posts[from] = dragging
    BY <2>1 DEF Range
  <2> HIDE DEF from
  <2>3. posts \in Seq(Range(posts)) /\ from \in 1..Len(posts) /\ k \in 1..Len(posts)
    BY <1>1, <2>2 DEF ListInv, IsList
  <2>4. MovesOne(posts, Relocate(posts, from, k), from, k)
    BY <2>3, RelocateMovesOne
  <2> QED
    BY <2>1, <2>2, <2>4
<1>2. ListInv =>
        [\A k \in DOMAIN posts :
             DropEntered(k) /\ ~crashed' =>
                 \E from \in DOMAIN posts :
                     posts[from] = dragging /\ MovesOne(posts, posts', from, k)]_vars
  BY <1>1
<1> QED
  BY <1>2, ListInvariance, PTL DEF DragMovesOne, Spec

-----------------------------------------------------------------------------
(* The list.                                                                 *)

\* Counting the members of a set from below reaches each number up to their number
\* at a member.
LEMMA CountReaches ==
    ASSUME NEW n \in Nat, NEW there \in SUBSET (1..n), NEW k \in 1..Cardinality(there)
    PROVE  \E i \in there : Cardinality(there \cap 1..i) = k
<1> DEFINE below(i) == there \cap 1..i
           T == {i \in Nat : k <= Cardinality(below(i))}
<1>1. ASSUME NEW i \in Nat PROVE IsFiniteSet(below(i)) /\ Cardinality(below(i)) \in Nat
  <2>1. IsFiniteSet(1..i) /\ below(i) \subseteq 1..i
    BY FS_Interval
  <2> QED
    BY <2>1, FS_Subset, FS_CardinalityType
<1>2. n \in T
  <2>1. below(n) = there
    OBVIOUS
  <2>2. Cardinality(there) \in Nat
    BY <1>1, <2>1
  <2> QED
    BY <2>1, <2>2
<1>3. PICK i \in T : \A j \in T : i <= j
  BY <1>2, LeastNatural
<1>4. i \in Nat \ {0}
  <2>1. below(0) = {}
    OBVIOUS
  <2>2. Cardinality(below(0)) = 0
    BY <2>1, FS_EmptySet
  <2> QED
    BY <2>2
<1>5. i - 1 \in Nat /\ Cardinality(below(i - 1)) < k
  <2>1. i - 1 \in Nat /\ i - 1 \notin T
    BY <1>3, <1>4
  <2> QED
    BY <1>1, <2>1
<1>6. i \in there
  <2>1. SUFFICES ASSUME i \notin there PROVE FALSE
    OBVIOUS
  <2>2. below(i) = below(i - 1)
    BY <1>4, <2>1
  <2>3. Cardinality(below(i)) < k
    BY <1>5, <2>2
  <2> QED
    BY <1>1, <1>3, <2>3
<1>7. below(i) = below(i - 1) \cup {i} /\ i \notin below(i - 1)
  BY <1>4, <1>6
<1>8. Cardinality(below(i)) = Cardinality(below(i - 1)) + 1
  <2> HIDE DEF below
  <2> QED
    BY <1>1, <1>5, <1>7, FS_AddElement
<1>9. Cardinality(below(i)) = k
  <2>1. k <= Cardinality(below(i)) /\ Cardinality(below(i - 1)) \in Nat
    BY <1>1, <1>3, <1>5
  <2> HIDE DEF below
  <2> QED
    BY <1>5, <1>8, <2>1
<1> QED
  BY <1>6, <1>9

\* An answered load lists posts, each of them once.
LEMMA ListedTypes ==
    ASSUME NEW b \in Boards, TypeOK
    PROVE  Listed(b) \in Seq(Post) /\ IsInjective(Listed(b))
<1> DEFINE there == {i \in DOMAIN PostsOf[b] : stored[PostsOf[b][i]] # Nothing}
           n == Cardinality(there)
           at(k) == CHOOSE i \in there : Cardinality(there \cap 1..i) = k
           elem(k) == [uid |-> PostsOf[b][at(k)], v |-> stored[PostsOf[b][at(k)]]]
<1>1. /\ PostsOf[b] \in Seq(Range(PostsOf[b])) /\ IsInjective(PostsOf[b])
      /\ Len(PostsOf[b]) \in Nat /\ DOMAIN PostsOf[b] = 1..Len(PostsOf[b])
  BY PostsOfAssumption
<1>2. there \in SUBSET (1..Len(PostsOf[b]))
  BY <1>1
<1>3. n \in Nat
  <2>1. IsFiniteSet(1..Len(PostsOf[b]))
    BY <1>1, FS_Interval
  <2> QED
    BY <1>2, <2>1, FS_Subset, FS_CardinalityType
<1>4. Listed(b) = [k \in 1..n |-> elem(k)]
  BY DEF Listed
<1> HIDE DEF n
<1>5. ASSUME NEW k \in 1..n PROVE at(k) \in there /\ Cardinality(there \cap 1..at(k)) = k
  <2>1. \E i \in there : Cardinality(there \cap 1..i) = k
    <3> HIDE DEF there
    <3> QED
      BY <1>1, <1>2, CountReaches DEF n
  <2> HIDE DEF there
  <2> QED
    BY <2>1
<1>6. ASSUME NEW i \in there
      PROVE  [uid |-> PostsOf[b][i], v |-> stored[PostsOf[b][i]]] \in Post
  <2> DEFINE u == PostsOf[b][i]
             uids == UNION {Range(PostsOf[c]) : c \in Boards}
  <2>1. u \in uids
    BY <1>1 DEF Range
  <2>2. Post = [uid : uids, v : Versions]
    BY DEF Post
  <2>3. PICK v \in Versions : TRUE
    BY VersionsAssumption
  <2>4. u \in DOMAIN stored
    <3> HIDE DEF u, uids
    <3>1. [uid |-> u, v |-> v] \in Post /\ [uid |-> u, v |-> v].uid = u
      BY <2>1, <2>2, <2>3
    <3> QED
      BY <3>1 DEF TypeOK
  <2>5. stored[u] \in Versions
    BY <2>4 DEF TypeOK, Range
  <2> HIDE DEF u, uids
  <2> QED
    BY <2>1, <2>2, <2>5 DEF u
<1> HIDE DEF at, there
<1>7. ASSUME NEW k \in 1..n PROVE elem(k) \in Post
  BY <1>5, <1>6
<1>8. ASSUME NEW k \in 1..n, NEW l \in 1..n, elem(k) = elem(l) PROVE k = l
  <2>1. PostsOf[b][at(k)] = PostsOf[b][at(l)]
    BY <1>8
  <2>2. at(k) \in DOMAIN PostsOf[b] /\ at(l) \in DOMAIN PostsOf[b]
    BY <1>1, <1>2, <1>5
  <2>3. at(k) = at(l)
    BY <1>1, <2>1, <2>2 DEF IsInjective
  <2> QED
    BY <1>5, <2>3
<1> HIDE DEF elem
<1>9. Listed(b) \in [1..n -> Post]
  BY <1>4, <1>7
<1>10. Listed(b) \in Seq(Post)
  BY <1>3, <1>9
<1>11. IsInjective(Listed(b))
  BY <1>4, <1>8 DEF IsInjective
<1> QED
  BY <1>10, <1>11

\* An entered cell leaves every post in the list, in another place perhaps.
LEMMA RelocateKeeps ==
    ASSUME NEW S, NEW s \in Seq(S), NEW from \in 1..Len(s), NEW to \in 1..Len(s)
    PROVE  LET moved == Relocate(s, from, to)
           IN  /\ moved \in Seq(S)
               /\ Range(s) \subseteq Range(moved)
               /\ IsInjective(s) => IsInjective(moved)
<1> DEFINE moved == Relocate(s, from, to)
           place(i) == IF i = from THEN to
                       ELSE IF from < i /\ i <= to THEN i - 1
                       ELSE IF to <= i /\ i < from THEN i + 1
                       ELSE i
           origin(k) == IF k = to THEN from
                        ELSE IF from <= k /\ k < to THEN k + 1
                        ELSE IF to < k /\ k <= from THEN k - 1
                        ELSE k
<1>1. Len(s) \in Nat /\ DOMAIN s = 1..Len(s) /\ s \in [1..Len(s) -> S]
  OBVIOUS
<1>2. moved = [k \in 1..Len(s) |-> s[origin(k)]]
  BY DEF Relocate, MoveTo
<1>3. ASSUME NEW k \in 1..Len(s)
      PROVE  origin(k) \in 1..Len(s) /\ place(k) \in 1..Len(s)
  BY <1>1
<1>4. ASSUME NEW k \in 1..Len(s)
      PROVE  place(origin(k)) = k /\ origin(place(k)) = k
  BY <1>1
<1> HIDE DEF moved, place, origin
<1>5. moved \in [1..Len(s) -> S]
  BY <1>1, <1>2, <1>3
<1>6. moved \in Seq(S)
  BY <1>1, <1>5
<1>7. ASSUME NEW i \in 1..Len(s) PROVE moved[place(i)] = s[i]
  BY <1>2, <1>3, <1>4
<1>8. Range(s) \subseteq Range(moved)
  <2>1. ASSUME NEW e \in Range(s) PROVE e \in Range(moved)
    <3>1. PICK i \in 1..Len(s) : s[i] = e
      BY <1>1 DEF Range
    <3> QED
      BY <1>2, <1>3, <1>7, <3>1 DEF Range
  <2> QED
    BY <2>1
<1>9. ASSUME IsInjective(s) PROVE IsInjective(moved)
  <2>1. ASSUME NEW k \in 1..Len(s), NEW l \in 1..Len(s), moved[k] = moved[l] PROVE k = l
    <3>1. s[origin(k)] = s[origin(l)]
      BY <1>2, <2>1
    <3>2. origin(k) = origin(l)
      BY <1>1, <1>3, <1>9, <3>1 DEF IsInjective
    <3> QED
      BY <1>4, <3>2
  <2> QED
    BY <1>2, <2>1 DEF IsInjective
<1> QED
  BY <1>6, <1>8, <1>9 DEF moved

-----------------------------------------------------------------------------
(* Types, and the drags.                                                     *)

AnswersOK == answers \in Seq([of : Accounts, html : Html]) /\ Len(answers) <= MaxAnswers

LEMMA InitTypes == Init => TypeOK
<1> SUFFICES ASSUME Init PROVE TypeOK
  OBVIOUS
<1>1. PICK b \in Boards : Fresh(b)
  BY DEF Init
<1>2. posts \in Seq(Post) /\ IsInjective(posts)
  BY <1>1 DEF Fresh, IsInjective
<1>3. DOMAIN stored = {p.uid : p \in Post} /\ Range(stored) \subseteq Versions \cup {Nothing}
  BY DEF Init, Range
<1>4. AnswersOK
  BY <1>1, MaxAnswersAssumption DEF Fresh, AnswersOK
<1>5. saved \in [Accounts -> Pictures] /\ urls \in Pictures /\ nav \in Pictures
  BY <1>1 DEF Fresh, Init, Accounts, Pictures
<1>6. page \in [of : Pictures, pictures : BOOLEAN, latest : BOOLEAN]
  BY <1>1 DEF Fresh, NoPage, Pictures
<1>7. loads \in Seq(Boards)
  BY <1>1 DEF Fresh
<1>8. /\ board \in Accounts /\ isLoading \in BOOLEAN /\ grid \in BOOLEAN
      /\ dragging \in Post \cup {Nothing} /\ drag \in {"none", "post", "text"}
      /\ crashed \in BOOLEAN /\ replaced \in BOOLEAN /\ hurried \in BOOLEAN
  BY <1>1 DEF Fresh, Init, Accounts
<1> QED
  BY <1>2, <1>3, <1>4, <1>5, <1>6, <1>7, <1>8 DEF TypeOK, AnswersOK

\* The board changes, by a load or a failure.
LEMMA ChangesTypes ==
    ASSUME TypeOK, NEW a \in Accounts, Changes(a)
    PROVE  /\ board' \in Accounts /\ nav' \in Pictures /\ hurried' \in BOOLEAN
           /\ AnswersOK'
           /\ page' \in [of : Pictures, pictures : BOOLEAN, latest : BOOLEAN]
<1>1. nav' \in Pictures
  BY DEF TypeOK, Changes, Open, Accounts, Pictures
<1>2. page' \in [of : Pictures, pictures : BOOLEAN, latest : BOOLEAN]
  BY DEF TypeOK, Changes
<1>3. board' \in Accounts /\ hurried' \in BOOLEAN /\ AnswersOK'
  BY DEF TypeOK, Changes, AnswersOK
<1> QED
  BY <1>1, <1>2, <1>3

LEMMA NextTypes == TypeOK /\ [Next]_vars => TypeOK'
<1> SUFFICES ASSUME TypeOK, [Next]_vars PROVE TypeOK'
  OBVIOUS
<1>1. ASSUME NEW b \in Boards, GetAllPosts(b) PROVE TypeOK'
  <2>1. b \in Accounts /\ saved[b] \in Pictures
    BY DEF TypeOK, Accounts
  <2>2. Changes(b)
    BY <1>1 DEF GetAllPosts
  <2>3. loads' \in Seq(Boards)
    BY <1>1 DEF GetAllPosts, TypeOK
  <2>4. isLoading' \in BOOLEAN /\ urls' \in Pictures
    BY <1>1, <2>1 DEF GetAllPosts, TypeOK
  <2>5. UNCHANGED <<posts, stored, grid, dragging, drag, crashed, replaced, saved>>
    BY <1>1 DEF GetAllPosts, dragVars
  <2> QED
    BY <2>1, <2>2, <2>3, <2>4, <2>5, ChangesTypes DEF TypeOK, AnswersOK
<1>2. ASSUME BoardsFailed PROVE TypeOK'
  <2>1. Empty \in Accounts /\ Changes(Empty)
    BY <1>2 DEF Accounts, BoardsFailed
  <2>2. /\ isLoading' \in BOOLEAN
        /\ UNCHANGED <<posts, loads, stored, grid, dragging, drag, crashed, replaced, urls, saved>>
    BY <1>2 DEF BoardsFailed, dragVars
  <2> QED
    BY <2>1, <2>2, ChangesTypes DEF TypeOK, AnswersOK
<1>3. ASSUME NEW k \in DOMAIN loads, PostsAnswered(k) PROVE TypeOK'
  <2>1. loads \in Seq(Boards) /\ k \in 1..Len(loads) /\ loads[k] \in Boards
    BY DEF TypeOK
  <2>2. posts' \in Seq(Post) /\ IsInjective(posts)'
    <3>1. Listed(loads[k]) \in Seq(Post) /\ IsInjective(Listed(loads[k]))
      BY <2>1, ListedTypes
    <3> QED
      BY <1>3, <3>1 DEF PostsAnswered, TypeOK, IsInjective
  <2>3. loads' \in Seq(Boards)
    BY <1>3, <2>1, Removed DEF PostsAnswered
  <2>4. /\ isLoading' \in BOOLEAN /\ replaced' \in BOOLEAN
        /\ UNCHANGED <<board, stored, grid, dragging, drag, crashed, nav, page, answers, urls,
                       saved, hurried>>
    BY <1>3 DEF PostsAnswered, webVars
  <2> QED
    BY <2>2, <2>3, <2>4 DEF TypeOK
<1>4. ASSUME NEW u \in DOMAIN stored, PostChanges(u) PROVE TypeOK'
  <2>1. DOMAIN stored' = DOMAIN stored /\ Range(stored') \subseteq Versions \cup {Nothing}
    BY <1>4 DEF PostChanges, TypeOK, Range
  <2> QED
    BY <1>4, <2>1 DEF PostChanges, TypeOK, dragVars, webVars
<1>5. ASSUME NEW k \in DOMAIN posts, Drag(k) PROVE TypeOK'
  <2>1. posts[k] \in Post
    BY DEF TypeOK
  <2> QED
    BY <1>5, <2>1 DEF Drag, TypeOK, webVars
<1>6. ASSUME NEW k \in DOMAIN posts, DropEntered(k) PROVE TypeOK'
  <2>1. posts' \in Seq(Post) /\ IsInjective(posts)'
    <3> DEFINE from == CHOOSE i \in DOMAIN posts : posts[i] = dragging
    <3>1. CASE dragging \in Range(posts)
      <4>1. posts \in Seq(Post) /\ from \in 1..Len(posts) /\ k \in 1..Len(posts)
        BY <3>1 DEF TypeOK, Range
      <4>2. posts' = Relocate(posts, from, k)
        BY <1>6, <3>1 DEF DropEntered
      <4> HIDE DEF from
      <4>3. posts' \in Seq(Post) /\ IsInjective(posts')
        BY <4>1, <4>2, RelocateKeeps DEF TypeOK
      <4> QED
        BY <4>3
    <3>2. CASE dragging \notin Range(posts)
      BY <1>6, <3>2 DEF DropEntered, TypeOK, IsInjective
    <3> QED
      BY <3>1, <3>2
  <2>2. crashed' \in BOOLEAN
    BY <1>6 DEF DropEntered, TypeOK
  <2> QED
    BY <1>6, <2>1, <2>2 DEF DropEntered, TypeOK, webVars
<1>7. ASSUME DragText PROVE TypeOK'
  BY <1>7 DEF DragText, TypeOK, webVars
<1>8. ASSUME DragEnds PROVE TypeOK'
  BY <1>8 DEF DragEnds, TypeOK, webVars
<1>9. ASSUME LeaveGrid PROVE TypeOK'
  <2>1. /\ page' \in [of : Pictures, pictures : BOOLEAN, latest : BOOLEAN]
        /\ nav' \in Pictures
    BY <1>9 DEF LeaveGrid, NoPage, Pictures
  <2>2. AnswersOK'
    BY <1>9, MaxAnswersAssumption DEF LeaveGrid, AnswersOK
  <2> QED
    BY <1>9, <2>1, <2>2 DEF LeaveGrid, TypeOK, AnswersOK, dragVars
<1>10. ASSUME EnterGrid PROVE TypeOK'
  BY <1>10 DEF EnterGrid, TypeOK, dragVars, Pictures
<1>11. ASSUME PageFinished PROVE TypeOK'
  <2>1. nav \in Accounts
    BY <1>11 DEF PageFinished, TypeOK, Pictures
  <2>2. PICK html \in Html :
            /\ page' = [of |-> nav, pictures |-> (html = "pictures"), latest |-> TRUE]
            /\ answers' = Append(answers, [of |-> nav, html |-> html])
    BY <1>11 DEF PageFinished
  <2>3. page' \in [of : Pictures, pictures : BOOLEAN, latest : BOOLEAN]
    BY <2>1, <2>2 DEF Pictures
  <2> DEFINE read == [of |-> nav, html |-> html]
             Answer == [of : Accounts, html : Html]
  <2>4. read \in Answer /\ answers \in Seq(Answer) /\ Len(answers) < MaxAnswers
    BY <1>11, <2>1, <2>2 DEF PageFinished, TypeOK
  <2>5. answers' \in Seq(Answer) /\ Len(answers') <= MaxAnswers
    <3>1. answers' = Append(answers, read)
      BY <2>2
    <3> HIDE DEF read, Answer
    <3> QED
      BY <2>4, <3>1, MaxAnswersAssumption
  <2> QED
    BY <1>11, <2>3, <2>5 DEF PageFinished, TypeOK, dragVars, Pictures
<1>12. ASSUME PageFailed PROVE TypeOK'
  BY <1>12 DEF PageFailed, TypeOK, dragVars, Pictures
<1>13. ASSUME HtmlAnswered PROVE TypeOK'
  <2> DEFINE Answer == [of : Accounts, html : Html]
  <2>1. answers \in Seq(Answer) /\ Len(answers) <= MaxAnswers /\ answers # <<>>
    BY <1>13 DEF HtmlAnswered, TypeOK
  <2>2. Head(answers) \in Answer /\ Tail(answers) \in Seq(Answer)
        /\ Len(Tail(answers)) <= MaxAnswers
    <3> HIDE DEF Answer
    <3>1. Len(Tail(answers)) = Len(answers) - 1 /\ Len(answers) \in Nat
      BY <2>1
    <3> QED
      BY <2>1, <3>1, MaxAnswersAssumption
  <2>3. Head(answers).of \in Pictures
    BY <2>2 DEF Pictures
  <2>4. urls' \in Pictures /\ saved' \in [Accounts -> Pictures]
    BY <1>13, <2>3 DEF HtmlAnswered, Keep, TypeOK
  <2>5. answers' \in Seq(Answer) /\ Len(answers') <= MaxAnswers
    BY <1>13, <2>2 DEF HtmlAnswered
  <2> QED
    BY <1>13, <2>4, <2>5 DEF HtmlAnswered, TypeOK, dragVars
<1>14. ASSUME Relaunch PROVE TypeOK'
  <2>1. PICK b \in Boards : board' = b /\ loads' = <<b>> /\ nav' = b /\ urls' = saved[b]
    BY <1>14 DEF Relaunch
  <2>2. /\ board' \in Accounts /\ loads' \in Seq(Boards) /\ nav' \in Pictures
        /\ urls' \in Pictures
    BY <2>1 DEF TypeOK, Accounts, Pictures
  <2>3. posts' \in Seq(Post) /\ IsInjective(posts)'
    BY <1>14 DEF Relaunch, IsInjective
  <2>4. AnswersOK'
    BY <1>14, MaxAnswersAssumption DEF Relaunch, AnswersOK
  <2> QED
    BY <1>14, <2>2, <2>3, <2>4 DEF Relaunch, TypeOK, AnswersOK, NoPage, Pictures
<1>15. ASSUME UNCHANGED vars PROVE TypeOK'
  BY <1>15 DEF vars, dragVars, webVars, TypeOK
<1> QED
  BY <1>1, <1>2, <1>3, <1>4, <1>5, <1>6, <1>7, <1>8, <1>9, <1>10, <1>11, <1>12, <1>13, <1>14,
     <1>15 DEF Next

\* Every list on display is one of posts, each once, whatever loads and drags do;
\* with the accounts, the pages and the bounds.
THEOREM TypeCorrect == Spec => []TypeOK
  BY InitTypes, NextTypes, PTL DEF Spec

\* What is dragged stays in the list until a load replaces it.
DraggedIsListed == drag = "post" /\ ~replaced => dragging \in Range(posts)

LEMMA DraggedIsListedAlways == Spec => [](DraggedIsListed /\ CrashNeedsReload)
<1>1. Init => DraggedIsListed /\ CrashNeedsReload
  BY DEF Init, Fresh, DraggedIsListed, CrashNeedsReload
<1>2. ASSUME TypeOK, DraggedIsListed, CrashNeedsReload, [Next]_vars
      PROVE  DraggedIsListed' /\ CrashNeedsReload'
  <2>1. ASSUME NEW k \in DOMAIN loads, PostsAnswered(k)
        PROVE  DraggedIsListed' /\ CrashNeedsReload'
    BY <2>1 DEF PostsAnswered, DraggedIsListed, CrashNeedsReload
  <2>2. ASSUME NEW k \in DOMAIN posts, Drag(k) PROVE DraggedIsListed' /\ CrashNeedsReload'
    BY <2>2 DEF Drag, OnGrid, DraggedIsListed, CrashNeedsReload, Range
  <2>3. ASSUME NEW k \in DOMAIN posts, DropEntered(k)
        PROVE  DraggedIsListed' /\ CrashNeedsReload'
    <3>1. CASE dragging \in Range(posts)
      <4> DEFINE from == CHOOSE i \in DOMAIN posts : posts[i] = dragging
      <4>1. posts \in Seq(Post) /\ from \in 1..Len(posts) /\ k \in 1..Len(posts)
        BY <1>2, <3>1 DEF TypeOK, Range
      <4>2. posts' = Relocate(posts, from, k) /\ crashed' = crashed
        BY <2>3, <3>1 DEF DropEntered
      <4> HIDE DEF from
      <4>3. Range(posts) \subseteq Range(posts')
        BY <4>1, <4>2, RelocateKeeps
      <4>4. dragging \in Range(posts)'
        BY <3>1, <4>3 DEF Range
      <4>5. dragging' \in Range(posts)'
        BY <2>3, <4>4 DEF DropEntered
      <4> QED
        BY <1>2, <2>3, <4>2, <4>5 DEF DropEntered, DraggedIsListed, CrashNeedsReload
    <3>2. CASE dragging \notin Range(posts)
      <4>1. replaced \/ drag = "text"
        BY <1>2, <2>3, <3>2 DEF DropEntered, DraggedIsListed, TypeOK
      <4> QED
        BY <2>3, <3>2, <4>1 DEF DropEntered, DraggedIsListed, CrashNeedsReload
    <3> QED
      BY <3>1, <3>2
  <2>4. ASSUME DragText \/ DragEnds PROVE DraggedIsListed' /\ CrashNeedsReload'
    BY <2>4 DEF DragText, DragEnds, OnGrid, DraggedIsListed, CrashNeedsReload
  <2>5. ASSUME Relaunch PROVE DraggedIsListed' /\ CrashNeedsReload'
    BY <2>5 DEF Relaunch, DraggedIsListed, CrashNeedsReload
  <2>6. ASSUME UNCHANGED <<posts, dragVars>> PROVE DraggedIsListed' /\ CrashNeedsReload'
    BY <1>2, <2>6 DEF dragVars, DraggedIsListed, CrashNeedsReload, Range
  <2> QED
    BY <1>2, <2>1, <2>2, <2>3, <2>4, <2>5, <2>6
       DEF Next, vars, GetAllPosts, BoardsFailed, PostChanges, LeaveGrid, EnterGrid,
           PageFinished, PageFailed, HtmlAnswered
<1> QED
  BY <1>1, <1>2, TypeCorrect, PTL DEF Spec

\* No sequence of drags, dropped or cancelled, ends the process, unless a load
\* replaced the list since the drag began, or what is dragged is no post.
THEOREM CrashNeedsReloadAlways == Spec => []CrashNeedsReload
  BY DraggedIsListedAlways, PTL
=============================================================================
