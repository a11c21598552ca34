----------------------------- MODULE Ideas_proofs -----------------------------
(***************************************************************************)
(* The tab of the ideas, for any boards, ideas and pastes and any numbers   *)
(* of queued writes and waiting snapshots: what is on display follows what   *)
(* is stored, and the screen of an idea saves it as it is.                  *)
(***************************************************************************)
EXTENDS Ideas, Lists_proofs

-----------------------------------------------------------------------------
(* The device's view of the documents, and what queries return.             *)

\* View and Found, of given documents and queued writes.
Writing == [key : AllKeys, doc : Doc]
Docs == [AllKeys -> Doc]
ViewIn(stored, queued, k) ==
    LET on == {n \in DOMAIN queued : queued[n].key = k}
    IN  IF on = {} THEN stored[k]
        ELSE queued[CHOOSE n \in on : \A m \in on : m <= n].doc
FoundIn(stored, queued, kind, b) ==
    [k \in {k \in Keys(kind) : BoardOf[k] = b /\ ViewIn(stored, queued, k) # Nil} |->
         ViewIn(stored, queued, k)]

LEMMA ViewIs == \A k : View(k) = ViewIn(server, writes, k)
  BY DEF View, ViewIn

LEMMA ViewNext == \A k : View(k)' = ViewIn(server', writes', k)
  BY DEF View, ViewIn

LEMMA FoundIs == \A kind, b : Found(kind, b) = FoundIn(server, writes, kind, b)
  BY ViewIs DEF Found, FoundIn

LEMMA FoundNext == \A kind, b : Found(kind, b)' = FoundIn(server', writes', kind, b)
  BY ViewNext DEF Found, FoundIn

\* What holds of the stored and of the written holds of the view.
LEMMA ViewHas ==
    ASSUME NEW queued \in Seq(Writing), NEW stored, NEW k, NEW V,
           stored[k] \in V,
           \A n \in DOMAIN queued : queued[n].key = k => queued[n].doc \in V
    PROVE  ViewIn(stored, queued, k) \in V
<1> DEFINE on == {n \in DOMAIN queued : queued[n].key = k}
<1>1. CASE on = {}
  BY <1>1 DEF ViewIn
<1>2. CASE on # {}
  <2>1. Len(queued) \in Nat /\ on \subseteq 1..Len(queued)
    BY LenProperties
  <2>2. \E n \in on : \A m \in on : m <= n
    BY <1>2, <2>1, LastPlace
  <2> DEFINE last == CHOOSE n \in on : \A m \in on : m <= n
  <2>3. last \in on
    BY <2>2
  <2>4. ViewIn(stored, queued, k) = queued[last].doc
    BY <1>2 DEF ViewIn
  <2> QED
    BY <2>3, <2>4
<1> QED
  BY <1>1, <1>2

\* A further write decides about its document.
LEMMA ViewWritten ==
    ASSUME NEW queued \in Seq(Writing), NEW stored, NEW w \in Writing
    PROVE  ViewIn(stored, Append(queued, w), w.key) = w.doc
<1> DEFINE long == Append(queued, w)
           on == {n \in DOMAIN long : long[n].key = w.key}
           l == Len(queued) + 1
<1>1. l \in Nat \ {0} /\ DOMAIN long = 1..l /\ long[l] = w
  BY AppendProperties, LenProperties
<1> HIDE DEF long, l
<1>2. l \in on /\ \A n \in on : n <= l
  BY <1>1
<1>3. \A n \in on : (\A m \in on : m <= n) => n = l
  BY <1>1, <1>2
<1>4. (CHOOSE n \in on : \A m \in on : m <= n) = l
  BY <1>2, <1>3
<1> QED
  BY <1>1, <1>2, <1>4 DEF ViewIn, long

\* A query returns items: categories by document id.
LEMMA ItemsAre ==
    ASSUME NEW kind, NEW f \in Items(kind)
    PROVE  DOMAIN f \subseteq Keys(kind) /\ \A k \in DOMAIN f : f[k] \in Uids
  BY DEF Items

LEMMA AreItems ==
    ASSUME NEW kind, NEW S \in SUBSET Keys(kind), NEW f \in [S -> Uids]
    PROVE  f \in Items(kind)
  BY DEF Items

LEMMA FoundType ==
    ASSUME NEW stored \in Docs, NEW queued \in Seq(Writing), NEW kind \in Kinds, NEW b
    PROVE  /\ FoundIn(stored, queued, kind, b) \in Items(kind)
           /\ \A k \in DOMAIN FoundIn(stored, queued, kind, b) : BoardOf[k] = b
<1> DEFINE S == {k \in Keys(kind) : BoardOf[k] = b /\ ViewIn(stored, queued, k) # Nil}
<1>1. ASSUME NEW k \in S PROVE ViewIn(stored, queued, k) \in Uids
  <2>1. k \in AllKeys
    BY DEF Keys, Kinds, AllKeys
  <2>2. stored[k] \in Doc
    BY <2>1 DEF Docs
  <2>3. \A n \in DOMAIN queued : queued[n].doc \in Doc
    <3>1. \A n \in DOMAIN queued : queued[n] \in Writing
      BY ElementOfSeq
    <3> QED
      BY <3>1 DEF Writing
  <2>4. ViewIn(stored, queued, k) \in Doc
    BY <2>2, <2>3, ViewHas
  <2> QED
    BY <2>4 DEF Doc
<1>2. FoundIn(stored, queued, kind, b) = [k \in S |-> ViewIn(stored, queued, k)]
  BY DEF FoundIn
<1>3. S \in SUBSET Keys(kind)
  OBVIOUS
<1> HIDE DEF S
<1>4. FoundIn(stored, queued, kind, b) \in [S -> Uids]
  BY <1>1, <1>2
<1>5. FoundIn(stored, queued, kind, b) \in Items(kind)
  BY <1>3, <1>4, AreItems
<1>6. \A k \in DOMAIN FoundIn(stored, queued, kind, b) : BoardOf[k] = b
  BY <1>2 DEF S
<1> QED
  BY <1>5, <1>6

-----------------------------------------------------------------------------
(* Snapshots.                                                                *)

Snapshot == {s \in [kind : Kinds, items : Items("ideas") \cup Items("pastes")] :
                 s.items \in Items(s.kind)}

\* Snapshots, of what the queries of the two collections return.
One(kinds, found, kind) ==
    IF kind \in kinds THEN <<[kind |-> kind, items |-> found[kind]]>> ELSE <<>>
Of(kinds, found) == One(kinds, found, "pastes") \o One(kinds, found, "ideas")
Findings(b) == [kind \in Kinds |-> Found(kind, b)]

LEMMA SnapshotsIs == \A kinds, b : Snapshots(kinds, b) = Of(kinds, Findings(b))
  BY DEF Snapshots, Of, One, Findings, Kinds

LEMMA SnapshotsNext == \A kinds, b : Snapshots(kinds, b)' = Of(kinds, Findings(b)')
  BY DEF Snapshots, Of, One, Findings, Kinds

\* When all of q is delivered, where shown is on display, found will be.
Reaches(q, kind, shown, found) ==
    /\ (\A n \in DOMAIN q : q[n].kind # kind) => shown = found
    /\ \A n \in DOMAIN q :
           q[n].kind = kind /\ (\A m \in DOMAIN q : n < m => q[m].kind # kind)
               => q[n].items = found

\* The snapshots r say found of the collection, or nothing.
Says(r, kind, found) == \A n \in DOMAIN r : r[n].kind = kind => r[n].items = found
Silent(r, kind) == \A n \in DOMAIN r : r[n].kind # kind

LEMMA SnapshotsSay ==
    ASSUME NEW kinds \in SUBSET Kinds, NEW found, \A kind \in Kinds : found[kind] \in Items(kind)
    PROVE  /\ Of(kinds, found) \in Seq(Snapshot)
           /\ \A kind \in Kinds :
                  /\ Says(Of(kinds, found), kind, found[kind])
                  /\ Silent(Of(kinds, found), kind) <=> kind \notin kinds
<1> DEFINE p == [kind |-> "pastes", items |-> found["pastes"]]
           i == [kind |-> "ideas", items |-> found["ideas"]]
<1>1. p \in Snapshot /\ i \in Snapshot
  BY DEF Snapshot, Kinds
<1>2. /\ p.kind = "pastes" /\ p.items = found["pastes"]
      /\ i.kind = "ideas" /\ i.items = found["ideas"]
  OBVIOUS
<1>3. Of(kinds, found) =
          (IF "pastes" \in kinds THEN <<p>> ELSE <<>>) \o (IF "ideas" \in kinds THEN <<i>> ELSE <<>>)
  BY DEF Of, One
<1> HIDE DEF p, i
<1>4. CASE "pastes" \in kinds /\ "ideas" \in kinds
  <2>1. Of(kinds, found) = <<p>> \o <<i>>
    BY <1>3, <1>4
  <2>2. <<p>> \in Seq(Snapshot) /\ <<i>> \in Seq(Snapshot) /\ Len(<<p>>) = 1 /\ Len(<<i>>) = 1
    BY <1>1
  <2> DEFINE pair == <<p>> \o <<i>>
  <2>3. /\ pair \in Seq(Snapshot) /\ Len(pair) = 2
        /\ \A n \in 1..2 : pair[n] = IF n <= 1 THEN <<p>>[n] ELSE <<i>>[n - 1]
    BY <2>2, ConcatProperties
  <2>4. DOMAIN pair = 1..2 /\ pair[1] = p /\ pair[2] = i
    BY <2>3, LenProperties
  <2> HIDE DEF pair
  <2>5. Of(kinds, found) = pair
    BY <2>1 DEF pair
  <2>6. \A n \in DOMAIN pair : pair[n] = p \/ pair[n] = i
    BY <2>4
  <2>7. \A kind \in Kinds : Says(pair, kind, found[kind])
    BY <1>2, <2>6 DEF Says
  <2>8. \A kind \in Kinds : ~Silent(pair, kind)
    BY <1>2, <2>4 DEF Silent, Kinds
  <2> QED
    BY <1>4, <2>3, <2>5, <2>7, <2>8 DEF Kinds
<1>5. CASE "pastes" \in kinds /\ "ideas" \notin kinds
  <2>1. Of(kinds, found) = <<p>>
    BY <1>1, <1>3, <1>5
  <2> QED
    BY <1>1, <1>2, <1>5, <2>1 DEF Says, Silent, Kinds
<1>6. CASE "pastes" \notin kinds /\ "ideas" \in kinds
  <2>1. Of(kinds, found) = <<i>>
    BY <1>1, <1>3, <1>6
  <2> QED
    BY <1>1, <1>2, <1>6, <2>1 DEF Says, Silent, Kinds
<1>7. CASE "pastes" \notin kinds /\ "ideas" \notin kinds
  <2>1. Of(kinds, found) = <<>>
    BY <1>1, <1>3, <1>7
  <2> QED
    BY <1>1, <1>2, <1>7, <2>1 DEF Says, Silent, Kinds
<1> QED
  BY <1>4, <1>5, <1>6, <1>7

\* Snapshots that say nothing of a collection change nothing of what it reaches.
LEMMA SilentKeeps ==
    ASSUME NEW q \in Seq(Snapshot), NEW r \in Seq(Snapshot), NEW kind, NEW shown, NEW found,
           Reaches(q, kind, shown, found), Silent(r, kind)
    PROVE  Reaches(q \o r, kind, shown, found)
<1> DEFINE l == Len(q)
           t == q \o r
<1>1. l \in Nat /\ DOMAIN q = 1..l /\ Len(r) \in Nat /\ DOMAIN r = 1..Len(r)
  BY LenProperties
<1>2. /\ \A n \in DOMAIN t : \/ n \in DOMAIN q /\ t[n] = q[n]
                             \/ n - l \in DOMAIN r /\ t[n] = r[n - l]
      /\ \A n \in DOMAIN q : n \in DOMAIN t /\ t[n] = q[n]
  BY ConcatElements
<1> HIDE DEF t, l
<1>3. ASSUME \A n \in DOMAIN t : t[n].kind # kind PROVE shown = found
  BY <1>2, <1>3 DEF Reaches
<1>4. ASSUME NEW n \in DOMAIN t, t[n].kind = kind,
             \A m \in DOMAIN t : n < m => t[m].kind # kind
      PROVE  t[n].items = found
  <2>1. n \in DOMAIN q /\ t[n] = q[n]
    BY <1>2, <1>4 DEF Silent
  <2>2. \A m \in DOMAIN q : n < m => q[m].kind # kind
    BY <1>2, <1>4
  <2> QED
    BY <1>4, <2>1, <2>2 DEF Reaches
<1> QED
  BY <1>3, <1>4 DEF Reaches, t

\* Snapshots that say something of a collection settle what it reaches.
LEMMA SayingSettles ==
    ASSUME NEW q \in Seq(Snapshot), NEW r \in Seq(Snapshot), NEW kind, NEW shown, NEW found,
           Says(r, kind, found), ~Silent(r, kind)
    PROVE  Reaches(q \o r, kind, shown, found)
<1> DEFINE l == Len(q)
           t == q \o r
<1>1. l \in Nat /\ DOMAIN q = 1..l /\ Len(r) \in Nat /\ DOMAIN r = 1..Len(r)
  BY LenProperties
<1>2. /\ \A n \in DOMAIN t : \/ n \in DOMAIN q /\ t[n] = q[n]
                             \/ n - l \in DOMAIN r /\ t[n] = r[n - l]
      /\ \A n \in DOMAIN r : l + n \in DOMAIN t /\ t[l + n] = r[n]
  BY ConcatElements
<1> HIDE DEF t, l
<1>3. PICK n \in DOMAIN r : r[n].kind = kind
  BY DEF Silent
<1>4. l + n \in DOMAIN t /\ t[l + n].kind = kind
  BY <1>2, <1>3
<1>5. ASSUME NEW m \in DOMAIN t, t[m].kind = kind,
             \A k \in DOMAIN t : m < k => t[k].kind # kind
      PROVE  t[m].items = found
  <2>1. m \notin DOMAIN q
    <3>1. ~(m < l + n)
      BY <1>4, <1>5
    <3> QED
      BY <1>1, <3>1
  <2>2. m - l \in DOMAIN r /\ t[m] = r[m - l]
    BY <1>2, <2>1
  <2> QED
    BY <1>5, <2>2 DEF Says
<1> QED
  BY <1>4, <1>5 DEF Reaches, t

\* The oldest snapshot is delivered.
LEMMA DeliveryReaches ==
    ASSUME NEW q \in Seq(Snapshot), q # <<>>, NEW kind, NEW shown, NEW found,
           Reaches(q, kind, shown, found)
    PROVE  /\ Tail(q) \in Seq(Snapshot) /\ Head(q) \in Snapshot
           /\ Reaches(Tail(q), kind, IF Head(q).kind = kind THEN Head(q).items ELSE shown, found)
<1> DEFINE l == Len(q)
           t == Tail(q)
<1>1. /\ l \in Nat \ {0} /\ DOMAIN q = 1..l
      /\ Head(q) = q[1] /\ t \in Seq(Snapshot) /\ DOMAIN t = 1..(l - 1)
      /\ \A n \in 1..(l - 1) : t[n] = q[n + 1]
  BY HeadTailProperties, EmptySeq, LenProperties
<1>2. Head(q) \in Snapshot
  BY <1>1, ElementOfSeq
<1> HIDE DEF t, l
<1> DEFINE next == IF Head(q).kind = kind THEN Head(q).items ELSE shown
<1>3. \A m \in DOMAIN q : m # 1 => m - 1 \in DOMAIN t /\ t[m - 1] = q[m]
  BY <1>1
<1>4. ASSUME \A n \in DOMAIN t : t[n].kind # kind PROVE next = found
  <2>1. \A m \in DOMAIN q : m # 1 => q[m].kind # kind
    BY <1>3, <1>4
  <2>2. CASE Head(q).kind = kind
    <3>1. 1 \in DOMAIN q /\ \A m \in DOMAIN q : 1 < m => q[m].kind # kind
      BY <1>1, <2>1
    <3> QED
      BY <1>1, <2>2, <3>1 DEF Reaches
  <2>3. CASE Head(q).kind # kind
    BY <1>1, <2>1, <2>3 DEF Reaches
  <2> QED
    BY <2>2, <2>3
<1>5. ASSUME NEW n \in DOMAIN t, t[n].kind = kind,
             \A m \in DOMAIN t : n < m => t[m].kind # kind
      PROVE  t[n].items = found
  <2>1. n + 1 \in DOMAIN q /\ t[n] = q[n + 1]
    BY <1>1
  <2>2. ASSUME NEW m \in DOMAIN q, n + 1 < m PROVE q[m].kind # kind
    <3>1. m # 1 /\ n < m - 1
      BY <1>1, <2>2
    <3> QED
      BY <1>3, <1>5, <3>1
  <2> QED
    BY <1>5, <2>1, <2>2 DEF Reaches
<1> HIDE DEF next
<1>6. Reaches(t, kind, next, found)
  BY <1>4, <1>5 DEF Reaches
<1> QED
  BY <1>1, <1>2, <1>6 DEF t, next

-----------------------------------------------------------------------------
(* Types.                                                                    *)

DocsOK ==
    /\ server \in Docs
    /\ writes \in Seq(Writing) /\ Len(writes) <= MaxWrites
    /\ fresh \subseteq AllKeys

\* While the tab is closed nothing listens, nothing waits and no screen is pushed.
QueueOK ==
    /\ main \in Seq(Snapshot)
    /\ status \in [Kinds -> {"off", "awaits", "listens", "failed"}]
    /\ open => \A kind \in Kinds : status[kind] # "off"
    /\ ~open => (\A kind \in Kinds : status[kind] = "off") /\ main = <<>> /\ screen = List

ViewOK ==
    /\ current \in Boards
    /\ open \in BOOLEAN
    /\ board \in Boards \cup {Nil} /\ (open => board \in Boards)
    /\ ideas \in Items("ideas")
    /\ filtered \subseteq DOMAIN ideas
    /\ pastes \in Items("pastes")
    /\ sort \in Titles \cup {NoSort, AllCards}
    /\ screen \in Screens
    /\ (screen.at = "edit" => screen.idea \in filtered)
    /\ chose \in BOOLEAN

TInv == DocsOK /\ QueueOK /\ ViewOK

LEMMA TInvTypes == TInv => TypeOK
<1> SUFFICES ASSUME TInv PROVE TypeOK
  OBVIOUS
<1>1. \A n \in DOMAIN main : main[n].kind \in Kinds /\ main[n].items \in Items(main[n].kind)
  <2>1. \A n \in DOMAIN main : main[n] \in Snapshot
    BY ElementOfSeq DEF TInv, QueueOK
  <2> QED
    BY <2>1 DEF Snapshot
<1> QED
  BY <1>1 DEF TInv, DocsOK, QueueOK, ViewOK, TypeOK, Docs, Writing

LEMMA NoneIsItems == \A kind : None \in Items(kind)
<1> TAKE kind
<1>1. None \in [{} -> Uids] /\ {} \in SUBSET Keys(kind)
  BY DEF None
<1> QED
  BY <1>1, AreItems

LEMMA ListIsScreen == List \in Screens /\ List.at = "list" /\ ~List.sheet
  BY DEF List, Screens, Uids

LEMMA InitTInv == Init => TInv
<1> SUFFICES ASSUME Init PROVE TInv
  OBVIOUS
<1>1. DocsOK
  BY BoundsAssumption DEF Init, DocsOK, Docs, Doc
<1>2. QueueOK
  BY DEF Init, QueueOK, Kinds, Listening
<1>3. ViewOK
  BY NoneIsItems, ListIsScreen DEF Init, ViewOK
<1> QED
  BY <1>1, <1>2, <1>3 DEF TInv

\* What the listeners hear, by what the queries return after the step.
Finds(stored, queued, b) == [kind \in Kinds |-> FoundIn(stored, queued, kind, b)]
Changed(b) == {kind \in Listening : Found(kind, b)' # Found(kind, b)}

LEMMA FindsTypes ==
    ASSUME NEW stored \in Docs, NEW queued \in Seq(Writing), NEW b
    PROVE  \A kind \in Kinds : /\ Finds(stored, queued, b)[kind] \in Items(kind)
                               /\ Finds(stored, queued, b)[kind] = FoundIn(stored, queued, kind, b)
  BY FoundType DEF Finds

LEMMA TellIs ==
    ASSUME NEW q, NEW new, Tell(q, new), NEW b, b = board
    PROVE  main' = q \o Of(Changed(b), Finds(server', writes', b))
                     \o Of(new, Finds(server', writes', b))
<1>1. PICK changed : /\ changed = Changed(b)
                     /\ main' = q \o Snapshots(changed, b)' \o Snapshots(new, b)'
  BY DEF Tell, Changed
<1>2. Findings(b)' = Finds(server', writes', b)
  BY FoundNext DEF Findings, Finds
<1>3. /\ Snapshots(changed, b)' = Of(changed, Finds(server', writes', b))
      /\ Snapshots(new, b)' = Of(new, Finds(server', writes', b))
  BY <1>2, SnapshotsNext
<1> QED
  BY <1>1, <1>3

LEMMA TellTypes ==
    ASSUME NEW q \in Seq(Snapshot), NEW new \in SUBSET Kinds, Tell(q, new),
           server' \in Docs, writes' \in Seq(Writing)
    PROVE  main' \in Seq(Snapshot) /\ (Listening = {} /\ new = {} => main' = q)
<1>1. PICK b : b = board
  OBVIOUS
<1>2. PICK found : found = Finds(server', writes', b)
  OBVIOUS
<1>3. PICK changed : changed = Changed(b)
  OBVIOUS
<1>4. changed \in SUBSET Kinds /\ (Listening = {} => changed = {})
  BY <1>3 DEF Changed, Listening
<1>5. main' = q \o Of(changed, found) \o Of(new, found)
  BY <1>1, <1>2, <1>3, TellIs
<1>6. \A kind \in Kinds : found[kind] \in Items(kind)
  BY <1>2, FindsTypes
<1>7. Of(changed, found) \in Seq(Snapshot) /\ Of(new, found) \in Seq(Snapshot)
  BY <1>4, <1>6, SnapshotsSay
<1>8. main' \in Seq(Snapshot)
  <2>1. q \o Of(changed, found) \in Seq(Snapshot)
    BY <1>7, ConcatElements
  <2> QED
    BY <1>5, <1>7, <2>1, ConcatElements
<1>9. ASSUME Listening = {}, new = {} PROVE main' = q
  <2>1. Of({}, found) = <<>>
    BY DEF Of, One
  <2>2. q \o <<>> = q
    OBVIOUS
  <2> QED
    BY <1>4, <1>5, <1>9, <2>1, <2>2
<1> QED
  BY <1>8, <1>9

LEMMA SetListenersTypes ==
    ASSUME NEW q \in Seq(Snapshot), SetListeners(q),
           server' \in Docs, writes' \in Seq(Writing)
    PROVE  /\ main' \in Seq(Snapshot)
           /\ status' \in [Kinds -> {"off", "awaits", "listens", "failed"}]
           /\ \A kind \in Kinds : status'[kind] # "off"
<1>1. PICK new : new = Listening
  OBVIOUS
<1>2. Tell(q, new) /\ new \in SUBSET Kinds
  BY <1>1 DEF SetListeners, Listening
<1>3. main' \in Seq(Snapshot)
  BY <1>2, TellTypes
<1> QED
  BY <1>3 DEF SetListeners

LEMMA DocsStep == TInv /\ [Next]_vars => DocsOK'
<1> SUFFICES ASSUME TInv, [Next]_vars PROVE DocsOK'
  OBVIOUS
<1>1. ASSUME NEW k \in AllKeys, NEW d \in Doc, Write(k, d) PROVE DocsOK'
  <2>1. [key |-> k, doc |-> d] \in Writing
    BY DEF Writing
  <2>2. /\ writes \in Seq(Writing) /\ Len(writes) \in Nat /\ Len(writes) < MaxWrites
        /\ writes' = Append(writes, [key |-> k, doc |-> d])
    BY <1>1, LenProperties DEF TInv, DocsOK, Write, Room
  <2>3. writes' \in Seq(Writing) /\ Len(writes') = Len(writes) + 1
    BY <2>1, <2>2, AppendProperties
  <2>4. Len(writes') <= MaxWrites
    BY <2>2, <2>3, BoundsAssumption
  <2> QED
    BY <1>1, <2>3, <2>4 DEF TInv, DocsOK, Write
<1>2. ASSUME Settle PROVE DocsOK'
  <2>1. /\ writes \in Seq(Writing) /\ writes # <<>> /\ writes' = Tail(writes)
        /\ Len(writes) \in Nat /\ Len(writes) <= MaxWrites
    BY <1>2, LenProperties DEF TInv, DocsOK, Settle
  <2>2. writes' \in Seq(Writing) /\ Len(writes') = Len(writes) - 1 /\ Head(writes) \in Writing
    BY <2>1, HeadTailProperties
  <2>3. Len(writes') <= MaxWrites
    BY <2>1, <2>2, BoundsAssumption
  <2>4. server' \in Docs
    BY <1>2, <2>2 DEF TInv, DocsOK, Settle, Docs, Writing
  <2> QED
    BY <1>2, <2>2, <2>3, <2>4 DEF TInv, DocsOK, Settle
<1>3. ASSUME UNCHANGED docVars PROVE DocsOK'
  BY <1>3 DEF TInv, DocsOK, docVars
<1>4. screen.idea \in Ideas \cup {Nil} /\ screen.paste \in Uids
  BY DEF TInv, ViewOK, Screens
<1>5. NoPaste \in Doc /\ Nil \in Doc /\ Uids \subseteq Doc
  BY DEF Doc, Uids
<1>6. ASSUME NEW i \in Ideas, SaveIdea(i) PROVE DocsOK'
  BY <1>1, <1>4, <1>5, <1>6 DEF SaveIdea, AllKeys
<1>7. ASSUME UpdateIdea \/ DeleteIdea PROVE DocsOK'
  <2>1. screen.at = "edit"
    BY <1>7 DEF UpdateIdea, DeleteIdea, OnScreen
  <2>2. screen.idea \in Ideas
    <3>1. screen.idea \in DOMAIN ideas /\ ideas \in Items("ideas")
      BY <2>1 DEF TInv, ViewOK
    <3> QED
      BY <3>1, ItemsAre DEF Keys
  <2>3. PICK k, d : k = screen.idea /\ d = screen.paste
    OBVIOUS
  <2>4. Write(k, d) \/ Write(k, Nil)
    BY <1>7, <2>3 DEF UpdateIdea, DeleteIdea
  <2> QED
    BY <1>1, <1>4, <1>5, <2>2, <2>3, <2>4 DEF AllKeys
<1>8. ASSUME NEW p \in Pastes, AddPaste(p) PROVE DocsOK'
  BY <1>1, <1>5, <1>8 DEF AddPaste, AllKeys
<1>9. ASSUME NEW kind \in Kinds, FirstSnapshot(kind) \/ ListenerFails(kind) PROVE DocsOK'
  BY <1>3, <1>9 DEF FirstSnapshot, Answer, ListenerFails
<1>10. ASSUME NEW p \in Pastes, ChooseFilter(p) \/ SelectPaste(p) PROVE DocsOK'
  BY <1>3, <1>10 DEF ChooseFilter, SelectPaste
<1>11. ASSUME NEW i \in Ideas, OpenEdit(i) PROVE DocsOK'
  BY <1>3, <1>11 DEF OpenEdit, Push
<1>12. ASSUME NEW b \in Boards, SelectBoard(b) PROVE DocsOK'
  BY <1>3, <1>12 DEF SelectBoard
<1> QED
  BY <1>2, <1>3, <1>6, <1>7, <1>8, <1>9, <1>10, <1>11, <1>12
     DEF Next, User, vars, PastesShown, IdeasShown, MainScreenChanges, Kill, CloseTab, Closed,
         OpenTab, ChooseAll, OpenSheet, CancelSheet, OpenCreate, Push, Back

LEMMA ScreenFields ==
    ASSUME NEW s \in Screens
    PROVE  /\ s.at \in {"list", "create", "edit"} /\ s.idea \in Ideas \cup {Nil}
           /\ s.paste \in Uids /\ s.known \in SUBSET Pastes
           /\ s.blank \in BOOLEAN /\ s.sheet \in BOOLEAN
  BY DEF Screens

LEMMA PasteByType ==
    ASSUME NEW uid, NEW known \in SUBSET Pastes
    PROVE  PasteBy(uid, known) \in Uids /\ PasteBy(uid, known) \in known \cup {NoPaste}
  BY DEF PasteBy, Uids

\* A rebuilt screen is the same one, on the same idea.
LEMMA RebuiltTypes ==
    ASSUME screen \in Screens, NEW ids, NEW known \in SUBSET Pastes
    PROVE  /\ Rebuilt(ids, known) \in Screens
           /\ Rebuilt(ids, known).at = screen.at /\ Rebuilt(ids, known).idea = screen.idea
           /\ screen.at = "list" => Rebuilt(ids, known) = screen
           /\ screen.at # "list" => Rebuilt(ids, known).known = known
           /\ screen.at = "create" => Rebuilt(ids, known).paste = NoPaste
           /\ screen.at = "edit" =>
                  Rebuilt(ids, known).paste = PasteBy(ids[screen.idea], known)
<1>1. screen.at \in {"list", "create", "edit"}
  BY ScreenFields
<1>2. CASE screen.at = "list"
  <2>1. Rebuilt(ids, known) = screen
    BY <1>2 DEF Rebuilt
  <2> QED
    BY <1>2, <2>1
<1>3. CASE screen.at = "create"
  <2>1. Rebuilt(ids, known) = [screen EXCEPT !.paste = NoPaste, !.known = known]
    BY <1>3 DEF Rebuilt
  <2>2. NoPaste \in Uids
    BY DEF Uids
  <2> QED
    BY <1>3, <2>1, <2>2 DEF Screens
<1>4. CASE screen.at = "edit"
  <2> DEFINE uid == PasteBy(ids[screen.idea], known)
  <2>1. Rebuilt(ids, known) = [screen EXCEPT !.paste = uid, !.known = known]
    BY <1>4 DEF Rebuilt
  <2>2. uid \in Uids
    BY PasteByType
  <2> HIDE DEF uid
  <2>3. /\ Rebuilt(ids, known) \in Screens
        /\ Rebuilt(ids, known).at = screen.at /\ Rebuilt(ids, known).idea = screen.idea
        /\ Rebuilt(ids, known).known = known /\ Rebuilt(ids, known).paste = uid
    BY <2>1, <2>2 DEF Screens
  <2> QED
    BY <1>4, <2>3 DEF uid
<1> QED
  BY <1>1, <1>2, <1>3, <1>4

LEMMA RefreshIs ==
    ASSUME NEW q, NEW ids, NEW known, Refresh(q, ids, known)
    PROVE  /\ chose' = FALSE
           /\ \/ screen' = List /\ SetListeners(q)
              \/ /\ screen' = Rebuilt(ids, known) /\ main' = q /\ status' = status
                 /\ screen.at = "edit" => screen.idea \in DOMAIN ids
  BY DEF Refresh, Popped

\* The steps that tell the listeners something, or let the view hear of it.
LEMMA QueueStep == TInv /\ [Next]_vars => QueueOK'
<1> SUFFICES ASSUME TInv, [Next]_vars PROVE QueueOK'
  OBVIOUS
<1>1. server' \in Docs /\ writes' \in Seq(Writing)
  BY DocsStep DEF DocsOK
<1>2. /\ main \in Seq(Snapshot) /\ open \in BOOLEAN /\ screen \in Screens
      /\ status \in [Kinds -> {"off", "awaits", "listens", "failed"}]
      /\ open => \A kind \in Kinds : status[kind] # "off"
      /\ ~open => (\A kind \in Kinds : status[kind] = "off") /\ main = <<>> /\ screen = List
      /\ ~open => Listening = {}
      /\ screen.at # "list" => open
      /\ screen.sheet => open
  BY ListIsScreen DEF TInv, QueueOK, ViewOK, Listening
<1>3. ASSUME NEW q \in Seq(Snapshot), SetListeners(q), open' PROVE QueueOK'
  BY <1>1, <1>3, SetListenersTypes DEF QueueOK
<1>4. ASSUME NEW q \in Seq(Snapshot), NEW ids, NEW known, Refresh(q, ids, known), open,
             open' = open
      PROVE  QueueOK'
  <2>1. CASE SetListeners(q)
    BY <1>3, <1>4, <2>1
  <2>2. CASE main' = q /\ status' = status
    BY <1>2, <1>4, <2>2 DEF QueueOK
  <2> QED
    BY <1>4, <2>1, <2>2, RefreshIs
<1>5. ASSUME main # <<>>
      PROVE  Tail(main) \in Seq(Snapshot) /\ open
  BY <1>2, <1>5, HeadTailProperties
<1>6. ASSUME PastesShown \/ IdeasShown PROVE QueueOK'
  <2>1. PICK q : q = Tail(main)
    OBVIOUS
  <2>2. PICK ids, known : Refresh(q, ids, known)
    BY <1>6, <2>1 DEF PastesShown, IdeasShown
  <2>3. main # <<>> /\ open' = open
    BY <1>6 DEF PastesShown, IdeasShown
  <2> QED
    BY <1>4, <1>5, <2>1, <2>2, <2>3
<1>7. ASSUME MainScreenChanges PROVE QueueOK'
  <2>1. PICK q : q = main
    OBVIOUS
  <2>2. PICK ids, known : Refresh(q, ids, known)
    BY <1>7, <2>1 DEF MainScreenChanges
  <2>3. open /\ open' = open
    BY <1>2, <1>7 DEF MainScreenChanges, viewVars
  <2> QED
    BY <1>2, <1>4, <2>1, <2>2, <2>3
<1>8. ASSUME OpenTab PROVE QueueOK'
  <2>1. PICK q : q = main
    OBVIOUS
  <2> QED
    BY <1>2, <1>3, <1>8, <2>1 DEF OpenTab
<1>9. ASSUME Closed PROVE QueueOK'
  BY <1>9 DEF Closed, QueueOK, Listening
<1>10. ASSUME Return, open PROVE QueueOK'
  <2>1. PICK q : q = main
    OBVIOUS
  <2> QED
    BY <1>2, <1>3, <1>10, <2>1 DEF Return, viewVars
<1>11. ASSUME (\E i \in Ideas : SaveIdea(i)) \/ UpdateIdea \/ DeleteIdea \/ Back PROVE QueueOK'
  BY <1>2, <1>10, <1>11 DEF SaveIdea, UpdateIdea, DeleteIdea, Back, OnScreen
<1>12. ASSUME Settle \/ \E p \in Pastes : AddPaste(p) PROVE QueueOK'
  <2>1. PICK q : q = main
    OBVIOUS
  <2>2. Tell(q, {}) /\ status' = status /\ open' = open
    BY <1>12, <2>1 DEF Settle, AddPaste, viewVars
  <2>3. main' \in Seq(Snapshot) /\ (Listening = {} => main' = q)
    BY <1>1, <1>2, <2>1, <2>2, TellTypes
  <2>4. ~open => screen' = List
    BY <1>2, <1>12 DEF Settle, AddPaste
  <2> QED
    BY <1>2, <2>1, <2>2, <2>3, <2>4 DEF QueueOK, Listening
<1>13. ASSUME NEW kind \in Kinds, FirstSnapshot(kind) PROVE QueueOK'
  <2>1. PICK b, stored, queued : b = board /\ stored = server /\ queued = writes
    OBVIOUS
  <2>2. PICK found : found = Finds(stored, queued, b)
    OBVIOUS
  <2>3. Snapshots({kind}, board) = Of({kind}, found)
    <3>1. Findings(b) = found
      BY <2>1, <2>2, FoundIs DEF Findings, Finds
    <3> QED
      BY <2>1, <3>1, SnapshotsIs
  <2>4. \A k \in Kinds : found[k] \in Items(k)
    BY <2>1, <2>2, FindsTypes DEF TInv, DocsOK
  <2>5. Of({kind}, found) \in Seq(Snapshot)
    BY <2>4, SnapshotsSay
  <2>6. main' \in Seq(Snapshot)
    <3>1. main' = main \o Of({kind}, found)
      BY <1>13, <2>3 DEF FirstSnapshot, Answer
    <3> QED
      BY <1>2, <2>5, <3>1, ConcatElements
  <2>7. open
    BY <1>2, <1>13 DEF FirstSnapshot, Answer, Listening
  <2>8. status' = [status EXCEPT ![kind] = "listens"] /\ open' = open
    BY <1>13 DEF FirstSnapshot, Answer, viewVars
  <2> QED
    BY <1>2, <2>6, <2>7, <2>8 DEF QueueOK
<1>14. ASSUME NEW kind \in Kinds, ListenerFails(kind) PROVE QueueOK'
  BY <1>2, <1>14 DEF ListenerFails, viewVars, QueueOK, Listening
<1>15. ASSUME UNCHANGED <<main, status, open>>, ~open => screen' = screen PROVE QueueOK'
  BY <1>2, <1>15 DEF QueueOK, Listening
<1>16. ASSUME NEW p \in Pastes, ChooseFilter(p) \/ SelectPaste(p) PROVE QueueOK'
  BY <1>2, <1>15, <1>16 DEF ChooseFilter, SelectPaste, OnList, OnScreen, listenVars, viewVars
<1>17. ASSUME NEW i \in Ideas, OpenEdit(i) PROVE QueueOK'
  BY <1>15, <1>17 DEF OpenEdit, Push, OnList, listenVars, viewVars
<1>18. ASSUME NEW b \in Boards, SelectBoard(b) PROVE QueueOK'
  BY <1>15, <1>18 DEF SelectBoard, listenVars, viewVars
<1>19. ASSUME ChooseAll \/ OpenSheet \/ CancelSheet \/ OpenCreate PROVE QueueOK'
  BY <1>2, <1>15, <1>19
     DEF ChooseAll, OpenSheet, CancelSheet, OpenCreate, Push, OnList, listenVars, viewVars
<1>20. ASSUME UNCHANGED vars PROVE QueueOK'
  BY <1>15, <1>20 DEF vars, listenVars, viewVars
<1> QED
  BY <1>6, <1>7, <1>8, <1>9, <1>11, <1>12, <1>13, <1>14, <1>16, <1>17, <1>18, <1>19, <1>20
     DEF Next, User, Kill, CloseTab

LEMMA ViewStep == TInv /\ [Next]_vars => ViewOK'
<1> SUFFICES ASSUME TInv, [Next]_vars PROVE ViewOK'
  OBVIOUS
<1> USE DEF TInv
<1>1. /\ screen \in Screens /\ screen.idea \in Ideas \cup {Nil} /\ screen.paste \in Uids
      /\ screen.known \in SUBSET Pastes /\ screen.sheet \in BOOLEAN
      /\ DOMAIN pastes \subseteq Pastes /\ DOMAIN ideas \subseteq Ideas
      /\ List \in Screens /\ List.at = "list" /\ NoPaste \in Uids /\ Pastes \subseteq Uids
  <2>1. DOMAIN pastes \subseteq Pastes
    BY ItemsAre DEF ViewOK, Keys
  <2>2. DOMAIN ideas \subseteq Ideas
    BY ItemsAre DEF ViewOK, Keys
  <2> QED
    BY <2>1, <2>2, ScreenFields, ListIsScreen DEF ViewOK, Uids
<1>2. \A kind : main # <<>> /\ Head(main).kind = kind => Head(main).items \in Items(kind)
  <2>1. ASSUME main # <<>> PROVE Head(main) \in Snapshot
    BY <2>1, HeadTailProperties DEF QueueOK
  <2> QED
    BY <2>1 DEF Snapshot
\* What a change of the published state leaves.
<1>3. ASSUME NEW q, NEW ids, NEW known \in SUBSET Pastes, Refresh(q, ids, known),
             UNCHANGED <<current, open, board, sort>>,
             ideas' = ids, ids \in Items("ideas"), pastes' \in Items("pastes"),
             (filtered' = filtered /\ ids = ideas) \/ filtered' = DOMAIN ids
      PROVE  ViewOK'
  <2>1. screen' \in Screens /\ (screen'.at = "edit" => screen'.idea \in filtered') /\ ~chose'
    <3>1. CASE screen' = List
      BY <1>1, <1>3, <3>1, RefreshIs
    <3>2. CASE screen' = Rebuilt(ids, known) /\ (screen.at = "edit" => screen.idea \in DOMAIN ids)
      <4>1. screen' \in Screens /\ screen'.at = screen.at /\ screen'.idea = screen.idea
        BY <1>1, <1>3, <3>2, RebuiltTypes
      <4> QED
        BY <1>3, <3>2, <4>1, RefreshIs DEF ViewOK
    <3> QED
      BY <1>3, <3>1, <3>2, RefreshIs
  <2>2. filtered' \subseteq DOMAIN ids /\ chose' \in BOOLEAN
    BY <1>3, <2>1, RefreshIs DEF ViewOK
  <2> QED
    BY <1>3, <2>1, <2>2 DEF ViewOK
<1>4. ASSUME PastesShown PROVE ViewOK'
  <2>1. PICK q, ids, known : q = Tail(main) /\ ids = ideas /\ known = DOMAIN Head(main).items
    OBVIOUS
  <2>2. pastes' \in Items("pastes") /\ pastes' = Head(main).items
    BY <1>2, <1>4 DEF PastesShown
  <2>3. known \in SUBSET Pastes
    BY <2>1, <2>2, ItemsAre DEF Keys
  <2>4. Refresh(q, ids, known)
    BY <1>4, <2>1, <2>2 DEF PastesShown
  <2> QED
    BY <1>3, <1>4, <2>1, <2>2, <2>3, <2>4 DEF PastesShown, ViewOK
<1>5. ASSUME IdeasShown PROVE ViewOK'
  <2>1. PICK q, ids, known : q = Tail(main) /\ ids = Head(main).items /\ known = DOMAIN pastes
    OBVIOUS
  <2>2. ids \in Items("ideas") /\ ideas' = ids
    BY <1>2, <1>5, <2>1 DEF IdeasShown
  <2>3. Refresh(q, ids, known)
    BY <1>5, <2>1, <2>2 DEF IdeasShown
  <2> QED
    BY <1>1, <1>3, <1>5, <2>1, <2>2, <2>3 DEF IdeasShown, ViewOK
<1>6. ASSUME MainScreenChanges PROVE ViewOK'
  <2>1. PICK q, ids, known : q = main /\ ids = ideas /\ known = DOMAIN pastes
    OBVIOUS
  <2>2. Refresh(q, ids, known)
    BY <1>6, <2>1 DEF MainScreenChanges
  <2> QED
    BY <1>1, <1>3, <1>6, <2>1, <2>2 DEF MainScreenChanges, viewVars, ViewOK
<1>7. ASSUME Closed PROVE ViewOK'
  BY <1>1, <1>7, NoneIsItems DEF Closed, ViewOK
<1>8. ASSUME OpenTab PROVE ViewOK'
  BY <1>8 DEF OpenTab, ViewOK
<1>9. ASSUME NEW b \in Boards, SelectBoard(b) PROVE ViewOK'
  BY <1>9 DEF SelectBoard, viewVars, ViewOK
<1>10. ASSUME NEW p \in Pastes, ChooseFilter(p) PROVE ViewOK'
  BY <1>1, <1>10, ListIsScreen DEF ChooseFilter, FilterIdeas, OnList, Titles, ViewOK
<1>11. ASSUME ChooseAll PROVE ViewOK'
  BY <1>1, <1>11, ListIsScreen DEF ChooseAll, OnList, ViewOK
\* What the screens change of themselves.
<1>12. ASSUME UNCHANGED <<current, open, board, ideas, filtered, pastes>>, screen' \in Screens,
              screen'.at = "edit" => screen'.idea \in filtered, chose' \in BOOLEAN,
              sort' \in {sort, NoSort}
       PROVE  ViewOK'
  BY <1>12 DEF ViewOK
<1>13. ASSUME OpenSheet \/ CancelSheet PROVE ViewOK'
  <2>1. PICK on \in BOOLEAN : screen' = [screen EXCEPT !.sheet = on]
    BY <1>13 DEF OpenSheet, CancelSheet
  <2>2. screen' \in Screens /\ screen'.at = screen.at /\ screen'.idea = screen.idea
    BY <1>1, <2>1 DEF Screens
  <2> QED
    BY <1>12, <1>13, <2>2 DEF OpenSheet, CancelSheet, viewVars, ViewOK
<1>14. ASSUME NEW p \in Pastes, AddPaste(p) PROVE ViewOK'
  <2>1. PICK known : known = IF screen.at = "list" THEN screen.known ELSE screen.known \cup {p}
    OBVIOUS
  <2>2. screen' = [screen EXCEPT !.sheet = FALSE, !.known = known] /\ known \in SUBSET Pastes
    BY <1>1, <1>14, <2>1 DEF AddPaste
  <2>3. screen' \in Screens /\ screen'.at = screen.at /\ screen'.idea = screen.idea
    BY <1>1, <2>2 DEF Screens
  <2> QED
    BY <1>12, <1>14, <2>3 DEF AddPaste, viewVars, ViewOK
<1>15. ASSUME NEW p \in Pastes, SelectPaste(p) PROVE ViewOK'
  <2>1. screen' = [screen EXCEPT !.paste = p] /\ p \in Uids
    BY <1>1, <1>15 DEF SelectPaste
  <2>2. screen' \in Screens /\ screen'.at = screen.at /\ screen'.idea = screen.idea
    BY <1>1, <2>1 DEF Screens
  <2> QED
    BY <1>12, <1>15, <2>2 DEF SelectPaste, viewVars, ViewOK
<1>16. ASSUME OpenCreate PROVE ViewOK'
  <2>1. screen' = [List EXCEPT !.at = "create", !.blank = (DOMAIN ideas = {}),
                               !.known = DOMAIN pastes]
    BY <1>16 DEF OpenCreate, Push
  <2>2. screen' \in Screens /\ screen'.at = "create"
    BY <1>1, <2>1 DEF Screens, List
  <2> QED
    BY <1>12, <1>16, <2>2 DEF OpenCreate, Push, viewVars, ViewOK
<1>17. ASSUME NEW i \in Ideas, OpenEdit(i) PROVE ViewOK'
  <2>1. PICK uid : uid = PasteBy(ideas[i], DOMAIN pastes)
    OBVIOUS
  <2>2. screen' = [List EXCEPT !.at = "edit", !.idea = i, !.paste = uid, !.known = DOMAIN pastes]
    BY <1>17, <2>1 DEF OpenEdit, Push
  <2>3. uid \in Uids
    BY <1>1, <2>1, PasteByType
  <2>4. screen' \in Screens /\ screen'.idea = i
    BY <1>1, <2>2, <2>3 DEF Screens, List
  <2> QED
    BY <1>12, <1>17, <2>4 DEF OpenEdit, Push, viewVars, ViewOK
<1>18. ASSUME Return PROVE ViewOK'
  BY <1>1, <1>12, <1>18 DEF Return, viewVars, ViewOK
<1>19. ASSUME UNCHANGED <<current, viewVars, screen, chose>> PROVE ViewOK'
  BY <1>19 DEF viewVars, ViewOK
<1>20. ASSUME NEW kind \in Kinds, FirstSnapshot(kind) \/ ListenerFails(kind) PROVE ViewOK'
  BY <1>19, <1>20 DEF FirstSnapshot, Answer, ListenerFails
<1> QED
  BY <1>4, <1>5, <1>6, <1>7, <1>8, <1>9, <1>10, <1>11, <1>13, <1>14, <1>15, <1>16, <1>17, <1>18,
     <1>19, <1>20
     DEF Next, User, Kill, CloseTab, Back, SaveIdea, UpdateIdea, DeleteIdea, Settle, vars

LEMMA TInvariance == Spec => []TInv
<1>1. TInv /\ [Next]_vars => TInv'
  BY DocsStep, QueueStep, ViewStep DEF TInv
<1> QED
  BY <1>1, InitTInv, PTL DEF Spec

\* The documents, the listeners and their snapshots, the list and the screens over it
\* keep their types; the idea of an edit screen is one of the list.
THEOREM TypeCorrect == Spec => []TypeOK
  BY TInvariance, TInvTypes, PTL

-----------------------------------------------------------------------------
(* The listeners.                                                            *)

Shown(kind) == IF kind = "ideas" THEN ideas ELSE pastes

\* What a listener has told and has still to tell ends with what is stored now.
Feeds(kind) == Reaches(main, kind, Shown(kind), Found(kind, board))
FeedOK == \A kind \in Listening : Feeds(kind)

LEMMA TellFeeds ==
    ASSUME NEW q \in Seq(Snapshot), NEW new \in SUBSET Kinds, Tell(q, new),
           server' \in Docs, writes' \in Seq(Writing),
           NEW kind \in Listening, NEW shown, NEW b, b = board,
           Reaches(q, kind, shown, Found(kind, b))
    PROVE  Reaches(main', kind, shown, Found(kind, b)')
<1>1. PICK found : found = Finds(server', writes', b)
  OBVIOUS
<1>2. PICK changed : changed = Changed(b)
  OBVIOUS
<1>3. PICK old : old = Found(kind, b)
  OBVIOUS
<1>4. main' = q \o Of(changed, found) \o Of(new, found)
  BY <1>1, <1>2, TellIs
<1>5. /\ kind \in Kinds /\ changed \in SUBSET Kinds
      /\ \A k \in Kinds : found[k] \in Items(k)
      /\ found[kind] = Found(kind, b)'
      /\ kind \in changed <=> found[kind] # old
  <2>1. kind \in Kinds
    BY DEF Listening
  <2>2. \A k \in Kinds : found[k] \in Items(k)
    BY <1>1, FindsTypes
  <2>3. found[kind] = Found(kind, b)'
    BY <1>1, <2>1, FindsTypes, FoundNext
  <2> QED
    BY <1>2, <1>3, <2>1, <2>2, <2>3 DEF Changed, Listening
<1>6. /\ Of(changed, found) \in Seq(Snapshot) /\ Of(new, found) \in Seq(Snapshot)
      /\ Says(Of(changed, found), kind, found[kind]) /\ Says(Of(new, found), kind, found[kind])
      /\ Silent(Of(changed, found), kind) <=> kind \notin changed
  BY <1>5, SnapshotsSay
<1>7. q \o Of(changed, found) \in Seq(Snapshot)
  BY <1>6, ConcatElements
<1>8. Reaches(q \o Of(changed, found), kind, shown, found[kind])
  <2>1. CASE kind \in changed
    BY <1>6, <2>1, SayingSettles
  <2>2. CASE kind \notin changed
    <3>1. Reaches(q, kind, shown, found[kind])
      BY <1>3, <1>5, <2>2
    <3> QED
      BY <1>6, <2>2, <3>1, SilentKeeps
  <2> QED
    BY <2>1, <2>2
<1>9. Reaches(main', kind, shown, found[kind])
  <2>1. CASE Silent(Of(new, found), kind)
    BY <1>4, <1>6, <1>7, <1>8, <2>1, SilentKeeps
  <2>2. CASE ~Silent(Of(new, found), kind)
    BY <1>4, <1>6, <1>7, <2>2, SayingSettles
  <2> QED
    BY <2>1, <2>2
<1> QED
  BY <1>5, <1>9

LEMMA InitFeed == Init => FeedOK
  BY DEF Init, FeedOK, Listening

LEMMA FeedStep == TInv /\ FeedOK /\ [Next]_vars => FeedOK'
<1> SUFFICES ASSUME TInv, FeedOK, [Next]_vars PROVE FeedOK'
  OBVIOUS
<1>1. server' \in Docs /\ writes' \in Seq(Writing) /\ main \in Seq(Snapshot)
  BY DocsStep DEF DocsOK, TInv, QueueOK
<1>2. Listening \subseteq Kinds /\ Listening' = {kind \in Kinds : status'[kind] = "listens"}
  BY DEF Listening
<1>3. PICK b : b = board
  OBVIOUS
<1>4. PICK q : q = main
  OBVIOUS
\* The listeners are told of what changed, after the snapshots that wait.
<1>5. ASSUME NEW r \in Seq(Snapshot),
             (Tell(r, {}) /\ status' = status) \/ SetListeners(r),
             board' = board,
             \A kind \in Listening : Reaches(r, kind, Shown(kind)', Found(kind, b))
      PROVE  FeedOK'
  <2>1. PICK new \in SUBSET Kinds : Tell(r, new)
    <3>1. PICK listening : listening = Listening
      OBVIOUS
    <3> QED
      BY <1>2, <1>5, <3>1 DEF SetListeners
  <2>2. Listening' = Listening
    BY <1>2, <1>5 DEF SetListeners, Listening
  <2>3. ASSUME NEW kind \in Listening PROVE Feeds(kind)'
    <3>1. PICK shown : shown = Shown(kind)'
      OBVIOUS
    <3>2. Reaches(r, kind, shown, Found(kind, b))
      BY <1>5, <3>1
    <3>3. Reaches(main', kind, shown, Found(kind, b)')
      BY <1>1, <1>3, <2>1, <3>2, TellFeeds
    <3>4. Found(kind, board)' = Found(kind, b)'
      BY <1>3, <1>5 DEF Found
    <3> QED
      BY <3>1, <3>3, <3>4 DEF Feeds, Reaches
  <2> QED
    BY <2>2, <2>3 DEF FeedOK
\* Nothing is written, and nobody new listens.
<1>6. ASSUME UNCHANGED <<docVars, board>>, Listening' \subseteq Listening,
             NEW r, main' = r,
             \A kind \in Listening : Reaches(r, kind, Shown(kind)', Found(kind, b))
      PROVE  FeedOK'
  <2>1. \A kind : Found(kind, board)' = Found(kind, b)
    BY <1>3, <1>6, FoundIs, FoundNext DEF docVars
  <2> QED
    BY <1>6, <2>1 DEF FeedOK, Feeds, Reaches
<1>7. \A kind \in Listening : Reaches(q, kind, Shown(kind), Found(kind, b))
  BY <1>3, <1>4 DEF FeedOK, Feeds
<1>8. ASSUME UNCHANGED <<ideas, pastes>> PROVE \A kind : Shown(kind)' = Shown(kind)
  BY <1>8 DEF Shown
<1>9. ASSUME UNCHANGED <<ideas, pastes>>
      PROVE  \A kind \in Listening : Reaches(q, kind, Shown(kind)', Found(kind, b))
  BY <1>7, <1>8, <1>9
<1>10. ASSUME UNCHANGED <<docVars, main, board, ideas, pastes>>, Listening' \subseteq Listening
       PROVE  FeedOK'
  BY <1>4, <1>6, <1>9, <1>10
<1>11. ASSUME NEW r \in Seq(Snapshot), NEW ids, NEW known, Refresh(r, ids, known),
              UNCHANGED <<docVars, board>>,
              \A kind \in Listening : Reaches(r, kind, Shown(kind)', Found(kind, b))
       PROVE  FeedOK'
  <2>1. CASE SetListeners(r)
    BY <1>5, <1>11, <2>1
  <2>2. CASE main' = r /\ status' = status
    <3>1. Listening' \subseteq Listening
      BY <1>2, <2>2 DEF Listening
    <3> QED
      BY <1>6, <1>11, <2>2, <3>1
  <2> QED
    BY <1>11, <2>1, <2>2, RefreshIs
<1>12. ASSUME PastesShown \/ IdeasShown PROVE FeedOK'
  <2>1. PICK r : r = Tail(main)
    OBVIOUS
  <2>2. PICK ids, known : Refresh(r, ids, known)
    BY <1>12, <2>1 DEF PastesShown, IdeasShown
  <2>3. main # <<>> /\ UNCHANGED <<docVars, board>> /\ r \in Seq(Snapshot)
    BY <1>1, <1>12, <2>1, HeadTailProperties DEF PastesShown, IdeasShown
  <2>4. ASSUME NEW kind \in Listening
        PROVE  Reaches(r, kind, Shown(kind)', Found(kind, b))
    <3>1. Shown(kind)' = IF Head(main).kind = kind THEN Head(main).items ELSE Shown(kind)
      BY <1>2, <1>12 DEF PastesShown, IdeasShown, Shown, Kinds
    <3>2. PICK shown, found : shown = Shown(kind) /\ found = Found(kind, b)
      OBVIOUS
    <3>3. Reaches(q, kind, shown, found)
      BY <1>7, <3>2
    <3>4. Reaches(Tail(q), kind, IF Head(q).kind = kind THEN Head(q).items ELSE shown, found)
      BY <1>1, <1>4, <2>3, <3>3, DeliveryReaches
    <3> QED
      BY <1>4, <2>1, <3>1, <3>2, <3>4
  <2> QED
    BY <1>11, <2>2, <2>3, <2>4
<1>13. ASSUME MainScreenChanges PROVE FeedOK'
  <2>1. PICK ids, known : Refresh(q, ids, known)
    BY <1>4, <1>13 DEF MainScreenChanges
  <2>2. UNCHANGED <<docVars, board, ideas, pastes>>
    BY <1>13 DEF MainScreenChanges, viewVars
  <2> QED
    BY <1>1, <1>4, <1>9, <1>11, <2>1, <2>2
<1>14. ASSUME OpenTab \/ Closed PROVE FeedOK'
  <2>1. OpenTab => Listening = {}
    BY DEF OpenTab, TInv, QueueOK, Listening
  <2>2. Listening' = {}
    BY <1>2, <1>14, <2>1 DEF OpenTab, Closed, SetListeners
  <2> QED
    BY <2>2 DEF FeedOK
<1>15. ASSUME Return PROVE FeedOK'
  <2>1. SetListeners(q) /\ UNCHANGED <<board, ideas, pastes>>
    BY <1>4, <1>15 DEF Return, viewVars
  <2> QED
    BY <1>1, <1>4, <1>5, <1>9, <2>1
<1>16. ASSUME Settle \/ \E p \in Pastes : AddPaste(p) PROVE FeedOK'
  <2>1. Tell(q, {}) /\ UNCHANGED <<status, board, ideas, pastes>>
    BY <1>4, <1>16 DEF Settle, AddPaste, viewVars
  <2> QED
    BY <1>1, <1>4, <1>5, <1>9, <2>1
<1>17. ASSUME NEW kind \in Kinds, FirstSnapshot(kind) PROVE FeedOK'
  <2>1. PICK found : found = Finds(server, writes, b)
    OBVIOUS
  <2>2. \A k \in Kinds : found[k] \in Items(k) /\ found[k] = Found(k, b)
    BY <2>1, FindsTypes, FoundIs DEF TInv, DocsOK
  <2>3. PICK r : r = Of({kind}, found)
    OBVIOUS
  <2>4. main' = q \o r
    <3>1. Findings(b) = found
      BY <2>1, FoundIs DEF Findings, Finds
    <3>2. Snapshots({kind}, board) = r
      BY <1>3, <2>3, <3>1, SnapshotsIs
    <3> QED
      BY <1>4, <1>17, <3>2 DEF FirstSnapshot, Answer
  <2>5. /\ r \in Seq(Snapshot)
        /\ \A k \in Kinds : Says(r, k, found[k]) /\ (Silent(r, k) <=> k # kind)
    BY <2>2, <2>3, SnapshotsSay
  <2>6. UNCHANGED <<docVars, board, ideas, pastes>> /\ Listening' \subseteq Listening \cup {kind}
    BY <1>2, <1>17 DEF FirstSnapshot, Answer, viewVars, Listening, TInv, QueueOK
  <2>7. ASSUME NEW k \in Listening' PROVE Reaches(main', k, Shown(k), Found(k, b))
    <3>1. k \in Kinds
      BY <1>2
    <3>2. PICK shown : shown = Shown(k)
      OBVIOUS
    <3>3. CASE k = kind
      <4>1. Says(r, k, found[k]) /\ ~Silent(r, k)
        BY <2>5, <3>1, <3>3
      <4>2. Reaches(q \o r, k, shown, found[k])
        BY <1>1, <1>4, <2>5, <4>1, SayingSettles
      <4> QED
        BY <2>2, <2>4, <3>1, <3>2, <4>2
    <3>4. CASE k # kind
      <4>1. k \in Listening /\ Silent(r, k)
        BY <2>5, <2>6, <3>1, <3>4
      <4>2. Reaches(q, k, shown, found[k])
        BY <1>7, <2>2, <3>1, <3>2, <4>1
      <4>3. Reaches(q \o r, k, shown, found[k])
        BY <1>1, <1>4, <2>5, <4>1, <4>2, SilentKeeps
      <4> QED
        BY <2>2, <2>4, <3>1, <3>2, <4>3
    <3> QED
      BY <3>3, <3>4
  <2>8. \A k : Found(k, board)' = Found(k, b) /\ Shown(k)' = Shown(k)
    BY <1>3, <1>8, <2>6, FoundIs, FoundNext DEF docVars
  <2> QED
    BY <2>7, <2>8 DEF FeedOK, Feeds, Reaches
<1>18. ASSUME NEW kind \in Kinds, ListenerFails(kind) PROVE FeedOK'
  <2>1. Listening' \subseteq Listening
    BY <1>2, <1>18 DEF ListenerFails, Listening, TInv, QueueOK
  <2> QED
    BY <1>10, <1>18, <2>1 DEF ListenerFails, viewVars
<1>19. ASSUME UNCHANGED <<docVars, listenVars, board, ideas, pastes>> PROVE FeedOK'
  <2>1. Listening' \subseteq Listening
    BY <1>2, <1>19 DEF listenVars, Listening
  <2> QED
    BY <1>10, <1>19, <2>1 DEF listenVars
<1>20. ASSUME NEW p \in Pastes, ChooseFilter(p) \/ SelectPaste(p) PROVE FeedOK'
  BY <1>19, <1>20 DEF ChooseFilter, SelectPaste, viewVars
<1>21. ASSUME NEW i \in Ideas, OpenEdit(i) PROVE FeedOK'
  BY <1>19, <1>21 DEF OpenEdit, Push, viewVars
<1>22. ASSUME NEW c \in Boards, SelectBoard(c) PROVE FeedOK'
  BY <1>19, <1>22 DEF SelectBoard, viewVars
<1>23. ASSUME ChooseAll \/ OpenSheet \/ CancelSheet \/ OpenCreate \/ UNCHANGED vars PROVE FeedOK'
  BY <1>19, <1>23 DEF ChooseAll, OpenSheet, CancelSheet, OpenCreate, Push, viewVars, vars
<1> QED
  BY <1>12, <1>13, <1>14, <1>15, <1>16, <1>17, <1>18, <1>20, <1>21, <1>22, <1>23
     DEF Next, User, Kill, CloseTab, Back, SaveIdea, UpdateIdea, DeleteIdea

LEMMA FeedInvariance == Spec => [](TInv /\ FeedOK)
  BY InitFeed, FeedStep, TInvariance, PTL DEF Spec

\* Whatever a listener has told by the time nothing waits is what is stored.
LEMMA QuietShows ==
    ASSUME TInv, FeedOK, NEW kind \in Kinds, open, Quiet(kind)
    PROVE  Shown(kind) = Found(kind, board)
<1>1. kind \in Listening
  BY DEF TInv, QueueOK, Quiet, Listening
<1> QED
  BY <1>1 DEF FeedOK, Feeds, Reaches, Quiet

\* Once the listeners have nothing more to tell, the tab shows what is stored for the
\* board it was opened on, whatever was written, accepted or refused meanwhile, however
\* many snapshots waited and whatever screens came and went.
THEOREM ListFollowsBoardAlways == Spec => []ListFollowsBoard
<1>1. TInv /\ FeedOK => ListFollowsBoard
  <2> SUFFICES ASSUME TInv, FeedOK, open, board = current
               PROVE  /\ Quiet("ideas") => ideas = Found("ideas", current)
                      /\ Quiet("pastes") => pastes = Found("pastes", current)
    BY DEF ListFollowsBoard
  <2>1. "ideas" \in Kinds /\ "pastes" \in Kinds
    BY DEF Kinds
  <2>2. Shown("ideas") = ideas /\ Shown("pastes") = pastes
    BY DEF Shown
  <2> QED
    BY <2>1, <2>2, QuietShows
<1> QED
  BY <1>1, FeedInvariance, PTL

-----------------------------------------------------------------------------
(* The edit screen.                                                          *)

\* An idea on which the user has chosen nothing has the paste it has in the list.
EditOK ==
    screen.at = "edit" /\ ~chose => screen.paste = PasteBy(ideas[screen.idea], DOMAIN pastes)

LEMMA EditStep == TInv /\ EditOK /\ [Next]_vars => EditOK'
<1> SUFFICES ASSUME TInv, EditOK, [Next]_vars PROVE EditOK'
  OBVIOUS
<1>1. /\ screen \in Screens /\ DOMAIN pastes \in SUBSET Pastes /\ chose \in BOOLEAN
      /\ List.at = "list"
  BY ItemsAre, ListIsScreen DEF TInv, ViewOK, Keys
<1>2. ASSUME NEW q, NEW ids, NEW known \in SUBSET Pastes, Refresh(q, ids, known),
             ids = ideas', known = DOMAIN pastes'
      PROVE  EditOK'
  <2>1. CASE screen' = List
    BY <1>1, <2>1 DEF EditOK
  <2>2. CASE screen' = Rebuilt(ids, known)
    <3>1. /\ screen'.at = screen.at /\ screen'.idea = screen.idea
          /\ screen.at = "edit" => screen'.paste = PasteBy(ids[screen.idea], known)
      BY <1>1, <1>2, <2>2, RebuiltTypes
    <3> QED
      BY <1>2, <3>1 DEF EditOK, PasteBy
  <2> QED
    BY <1>2, <2>1, <2>2, RefreshIs
<1>3. ASSUME PastesShown PROVE EditOK'
  <2>1. PICK q, ids, known : q = Tail(main) /\ ids = ideas' /\ known = DOMAIN pastes'
    OBVIOUS
  <2>2. Refresh(q, ids, known)
    BY <1>3, <2>1 DEF PastesShown
  <2>3. known \in SUBSET Pastes
    BY <2>1, ViewStep, ItemsAre DEF ViewOK, Keys
  <2> QED
    BY <1>2, <2>1, <2>2, <2>3
<1>4. ASSUME IdeasShown \/ MainScreenChanges PROVE EditOK'
  <2>1. PICK ids, known : ids = ideas' /\ known = DOMAIN pastes
    OBVIOUS
  <2>2. (\E q : Refresh(q, ids, known)) /\ known = DOMAIN pastes'
    BY <1>4, <2>1 DEF IdeasShown, MainScreenChanges, viewVars
  <2> QED
    BY <1>1, <1>2, <2>1, <2>2
<1>5. ASSUME Closed \/ Return PROVE EditOK'
  BY <1>1, <1>5 DEF Closed, Return, EditOK
<1>6. ASSUME UNCHANGED <<ideas, pastes, chose>>,
             screen'.at = screen.at, screen'.idea = screen.idea, screen'.paste = screen.paste
      PROVE  EditOK'
  BY <1>6 DEF EditOK, PasteBy
<1>7. ASSUME OpenSheet \/ CancelSheet PROVE EditOK'
  <2>1. PICK on \in BOOLEAN : screen' = [screen EXCEPT !.sheet = on]
    BY <1>7 DEF OpenSheet, CancelSheet
  <2>2. screen'.at = screen.at /\ screen'.idea = screen.idea /\ screen'.paste = screen.paste
    BY <1>1, <2>1 DEF Screens
  <2> QED
    BY <1>6, <1>7, <2>2 DEF OpenSheet, CancelSheet, viewVars
<1>8. ASSUME NEW p \in Pastes, AddPaste(p) PROVE EditOK'
  <2>1. PICK known : screen' = [screen EXCEPT !.sheet = FALSE, !.known = known]
    BY <1>8 DEF AddPaste
  <2>2. screen'.at = screen.at /\ screen'.idea = screen.idea /\ screen'.paste = screen.paste
    BY <1>1, <2>1 DEF Screens
  <2> QED
    BY <1>6, <1>8, <2>2 DEF AddPaste, viewVars
<1>9. ASSUME NEW p \in Pastes, SelectPaste(p) PROVE EditOK'
  <2>1. screen'.at = screen.at
    BY <1>1, <1>9 DEF SelectPaste, Screens
  <2>2. chose' = (screen.at = "edit")
    BY <1>9 DEF SelectPaste
  <2> QED
    BY <2>1, <2>2 DEF EditOK
<1>10. ASSUME OpenCreate PROVE EditOK'
  <2>1. screen'.at = "create"
    BY <1>10 DEF OpenCreate, Push, List
  <2> QED
    BY <2>1 DEF EditOK
<1>11. ASSUME NEW i \in Ideas, OpenEdit(i) PROVE EditOK'
  <2>1. screen'.idea = i /\ screen'.paste = PasteBy(ideas[i], DOMAIN pastes)
    BY <1>11 DEF OpenEdit, Push, List
  <2> QED
    BY <1>11, <2>1 DEF OpenEdit, Push, viewVars, EditOK, PasteBy
<1>12. ASSUME UNCHANGED <<ideas, pastes, screen, chose>> PROVE EditOK'
  BY <1>6, <1>12
<1>13. ASSUME NEW p \in Pastes, ChooseFilter(p) PROVE EditOK'
  BY <1>12, <1>13 DEF ChooseFilter
<1>14. ASSUME NEW b \in Boards, SelectBoard(b) PROVE EditOK'
  BY <1>12, <1>14 DEF SelectBoard, viewVars
<1>15. ASSUME NEW kind \in Kinds, FirstSnapshot(kind) \/ ListenerFails(kind) PROVE EditOK'
  BY <1>12, <1>15 DEF FirstSnapshot, Answer, ListenerFails, viewVars
<1>16. ASSUME OpenTab \/ ChooseAll \/ Settle \/ UNCHANGED vars PROVE EditOK'
  BY <1>12, <1>16 DEF OpenTab, ChooseAll, Settle, vars, viewVars
<1> QED
  BY <1>3, <1>4, <1>5, <1>7, <1>8, <1>9, <1>10, <1>11, <1>13, <1>14, <1>15, <1>16
     DEF Next, User, Kill, CloseTab, Back, SaveIdea, UpdateIdea, DeleteIdea

-----------------------------------------------------------------------------
(* What is of one board.                                                     *)

OfBoard(keys, b) == \A k \in keys : BoardOf[k] = b
OwnQueue(q, b) == \A n \in DOMAIN q : OfBoard(DOMAIN q[n].items, b)
OwnScreen(s, b) ==
    /\ OfBoard(s.known, b)
    /\ s.paste # NoPaste => BoardOf[s.paste] = b
    /\ s.at = "edit" => BoardOf[s.idea] = b

\* The tab has documents of its board only, on display, waiting and on its screens.
OwnOK ==
    /\ ~open => DOMAIN ideas = {} /\ DOMAIN pastes = {}
    /\ OfBoard(DOMAIN ideas, board) /\ OfBoard(DOMAIN pastes, board)
    /\ OwnQueue(main, board)
    /\ OwnScreen(screen, board)

\* An idea is filed under a paste of its own board, as stored and as written.
FiledUnder(k, d) == d \in Pastes => k \in Ideas /\ BoardOf[d] = BoardOf[k]
FiledOK ==
    /\ \A k \in AllKeys : FiledUnder(k, server[k])
    /\ \A n \in DOMAIN writes : FiledUnder(writes[n].key, writes[n].doc)

LEMMA OwnConcat ==
    ASSUME NEW q \in Seq(Snapshot), NEW r \in Seq(Snapshot), NEW b, OwnQueue(q, b), OwnQueue(r, b)
    PROVE  OwnQueue(q \o r, b)
<1> DEFINE t == q \o r
<1>1. \A n \in DOMAIN t : \/ n \in DOMAIN q /\ t[n] = q[n]
                          \/ n - Len(q) \in DOMAIN r /\ t[n] = r[n - Len(q)]
  BY ConcatElements
<1> HIDE DEF t
<1>2. OwnQueue(t, b)
  BY <1>1 DEF OwnQueue
<1> QED
  BY <1>2 DEF t

LEMMA SnapshotsOwn ==
    ASSUME NEW stored \in Docs, NEW queued \in Seq(Writing), NEW b, NEW kinds \in SUBSET Kinds
    PROVE  /\ Of(kinds, Finds(stored, queued, b)) \in Seq(Snapshot)
           /\ OwnQueue(Of(kinds, Finds(stored, queued, b)), b)
<1>1. PICK found : found = Finds(stored, queued, b)
  OBVIOUS
<1>2. \A kind \in Kinds : found[kind] \in Items(kind) /\ OfBoard(DOMAIN found[kind], b)
  BY <1>1, FindsTypes, FoundType DEF OfBoard
<1>3. PICK r : r = Of(kinds, found)
  OBVIOUS
<1>4. r \in Seq(Snapshot) /\ \A kind \in Kinds : Says(r, kind, found[kind])
  BY <1>2, <1>3, SnapshotsSay
<1>5. \A n \in DOMAIN r : r[n].kind \in Kinds
  <2>1. \A n \in DOMAIN r : r[n] \in Snapshot
    BY <1>4, ElementOfSeq
  <2> QED
    BY <2>1 DEF Snapshot
<1>6. OwnQueue(r, b)
  BY <1>2, <1>4, <1>5 DEF Says, OwnQueue
<1> QED
  BY <1>1, <1>3, <1>4, <1>6

LEMMA TellOwn ==
    ASSUME NEW q \in Seq(Snapshot), NEW new \in SUBSET Kinds, Tell(q, new),
           server' \in Docs, writes' \in Seq(Writing),
           NEW b, b = board, OwnQueue(q, b)
    PROVE  OwnQueue(main', b)
<1>1. PICK changed : changed = Changed(b)
  OBVIOUS
<1>2. PICK r, s : r = Of(changed, Finds(server', writes', b)) /\ s = Of(new, Finds(server', writes', b))
  OBVIOUS
<1>3. main' = q \o r \o s
  BY <1>1, <1>2, TellIs
<1>4. changed \in SUBSET Kinds
  BY <1>1 DEF Changed, Listening
<1>5. /\ r \in Seq(Snapshot) /\ OwnQueue(r, b)
      /\ s \in Seq(Snapshot) /\ OwnQueue(s, b)
  BY <1>2, <1>4, SnapshotsOwn
<1>6. q \o r \in Seq(Snapshot) /\ OwnQueue(q \o r, b)
  BY <1>5, OwnConcat, ConcatElements
<1> QED
  BY <1>3, <1>5, <1>6, OwnConcat

LEMMA InitOwn == Init => OwnOK /\ FiledOK
<1> SUFFICES ASSUME Init PROVE OwnOK /\ FiledOK
  OBVIOUS
<1>1. OwnOK
  BY DEF Init, OwnOK, OfBoard, OwnQueue, OwnScreen, None, List
<1>2. FiledOK
  BY UidAssumption DEF Init, FiledOK, FiledUnder, Uids
<1> QED
  BY <1>1, <1>2

LEMMA OwnStep == TInv /\ OwnOK /\ [Next]_vars => OwnOK'
<1> SUFFICES ASSUME TInv, OwnOK, [Next]_vars PROVE OwnOK'
  OBVIOUS
<1>1. /\ server' \in Docs /\ writes' \in Seq(Writing) /\ main \in Seq(Snapshot)
      /\ screen \in Screens /\ DOMAIN pastes \in SUBSET Pastes /\ open \in BOOLEAN
      /\ screen.at # "list" \/ screen.sheet \/ main # <<>> => open
      /\ ~open => Listening = {} /\ main = <<>> /\ screen = List
  BY DocsStep, ItemsAre, ListIsScreen DEF DocsOK, TInv, QueueOK, ViewOK, Keys, Listening
<1>2. PICK b : b = board
  OBVIOUS
<1>3. PICK q : q = main
  OBVIOUS
<1>4. \A s, c : OwnScreen(List, c) /\ OwnQueue(<<>>, c)
  BY DEF OwnScreen, OwnQueue, OfBoard, List
<1>5. ASSUME NEW r \in Seq(Snapshot), OwnQueue(r, b),
             Tell(r, {}) \/ SetListeners(r) \/ main' = r
      PROVE  OwnQueue(main', b)
  <2>1. CASE main' = r
    BY <1>5, <2>1
  <2>2. CASE Tell(r, {}) \/ SetListeners(r)
    <3>1. PICK new \in SUBSET Kinds : Tell(r, new)
      <4>1. PICK listening : listening = Listening
        OBVIOUS
      <4> QED
        BY <2>2, <4>1 DEF SetListeners, Listening
    <3> QED
      BY <1>1, <1>2, <1>5, <3>1, TellOwn
  <2> QED
    BY <1>5, <2>1, <2>2
<1>6. OwnQueue(q, b) /\ OwnScreen(screen, b)
  BY <1>2, <1>3 DEF OwnOK
<1>7. ASSUME board' = board, OfBoard(DOMAIN ideas', b), OfBoard(DOMAIN pastes', b),
             OwnQueue(main', b), NEW s, screen' = s, OwnScreen(s, b),
             ~open' => DOMAIN ideas' = {} /\ DOMAIN pastes' = {}
      PROVE  OwnOK'
  BY <1>2, <1>7 DEF OwnOK, OfBoard, OwnQueue, OwnScreen
\* A change of the published state.
<1>8. ASSUME NEW r \in Seq(Snapshot), OwnQueue(r, b), NEW ids, NEW known \in SUBSET Pastes,
             Refresh(r, ids, known), known = DOMAIN pastes', ids = ideas',
             UNCHANGED <<board, open>>, open,
             OfBoard(DOMAIN ids, b), OfBoard(known, b)
      PROVE  OwnOK'
  <2>1. OwnQueue(main', b)
    BY <1>5, <1>8, RefreshIs
  <2>2. CASE screen' = List
    BY <1>4, <1>7, <1>8, <2>1, <2>2
  <2>3. CASE screen' = Rebuilt(ids, known)
    <3>1. OwnScreen(Rebuilt(ids, known), b)
      <4>1. CASE screen.at = "list"
        BY <1>1, <1>6, <4>1, RebuiltTypes
      <4>2. CASE screen.at = "create"
        BY <1>1, <1>6, <1>8, <4>2, RebuiltTypes DEF OwnScreen
      <4>3. CASE screen.at = "edit"
        <5>1. PICK uid : uid = PasteBy(ids[screen.idea], known)
          OBVIOUS
        <5>2. uid # NoPaste => BoardOf[uid] = b
          BY <1>8, <5>1, PasteByType DEF OfBoard
        <5> QED
          BY <1>1, <1>6, <1>8, <4>3, <5>1, <5>2, RebuiltTypes DEF OwnScreen
      <4> QED
        BY <1>1, <4>1, <4>2, <4>3, ScreenFields
    <3>2. PICK s : s = Rebuilt(ids, known)
      OBVIOUS
    <3> QED
      BY <1>7, <1>8, <2>1, <2>3, <3>1, <3>2
  <2> QED
    BY <1>8, <2>2, <2>3, RefreshIs
<1>9. ASSUME main # <<>>
      PROVE  /\ Tail(q) \in Seq(Snapshot) /\ OwnQueue(Tail(q), b)
             /\ Head(q) \in Snapshot /\ OfBoard(DOMAIN Head(q).items, b)
  <2>1. /\ Tail(q) \in Seq(Snapshot) /\ Head(q) = q[1] /\ 1 \in DOMAIN q
        /\ \A n \in DOMAIN Tail(q) : n + 1 \in DOMAIN q /\ Tail(q)[n] = q[n + 1]
    BY <1>1, <1>3, <1>9, HeadTailProperties, EmptySeq, LenProperties
  <2> QED
    BY <1>1, <1>3, <1>6, <2>1, ElementOfSeq DEF OwnQueue
<1>10. ASSUME PastesShown \/ IdeasShown PROVE OwnOK'
  <2>1. PICK r, ids, known : r = Tail(q) /\ ids = ideas' /\ known = DOMAIN pastes'
    OBVIOUS
  <2>2. Refresh(r, ids, known) /\ main # <<>> /\ UNCHANGED <<board, open>>
    BY <1>3, <1>10, <2>1 DEF PastesShown, IdeasShown
  <2>3. known \in SUBSET Pastes
    BY <2>1, ViewStep, ItemsAre DEF ViewOK, Keys
  <2>4. OfBoard(DOMAIN ids, b) /\ OfBoard(known, b)
    BY <1>2, <1>3, <1>9, <1>10, <2>1, <2>2 DEF PastesShown, IdeasShown, OwnOK
  <2> QED
    BY <1>1, <1>8, <1>9, <2>1, <2>2, <2>3, <2>4
<1>11. ASSUME MainScreenChanges PROVE OwnOK'
  <2>1. PICK ids, known : ids = ideas /\ known = DOMAIN pastes
    OBVIOUS
  <2>2. Refresh(q, ids, known) /\ UNCHANGED <<ideas, pastes, board, open>> /\ open
    BY <1>1, <1>3, <1>11, <2>1 DEF MainScreenChanges, viewVars
  <2>3. OfBoard(DOMAIN ids, b) /\ OfBoard(known, b)
    BY <1>2, <2>1 DEF OwnOK
  <2> QED
    BY <1>1, <1>3, <1>6, <1>8, <2>1, <2>2, <2>3
<1>12. ASSUME Closed PROVE OwnOK'
  BY <1>12 DEF Closed, OwnOK, OfBoard, OwnQueue, OwnScreen, None, List
<1>13. ASSUME OpenTab PROVE OwnOK'
  <2>1. ~open /\ DOMAIN ideas = {} /\ DOMAIN pastes = {} /\ main = <<>> /\ screen = List
    BY <1>1, <1>13 DEF OpenTab, OwnOK
  <2>2. Tell(q, {}) /\ q \in Seq(Snapshot)
    BY <1>1, <1>3, <1>13, <2>1 DEF OpenTab, SetListeners
  <2>3. main' = <<>>
    BY <1>1, <1>3, <2>1, <2>2, TellTypes
  <2>4. UNCHANGED <<ideas, pastes, screen>> /\ open'
    BY <1>13 DEF OpenTab
  <2> QED
    BY <1>4, <2>1, <2>3, <2>4 DEF OwnOK, OfBoard, OwnQueue, OwnScreen, List
\* The rest changes the screen, or tells the listeners.
<1>14. ASSUME UNCHANGED <<ideas, pastes, board, open>>,
              Tell(q, {}) \/ SetListeners(q) \/ main' = q,
              NEW s, screen' = s, OwnScreen(s, b)
       PROVE  OwnOK'
  BY <1>1, <1>2, <1>3, <1>5, <1>6, <1>7, <1>14 DEF OwnOK
<1>15. ASSUME UNCHANGED <<ideas, pastes, board, open, screen>>,
              Tell(q, {}) \/ SetListeners(q) \/ main' = q
       PROVE  OwnOK'
  BY <1>6, <1>14, <1>15
<1>16. ASSUME Return PROVE OwnOK'
  BY <1>3, <1>4, <1>14, <1>16 DEF Return, viewVars
<1>17. ASSUME Settle \/ UNCHANGED vars PROVE OwnOK'
  BY <1>3, <1>15, <1>17 DEF Settle, vars, viewVars, listenVars
<1>18. ASSUME NEW kind \in Kinds, FirstSnapshot(kind) PROVE OwnOK'
  <2>1. PICK stored, queued : stored = server /\ queued = writes
    OBVIOUS
  <2>2. PICK r : r = Of({kind}, Finds(stored, queued, b))
    OBVIOUS
  <2>3. Findings(b) = Finds(stored, queued, b)
    BY <2>1, FoundIs DEF Findings, Finds
  <2>4. main' = q \o r
    BY <1>2, <1>3, <1>18, <2>2, <2>3, SnapshotsIs DEF FirstSnapshot, Answer
  <2>5. r \in Seq(Snapshot) /\ OwnQueue(r, b)
    BY <2>1, <2>2, SnapshotsOwn DEF TInv, DocsOK
  <2>6. OwnQueue(main', b)
    BY <1>1, <1>3, <1>6, <2>4, <2>5, OwnConcat
  <2>7. UNCHANGED <<ideas, pastes, board, open, screen>>
    BY <1>18 DEF FirstSnapshot, Answer, viewVars
  <2> QED
    BY <1>2, <1>6, <1>7, <2>6, <2>7 DEF OwnOK
<1>19. ASSUME NEW kind \in Kinds, ListenerFails(kind) PROVE OwnOK'
  BY <1>3, <1>15, <1>19 DEF ListenerFails, viewVars
<1>20. ASSUME OpenSheet \/ CancelSheet PROVE OwnOK'
  <2>1. PICK on \in BOOLEAN : screen' = [screen EXCEPT !.sheet = on]
    BY <1>20 DEF OpenSheet, CancelSheet
  <2>2. PICK s : s = [screen EXCEPT !.sheet = on]
    OBVIOUS
  <2>3. OwnScreen(s, b)
    BY <1>1, <1>6, <2>2 DEF OwnScreen, Screens
  <2> QED
    BY <1>3, <1>14, <1>20, <2>1, <2>2, <2>3 DEF OpenSheet, CancelSheet, viewVars, listenVars
<1>21. ASSUME NEW p \in Pastes, AddPaste(p) PROVE OwnOK'
  <2>1. PICK known : known = IF screen.at = "list" THEN screen.known ELSE screen.known \cup {p}
    OBVIOUS
  <2>2. PICK s : s = [screen EXCEPT !.sheet = FALSE, !.known = known]
    OBVIOUS
  <2>3. screen' = s /\ BoardOf[p] = b
    BY <1>2, <1>21, <2>1, <2>2 DEF AddPaste
  <2>4. OfBoard(known, b)
    BY <1>6, <2>1, <2>3 DEF OwnScreen, OfBoard
  <2>5. OwnScreen(s, b)
    BY <1>1, <1>6, <2>2, <2>4 DEF OwnScreen, Screens
  <2> QED
    BY <1>3, <1>14, <1>21, <2>3, <2>5 DEF AddPaste, viewVars
<1>22. ASSUME NEW p \in Pastes, SelectPaste(p) PROVE OwnOK'
  <2>1. PICK s : s = [screen EXCEPT !.paste = p]
    OBVIOUS
  <2>2. screen' = s /\ p \in screen.known
    BY <1>22, <2>1 DEF SelectPaste
  <2>3. OwnScreen(s, b)
    BY <1>1, <1>6, <2>1, <2>2 DEF OwnScreen, OfBoard, Screens
  <2> QED
    BY <1>3, <1>14, <1>22, <2>2, <2>3 DEF SelectPaste, viewVars, listenVars
<1>23. ASSUME OpenCreate PROVE OwnOK'
  <2>1. PICK s : s = screen'
    OBVIOUS
  <2>2. s.at = "create" /\ s.paste = NoPaste /\ s.known = DOMAIN pastes
    BY <1>23, <2>1 DEF OpenCreate, Push, List
  <2>3. OwnScreen(s, b)
    BY <1>2, <2>2 DEF OwnScreen, OwnOK
  <2> QED
    BY <1>3, <1>14, <1>23, <2>1, <2>3 DEF OpenCreate, Push, viewVars, listenVars
<1>24. ASSUME NEW i \in Ideas, OpenEdit(i) PROVE OwnOK'
  <2>1. PICK s, known, uid : s = screen' /\ known = DOMAIN pastes /\ uid = PasteBy(ideas[i], known)
    OBVIOUS
  <2>2. s.at = "edit" /\ s.idea = i /\ s.paste = uid /\ s.known = known
    BY <1>24, <2>1 DEF OpenEdit, Push, List
  <2>3. BoardOf[i] = b
    BY <1>2, <1>24 DEF OpenEdit, OwnOK, OfBoard, TInv, ViewOK
  <2>4. OfBoard(known, b) /\ (uid # NoPaste => BoardOf[uid] = b)
    BY <1>1, <1>2, <2>1, PasteByType DEF OwnOK, OfBoard
  <2>5. OwnScreen(s, b)
    BY <2>2, <2>3, <2>4 DEF OwnScreen
  <2> QED
    BY <1>3, <1>14, <1>24, <2>1, <2>5 DEF OpenEdit, Push, viewVars, listenVars
<1>25. ASSUME NEW p \in Pastes, ChooseFilter(p) PROVE OwnOK'
  BY <1>3, <1>15, <1>25 DEF ChooseFilter, listenVars
<1>26. ASSUME NEW c \in Boards, SelectBoard(c) PROVE OwnOK'
  BY <1>3, <1>15, <1>26 DEF SelectBoard, viewVars, listenVars
<1>27. ASSUME ChooseAll PROVE OwnOK'
  BY <1>3, <1>15, <1>27 DEF ChooseAll, listenVars
<1> QED
  BY <1>10, <1>11, <1>12, <1>13, <1>16, <1>17, <1>18, <1>19, <1>20, <1>21, <1>22, <1>23, <1>24,
     <1>25, <1>26, <1>27
     DEF Next, User, Kill, CloseTab, Back, SaveIdea, UpdateIdea, DeleteIdea

LEMMA FiledStep == TInv /\ OwnOK /\ FiledOK /\ [Next]_vars => FiledOK'
<1> SUFFICES ASSUME TInv, OwnOK, FiledOK, [Next]_vars PROVE FiledOK'
  OBVIOUS
<1>1. ASSUME NEW k \in AllKeys, NEW d \in Doc, Write(k, d), FiledUnder(k, d) PROVE FiledOK'
  <2> DEFINE w == [key |-> k, doc |-> d]
             l == Len(writes)
  <2>1. /\ w \in Writing /\ w.key = k /\ w.doc = d
        /\ writes \in Seq(Writing) /\ writes' = Append(writes, w) /\ server' = server
    BY <1>1 DEF Writing, TInv, DocsOK, Write
  <2>2. l \in Nat /\ DOMAIN writes = 1..l
    BY <2>1, LenProperties
  <2>3. /\ DOMAIN writes' = 1..(l + 1) /\ writes'[l + 1] = w
        /\ \A n \in 1..l : writes'[n] = writes[n]
    BY <2>1, <2>2, AppendProperties, LenProperties
  <2> HIDE DEF w, l
  <2>4. ASSUME NEW n \in DOMAIN writes' PROVE FiledUnder(writes'[n].key, writes'[n].doc)
    <3>1. n \in 1..l \/ n = l + 1
      BY <2>2, <2>3
    <3>2. ASSUME n \in 1..l PROVE FiledUnder(writes'[n].key, writes'[n].doc)
      BY <2>2, <2>3, <3>2 DEF FiledOK
    <3>3. ASSUME n = l + 1 PROVE FiledUnder(writes'[n].key, writes'[n].doc)
      BY <1>1, <2>1, <2>3, <3>3
    <3> QED
      BY <3>1, <3>2, <3>3
  <2> QED
    BY <2>1, <2>4 DEF FiledOK, FiledUnder
<1>2. ASSUME Settle PROVE FiledOK'
  <2>1. /\ writes \in Seq(Writing) /\ writes # <<>> /\ writes' = Tail(writes)
    BY <1>2 DEF TInv, DocsOK, Settle
  <2>2. /\ Head(writes) = writes[1] /\ 1 \in DOMAIN writes
        /\ \A n \in DOMAIN Tail(writes) : n + 1 \in DOMAIN writes /\ Tail(writes)[n] = writes[n + 1]
    BY <2>1, HeadTailProperties, EmptySeq, LenProperties
  <2>3. PICK w : w = Head(writes)
    OBVIOUS
  <2>4. FiledUnder(w.key, w.doc) /\ w \in Writing
    BY <2>1, <2>2, <2>3, ElementOfSeq DEF FiledOK
  <2>5. ASSUME NEW k \in AllKeys PROVE FiledUnder(k, server'[k])
    <3>1. server'[k] = server[k] \/ (k = w.key /\ server'[k] = w.doc)
      BY <1>2, <2>3, <2>4 DEF Settle, TInv, DocsOK, Docs, Writing
    <3> QED
      BY <2>4, <3>1 DEF FiledOK
  <2> QED
    BY <2>1, <2>2, <2>5 DEF FiledOK, FiledUnder
<1>3. ASSUME UNCHANGED docVars PROVE FiledOK'
  BY <1>3 DEF FiledOK, FiledUnder, docVars
<1>4. PICK b, uid : b = board /\ uid = screen.paste
  OBVIOUS
<1>5. /\ uid \in Uids /\ uid \in Doc /\ (uid # NoPaste => BoardOf[uid] = b)
      /\ NoPaste \notin Pastes /\ Nil \notin Pastes /\ NoPaste \in Doc /\ Nil \in Doc
  BY <1>4, UidAssumption DEF TInv, ViewOK, Screens, OwnOK, OwnScreen, Uids, Doc
<1>6. ASSUME NEW i \in Ideas, SaveIdea(i) PROVE FiledOK'
  <2>1. Write(i, uid) /\ BoardOf[i] = b
    BY <1>4, <1>6 DEF SaveIdea
  <2> QED
    BY <1>1, <1>5, <2>1 DEF AllKeys, FiledUnder
<1>7. ASSUME UpdateIdea \/ DeleteIdea PROVE FiledOK'
  <2>1. screen.at = "edit"
    BY <1>7 DEF UpdateIdea, DeleteIdea, OnScreen
  <2>2. PICK k : k = screen.idea
    OBVIOUS
  <2>3. k \in Ideas /\ BoardOf[k] = b
    <3>1. k \in DOMAIN ideas /\ ideas \in Items("ideas")
      BY <2>1, <2>2 DEF TInv, ViewOK
    <3> QED
      BY <1>4, <2>1, <2>2, <3>1, ItemsAre DEF Keys, OwnOK, OwnScreen
  <2>4. Write(k, uid) \/ Write(k, Nil)
    BY <1>4, <1>7, <2>2 DEF UpdateIdea, DeleteIdea
  <2> QED
    BY <1>1, <1>5, <2>3, <2>4 DEF AllKeys, FiledUnder
<1>8. ASSUME NEW p \in Pastes, AddPaste(p) PROVE FiledOK'
  BY <1>1, <1>5, <1>8 DEF AddPaste, AllKeys, FiledUnder
<1>9. ASSUME NEW kind \in Kinds, FirstSnapshot(kind) \/ ListenerFails(kind) PROVE FiledOK'
  BY <1>3, <1>9 DEF FirstSnapshot, Answer, ListenerFails
<1>10. ASSUME NEW p \in Pastes, ChooseFilter(p) \/ SelectPaste(p) PROVE FiledOK'
  BY <1>3, <1>10 DEF ChooseFilter, SelectPaste
<1>11. ASSUME NEW i \in Ideas, OpenEdit(i) PROVE FiledOK'
  BY <1>3, <1>11 DEF OpenEdit, Push
<1>12. ASSUME NEW c \in Boards, SelectBoard(c) PROVE FiledOK'
  BY <1>3, <1>12 DEF SelectBoard
<1> QED
  BY <1>2, <1>3, <1>6, <1>7, <1>8, <1>9, <1>10, <1>11, <1>12
     DEF Next, User, vars, PastesShown, IdeasShown, MainScreenChanges, Kill, CloseTab, Closed,
         OpenTab, ChooseAll, OpenSheet, CancelSheet, OpenCreate, Push, Back

Inv == TInv /\ FeedOK /\ EditOK /\ OwnOK /\ FiledOK

LEMMA Invariance == Spec => []Inv
<1>1. Init => EditOK
  BY DEF Init, EditOK, List
<1>2. Init => Inv
  BY <1>1, InitTInv, InitFeed, InitOwn DEF Inv
<1>3. Inv /\ [Next]_vars => Inv'
  BY DocsStep, QueueStep, ViewStep, FeedStep, EditStep, OwnStep, FiledStep DEF Inv, TInv
<1> QED
  BY <1>2, <1>3, PTL DEF Spec

\* The view of an idea is one of its own board's pastes, none, or no document.
LEMMA ViewFiled ==
    ASSUME TInv, FiledOK, NEW k \in AllKeys
    PROVE  View(k) \in Doc /\ FiledUnder(k, View(k))
<1> DEFINE V == {d \in Doc : FiledUnder(k, d)}
<1>1. PICK stored, queued : stored = server /\ queued = writes
  OBVIOUS
<1>2. queued \in Seq(Writing) /\ stored[k] \in Doc
  BY <1>1 DEF TInv, DocsOK, Docs
<1>3. \A n \in DOMAIN queued : queued[n] \in Writing
  BY <1>2, ElementOfSeq
<1>4. stored[k] \in V
  BY <1>1, <1>2 DEF FiledOK
<1>5. \A n \in DOMAIN queued : queued[n].key = k => queued[n].doc \in V
  BY <1>1, <1>3 DEF FiledOK, Writing
<1> HIDE DEF V
<1>6. ViewIn(stored, queued, k) \in V
  BY <1>2, <1>4, <1>5, ViewHas
<1> QED
  BY <1>1, <1>6, ViewIs DEF V

\* The edit screen of an idea, when the list is what is stored.
LEMMA EditedIsStored ==
    ASSUME Inv, screen.at = "edit", Quiet("ideas"), NEW i, i = screen.idea
    PROVE  /\ open /\ i \in Ideas /\ i \in DOMAIN Found("ideas", board)
           /\ View(i) # Nil /\ ideas[i] = View(i)
<1>1. open
  BY ListIsScreen DEF Inv, TInv, QueueOK, ViewOK
<1>2. ideas = Found("ideas", board)
  BY <1>1, QuietShows DEF Inv, Kinds, Shown
<1>3. i \in DOMAIN ideas
  BY DEF Inv, TInv, ViewOK
<1> QED
  BY <1>1, <1>2, <1>3 DEF Found, Keys

\* An update stores the whole idea, and would bring back a deleted one: the screen of an
\* idea is gone by the time the list knows that the idea is, whoever deleted it.
THEOREM UpdatedIdeaExistsAlways == Spec => UpdatedIdeaExists
<1>1. Inv => (UpdateIdea /\ Quiet("ideas") => View(screen.idea) # Nil)
  <2> SUFFICES ASSUME Inv, UpdateIdea, Quiet("ideas") PROVE View(screen.idea) # Nil
    OBVIOUS
  <2>1. screen.at = "edit"
    BY DEF UpdateIdea, OnScreen
  <2> QED
    BY <2>1, EditedIsStored
<1> QED
  BY <1>1, Invariance, PTL DEF UpdatedIdeaExists

\* Saving an idea without choosing another category keeps the one it has: however the
\* snapshots of the ideas and of the pastes were ordered, and whatever rebuilt the screen,
\* what it saves is what is stored, unless that paste was deleted.
THEOREM UpdateKeepsPasteAlways == Spec => UpdateKeepsPaste
<1> DEFINE Keeps == \A i \in Ideas :
                       UpdateIdea /\ i = screen.idea /\ ~chose /\ Quiet("ideas") /\ Quiet("pastes")
                       => View(i)' = View(i) \/ View(View(i)) = Nil
<1>1. Inv => Keeps
  <2> SUFFICES ASSUME Inv, NEW i \in Ideas, UpdateIdea, i = screen.idea, ~chose,
                      Quiet("ideas"), Quiet("pastes"), View(View(i)) # Nil
               PROVE  View(i)' = View(i)
    OBVIOUS
  <2>1. PICK uid, d : uid = screen.paste /\ d = View(i)
    OBVIOUS
  <2>2. screen.at = "edit" /\ Write(i, uid)
    BY <2>1 DEF UpdateIdea, OnScreen
  <2>3. open /\ i \in DOMAIN Found("ideas", board) /\ d # Nil /\ ideas[i] = d
    BY <2>1, <2>2, EditedIsStored
  <2>4. pastes = Found("pastes", board)
    BY <2>3, QuietShows DEF Inv, Kinds, Shown
  <2>5. uid = PasteBy(d, DOMAIN pastes)
    BY <2>1, <2>2, <2>3 DEF Inv, EditOK
  <2>6. uid = d
    <3>1. d \in Uids /\ FiledUnder(i, d) /\ BoardOf[i] = board
      BY <2>1, <2>3, ViewFiled DEF Inv, AllKeys, Doc, Found
    <3>2. CASE d \in Pastes
      <4>1. d \in DOMAIN pastes
        BY <2>1, <2>4, <3>1, <3>2 DEF FiledUnder, Found, Keys
      <4> QED
        BY <2>5, <4>1 DEF PasteBy
    <3>3. CASE d = NoPaste
      BY <2>5, <3>3 DEF PasteBy
    <3> QED
      BY <3>1, <3>2, <3>3 DEF Uids
  <2>7. View(i)' = uid
    <3> DEFINE w == [key |-> i, doc |-> uid]
    <3>1. w \in Writing /\ w.key = i /\ w.doc = uid
      BY <2>1, ScreenFields DEF Writing, AllKeys, Doc, Inv, TInv, ViewOK
    <3>2. writes' = Append(writes, w) /\ writes \in Seq(Writing)
      BY <2>2 DEF Write, Inv, TInv, DocsOK
    <3>3. PICK queued, stored : queued = writes /\ stored = server'
      OBVIOUS
    <3> HIDE DEF w
    <3>4. ViewIn(stored, Append(queued, w), w.key) = w.doc
      BY <3>1, <3>2, <3>3, ViewWritten
    <3> QED
      BY <3>1, <3>2, <3>3, <3>4, ViewNext
  <2> QED
    BY <2>1, <2>6, <2>7
<1>2. [][Keeps]_vars <=> UpdateKeepsPaste
  BY DEF UpdateKeepsPaste
<1> HIDE DEF Keeps
<1> QED
  BY <1>1, <1>2, Invariance, PTL
=============================================================================
