----------------------------- MODULE Lists_proofs -----------------------------
(***************************************************************************)
(* Lemmas about sequences that the proofs of the components share: what the  *)
(* operators on the lists, the queues of writes and the main queues return,  *)
(* element by element, for sequences of any length.                         *)
(***************************************************************************)
EXTENDS Naturals, Sequences, SequencesExt, SequenceTheorems,
        WellFoundedInduction, TLAPS

\* SubSeq, with its elements.
LEMMA Part ==
    ASSUME NEW S, NEW s \in Seq(S), NEW i \in Nat \ {0}, NEW j \in 0..Len(s), i <= j + 1
    PROVE  /\ SubSeq(s, i, j) \in Seq(S)
           /\ Len(SubSeq(s, i, j)) = j - i + 1
           /\ \A k \in 1..(j - i + 1) : SubSeq(s, i, j)[k] = s[i + k - 1]
OBVIOUS

\* RemoveAt, with its elements.
LEMMA Removed ==
    ASSUME NEW S, NEW s \in Seq(S), NEW from \in 1..Len(s)
    PROVE  /\ RemoveAt(s, from) \in Seq(S)
           /\ Len(RemoveAt(s, from)) = Len(s) - 1
           /\ \A k \in 1..(Len(s) - 1) :
                  RemoveAt(s, from)[k] = IF k < from THEN s[k] ELSE s[k + 1]
<1> DEFINE low == SubSeq(s, 1, from - 1)
           high == SubSeq(s, from + 1, Len(s))
<1>1. /\ low \in Seq(S) /\ Len(low) = from - 1
      /\ \A k \in 1..(from - 1) : low[k] = s[k]
  BY Part
<1>2. /\ high \in Seq(S) /\ Len(high) = Len(s) - from
      /\ \A k \in 1..(Len(s) - from) : high[k] = s[from + k]
  BY Part
<1>3. RemoveAt(s, from) = low \o high
  BY DEF RemoveAt
<1> HIDE DEF low, high
<1>4. /\ low \o high \in Seq(S) /\ Len(low \o high) = Len(low) + Len(high)
      /\ \A k \in 1..(Len(low) + Len(high)) :
             (low \o high)[k] = IF k <= Len(low) THEN low[k] ELSE high[k - Len(low)]
  BY <1>1, <1>2, ConcatProperties
<1>5. ASSUME NEW k \in 1..(Len(s) - 1)
      PROVE  RemoveAt(s, from)[k] = IF k < from THEN s[k] ELSE s[k + 1]
  <2>1. CASE k < from
    BY <2>1, <1>1, <1>2, <1>3, <1>4
  <2>2. CASE ~(k < from)
    <3>1. (low \o high)[k] = high[k - (from - 1)] /\ k - (from - 1) \in 1..(Len(s) - from)
      BY <2>2, <1>1, <1>2, <1>4
    <3>2. high[k - (from - 1)] = s[from + (k - (from - 1))]
      BY <3>1, <1>2
    <3>3. from + (k - (from - 1)) = k + 1
      OBVIOUS
    <3> QED
      BY <2>2, <3>1, <3>2, <3>3, <1>3
  <2> QED
    BY <2>1, <2>2
<1> QED
  BY <1>1, <1>2, <1>3, <1>4, <1>5

\* InsertAt, with its elements.
HasInserted(S, t, s, to, e) ==
    /\ t \in Seq(S)
    /\ Len(t) = Len(s) + 1
    /\ \A k \in 1..(Len(s) + 1) :
           t[k] = IF k < to THEN s[k] ELSE IF k = to THEN e ELSE s[k - 1]

LEMMA Inserted ==
    ASSUME NEW S, NEW s \in Seq(S), NEW to \in 1..(Len(s) + 1), NEW e \in S
    PROVE  HasInserted(S, InsertAt(s, to, e), s, to, e)
<1> DEFINE low == SubSeq(s, 1, to - 1)
           high == SubSeq(s, to, Len(s))
<1>1. /\ low \in Seq(S) /\ Len(low) = to - 1
      /\ \A k \in 1..(to - 1) : low[k] = s[k]
  BY Part
<1>2. /\ high \in Seq(S) /\ Len(high) = Len(s) - to + 1
      /\ \A k \in 1..(Len(s) - to + 1) : high[k] = s[to + k - 1]
  BY Part
<1>3. InsertAt(s, to, e) = low \o <<e>> \o high
  BY DEF InsertAt
<1> HIDE DEF low, high
<1> DEFINE start == low \o <<e>>
<1>4. /\ start \in Seq(S) /\ Len(start) = to
      /\ \A k \in 1..to : start[k] = IF k < to THEN low[k] ELSE e
  BY <1>1
<1>5. InsertAt(s, to, e) = start \o high
  BY <1>3
<1> HIDE DEF start
<1>6. /\ start \o high \in Seq(S) /\ Len(start \o high) = Len(start) + Len(high)
      /\ \A k \in 1..(Len(start) + Len(high)) :
             (start \o high)[k] = IF k <= Len(start) THEN start[k] ELSE high[k - Len(start)]
  BY <1>2, <1>4, ConcatProperties
<1>7. ASSUME NEW k \in 1..(Len(s) + 1)
      PROVE  InsertAt(s, to, e)[k] = IF k < to THEN s[k] ELSE IF k = to THEN e ELSE s[k - 1]
  <2>1. CASE k <= to
    <3>1. (start \o high)[k] = start[k]
      BY <2>1, <1>2, <1>4, <1>6
    <3>2. start[k] = IF k < to THEN s[k] ELSE e
      BY <2>1, <1>1, <1>4
    <3>3. InsertAt(s, to, e)[k] = IF k < to THEN s[k] ELSE e
      BY <3>1, <3>2, <1>5
    <3>4. ~(k < to) => k = to
      BY <2>1
    <3> QED
      BY <3>3, <3>4
  <2>2. CASE ~(k <= to)
    <3>1. (start \o high)[k] = high[k - to] /\ k - to \in 1..(Len(s) - to + 1)
      BY <2>2, <1>2, <1>4, <1>6
    <3>2. high[k - to] = s[to + (k - to) - 1]
      BY <3>1, <1>2
    <3>3. to + (k - to) - 1 = k - 1
      OBVIOUS
    <3>4. InsertAt(s, to, e)[k] = s[k - 1]
      BY <3>1, <3>2, <3>3, <1>5
    <3>5. ~(k < to) /\ k # to
      BY <2>2
    <3> QED
      BY <3>4, <3>5
  <2> QED
    BY <2>1, <2>2
<1> QED
  BY <1>2, <1>4, <1>5, <1>6, <1>7 DEF HasInserted

\* An element of a sequence stays in it when another is appended, and, unless
\* it is the first, when the first one is removed.
LEMMA AppendKeeps ==
    ASSUME NEW S, NEW q \in Seq(S), NEW e \in S, NEW i \in DOMAIN q
    PROVE  i \in DOMAIN Append(q, e) /\ Append(q, e)[i] = q[i]
  BY LenProperties

LEMMA Appended ==
    ASSUME NEW S, NEW q \in Seq(S), NEW e \in S, NEW p, p = Append(q, e)
    PROVE  /\ p \in Seq(S) /\ Len(q) \in Nat /\ DOMAIN q = 1..Len(q)
           /\ DOMAIN p = 1..(Len(q) + 1) /\ p[Len(q) + 1] = e
           /\ \A i \in DOMAIN q : i \in DOMAIN p /\ p[i] = q[i]
           /\ \A i \in DOMAIN p : i \in DOMAIN q \/ (i \notin DOMAIN q /\ i = Len(q) + 1)
  BY AppendProperties, LenProperties

LEMMA TailKeeps ==
    ASSUME NEW S, NEW q \in Seq(S), q # <<>>, NEW i \in DOMAIN q, i # 1
    PROVE  i - 1 \in DOMAIN Tail(q) /\ Tail(q)[i - 1] = q[i]
<1>1. i \in 1..Len(q) /\ Len(q) \in Nat
  BY LenProperties
<1>2. /\ Tail(q) \in Seq(S) /\ Len(Tail(q)) = Len(q) - 1
      /\ \A j \in 1..Len(Tail(q)) : Tail(q)[j] = q[j + 1]
  BY HeadTailProperties
<1>3. DOMAIN Tail(q) = 1..(Len(q) - 1)
  BY <1>2, LenProperties
<1>4. i - 1 \in 1..(Len(q) - 1) /\ (i - 1) + 1 = i
  BY <1>1
<1> QED BY <1>2, <1>3, <1>4

\* What is left without the first element was there.
LEMMA TailElements ==
    ASSUME NEW S, NEW q \in Seq(S), q # <<>>
    PROVE  /\ Tail(q) \in Seq(S)
           /\ \A i \in DOMAIN Tail(q) : i + 1 \in DOMAIN q /\ Tail(q)[i] = q[i + 1]
<1>1. Len(q) \in Nat \ {0} /\ DOMAIN q = 1..Len(q)
  BY EmptySeq, LenProperties
<1>2. /\ Tail(q) \in Seq(S) /\ Len(Tail(q)) = Len(q) - 1
      /\ \A j \in 1..Len(Tail(q)) : Tail(q)[j] = q[j + 1]
  BY HeadTailProperties
<1>3. DOMAIN Tail(q) = 1..(Len(q) - 1)
  BY <1>2, LenProperties
<1>4. ASSUME NEW i \in DOMAIN Tail(q) PROVE i + 1 \in DOMAIN q /\ Tail(q)[i] = q[i + 1]
  BY <1>1, <1>2, <1>3
<1> QED
  BY <1>2, <1>4

\* RemoveAt keeps all elements but one, and brings none.
LEMMA RemovedElements ==
    ASSUME NEW S, NEW q \in Seq(S), NEW k \in DOMAIN q
    PROVE  /\ RemoveAt(q, k) \in Seq(S)
           /\ \A i \in DOMAIN RemoveAt(q, k) : \E j \in DOMAIN q \ {k} : RemoveAt(q, k)[i] = q[j]
           /\ \A j \in DOMAIN q \ {k} : \E i \in DOMAIN RemoveAt(q, k) : RemoveAt(q, k)[i] = q[j]
<1> DEFINE r == RemoveAt(q, k)
<1>1. Len(q) \in Nat /\ DOMAIN q = 1..Len(q) /\ k \in 1..Len(q)
  BY LenProperties
<1>2. /\ r \in Seq(S) /\ Len(r) = Len(q) - 1
      /\ \A i \in 1..(Len(q) - 1) : r[i] = IF i < k THEN q[i] ELSE q[i + 1]
  BY <1>1, Removed
<1> HIDE DEF r
<1>3. DOMAIN r = 1..(Len(q) - 1)
  BY <1>2, LenProperties
<1>4. ASSUME NEW i \in DOMAIN r PROVE \E j \in DOMAIN q \ {k} : r[i] = q[j]
  <2>1. CASE i < k
    <3>1. i \in DOMAIN q \ {k} /\ r[i] = q[i]
      BY <1>1, <1>2, <1>3, <2>1
    <3> QED
      BY <3>1
  <2>2. CASE ~(i < k)
    <3>1. i + 1 \in DOMAIN q \ {k} /\ r[i] = q[i + 1]
      BY <1>1, <1>2, <1>3, <2>2
    <3> QED
      BY <3>1
  <2> QED
    BY <2>1, <2>2
<1>5. ASSUME NEW j \in DOMAIN q \ {k} PROVE \E i \in DOMAIN r : r[i] = q[j]
  <2>1. CASE j < k
    <3>1. j \in DOMAIN r /\ r[j] = q[j]
      BY <1>1, <1>2, <1>3, <2>1
    <3> QED
      BY <3>1
  <2>2. CASE j > k
    <3>1. j - 1 \in DOMAIN r /\ ~(j - 1 < k) /\ (j - 1) + 1 = j
      BY <1>1, <1>3, <2>2
    <3>2. r[j - 1] = q[j]
      BY <1>2, <1>3, <3>1
    <3> QED
      BY <3>1, <3>2
  <2> QED
    BY <1>1, <2>1, <2>2
<1> QED
  BY <1>2, <1>4, <1>5 DEF r

\* A concatenation has the elements of both, and no others.
LEMMA ConcatElements ==
    ASSUME NEW S, NEW q \in Seq(S), NEW r \in Seq(S)
    PROVE  /\ q \o r \in Seq(S)
           /\ \A i \in DOMAIN (q \o r) :
                  \/ i \in DOMAIN q /\ (q \o r)[i] = q[i]
                  \/ i - Len(q) \in DOMAIN r /\ (q \o r)[i] = r[i - Len(q)]
           /\ \A i \in DOMAIN q : i \in DOMAIN (q \o r) /\ (q \o r)[i] = q[i]
           /\ \A i \in DOMAIN r :
                  Len(q) + i \in DOMAIN (q \o r) /\ (q \o r)[Len(q) + i] = r[i]
  BY ConcatProperties, LenProperties

\* A set of naturals has a least element.
LEMMA LeastNatural ==
    ASSUME NEW T, T \subseteq Nat, T # {}
    PROVE  \E x \in T : \A y \in T : x <= y
<1>1. PICK x \in T : \A y \in T : <<y, x>> \notin OpToRel(<, Nat)
  BY NatLessThanWellFounded, WFMin
<1>2. ASSUME NEW y \in T PROVE x <= y
  <2>1. x \in Nat /\ y \in Nat
    OBVIOUS
  <2>2. y < x => <<y, x>> \in OpToRel(<, Nat)
    BY <2>1 DEF OpToRel
  <2>3. ~(y < x)
    BY <1>1, <2>2, Zenon
  <2> QED
    BY <2>1, <2>3
<1> QED
  BY <1>2

\* A nonempty set of places of a sequence has a last one.
LEMMA LastPlace ==
    ASSUME NEW n \in Nat, NEW T, T \subseteq 1..n, T # {}
    PROVE  \E x \in T : \A y \in T : y <= x
<1> DEFINE U == {n - y : y \in T}
<1>1. U \subseteq Nat /\ U # {}
  <2>1. \A y \in T : n - y \in Nat
    OBVIOUS
  <2>2. PICK y \in T : TRUE
    OBVIOUS
  <2>3. n - y \in U
    OBVIOUS
  <2> QED
    BY <2>1, <2>3
<1>2. PICK u \in U : \A v \in U : u <= v
  BY <1>1, LeastNatural
<1>3. PICK x \in T : u = n - x
  BY <1>2
<1>4. ASSUME NEW y \in T PROVE y <= x
  <2>1. n - y \in U /\ x \in Nat /\ y \in Nat
    OBVIOUS
  <2>2. n - x <= n - y
    BY <1>2, <1>3, <2>1
  <2> QED
    BY <2>1, <2>2
<1> QED
  BY <1>4
=============================================================================
