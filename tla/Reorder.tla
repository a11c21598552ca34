------------------------------ MODULE Reorder ------------------------------
(***************************************************************************)
(* The reordering of the grid: Array.move(fromOffsets:toOffset:) for one    *)
(* element, and the offset that DragRelocateDelegate gives it.              *)
(***************************************************************************)
EXTENDS Naturals, Sequences, SequencesExt

\* The element at from goes before the one at offset; offset is Len(s) + 1 for the end.
MoveTo(s, from, offset) ==
    LET at == IF from < offset THEN offset - 1 ELSE offset
    IN  [k \in 1..Len(s) |->
            IF k = at THEN s[from]
            ELSE IF from <= k /\ k < at THEN s[k + 1]
            ELSE IF at < k /\ k <= from THEN s[k - 1]
            ELSE s[k]]

\* Mutant: the offset is the place of the cell entered.
RelocateBefore(s, from, to) == MoveTo(s, from, to)

\* dropEntered: downwards, after the cell that was entered; upwards, before it.
Relocate(s, from, to) == MoveTo(s, from, IF to > from THEN to + 1 ELSE to)

\* t is s with the element at from taken out and put back at to.
MovesOne(s, t, from, to) == t = InsertAt(RemoveAt(s, from), to, s[from])
=============================================================================
