------------------------------ MODULE UintSet ------------------------------
(***************************************************************************)
(* The integer set of ssl/quic/uint_set.c: a sorted list of inclusive      *)
(* ranges, in which QUIC keeps packet numbers (ACK manager) and the bytes  *)
(* of a send stream that are unsent or acknowledged.                       *)
(*                                                                         *)
(* Insert and RemoveRange follow the list walks of the code; `contents' is *)
(* the set the list stands for, kept by set operations alone.  Arithmetic  *)
(* on bounds wraps at Width, as uint64_t does.                             *)
(***************************************************************************)
EXTENDS Integers, Sequences, SequencesExt, FiniteSetsExt

CONSTANT Width  \* number of integers: 2^64 in the code

ASSUME WidthAssumption == Width \in Nat \ {0}

VARIABLES
    items,    \* the list of ranges, lowest first
    contents, \* reference: the integers that were inserted and not removed
    fresh     \* only integers that were absent have been inserted so far

vars == <<items, contents, fresh>>

Ranges == {r \in [start : 0 .. Width - 1, end : 0 .. Width - 1] : r.start <= r.end}
Item(a, b) == [start |-> a, end |-> b]
Inc(v) == (v + 1) % Width
Dec(v) == (v + Width - 1) % Width

\* uint_range_overlaps
Overlaps(x, r) == Min({x.end, r.end}) >= Max({x.start, r.start})

\* uint_set_merge_adjacent: possible merge of element i with the one before it.
MergeAdjacent(s, i) ==
    IF i = 1 \/ Dec(s[i].start) # s[i - 1].end THEN s
    ELSE RemoveAt([s EXCEPT ![i].start = s[i - 1].start], i - 1)

\* The range touches elements lo .. hi of the list: they are replaced by one.
Absorb(s, r) ==
    LET over == {i \in DOMAIN s : Overlaps(s[i], r)}
        lo == Min(over)
        hi == Max(over)
    IN  IF s[hi].start <= r.start /\ s[hi].end >= r.end
        THEN s
        ELSE SubSeq(s, 1, lo - 1)
             \o <<Item(Min({r.start, s[lo].start}), Max({r.end, s[hi].end}))>>
             \o SubSeq(s, hi + 1, Len(s))

\* The range falls into the gap before element i of the list.
FillGap(s, r) ==
    LET i == Min({j \in DOMAIN s : r.end < s[j].start})
    IN  IF s[i].start = Inc(r.end)
        THEN MergeAdjacent([s EXCEPT ![i].start = r.start], i)
        ELSE IF i > 1 /\ Inc(s[i - 1].end) = r.start
        THEN MergeAdjacent([s EXCEPT ![i - 1].end = r.end], i)
        ELSE InsertAt(s, i, r)

\* The range lies after the last element.
AppendRange(s, r) ==
    IF Inc(Last(s).end) = r.start THEN [s EXCEPT ![Len(s)].end = r.end]
                                  ELSE Append(s, r)

\* ossl_uint_set_insert
InsertInto(s, r) ==
    IF s = <<>> THEN <<r>>
    ELSE IF r.start > Last(s).end THEN AppendRange(s, r)
    ELSE IF r.start <= s[1].start /\ r.end >= Last(s).end THEN <<r>>
    ELSE IF \E i \in DOMAIN s : Overlaps(s[i], r) THEN Absorb(s, r)
    ELSE FillGap(s, r)

\* Mutant: a range cut into two loses its upper part.
Remains_NoSplit(x, r) ==
    IF ~Overlaps(x, r) THEN <<x>>
    ELSE IF r.start <= x.start /\ r.end >= x.end THEN <<>>
    ELSE IF r.start <= x.start THEN <<Item(Inc(r.end), x.end)>>
    ELSE <<Item(x.start, Dec(r.start))>>

\* What ossl_uint_set_remove leaves of one element.
Remains(x, r) ==
    IF ~Overlaps(x, r) THEN <<x>>
    ELSE IF r.start <= x.start /\ r.end >= x.end THEN <<>>
    ELSE IF r.start <= x.start THEN <<Item(Inc(r.end), x.end)>>
    ELSE IF r.end >= x.end THEN <<Item(x.start, Dec(r.start))>>
    ELSE <<Item(x.start, Dec(r.start)), Item(Inc(r.end), x.end)>>

\* ossl_uint_set_remove
RemoveFrom(s, r) == FlattenSeq([i \in DOMAIN s |-> Remains(s[i], r)])

\* ossl_uint_set_query walks from the tail and stops below v.
Query(s, v) ==
    LET reached == {i \in DOMAIN s : \A j \in DOMAIN s : j > i => s[j].end >= v}
    IN  \E i \in reached : s[i].start <= v /\ v <= s[i].end

Insert(r) ==
    /\ items' = InsertInto(items, r)
    /\ contents' = contents \cup (r.start .. r.end)
    /\ fresh' = (fresh /\ (r.start .. r.end) \cap contents = {})

RemoveRange(r) ==
    /\ items' = RemoveFrom(items, r)
    /\ contents' = contents \ (r.start .. r.end)
    /\ UNCHANGED fresh

Init == items = <<>> /\ contents = {} /\ fresh = TRUE

Next == \E r \in Ranges : Insert(r) \/ RemoveRange(r)

Spec == Init /\ [][Next]_vars

----------------------------------------------------------------------------
(* Properties.                                                             *)

\* The list answers queries like the set it stands for, after any sequence
\* of overlapping insertions and removals.
QueryExact == \A v \in 0 .. Width - 1 : Query(items, v) <=> v \in contents

\* The documented invariants of the list that do hold for any use: it is
\* sorted, no two ranges overlap and no range is empty.
SortedDisjoint ==
    /\ \A i \in DOMAIN items : items[i] \in Ranges
    /\ \A i, j \in DOMAIN items : i < j => items[i].end < items[j].start

\* "No two adjacent ranges ever 'border' one another": the list is the
\* coarsest one.  ossl_quic_sstream_is_totally_acked relies on it when it asks
\* for a single range, and so does the ACK range count of the ACK manager.  It
\* holds for the way both use the set, which is to insert only integers that
\* are absent; the overlap branch of ossl_uint_set_insert does not look at the
\* neighbours of the range it widens.
NoBorder ==
    fresh => \A i \in 1 .. Len(items) - 1 : items[i].end + 1 < items[i + 1].start
=============================================================================
