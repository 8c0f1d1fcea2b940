---------------------------- MODULE CfdpTracker -----------------------------
(***************************************************************************)
(* The SegmentTracker of the CFDP receiver: the received part of a file as *)
(* a sorted array of MAX_GAPS ranges, the unused slots at the end holding  *)
(* EMPTY_SLOT = (u64::MAX, u64::MAX).  The model keeps the used slots, as  *)
(* a sequence of pairs <<start, end>>, end exclusive.                      *)
(***************************************************************************)
EXTENDS Integers, Sequences, FiniteSets, Functions

CONSTANTS
    MAX_GAPS,   \* length of the received_ranges array
    U64Max      \* stands for u64::MAX: larger than any offset of a file

ASSUME TrackerAssumption == MAX_GAPS \in Nat \ {0} /\ U64Max \in Nat

\* mutant of Disjoint: adjacent ranges stay apart
DisjointLoose(acc, r) == r[2] <= acc.s \/ r[1] >= acc.e

Disjoint(acc, r) == r[2] < acc.s \/ r[1] > acc.e

\* one step of the scan of add_segment: s..e grows over a range it touches,
\* and a disjoint one is kept
Merge(acc, r) ==
    IF Disjoint(acc, r)
    THEN [acc EXCEPT !.kept = Append(@, r)]
    ELSE [acc EXCEPT !.s = IF r[1] < @ THEN r[1] ELSE @, !.e = IF r[2] > @ THEN r[2] ELSE @]

Scan(ranges, offset, len) ==
    LET scan[i \in 0 .. Len(ranges)] ==
            IF i = 0 THEN [s |-> offset, e |-> offset + len, kept |-> <<>>]
            ELSE Merge(scan[i - 1], ranges[i])
    IN  scan[Len(ranges)]

\* sort_unstable_by_key
Place(rs, i) ==
    Cardinality({j \in DOMAIN rs : rs[j][1] < rs[i][1] \/ (rs[j][1] = rs[i][1] /\ j <= i)})
SortByStart(rs) == [k \in 1 .. Len(rs) |-> rs[CHOOSE i \in DOMAIN rs : Place(rs, i) = k]]

\* a segment that would need a range too many is forgotten
AddSegment(ranges, offset, len) ==
    LET m == Scan(ranges, offset, len)
    IN  IF len = 0 \/ Len(m.kept) = MAX_GAPS THEN ranges
        ELSE SortByStart(Append(m.kept, <<m.s, m.e>>))

\* get_missing_ranges(): the holes before each slot, an EMPTY_SLOT included,
\* and then the whole file: the closure that scans the slots works on its own
\* copy of last_offset, so the tail is taken from offset 0
MissingRanges(ranges, size) ==
    LET slots == ranges \o [i \in 1..(MAX_GAPS - Len(ranges)) |-> <<U64Max, U64Max>>]
        Before(i) == IF i = 1 THEN 0 ELSE slots[i - 1][2]
    IN  {<<Before(i), slots[i][1]>> : i \in {j \in 1..MAX_GAPS : slots[j][1] > Before(j)}}
        \cup (IF size > 0 THEN {<<0, size>>} ELSE {})

\* is_complete() tests the length of the array, not the number of used slots
IsComplete(ranges, size) ==
    /\ MAX_GAPS = 1
    /\ ranges # <<>>
    /\ ranges[1][1] = 0
    /\ ranges[1][2] >= size

\* the offsets a sequence of ranges covers
Covered(ranges) == UNION {r[1]..(r[2] - 1) : r \in Range(ranges)}
=============================================================================
