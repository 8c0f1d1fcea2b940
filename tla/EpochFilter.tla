---------------------------- MODULE EpochFilter ----------------------------
(***************************************************************************)
(* DuplicateFilter: the newest epoch and a bitmap of the History epochs    *)
(* before it, on the circle of EpochMod numbers.                           *)
(***************************************************************************)
EXTENDS Integers

CONSTANTS
    EpochMod,       \* 2^16
    History         \* Bitmap::CAPACITY, 128

ASSUME FilterAssumption ==
    EpochMod \in Nat /\ History \in Nat \ {0} /\ EpochMod > 2 * History

Epoch == 0..(EpochMod - 1)

Ahead(from, to) == (to - from) % EpochMod

EmptyFilter == [init |-> FALSE, head |-> 0, history |-> {}]

\* ShortestPath::compute
IsForward(from, to) == Ahead(from, to) # 0 /\ Ahead(from, to) < Ahead(to, from)

\* Bitmap::shift; bit i stands for the epoch i + 1 before the head
Shift(bits, distance) == {i \in 0..(History - 1) : i - distance \in bits}

\* Bitmap::mark
Mark(bits, i) == IF i < History THEN bits \cup {i} ELSE bits

IsDuplicate(f, e) ==
    LET back == Ahead(e, f.head)
    IN  f.init /\ ~IsForward(f.head, e) /\ (back = 0 \/ back > History \/ back - 1 \in f.history)

\* mutant of Advance: the old head is not marked
AdvanceUnmarked(f, e) ==
    [f EXCEPT !.head = e, !.history = Shift(f.history, Ahead(f.head, e))]

Advance(f, e) ==
    LET distance == Ahead(f.head, e)
    IN  [f EXCEPT !.head = e, !.history = Mark(Shift(f.history, distance), distance - 1)]

\* mutant of Record: an older epoch is not recorded
RecordNewer(f, e) ==
    IF ~f.init THEN [f EXCEPT !.init = TRUE, !.head = e]
    ELSE IF IsForward(f.head, e) THEN Advance(f, e) ELSE f

\* the filter after is_duplicate(e)
Record(f, e) ==
    IF ~f.init THEN [f EXCEPT !.init = TRUE, !.head = e]
    ELSE IF IsForward(f.head, e) THEN Advance(f, e)
    ELSE IF IsDuplicate(f, e) THEN f
    ELSE [f EXCEPT !.history = Mark(@, Ahead(e, f.head) - 1)]
=============================================================================
