----------------------------- MODULE RingBuffer -----------------------------
(***************************************************************************)
(* The output ring of a router or gossip port: packets lie contiguously in *)
(* N bytes, each behind its length in two bytes, and a packet that does    *)
(* not fit before the end goes to position 0, behind a length of zero that *)
(* marks the gap.  Read beside it is the queue it stands for.              *)
(***************************************************************************)
EXTENDS Integers, Sequences

CONSTANTS
    RingBytes,      \* N
    ByteMod,        \* 256: values of a byte
    Lengths         \* lengths of packets; no packet is empty

LEN_SIZE == 2

ASSUME RingAssumption ==
    /\ RingBytes \in Nat /\ RingBytes >= LEN_SIZE
    /\ ByteMod \in Nat \ {0, 1}
    /\ Lengths \subseteq 1 .. (ByteMod * ByteMod - 1)

VARIABLES
    front_drop,     \* the policy: evict the oldest packet, or refuse the new one
    ring,           \* buf, head, tail and count; panicked: an index was out of bounds
    queue,          \* history: the packets pushed and not popped, oldest first
    tight           \* history: the ring was filled to the last byte, a push went round a
                    \* second time before the reader followed, or a gap had one byte

ring_vars == <<front_drop, ring, queue, tight>>

EmptyRing == [buf |-> [i \in 0 .. RingBytes - 1 |-> 0],
              head |-> 0, tail |-> 0, count |-> 0, panicked |-> FALSE]

RingInit == front_drop \in BOOLEAN /\ ring = EmptyRing /\ queue = <<>> /\ tight = FALSE
-----------------------------------------------------------------------------
Cursor(i) == IF i = RingBytes THEN 0 ELSE i

ReadLen(r, pos) == r.buf[pos] * ByteMod + r.buf[pos + 1]

\* skip_sentinel
Front(r) ==
    IF r.tail + LEN_SIZE <= RingBytes /\ ReadLen(r, r.tail) = 0 /\ r.tail # r.head
    THEN 0 ELSE r.tail

\* front() and pop() read within the buffer
Readable(r) ==
    /\ Front(r) + LEN_SIZE <= RingBytes
    /\ Front(r) + LEN_SIZE + ReadLen(r, Front(r)) <= RingBytes

FrontPacket(r) == [i \in 1 .. ReadLen(r, Front(r)) |-> r.buf[Front(r) + LEN_SIZE + i - 1]]

\* pop()
Pop(r) ==
    IF ~Readable(r) THEN [r EXCEPT !.panicked = TRUE]
    ELSE IF r.count = 1 THEN [r EXCEPT !.head = 0, !.tail = 0, !.count = 0]
    ELSE [r EXCEPT !.tail = Cursor(Front(r) + LEN_SIZE + ReadLen(r, Front(r))), !.count = @ - 1]
-----------------------------------------------------------------------------
(* push() *)

Needed(data) == LEN_SIZE + Len(data)

\* not enough room before the end of the buffer
Wraps(r, data) == RingBytes - r.head < Needed(data)

\* mutant of NoRoomBefore: one byte of the oldest packet is overwritten
NoRoomBeforeLess(r, needed) == needed > r.tail + 1

NoRoomBefore(r, needed) == needed > r.tail

\* the wrapped packet would reach the oldest one: refused before anything is written
RefusedAtGap(r, data) ==
    Wraps(r, data) /\ r.count > 0 /\ r.head >= r.tail /\ NoRoomBefore(r, Needed(data))

\* the sentinel in front of the gap
MarkGap(r) ==
    IF r.head + 1 >= RingBytes THEN [r EXCEPT !.panicked = TRUE]
    ELSE [r EXCEPT !.buf[r.head] = 0, !.buf[r.head + 1] = 0]

Overlaps(r, head, data) == r.count > 0 /\ head < r.tail /\ NoRoomBefore(r, head + Needed(data))

Write(r, head, data) ==
    [r EXCEPT !.buf = [i \in DOMAIN r.buf |->
                          CASE i = head -> Len(data) \div ByteMod
                            [] i = head + 1 -> Len(data) % ByteMod
                            [] i - head - 1 \in DOMAIN data -> data[i - head - 1]
                            [] OTHER -> r.buf[i]],
              !.head = Cursor(head + Needed(data)),
              !.count = @ + 1]

\* try_push: whether it succeeded, and the ring afterwards
TryPush(r, data) ==
    LET marked == IF Wraps(r, data) THEN MarkGap(r) ELSE r
        head   == IF Wraps(r, data) THEN 0 ELSE r.head
    IN  IF RefusedAtGap(r, data) THEN [ok |-> FALSE, ring |-> r]
        ELSE IF marked.panicked \/ Overlaps(r, head, data) THEN [ok |-> FALSE, ring |-> marked]
        ELSE [ok |-> TRUE, ring |-> Write(marked, head, data)]

\* a failed try is repeated after an eviction
Retry(t, data) ==
    LET rest == Pop(t.ring)
    IN  IF t.ok \/ t.ring.panicked THEN t
        ELSE IF rest.panicked THEN [ok |-> FALSE, ring |-> rest]
        ELSE TryPush(rest, data)

\* the tries of push with front_drop: the k-th one after k evictions
Evicting(r, data) ==
    LET try[k \in 0 .. r.count] == IF k = 0 THEN TryPush(r, data) ELSE Retry(try[k - 1], data)
    IN  try[r.count]

\* a second wrap, a full ring, a gap of one byte that the sentinel does not fit
Tight(before, after, data) ==
    \/ Wraps(before, data) /\ before.count > 0 /\ before.head < before.tail
    \/ after.count > 0 /\ after.head = after.tail
    \/ after.panicked /\ before.head + 1 = RingBytes

Push(data) ==
    LET out == IF front_drop THEN Evicting(ring, data) ELSE TryPush(ring, data)
        all == Append(queue, data)
    IN  /\ ~ring.panicked /\ Needed(data) <= RingBytes
        /\ ring' = out.ring
        /\ queue' = IF ~out.ok THEN queue
                    ELSE SubSeq(all, Len(all) - out.ring.count + 1, Len(all))
        /\ tight' = (tight \/ Tight(ring, out.ring, data))
        /\ UNCHANGED front_drop

\* the packet was written to the link
PopFront ==
    /\ ~ring.panicked /\ ring.count > 0
    /\ ring' = Pop(ring)
    /\ queue' = Tail(queue)
    /\ UNCHANGED <<front_drop, tight>>

\* bound: a behaviour ends where the ring is tight, as nothing is said of it then
RingNext ==
    /\ ~tight
    /\ \/ \E n \in Lengths : \E byte \in 0 .. ByteMod - 1 : Push([i \in 1 .. n |-> byte])
       \/ PopFront

RingSpec == RingInit /\ [][RingNext]_ring_vars
-----------------------------------------------------------------------------
\* The ring is the queue of its packets: front() is the oldest one, whole, across
\* gaps, wraps and evictions, and no index is out of bounds.  This holds until the
\* ring is filled to the last byte, a push goes round a second time, or a gap is one
\* byte long: try_push does not tell these cases from an empty ring (README).
RingIsQueue ==
    ~tight =>
        /\ ~ring.panicked
        /\ ring.count = Len(queue)
        /\ queue # <<>> => Readable(ring) /\ FrontPacket(ring) = Head(queue)
=============================================================================
