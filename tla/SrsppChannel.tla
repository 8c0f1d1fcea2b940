---------------------------- MODULE SrsppChannel ----------------------------
(***************************************************************************)
(* What the transport layer promises an application: messages arrive whole, *)
(* in the order in which they were handed in, none twice; the end of the   *)
(* stream is reported at most once, after it was signalled, and no message *)
(* follows it.  A message may be lost (a packet is given up after its last *)
(* retransmission, a gap is skipped), hence the index that jumps ahead.    *)
(***************************************************************************)
EXTENDS Naturals, Sequences

CONSTANT Messages

VARIABLES
    submitted,     \* messages handed to send(), in order
    delivered,     \* messages recv() returned, in order
    last,          \* index in submitted of the last one delivered
    closed,        \* send_eos() was called
    ended          \* recv() returned Eos

ch_vars == <<submitted, delivered, last, closed, ended>>

ChannelInit ==
    /\ submitted = <<>> /\ delivered = <<>> /\ last = 0
    /\ closed = FALSE /\ ended = FALSE

Submit(m) ==
    /\ ~closed
    /\ submitted' = Append(submitted, m)
    /\ UNCHANGED <<delivered, last, closed, ended>>

Close ==
    /\ closed' = TRUE
    /\ UNCHANGED <<submitted, delivered, last, ended>>

Deliver(k) ==
    /\ ~ended /\ last < k
    /\ delivered' = Append(delivered, submitted[k])
    /\ last' = k
    /\ UNCHANGED <<submitted, closed, ended>>

End ==
    /\ closed /\ ~ended
    /\ ended' = TRUE
    /\ UNCHANGED <<submitted, delivered, last, closed>>

ChannelNext ==
    \/ \E m \in Messages : Submit(m)
    \/ \E k \in DOMAIN submitted : Deliver(k)
    \/ Close \/ End

ChannelSpec == ChannelInit /\ [][ChannelNext]_ch_vars
=============================================================================
