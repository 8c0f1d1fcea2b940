---------------------------- MODULE SrsppStream -----------------------------
(***************************************************************************)
(* A receiver and the packets of one peer: they arrive in any order, any   *)
(* number of times, or not at all, and the consumer reads at its own pace. *)
(***************************************************************************)
EXTENDS SrsppReceiver

CONSTANTS
    Stream,         \* the packets the peer sends, in order: kind and bytes of each
    MaxAge          \* bound: a packet arrives at most this far behind expected_seq

\* A byte is <<m, k>>, the k-th byte of the m-th message: the message packet k is of, and
\* the bytes of it in earlier packets.
PacketMessage(k) == Stream[k].bytes[1][1]
PacketStart(k) == Stream[k].bytes[1][2] - 1
Carries(k) == Stream[k].bytes # <<>>
Continues(k) == Stream[k].kind \in {"Continuation", "Last"}
GoesOn(k) == Stream[k].kind \in {"First", "Continuation"}

\* Packets as handle_send_request and queue_eos cut them: a message that fits one
\* is Unsegmented; a longer one is a First, Continuations and a Last, none empty, one behind
\* the other (its end is missing where window or buffer was full); an EOS carries nothing.
StreamIsCut ==
    \A k \in 1 .. Len(Stream) :
        /\ Stream[k].kind = "Eos" => ~Carries(k)
        /\ Continues(k) \/ GoesOn(k) => Carries(k)
        /\ Carries(k) =>
              /\ PacketStart(k) \in Nat
              /\ \A j \in 1 .. Len(Stream[k].bytes) :
                    Stream[k].bytes[j] = <<PacketMessage(k), PacketStart(k) + j>>
              /\ ~Continues(k) => PacketStart(k) = 0
        /\ Continues(k) =>
              /\ k > 1 /\ GoesOn(k - 1) /\ PacketMessage(k) = PacketMessage(k - 1)
              /\ PacketStart(k) = PacketStart(k - 1) + Len(Stream[k - 1].bytes)
        /\ \A i \in 1 .. k - 1 :
              Carries(i) /\ Carries(k) /\ (~GoesOn(i) \/ ~Continues(k)) =>
                 PacketMessage(i) < PacketMessage(k)

ASSUME StreamAssumption ==
    /\ MaxAge \in Nat
    /\ Stream \in Seq([kind : PacketKinds, bytes : Seq(Nat \X Nat)])
    /\ StreamIsCut

Packet(k) == [seq |-> SeqAdd(0, k - 1), kind |-> Stream[k].kind, bytes |-> Stream[k].bytes]

\* A sender has at most WIN packets in flight, so none arrives from further ahead.
Arrive(k) ==
    /\ k - 1 - passed \in -MaxAge .. RxWin
    /\ ReceiveData(Packet(k)) \/ ReceiveEos(Packet(k))

RxStopped == rx_pc \in {"error", "failed"} /\ UNCHANGED rx_vars

RxNext ==
    \/ \E k \in 1 .. Len(Stream) : Arrive(k)
    \/ AckTimeout \/ ProgressTimeout \/ DriveActions \/ RxLinkFails \/ RxStopped
    \/ RecvData \/ RecvEos

RxSpec == RxInit /\ [][RxNext]_rx_vars /\ RxFairness
-----------------------------------------------------------------------------
(* Properties.                                                             *)

\* the bytes of message m in the packets of the peer
MessageBytes(m) ==
    {x \in UNION {Range(Stream[k].bytes) : k \in 1 .. Len(Stream)} : x[1] = m}

DataEvents == SelectSeq(events, LAMBDA e : e.kind = "Data")
Payloads == {k \in DOMAIN events : events[k].kind = "Data" /\ events[k].bytes # <<>>}
MessageId(k) == events[k].bytes[1][1]

\* What the consumer gets are messages of the peer, each whole and unaltered: no segment
\* is taken from an overwritten slot and no two messages are joined over a skipped gap.
DeliveredIntact ==
    \A k \in Payloads :
        /\ Range(events[k].bytes) = MessageBytes(MessageId(k))
        /\ \A j \in DOMAIN events[k].bytes : events[k].bytes[j] = <<MessageId(k), j>>

\* Messages are delivered in the order in which they were sent, none twice, also when the
\* sequence numbers wrap and old packets still arrive.
DeliveredInOrder ==
    \A i, j \in Payloads : i < j => MessageId(i) < MessageId(j)

\* The end of the stream is reported once, after all data.
EosIsLast ==
    \A k \in DOMAIN events : events[k].kind = "Eos" => k = Len(events)

\* No message is lost inside the receiver: each message that became complete (and whose
\* packets are therefore acknowledged) was taken by the consumer or waits for it.
CompletedIsDelivered ==
    Len(completed) = Len(DataEvents) + (IF message.ready THEN 1 ELSE 0)

\* The stream moves on: once the peer falls silent, whatever was lost, no segment stays in
\* the reorder buffer behind a gap.
GapsClose ==
    <>[][~\E k \in 1 .. Len(Stream) : Arrive(k)]_rx_vars => <>[](occupied = {} \/ ~Running)
=============================================================================
