------------------------------- MODULE Srspp --------------------------------
(***************************************************************************)
(* Two SRSPP endpoints and the network between them: the sender of         *)
(* SrsppSender on one spacecraft, the receiver of SrsppReceiver on the     *)
(* other.  The network loses, duplicates and reorders: a packet or an ACK  *)
(* once written can be read any number of times from then on, or never.    *)
(*                                                                         *)
(* Failures of a link end one run loop, which the component modules cover; *)
(* they are left out here.                                                 *)
(***************************************************************************)
EXTENDS SrsppSender, SrsppReceiver

CONSTANT UseEos      \* the application ends its stream with send_eos()

ASSUME SrsppAssumption == UseEos \in BOOLEAN

VARIABLES
    net_data,       \* DATA and EOS packets on the network
    net_acks        \* ACK packets on the network

net_vars == <<net_data, net_acks>>
vars == <<tx_vars, rx_vars, net_vars>>

Init == TxInit /\ RxInit /\ net_data = {} /\ net_acks = {}
-----------------------------------------------------------------------------
Closed == \E k \in DOMAIN sends : sends[k].kind = "Eos"

\* the application does not send after it ended the stream
AppSends ==
    /\ ~Closed
    /\ (\E l \in MsgLens : Send(l)) \/ (UseEos /\ SendEos)
    /\ UNCHANGED <<rx_vars, net_vars>>

\* link.write of the sender: the packet is on the network before the write returns
SenderWrites ==
    /\ StartWrite
    /\ net_data' = net_data \cup {writing'}
    /\ UNCHANGED <<rx_vars, net_acks>>

SenderSteps ==
    /\ PopAction \/ AwaitEvent \/ HandleTimeout \/ FinishWrite \/ TxTimer
    /\ UNCHANGED <<rx_vars, net_vars>>

AckArrives ==
    /\ \E a \in net_acks : ReceiveAck(a.cum, a.bits)
    /\ UNCHANGED <<rx_vars, net_vars>>

DataArrives ==
    /\ \E p \in net_data : ReceiveData(p) \/ ReceiveEos(p)
    /\ UNCHANGED <<tx_vars, net_vars>>

\* link.write of the receiver
ReceiverDrives ==
    /\ DriveActions
    /\ net_acks' = IF result.ack = NoAck THEN net_acks ELSE net_acks \cup {result.ack}
    /\ UNCHANGED <<tx_vars, net_data>>

ReceiverSteps ==
    /\ AckTimeout \/ ProgressTimeout \/ RecvData \/ RecvEos
    /\ UNCHANGED <<tx_vars, net_vars>>

Next ==
    \/ AppSends \/ SenderWrites \/ SenderSteps \/ AckArrives
    \/ DataArrives \/ ReceiverDrives \/ ReceiverSteps

Spec == Init /\ [][Next]_vars
-----------------------------------------------------------------------------
(* Properties.  The runs keep Len(sends) small enough for sequence numbers *)
(* not to wrap, so that a number names one packet.                         *)

Received(s) == s < passed \/ (s - expected_seq - 1) \in recv_bitmap

\* Every ACK on the network tells the truth, read as the receiver means it (bit b stands for
\* cumulative_ack + 2 + b), and no later step of the receiver makes it a lie.
AcksAreTrue ==
    \A a \in net_acks :
        /\ a.cum # SeqSub(0, 1) => \A s \in 0 .. a.cum : Received(s)
        /\ \A b \in a.bits : Received(SeqAdd(a.cum, 2 + b))

\* The sender forgets a packet only once the receiver has it, or after giving it up: no ACK
\* frees a packet that is still missing.
AckedIsReceived ==
    \A s \in 0 .. next_seq - 1 :
        \/ \E i \in Live : tx_seq[i] = s
        \/ s \in gave_up
        \/ Received(s)

(* What the pair of endpoints shows to the two applications.               *)
MessageOf(n) == [k \in 1 .. sends[n].len |-> <<n, k>>]
Submitted == [n \in 1 .. Len(SelectSeq(sends, LAMBDA x : x.kind = "Message")) |-> MessageOf(n)]
Delivered ==
    LET data == SelectSeq(events, LAMBDA e : e.kind = "Data")
    IN  [k \in DOMAIN data |-> data[k].bytes]
LastIndex == IF Delivered = <<>> \/ Last(Delivered) = <<>> THEN 0 ELSE Last(Delivered)[1][1]

Channel == INSTANCE SrsppChannel WITH
    Messages  <- {[k \in 1 .. l |-> <<n, k>>] : l \in MsgLens, n \in 1 .. MaxSends},
    submitted <- Submitted,
    delivered <- Delivered,
    last      <- LastIndex,
    closed    <- Closed,
    ended     <- \E k \in DOMAIN events : events[k].kind = "Eos"

\* End to end, the endpoints implement the channel: what the receiving application gets
\* are messages of the sender, whole, in order and none twice.
ImplementsChannel == Channel!ChannelSpec

\* No message reaches the application twice.
NoDuplicates ==
    \A i, j \in DOMAIN Delivered : i # j => Delivered[i] # Delivered[j]
=============================================================================
