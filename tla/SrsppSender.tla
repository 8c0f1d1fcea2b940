---------------------------- MODULE SrsppSender -----------------------------
(***************************************************************************)
(* One bound sender slot of an SRSPP endpoint: the sans-IO SenderMachine,  *)
(* the queue of actions it emits, the retransmission TimerSet and the run  *)
(* loop that drains the one and arms the other.                            *)
(*                                                                         *)
(* The endpoint is single-threaded: an application task runs only while    *)
(* the run loop awaits, in link.write (tx_pc = "write") or in the select   *)
(* of the next packet and the next deadline (tx_pc = "select").  The steps *)
(* of the loop between two awaits have tx_pc = "drain", or "expire" from   *)
(* the end of the select to the first expired number; there no application *)
(* action is enabled.                                                      *)
(*                                                                         *)
(* A payload is a sequence of bytes <<m, k>>, the k-th byte of the m-th    *)
(* message handed to send(); the send buffer holds such bytes, so that     *)
(* what leaves on the link can be compared with what was handed in.        *)
(***************************************************************************)
EXTENDS SrsppSeq, Sequences, SequencesExt, FiniteSets, FiniteSetsExt

CONSTANTS
    TxWin,           \* WIN: slots of the send window, entries of the TimerSet
    MaxActions,      \* capacity of SenderActions (MAX_ACTIONS)
    MaxRetransmits,  \* SenderConfig::max_retransmits
    MaxPayload,      \* max_payload_per_packet()
    BufSize,         \* bytes in the send buffer
    Blocking,        \* TRUE: cFS endpoint, send() waits for room;
                     \* FALSE: tokio SrsppSender, send() asks the machine at once
    MsgLens,         \* lengths of the messages the application may send
    MaxSends,        \* bound: calls of send() and send_eos()
    SackBits,        \* bits of the selective bitmap: 16 in the code
    MaxRebinds       \* bound: times the application drops the sender and binds anew

ASSUME TxAssumption ==
    /\ TxWin \in Nat \ {0}
    /\ MaxActions \in Nat \ {0}
    /\ MaxRetransmits \in Nat
    /\ MaxPayload \in Nat \ {0}
    /\ BufSize \in Nat
    /\ Blocking \in BOOLEAN
    /\ MsgLens \subseteq Nat
    /\ MaxSends \in Nat
    /\ SackBits \in Nat
    /\ MaxRebinds \in Nat

VARIABLES
    tx_st,        \* slot -> SlotState
    tx_seq,       \* slot -> sequence count
    tx_count,     \* slot -> retransmit_count
    tx_kind,      \* slot -> segmentation flag, or "Eos" for an is_eos slot
    tx_off,       \* slot -> offset of the payload in the send buffer
    tx_len,       \* slot -> length of the payload
    tx_data,      \* contents of the send buffer
    write_pos,
    next_seq,
    actions,      \* the SenderActions queue
    timers,       \* the TimerSet: entry -> armed sequence count or NoSeq
    tx_pc,        \* where the run loop is
    expired,      \* expired sequence counts handle_timeouts still walks
    writing,      \* the packet in link.write, or NoPacket
    bound,        \* TRUE while an EndpointSender holds the slot
    sends,        \* history: the messages handed to send() or send_eos()
    gave_up,      \* history: sequence counts declared lost since the bind
    writes,       \* history: slot -> times its packet was put on the link
    rebinds,      \* history: times the slot was dropped and bound again
    overtaken     \* history: the slot was dropped while its packet was in link.write

tx_machine == <<tx_st, tx_seq, tx_count, tx_kind, tx_off, tx_len, tx_data,
                write_pos, next_seq>>
tx_vars == <<tx_machine, actions, timers, tx_pc, expired, writing,
             bound, sends, gave_up, writes, rebinds, overtaken>>

NoSeq == -1
NoPacket == [seq |-> NoSeq, kind |-> "None", bytes |-> <<>>]
Slots == 1 .. TxWin
Cells == 0 .. (BufSize - 1)
Kinds == {"Unsegmented", "First", "Continuation", "Last", "Eos"}

Transmit(s)  == [type |-> "Transmit",  seq |-> s]
StopTimer(s) == [type |-> "StopTimer", seq |-> s]
Notice(t, s) == [type |-> t, seq |-> s]   \* PacketLost, MessageLost, SpaceAvailable

Live == {i \in Slots : tx_st[i] # "Empty"}
Free == Slots \ Live
Idle == Live = {}
AvailableBytes == BufSize - write_pos

\* mutant of Push: one place fewer
PushOneLess(queue, new) ==
    queue \o SubSeq(new, 1, Min({Len(new), MaxActions - 1 - Len(queue)}))

\* SenderActions::push, once per action: what does not fit is dropped silently
Push(queue, new) ==
    queue \o SubSeq(new, 1, Min({Len(new), MaxActions - Len(queue)}))

TxInit ==
    /\ tx_st    = [i \in Slots |-> "Empty"]
    /\ tx_seq   = [i \in Slots |-> 0]
    /\ tx_count = [i \in Slots |-> 0]
    /\ tx_kind  = [i \in Slots |-> "Unsegmented"]
    /\ tx_off   = [i \in Slots |-> 0]
    /\ tx_len   = [i \in Slots |-> 0]
    /\ tx_data  = [c \in Cells |-> <<0, 0>>]
    /\ write_pos = 0 /\ next_seq = 0
    /\ actions = <<>> /\ timers = [i \in Slots |-> NoSeq]
    /\ tx_pc = "drain" /\ expired = <<>> /\ writing = NoPacket
    /\ bound = TRUE /\ sends = <<>> /\ gave_up = {} /\ rebinds = 0 /\ overtaken = FALSE
    /\ writes = [i \in Slots |-> 0]
-----------------------------------------------------------------------------
(* compact: live payloads move to the front of the buffer in the order of  *)
(* their offsets (equal offsets, which only empty payloads cause, in the   *)
(* order of the slots).                                                    *)

Before(i) == {j \in Live : tx_off[j] < tx_off[i]
                             \/ (tx_off[j] = tx_off[i] /\ j < i)}
Bytes(S) == MapThenSumSet(LAMBDA j : tx_len[j], S)

CompactOff == [i \in Slots |-> IF i \in Live THEN Bytes(Before(i)) ELSE tx_off[i]]

\* mutant of CompactData: the offsets move, the bytes do not
CompactDataStays == tx_data

CompactData ==
    [c \in Cells |->
        LET owner == {i \in Live : c - CompactOff[i] \in 0 .. (tx_len[i] - 1)}
        IN  IF owner = {} THEN tx_data[c]
            ELSE LET i == CHOOSE i \in owner : TRUE
                 IN  tx_data[tx_off[i] + (c - CompactOff[i])]]
-----------------------------------------------------------------------------
(* The packets a message of l bytes is cut into.                           *)

ChunkCount(l)  == IF l <= MaxPayload THEN 1
                                     ELSE (l + MaxPayload - 1) \div MaxPayload
ChunkStart(j)  == (j - 1) * MaxPayload
ChunkEnd(l, j) == IF j = ChunkCount(l) THEN l ELSE j * MaxPayload

\* mutant of ChunkKind: the first segment does not announce the others
ChunkKindNoFirst(l, j) == IF j = 1 THEN "Unsegmented"
                          ELSE IF j = ChunkCount(l) THEN "Last" ELSE "Continuation"

ChunkKind(l, j) == CASE ChunkCount(l) = 1 -> "Unsegmented"
                     [] ChunkCount(l) > 1 /\ j = 1 -> "First"
                     [] j > 1 /\ j = ChunkCount(l) -> "Last"
                     [] OTHER -> "Continuation"

\* the position of a free slot in the scan for the first Empty one
Rank(i) == Cardinality({j \in Free : j <= i})

(***************************************************************************)
(* handle_send_request: queue_packet for each chunk in turn.  A chunk with *)
(* no Empty slot fails the request (WindowFull); a chunk that does not fit *)
(* compacts the buffer, and fails the request if it still does not fit     *)
(* (BufferFull).  The chunks queued before the failure stay queued.        *)
(* Compacting before the first chunk or between two chunks leaves the same *)
(* state: the chunks of this request are the last ones in the buffer.      *)
(***************************************************************************)
SendRequest(l) ==
    LET m        == Len(sends) + 1
        reach    == Min({ChunkCount(l), Cardinality(Free)})
        compacts == reach > 0 /\ ChunkEnd(l, reach) > AvailableBytes
        base     == IF compacts THEN Bytes(Live) ELSE write_pos
        off      == IF compacts THEN CompactOff ELSE tx_off
        data     == IF compacts THEN CompactData ELSE tx_data
        fits(j)  == j = 0 \/ base + ChunkEnd(l, j) <= BufSize
        queued   == Max({j \in 0 .. reach : fits(j)})
        new(i)   == i \in Free /\ Rank(i) <= queued
        total    == IF queued = 0 THEN 0 ELSE ChunkEnd(l, queued)
    IN  /\ tx_st'    = [i \in Slots |-> IF new(i) THEN "PendingTransmit" ELSE tx_st[i]]
        /\ tx_seq'   = [i \in Slots |-> IF new(i) THEN SeqAdd(next_seq, Rank(i) - 1)
                                                  ELSE tx_seq[i]]
        /\ tx_count' = [i \in Slots |-> IF new(i) THEN 0 ELSE tx_count[i]]
        /\ tx_kind'  = [i \in Slots |-> IF new(i) THEN ChunkKind(l, Rank(i))
                                                  ELSE tx_kind[i]]
        /\ tx_off'   = [i \in Slots |-> IF new(i) THEN base + ChunkStart(Rank(i))
                                                  ELSE off[i]]
        /\ tx_len'   = [i \in Slots |-> IF new(i)
                                        THEN ChunkEnd(l, Rank(i)) - ChunkStart(Rank(i))
                                        ELSE tx_len[i]]
        /\ tx_data'  = [c \in Cells |-> IF c \in base .. (base + total - 1)
                                        THEN <<m, c - base + 1>> ELSE data[c]]
        /\ write_pos' = base + total
        /\ next_seq' = SeqAdd(next_seq, queued)
        /\ actions'  = Push(actions, [j \in 1 .. queued |->
                                        Transmit(SeqAdd(next_seq, j - 1))])
        /\ writes'   = [i \in Slots |-> IF new(i) THEN 0 ELSE writes[i]]
        /\ sends'    = Append(sends, [kind |-> "Message", len |-> l,
                                     ok |-> queued = ChunkCount(l)])

\* an application task can run, and holds the sender
AppMayRun == tx_pc \in {"write", "select"}

\* EndpointSender::send (Blocking) and tokio's SrsppSender::send
Send(l) ==
    /\ AppMayRun /\ bound
    /\ Len(sends) < MaxSends
    /\ Blocking => AvailableBytes >= l /\ Free # {}
    /\ SendRequest(l)
    /\ UNCHANGED <<timers, tx_pc, expired, writing, bound, gave_up, rebinds, overtaken>>

\* EndpointSender::send_eos and queue_eos: a slot with no payload
SendEos ==
    /\ AppMayRun /\ bound
    /\ Len(sends) < MaxSends
    /\ Free # {}
    /\ LET i == Min(Free)
       IN  /\ tx_st'    = [tx_st    EXCEPT ![i] = "PendingTransmit"]
           /\ tx_seq'   = [tx_seq   EXCEPT ![i] = next_seq]
           /\ tx_count' = [tx_count EXCEPT ![i] = 0]
           /\ tx_kind'  = [tx_kind  EXCEPT ![i] = "Eos"]
           /\ tx_off'   = [tx_off   EXCEPT ![i] = write_pos]
           /\ tx_len'   = [tx_len   EXCEPT ![i] = 0]
           /\ writes'   = [writes   EXCEPT ![i] = 0]
    /\ next_seq' = SeqAdd(next_seq, 1)
    /\ actions'  = Push(actions, <<Transmit(next_seq)>>)
    /\ sends'    = Append(sends, [kind |-> "Eos", len |-> 0, ok |-> TRUE])
    /\ UNCHANGED <<tx_data, write_pos, timers, tx_pc, expired, writing, bound, gave_up, rebinds, overtaken>>

\* EndpointSender::drop: the machine, the queue and the timers start afresh,
\* whatever the run loop is in the middle of
ResetSlot ==
    /\ tx_st'    = [i \in Slots |-> "Empty"]
    /\ tx_seq'   = [i \in Slots |-> 0]
    /\ tx_count' = [i \in Slots |-> 0]
    /\ tx_kind'  = [i \in Slots |-> "Unsegmented"]
    /\ tx_off'   = [i \in Slots |-> 0]
    /\ tx_len'   = [i \in Slots |-> 0]
    /\ write_pos' = 0 /\ next_seq' = 0
    /\ actions' = <<>>
    /\ timers' = [i \in Slots |-> NoSeq]
    /\ gave_up' = {}
    /\ writes' = [i \in Slots |-> 0]
    /\ UNCHANGED tx_data

Drop ==
    /\ AppMayRun /\ bound /\ rebinds < MaxRebinds
    /\ ResetSlot
    /\ bound' = FALSE /\ rebinds' = rebinds + 1
    /\ overtaken' = (overtaken \/ tx_pc = "write")
    /\ UNCHANGED <<tx_pc, expired, writing, sends>>

\* SrsppEndpoint::sender on the freed slot
Bind ==
    /\ AppMayRun /\ ~bound
    /\ ResetSlot
    /\ bound' = TRUE
    /\ UNCHANGED <<tx_pc, expired, writing, sends, rebinds, overtaken>>
-----------------------------------------------------------------------------
(* The run loop: transmit() drains the queue, one await per packet.        *)

Matches(i, s) == tx_st[i] # "Empty" /\ tx_seq[i] = s

\* get_payload
Payload(i) == [seq   |-> tx_seq[i],
               kind  |-> tx_kind[i],
               bytes |-> [k \in 1 .. tx_len[i] |-> tx_data[tx_off[i] + k - 1]]]

Draining == tx_pc = "drain"

\* a Transmit action whose slot is still live: build the packet, start link.write
StartWrite ==
    /\ Draining /\ actions # <<>>
    /\ Head(actions).type = "Transmit"
    /\ \E i \in Slots : Matches(i, Head(actions).seq)
    /\ writing' = Payload(Min({i \in Slots : Matches(i, Head(actions).seq)}))
    /\ actions' = Tail(actions)
    /\ tx_pc' = "write"
    /\ UNCHANGED <<tx_machine, timers, expired, bound, sends, gave_up, writes, rebinds, overtaken>>

\* mutant of StopTimers: an acknowledged packet keeps its timer
StopTimersNone(s) == timers

\* TimerSet::stop cancels every entry with the number
StopTimers(s) == [e \in Slots |-> IF timers[e] = s THEN NoSeq ELSE timers[e]]

\* any other action: cancel a timer, or (a Transmit whose slot is gone, a notice
\* to the application) nothing at all
PopAction ==
    /\ Draining /\ actions # <<>>
    /\ LET a == Head(actions)
       IN  /\ ~(a.type = "Transmit" /\ \E i \in Slots : Matches(i, a.seq))
           /\ timers' = IF a.type = "StopTimer" THEN StopTimers(a.seq) ELSE timers
    /\ actions' = Tail(actions)
    /\ UNCHANGED <<tx_machine, tx_pc, expired, writing, bound, sends, gave_up, writes,
                   rebinds, overtaken>>

\* mutant of StartTimer: the first entry, free or not
StartTimerOver(s) == [timers EXCEPT ![1] = s]

\* TimerSet::start takes the first free entry; with none free it does nothing
StartTimer(s) ==
    LET idle == {e \in Slots : timers[e] = NoSeq}
    IN  IF idle = {} THEN timers ELSE [timers EXCEPT ![Min(idle)] = s]

\* link.write completed: mark_transmitted, then arm the timer
FinishWrite ==
    /\ tx_pc = "write"
    /\ LET pending == {i \in Slots : tx_st[i] = "PendingTransmit"
                                      /\ tx_seq[i] = writing.seq}
       IN  /\ tx_st'  = [i \in Slots |-> IF pending # {} /\ i = Min(pending)
                                          THEN "AwaitingAck" ELSE tx_st[i]]
           /\ writes' = [i \in Slots |-> IF pending # {} /\ i = Min(pending)
                                          THEN writes[i] + 1 ELSE writes[i]]
    /\ timers' = StartTimer(writing.seq)
    /\ writing' = NoPacket
    /\ tx_pc' = "drain"
    /\ UNCHANGED <<tx_seq, tx_count, tx_kind, tx_off, tx_len, tx_data, write_pos,
                   next_seq, actions, expired, bound, sends, gave_up, rebinds, overtaken>>

\* link.write or link.read failed: set_errors, and run() returns
LinkFails ==
    /\ tx_pc \in {"write", "select"}
    /\ tx_pc' = "failed" /\ writing' = NoPacket
    /\ UNCHANGED <<tx_machine, actions, timers, expired, bound, sends, gave_up, writes,
                   rebinds, overtaken>>

\* the queue is empty and no expired timer is left to handle: await the select
AwaitEvent ==
    /\ Draining /\ actions = <<>> /\ expired = <<>>
    /\ tx_pc' = "select"
    /\ UNCHANGED <<tx_machine, actions, timers, expired, writing, bound, sends, gave_up,
                   writes, rebinds, overtaken>>
-----------------------------------------------------------------------------
(* The events of the select: an ACK packet, or the earliest deadline.      *)

\* the slots of S by ascending key, those with the same key in the order of the slots
Position(S, key, i) == Cardinality({j \in S : key[j] < key[i] \/ (key[j] = key[i] /\ j <= i)})
InOrder(S, key) == [k \in 1 .. Cardinality(S) |-> CHOOSE i \in S : Position(S, key, i) = k]

SlotsInOrder(S) == InOrder(S, [i \in Slots |-> i])

\* the slots an ACK covers, the selective bitmap given as the set of its bits
CumAcked(cum)       == {i \in Live : SeqSub(cum, tx_seq[i]) < HalfMax}
SelAcked(cum, bits) == {i \in Live \ CumAcked(cum) :
                           \E b \in bits : tx_seq[i] = SeqAdd(cum, 1 + b)}
Acked(cum, bits)    == CumAcked(cum) \cup SelAcked(cum, bits)

\* handle_ack
ReceiveAck(cum, bits) ==
    /\ tx_pc = "select"
    /\ tx_pc' = "drain"
    /\ \/ /\ bound
          /\ LET freed == Acked(cum, bits)
                 past  == [i \in Slots |-> SeqSub(tx_seq[i], cum)]
                 order == SlotsInOrder(CumAcked(cum)) \o InOrder(SelAcked(cum, bits), past)
                 stops == [k \in DOMAIN order |-> StopTimer(tx_seq[order[k]])]
                 space == IF \E i \in freed : tx_len[i] > 0
                          THEN <<Notice("SpaceAvailable", NoSeq)>> ELSE <<>>
             IN  /\ tx_st' = [i \in Slots |-> IF i \in freed THEN "Empty" ELSE tx_st[i]]
                 /\ actions' = Push(actions, stops \o space)
       \/ ~bound /\ UNCHANGED <<tx_st, actions>>
    /\ UNCHANGED <<tx_seq, tx_count, tx_kind, tx_off, tx_len, tx_data, write_pos,
                   next_seq, timers, expired, writing, bound, sends, gave_up, writes, rebinds, overtaken>>

\* the sleep ended: handle_timeouts collects, and disarms, the expired entries.
\* Time is abstract: any set of armed entries may be due.
Timeout(due) ==
    /\ tx_pc = "select"
    /\ \A e \in due : timers[e] # NoSeq
    /\ bound \/ due = {}
    /\ expired' = LET order == SlotsInOrder(due) IN [k \in DOMAIN order |-> timers[order[k]]]
    /\ timers' = [e \in Slots |-> IF e \in due THEN NoSeq ELSE timers[e]]
    /\ tx_pc' = IF due = {} THEN "drain" ELSE "expire"
    /\ UNCHANGED <<tx_machine, actions, writing, bound, sends, gave_up, writes, rebinds, overtaken>>

Awaiting(s) == {i \in Slots : tx_st[i] = "AwaitingAck" /\ tx_seq[i] = s}

\* mutants of Exhausted: one attempt too many, one too few
ExhaustedLate(i)  == tx_count[i] > MaxRetransmits
ExhaustedEarly(i) == tx_count[i] + 1 >= MaxRetransmits

\* no retransmission is left
Exhausted(i) == tx_count[i] >= MaxRetransmits

\* handle_timeout for the next expired number: the first one at once, with what the
\* application queued during the select still in the queue; the others once transmit()
\* drained what the one before left
HandleTimeout ==
    /\ expired # <<>>
    /\ tx_pc = "expire" \/ (Draining /\ actions = <<>>)
    /\ tx_pc' = "drain"
    /\ expired' = Tail(expired)
    /\ LET s == Head(expired)
           i == Min(Awaiting(s))
       IN  \/ /\ Awaiting(s) = {}
              /\ UNCHANGED <<tx_st, tx_count, actions, gave_up>>
           \/ /\ Awaiting(s) # {} /\ Exhausted(i)
              /\ tx_st' = [tx_st EXCEPT ![i] = "Empty"]
              /\ actions' = Push(actions,
                    <<Notice("PacketLost", s)>> \o
                    (IF tx_kind[i] \in {"Unsegmented", "Eos"} THEN <<>>
                     ELSE <<Notice("MessageLost", NoSeq)>>))
              /\ gave_up' = gave_up \cup {s}
              /\ UNCHANGED tx_count
           \/ /\ Awaiting(s) # {} /\ ~Exhausted(i)
              /\ tx_st' = [tx_st EXCEPT ![i] = "PendingTransmit"]
              /\ tx_count' = [tx_count EXCEPT ![i] = @ + 1]
              /\ actions' = Push(actions, <<Transmit(s)>>)
              /\ UNCHANGED gave_up
    /\ UNCHANGED <<tx_seq, tx_kind, tx_off, tx_len, tx_data, write_pos, next_seq,
                   timers, writing, bound, sends, writes, rebinds, overtaken>>
-----------------------------------------------------------------------------
\* what the application does
TxApp == (\E l \in MsgLens : Send(l)) \/ SendEos \/ Drop \/ Bind

\* the steps of the run loop that wait for nothing outside the endpoint
TxLoop == StartWrite \/ PopAction \/ AwaitEvent \/ HandleTimeout

TxTimer == \E due \in SUBSET Slots : Timeout(due)

\* at least one armed timer is due
TxTimerFires == \E due \in SUBSET Slots \ {{}} : Timeout(due)

\* run() returned: every call of the application fails from now on
TxStopped == tx_pc = "failed" /\ UNCHANGED tx_vars

\* a sender alone: any ACK may arrive that covers only packets put on the link
TxNext ==
    \/ TxApp \/ TxLoop \/ FinishWrite \/ LinkFails \/ TxTimer \/ TxStopped
    \/ \E cum \in SeqCounts, bits \in SUBSET (0 .. SackBits - 1) :
          (\A i \in Acked(cum, bits) : writes[i] > 0) /\ ReceiveAck(cum, bits)

\* link.write ends: the link took the packet or failed
WriteEnds == FinishWrite \/ (tx_pc = "write" /\ LinkFails)

\* The executor keeps polling the loop and a link.write ends.  The select ends too, for
\* duration_until sleeps to the earliest deadline, or 100 ms.  A timer that stays armed fires:
\* select_biased! prefers packets, but not for ever.
TxFairness == /\ WF_tx_vars(TxLoop) /\ WF_tx_vars(WriteEnds)
              /\ WF_tx_vars(TxTimer) /\ SF_tx_vars(TxTimerFires)

TxSpec == TxInit /\ [][TxNext]_tx_vars /\ TxFairness
-----------------------------------------------------------------------------
(* Properties.                                                             *)

Packets == [seq : SeqCounts, kind : Kinds, bytes : Seq(Nat \X Nat)]
ActionTypes == {"Transmit", "StopTimer", "PacketLost", "MessageLost", "SpaceAvailable"}

\* Every variable of the sender has its type; the queue and the retransmission
\* counts keep within the configured bounds.
TxTypeOK ==
    /\ tx_st    \in [Slots -> {"Empty", "PendingTransmit", "AwaitingAck"}]
    /\ tx_seq   \in [Slots -> SeqCounts]
    /\ tx_count \in [Slots -> 0 .. MaxRetransmits]
    /\ tx_kind  \in [Slots -> Kinds]
    /\ tx_off   \in [Slots -> 0 .. BufSize]
    /\ tx_len   \in [Slots -> 0 .. MaxPayload]
    /\ tx_data  \in [Cells -> Nat \X Nat]
    /\ write_pos \in 0 .. BufSize
    /\ next_seq \in SeqCounts
    /\ actions \in Seq([type : ActionTypes, seq : SeqCounts \cup {NoSeq}])
    /\ Len(actions) <= MaxActions
    /\ timers \in [Slots -> SeqCounts \cup {NoSeq}]
    /\ tx_pc \in {"drain", "expire", "write", "select", "failed"}
    /\ expired \in Seq(SeqCounts)
    /\ writing \in Packets \cup {NoPacket}
    /\ bound \in BOOLEAN

\* No queued packet is forgotten: a slot in PendingTransmit has a Transmit action in
\* the queue, or its packet is in link.write.  SenderActions::push drops what does not
\* fit without a word; 2 * WIN - 1 places (hence 32 for a WIN of up to 16) keep every
\* Transmit, whatever sends, ACKs and timeouts pile up between two drains.
PendingIsQueued ==
    tx_pc # "failed" =>
    \A i \in Slots : tx_st[i] = "PendingTransmit" =>
        \/ \E k \in DOMAIN actions : actions[k] = Transmit(tx_seq[i])
        \/ tx_pc = "write" /\ writing.seq = tx_seq[i]

\* No transmitted packet loses its clock: a slot in AwaitingAck has a timer armed,
\* or handle_timeouts is about to handle it.  TimerSet::start does nothing when its
\* WIN entries are taken, so a timer left behind costs another packet its own.  (A
\* sender dropped while its packet is in link.write leaves such a timer to the next
\* one bound to the slot; overtaken excludes that case.)
AwaitingIsTimed ==
    tx_pc # "failed" /\ ~overtaken =>
    \A i \in Slots : tx_st[i] = "AwaitingAck" =>
        \/ \E e \in Slots : timers[e] = tx_seq[i]
        \/ \E k \in DOMAIN expired : expired[k] = tx_seq[i]

\* The send buffer keeps every live payload as it was queued, through any number of
\* compactions: its bytes are consecutive bytes of one message.
PayloadIntact ==
    \A i \in Live : \A k \in 1 .. tx_len[i] - 1 :
        LET b == Payload(i).bytes
        IN  b[k + 1] = <<b[k][1], b[k][2] + 1>>

GivesUp(i) == /\ tx_st[i] = "AwaitingAck" /\ tx_st'[i] = "Empty"
              /\ tx_seq[i] \in gave_up' \ gave_up

\* A packet is given up only after it was put on the link MaxRetransmits + 1 times:
\* no stale or doubled timer uses up an attempt.
GiveUpAfterAllAttempts ==
    [][\A i \in Slots :
          GivesUp(i) /\ ~overtaken => writes[i] = MaxRetransmits + 1]_tx_vars

\* flush() returns: once the application stops sending, every packet is in the end
\* acknowledged or given up, even if no ACK ever comes, or the link has failed.
FlushReturns == <>[](Idle \/ tx_pc = "failed" \/ overtaken)
=============================================================================
