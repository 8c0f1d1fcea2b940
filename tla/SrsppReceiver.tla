--------------------------- MODULE SrsppReceiver ----------------------------
(***************************************************************************)
(* One stream of the receiving side of an SRSPP endpoint: a reassembly     *)
(* backend (PackedReceiver or FastReceiver), its AckState, the EOS         *)
(* bookkeeping of StreamState and the run loop that feeds packets and      *)
(* timeouts to them and puts ACKs on the link.                             *)
(*                                                                         *)
(* The handling of a packet or of a timeout runs without an await up to    *)
(* link.write of the ACK (rx_pc = "drive"); the consumer of the stream     *)
(* runs there and in the select (rx_pc = "select").  An error of the       *)
(* backend leaves run() for good (rx_pc = "error").                        *)
(*                                                                         *)
(* A stream that does not exist yet and a fresh one behave alike, so the   *)
(* initial state stands for both.  A packet is [seq, kind, bytes] as in    *)
(* SrsppSender; kind "Eos" is an EOS packet, whose flags are Unsegmented.  *)
(***************************************************************************)
EXTENDS SrsppSeq, Sequences, SequencesExt, FiniteSets, FiniteSetsExt

CONSTANTS
    RxWin,          \* WIN: slots of the reorder window
    Backend,        \* "packed" or "fast"
    SlotSize,       \* MTU: bytes of a slot of the fast backend
    SlabSize,       \* BUF: bytes of the slab of the packed backend
    Reasm,          \* REASM: bytes of the reassembly buffer
    ImmediateAck,   \* ReceiverConfig::immediate_ack
    ProgressTimer,  \* TRUE when progress_timeout_ticks is Some
    MaxReaps        \* bound: connections opened by DATA after the end of a stream

ASSUME RxAssumption ==
    /\ RxWin \in Nat \ {0}
    /\ Backend \in {"packed", "fast"}
    /\ SlotSize \in Nat /\ SlabSize \in Nat /\ Reasm \in Nat
    /\ ImmediateAck \in BOOLEAN /\ ProgressTimer \in BOOLEAN
    /\ MaxReaps \in Nat

VARIABLES
    expected_seq,
    recv_bitmap,        \* the set bits: bit b stands for expected_seq + 1 + b
    occupied,           \* slot indices that hold a buffered segment
    slot_meta,          \* slot index -> offset, length and kind of its segment
    store,              \* bytes of the slab, or of the fixed slots
    slab_len,           \* bytes allocated in the slab (packed backend)
    reassembly,         \* bytes of the message being reassembled
    in_progress,        \* reassembly_in_progress
    message,            \* the complete message not yet taken, if ready
    ack_pending, ack_timer_running,
    ack_deadline,       \* the delayed-ACK timer is armed
    progress_deadline,  \* the progress timer is armed
    eos_seq, eos_observed,
    rx_pc,              \* where the run loop is
    result,             \* the HandleResult that drive_actions is applying
    events,             \* history: what recv() returned, in order
    completed,          \* history: messages that became complete, in order
    passed,             \* history: sequence numbers expected_seq moved past
    reaps               \* history: times the stream was replaced by a fresh one

rx_backend == <<expected_seq, recv_bitmap, occupied, slot_meta, store, slab_len,
                reassembly, in_progress, message>>
rx_acks == <<ack_pending, ack_timer_running, ack_deadline, progress_deadline>>
rx_vars == <<rx_backend, rx_acks, eos_seq, eos_observed, rx_pc, result, events,
             completed, passed, reaps>>

PacketKinds == {"Unsegmented", "First", "Continuation", "Last", "Eos"}
Unknown == -1                      \* eos_seq: None
NoMessage == [ready |-> FALSE, bytes |-> <<>>]
NoAck == [cum |-> Unknown, bits |-> {}]
NoResult == [ack |-> NoAck, ack_timer |-> "keep", progress_timer |-> "keep"]

SlotIndices == 0 .. (RxWin - 1)
SlotIdx(seq) == seq % RxWin
StoreCells == 0 .. ((IF Backend = "packed" THEN SlabSize ELSE RxWin * SlotSize) - 1)
FreshSlots == [i \in SlotIndices |-> [off |-> 0, len |-> 0, kind |-> "Unsegmented"]]

RxInit ==
    /\ expected_seq = 0 /\ recv_bitmap = {} /\ occupied = {}
    /\ slot_meta = FreshSlots
    /\ store = [c \in StoreCells |-> <<0, 0>>] /\ slab_len = 0
    /\ reassembly = <<>> /\ in_progress = FALSE /\ message = NoMessage
    /\ ack_pending = FALSE /\ ack_timer_running = FALSE
    /\ ack_deadline = FALSE /\ progress_deadline = FALSE
    /\ eos_seq = Unknown /\ eos_observed = FALSE
    /\ rx_pc = "select" /\ result = NoResult
    /\ events = <<>> /\ completed = <<>> /\ passed = 0 /\ reaps = 0
-----------------------------------------------------------------------------
(* Reassembly.  The stream is passed as a record, because a DATA packet    *)
(* that opens a new connection is handled by a fresh one.                  *)

Fresh == [expected |-> 0, bitmap |-> {}, occ |-> {}, meta |-> FreshSlots,
          cells |-> [c \in StoreCells |-> <<0, 0>>], used |-> 0,
          reasm |-> <<>>, busy |-> FALSE, msg |-> NoMessage,
          eos |-> Unknown, seen |-> FALSE, running |-> FALSE,
          ackdl |-> FALSE, progdl |-> FALSE,
          done |-> completed, past |-> 0, reaps |-> reaps + 1, err |-> FALSE]

Current == [expected |-> expected_seq, bitmap |-> recv_bitmap, occ |-> occupied,
            meta |-> slot_meta, cells |-> store, used |-> slab_len,
            reasm |-> reassembly, busy |-> in_progress, msg |-> message,
            eos |-> eos_seq, seen |-> eos_observed, running |-> ack_timer_running,
            ackdl |-> ack_deadline, progdl |-> progress_deadline,
            done |-> completed, past |-> passed, reaps |-> reaps, err |-> FALSE]

\* a message is complete: the one buffer for it is overwritten
Complete(b, bytes) ==
    [b EXCEPT !.msg = [ready |-> TRUE, bytes |-> bytes], !.reasm = <<>>, !.busy = FALSE]

\* deliver_packet, behind the guard that keeps an empty unsegmented packet
\* (an EOS marker) from replacing an unread message
DeliverPacket(b, kind, bytes) ==
    LET grown == b.reasm \o bytes
        whole == IF kind = "Last" THEN grown ELSE bytes
        out ==
          CASE kind \in {"Unsegmented", "Eos"} ->
                 IF bytes = <<>> /\ b.msg.ready THEN b
                 ELSE IF Len(bytes) > Reasm THEN [b EXCEPT !.err = TRUE]
                 ELSE Complete(b, bytes)
            [] kind = "First" ->
                 IF Len(bytes) > Reasm THEN [b EXCEPT !.err = TRUE]
                 ELSE [b EXCEPT !.reasm = bytes, !.busy = TRUE, !.msg = NoMessage]
            [] kind \in {"Continuation", "Last"} ->
                 IF ~b.busy \/ Len(grown) > Reasm THEN [b EXCEPT !.err = TRUE]
                 ELSE IF kind = "Last" THEN Complete(b, grown)
                 ELSE [b EXCEPT !.reasm = grown]
    IN  IF b.err THEN b
        ELSE IF kind \in {"Unsegmented", "Last"} THEN [out EXCEPT !.done = Append(@, whole)]
        ELSE out

\* mutant of Advance: the bitmap is not shifted
AdvanceUnshifted(b, n) == [b EXCEPT !.expected = SeqAdd(@, n), !.past = @ + n]

\* ReceiverBase::advance, n times
Advance(b, n) ==
    [b EXCEPT !.expected = SeqAdd(@, n), !.past = @ + n,
              !.bitmap = {k - n : k \in {k \in b.bitmap : k >= n}}]

\* the number of buffered segments that follow expected_seq without a gap.
\* A slot is cleared when it is visited, so it counts once.
RunLength(b) ==
    LET idx(j) == SlotIdx(SeqAdd(b.expected, j))
    IN  Max({n \in 0 .. RxWin : \A j \in 0 .. n - 1 :
                idx(j) \in b.occ /\ \A i \in 0 .. j - 1 : idx(i) # idx(j)})

Segment(b, i) == [kind  |-> b.meta[i].kind,
                  bytes |-> [k \in 1 .. b.meta[i].len |-> b.cells[b.meta[i].off + k - 1]]]

\* the slots of that run, in order, and what delivering their segments leaves
RunSlots(b) == [j \in 1 .. RunLength(b) |-> SlotIdx(SeqAdd(b.expected, j - 1))]
DeliverRun(b) ==
    LET step(acc, i) == DeliverPacket(acc, Segment(b, i).kind, Segment(b, i).bytes)
    IN  FoldLeft(step, b, RunSlots(b))

\* deliver_buffered: the run is delivered and its slots freed; the packed backend
\* then clears its slab, whether or not segments remain beyond the next gap
DeliverBuffered(b) ==
    LET n   == RunLength(b)
        out == DeliverRun(b)
    IN  [Advance(b, n) EXCEPT
           !.occ = @ \ {RunSlots(b)[j] : j \in 1 .. n}, !.used = 0,
           !.reasm = out.reasm, !.busy = out.busy, !.msg = out.msg,
           !.done = out.done, !.err = out.err]

\* store_ooo, then record_ooo
StoreOoo(b, p) ==
    LET i   == SlotIdx(p.seq)
        len == Len(p.bytes)
        off == IF Backend = "packed" THEN b.used ELSE i * SlotSize
        bit == [b EXCEPT !.bitmap = @ \cup {SeqSub(p.seq, b.expected) - 1}]
    IN  CASE i \in b.occ -> bit
          [] i \notin b.occ /\ Backend = "packed" /\ b.used + len > SlabSize ->
               [b EXCEPT !.err = TRUE]
          [] OTHER ->
               [bit EXCEPT
                  !.occ = @ \cup {i},
                  !.meta[i] = [off |-> off, len |-> len, kind |-> p.kind],
                  !.cells = [c \in StoreCells |-> IF c - off \in 0 .. len - 1
                                                  THEN p.bytes[c - off + 1] ELSE @[c]],
                  !.used = @ + len]

\* mutants of InWindow: one number too many, no upper limit
InWindowWide(distance) == distance > 0 /\ distance <= RxWin
InWindowUnlimited(distance) == distance > 0

\* the reorder window ahead of expected_seq
InWindow(distance) == distance > 0 /\ distance < RxWin

\* ReceiverBackend::handle_data
HandleData(b, p) ==
    LET distance == SeqSub(p.seq, b.expected)
    IN  CASE distance = 0 ->
               DeliverBuffered(Advance(DeliverPacket(b, p.kind, p.bytes), 1))
          [] InWindow(distance) /\ distance - 1 \notin b.bitmap ->
               StoreOoo(b, p)
          [] OTHER -> b

\* mutant of SkipGap: the message in progress is kept
SkipGapKeeps(b) == DeliverBuffered(Advance(b, 1))

\* ReceiverBackend::skip_gap
SkipGap(b) == DeliverBuffered(Advance([b EXCEPT !.reasm = <<>>, !.busy = FALSE], 1))

\* the backend is left as b, but for its message; the rest of StreamState as in before
SetStream(before, b, msg) ==
    /\ expected_seq' = b.expected /\ recv_bitmap' = b.bitmap /\ occupied' = b.occ
    /\ slot_meta' = b.meta /\ store' = b.cells /\ slab_len' = b.used
    /\ reassembly' = b.reasm /\ in_progress' = b.busy /\ message' = msg
    /\ eos_seq' = before.eos /\ eos_observed' = before.seen
    /\ ack_deadline' = before.ackdl /\ progress_deadline' = before.progdl
    /\ completed' = b.done /\ passed' = b.past /\ reaps' = before.reaps

\* an error of the backend (or of the link): set_errors, and run() returns
Stop(reason) ==
    /\ rx_pc' = reason
    /\ UNCHANGED <<rx_backend, rx_acks, eos_seq, eos_observed, result, events,
                   completed, passed, reaps>>
-----------------------------------------------------------------------------
(* AckState.                                                               *)

\* mutant of AckOf: the next number instead of the last one
AckOfNext(b) == [cum |-> b.expected, bits |-> b.bitmap]

AckOf(b) == [cum |-> SeqSub(b.expected, 1), bits |-> b.bitmap]

\* on_data, for stream b that was before when the packet came
OnData(before, b) ==
    /\ result' =
         [ack |-> IF ImmediateAck THEN AckOf(b) ELSE NoAck,
          ack_timer |-> CASE ImmediateAck /\ before.running -> "stop"
                          [] ~ImmediateAck /\ ~before.running -> "start"
                          [] OTHER -> "keep",
          progress_timer |-> CASE ProgressTimer /\ b.occ # {} -> "start"
                               [] ProgressTimer /\ b.occ = {} /\ b.past # before.past -> "stop"
                               [] OTHER -> "keep"]
    /\ ack_pending' = ~ImmediateAck
    /\ ack_timer_running' = ~ImmediateAck

\* on_ack_timeout
OnAckTimeout(b) ==
    result' = [NoResult EXCEPT !.ack = IF ack_pending THEN AckOf(b) ELSE NoAck]

\* mutant of OnGapSkip: one skip per gap
OnGapSkipOnce(b) == result' = [NoResult EXCEPT !.progress_timer = "stop"]

\* on_gap_skip
OnGapSkip(b) ==
    result' = [NoResult EXCEPT !.progress_timer =
                 CASE b.occ = {} -> "stop"
                   [] b.occ # {} /\ ProgressTimer -> "start"
                   [] OTHER -> "keep"]
-----------------------------------------------------------------------------
(* The run loop: a packet arrived.                                         *)

\* mutant of EosReached: the EOS packet alone ends the stream
EosReachedAtOnce(b) == b.eos # Unknown

EosReached(b) == b.eos # Unknown /\ SeqStrictlyPast(b.expected, b.eos)

\* drive_segment: an empty message that the EOS left behind is taken away here
DriveSegment(before, p) ==
    LET b == HandleData(before, p)
        drain == /\ ~EosReached(before) /\ EosReached(b)
                 /\ b.msg.ready /\ b.msg.bytes = <<>>
    IN  IF b.err THEN Stop("error")
        ELSE /\ SetStream(before, b, IF drain THEN NoMessage ELSE b.msg)
             /\ OnData(before, b)
             /\ rx_pc' = "drive"
             /\ UNCHANGED events

\* process_data, a DATA packet: once EOS was reached, it opens a new connection
ReceiveData(p) ==
    /\ rx_pc = "select" /\ p.kind # "Eos"
    /\ EosReached(Current) => reaps < MaxReaps
    /\ DriveSegment(IF EosReached(Current) THEN Fresh ELSE Current, p)

\* process_data, an EOS packet: its number is recorded, then it is handled as an
\* empty unsegmented packet
ReceiveEos(p) ==
    /\ rx_pc = "select" /\ p.kind = "Eos"
    /\ DriveSegment([Current EXCEPT !.eos = IF @ = Unknown THEN p.seq ELSE @], p)

(* A timer of the stream is due.                                           *)

\* mutant of AckTimeout: ack_timer_running survives the timer
AckTimeoutStillRunning ==
    /\ rx_pc = "select" /\ ack_deadline
    /\ OnAckTimeout(Current)
    /\ ack_deadline' = FALSE /\ ack_pending' = FALSE
    /\ rx_pc' = "drive"
    /\ UNCHANGED <<rx_backend, ack_timer_running, progress_deadline, eos_seq,
                   eos_observed, events, completed, passed, reaps>>

AckTimeout ==
    /\ rx_pc = "select" /\ ack_deadline
    /\ OnAckTimeout(Current)
    /\ ack_deadline' = FALSE /\ ack_timer_running' = FALSE /\ ack_pending' = FALSE
    /\ rx_pc' = "drive"
    /\ UNCHANGED <<rx_backend, progress_deadline, eos_seq, eos_observed, events,
                   completed, passed, reaps>>

ProgressTimeout ==
    /\ rx_pc = "select" /\ progress_deadline
    /\ \E b \in {SkipGap(Current)} :
           IF b.err THEN Stop("error")
           ELSE /\ SetStream([Current EXCEPT !.progdl = FALSE], b, b.msg) /\ OnGapSkip(b)
                /\ rx_pc' = "drive"
                /\ UNCHANGED <<ack_pending, ack_timer_running, events>>

\* drive_actions: link.write of the ACK is over, the timers are set
Applied(action, armed) == CASE action = "start" -> TRUE
                            [] action = "stop"  -> FALSE
                            [] action = "keep"  -> armed
DriveActions ==
    /\ rx_pc = "drive"
    /\ ack_deadline' = Applied(result.ack_timer, ack_deadline)
    /\ progress_deadline' = Applied(result.progress_timer, progress_deadline)
    /\ result' = NoResult
    /\ rx_pc' = "select"
    /\ UNCHANGED <<rx_backend, ack_pending, ack_timer_running, eos_seq, eos_observed,
                   events, completed, passed, reaps>>

\* link.read or link.write failed
RxLinkFails == rx_pc \in {"select", "drive"} /\ Stop("failed")
-----------------------------------------------------------------------------
(* The consumer: recv() takes a message first, the end of the stream after. *)

Consuming == rx_pc \in {"select", "drive"}

RecvData ==
    /\ Consuming /\ message.ready
    /\ events' = Append(events, [kind |-> "Data", bytes |-> message.bytes])
    /\ message' = NoMessage
    /\ UNCHANGED <<expected_seq, recv_bitmap, occupied, slot_meta, store, slab_len,
                   reassembly, in_progress, rx_acks, eos_seq, eos_observed, rx_pc,
                   result, completed, passed, reaps>>

RecvEos ==
    /\ Consuming /\ ~message.ready /\ ~eos_observed /\ EosReached(Current)
    /\ events' = Append(events, [kind |-> "Eos", bytes |-> <<>>])
    /\ eos_observed' = TRUE
    /\ UNCHANGED <<rx_backend, rx_acks, eos_seq, rx_pc, result, completed, passed, reaps>>
-----------------------------------------------------------------------------
\* The executor keeps polling the loop, a link.write of an ACK ends, and a timer that stays
\* armed while the loop waits fires.  Each packet that finds segments buffered pushes
\* the progress deadline back, so its fairness is weak.  (It is written out: the handler is
\* enabled exactly when the guard holds.)
RxFairness ==
    /\ WF_rx_vars(DriveActions \/ (rx_pc = "drive" /\ RxLinkFails))
    /\ WF_rx_vars(AckTimeout)
    /\ []<>~(rx_pc = "select" /\ progress_deadline) \/ []<><<ProgressTimeout>>_rx_vars
-----------------------------------------------------------------------------
(* Properties.                                                             *)

Running == rx_pc \in {"select", "drive"}

\* Every variable of the receiver has its type.
RxTypeOK ==
    /\ expected_seq \in SeqCounts
    /\ recv_bitmap \subseteq 0 .. (RxWin - 2)
    /\ occupied \subseteq SlotIndices
    /\ \A i \in SlotIndices :
          slot_meta[i] \in [off : Nat, len : Nat, kind : PacketKinds]
    /\ slab_len \in Nat
    /\ Len(reassembly) <= Reasm /\ Len(message.bytes) <= Reasm
    /\ {in_progress, message.ready, eos_observed} \subseteq BOOLEAN
    /\ {ack_pending, ack_timer_running, ack_deadline, progress_deadline} \subseteq BOOLEAN
    /\ eos_seq \in SeqCounts \cup {Unknown}
    /\ rx_pc \in {"select", "drive", "error", "failed"}

\* What a selective ACK claims is in the reorder buffer, and nothing else is: the bitmap,
\* shifted by every advance, and the ring of slots, indexed by seq % WIN, agree.
BitmapMatchesSlots ==
    Running =>
    \A b \in 0 .. RxWin - 2 :
        b \in recv_bitmap <=> SlotIdx(SeqAdd(expected_seq, 1 + b)) \in occupied

\* An ACK that is owed is scheduled: AckState and the deadline the driver keeps never
\* disagree, so a delayed ACK is not forgotten.
OwedAckIsScheduled ==
    Running /\ ack_pending =>
        ack_deadline \/ (rx_pc = "drive" /\ result.ack_timer = "start")

\* With gap skipping configured, buffered segments behind a gap always have the progress
\* timer running, so a packet the sender gave up cannot block the stream for ever.
GapIsTimed ==
    Running /\ ProgressTimer /\ occupied # {} =>
        progress_deadline \/ (rx_pc = "drive" /\ result.progress_timer = "start")
=============================================================================
