------------------------- MODULE SrsppStreamProofs --------------------------
(***************************************************************************)
(* A stream of the SRSPP receiver, for every window, backend and           *)
(* configuration.                                                          *)
(*                                                                         *)
(* The timers: an ACK that is owed is scheduled, and a gap is watched by   *)
(* the progress timer if there is one.  The argument needs nothing of the  *)
(* backend but that on_data and on_gap_skip see the occupancy it leaves.   *)
(*                                                                         *)
(* The window: the bitmap of the ACK state and the slots of the reorder    *)
(* buffer tell the same, through every run that is delivered, every gap    *)
(* that is skipped and every wrap of the sequence numbers.                 *)
(*                                                                         *)
(* The types: no message outgrows its buffer, whatever the peer sends.     *)
(*                                                                         *)
(* The positions: on one connection, where numbers come round late enough, *)
(* the distance of a packet tells which packet of the peer it is, so that  *)
(* the end of the stream is reported behind all data.                      *)
(*                                                                         *)
(* The messages: the slots of the fast backend hold packets of the peer,   *)
(* the message in progress is the beginning of one of its messages, and    *)
(* what recv() returns are whole messages, in order.                       *)
(***************************************************************************)
EXTENDS SrsppStream, ModularArithmetic, WellFoundedInduction, TLAPS

\* where the loop is
PcOK == rx_pc \in {"select", "drive", "error", "failed"}

\* the driver's deadline agrees with ack_timer_running, between drive_actions and the
\* next event as well as while its result is being applied
AckCovered ==
    /\ ack_pending => ack_timer_running
    /\ rx_pc = "select" /\ ack_timer_running => ack_deadline
    /\ rx_pc = "drive" /\ ack_timer_running =>
          \/ result.ack_timer = "start"
          \/ result.ack_timer = "keep" /\ ack_deadline

\* the same for the progress timer and the reorder buffer
GapCovered ==
    ProgressTimer /\ occupied # {} =>
       /\ rx_pc = "select" => progress_deadline
       /\ rx_pc = "drive" =>
             \/ result.progress_timer = "start"
             \/ result.progress_timer = "keep" /\ progress_deadline

TimersInv == PcOK /\ AckCovered /\ GapCovered

\* A stream that exists, or the fresh one that replaces it, handed to drive_segment.
LEMMA DriveSegmentCovers ==
    ASSUME NEW before, NEW p, TimersInv, rx_pc = "select",
           before.running => before.ackdl,
           DriveSegment(before, p)
    PROVE  TimersInv'
<1> DEFINE b == HandleData(before, p)
<1>1. CASE b.err
  <2>1. rx_pc' = "error"
    BY <1>1 DEF DriveSegment, Stop
  <2>2. UNCHANGED <<ack_pending, ack_timer_running>>
    BY <1>1 DEF DriveSegment, Stop, rx_acks
  <2> QED BY <2>1, <2>2 DEF TimersInv, PcOK, AckCovered, GapCovered
<1>2. CASE ~b.err
  <2>1. /\ rx_pc' = "drive" /\ OnData(before, b)
        /\ occupied' = b.occ /\ ack_deadline' = before.ackdl
    BY <1>2 DEF DriveSegment, SetStream
  <2>2. AckCovered'
    BY <2>1 DEF AckCovered, OnData
  <2>3. GapCovered'
    BY <2>1 DEF GapCovered, OnData
  <2> QED BY <2>1, <2>2, <2>3 DEF TimersInv, PcOK
<1> QED BY <1>1, <1>2

\* The run loop, the timers and the consumer keep the timers in agreement with the state.
LEMMA TimersStep == TimersInv /\ [RxNext]_rx_vars => TimersInv'
<1> SUFFICES ASSUME TimersInv, [RxNext]_rx_vars
             PROVE  TimersInv'
  OBVIOUS
<1>1. ASSUME NEW p, ReceiveData(p)
      PROVE  TimersInv'
  <2>1. rx_pc = "select"
    BY <1>1 DEF ReceiveData
  <2>2. CASE EosReached(Current)
    <3>1. DriveSegment(Fresh, p)
      BY <1>1, <2>2 DEF ReceiveData
    <3>2. Fresh.running = FALSE
      BY DEF Fresh
    <3> QED BY <2>1, <3>1, <3>2, DriveSegmentCovers
  <2>3. CASE ~EosReached(Current)
    <3>1. DriveSegment(Current, p)
      BY <1>1, <2>3 DEF ReceiveData
    <3>2. Current.running = ack_timer_running /\ Current.ackdl = ack_deadline
      BY DEF Current
    <3>3. Current.running => Current.ackdl
      BY <2>1, <3>2 DEF TimersInv, AckCovered
    <3> QED BY <2>1, <3>1, <3>3, DriveSegmentCovers
  <2> QED BY <2>2, <2>3
<1>2. ASSUME NEW p, ReceiveEos(p)
      PROVE  TimersInv'
  <2> DEFINE noted == [Current EXCEPT !.eos = IF @ = Unknown THEN p.seq ELSE @]
  <2>1. rx_pc = "select" /\ DriveSegment(noted, p)
    BY <1>2 DEF ReceiveEos
  <2>2. noted.running = ack_timer_running /\ noted.ackdl = ack_deadline
    BY DEF Current
  <2>3. noted.running => noted.ackdl
    BY <2>1, <2>2 DEF TimersInv, AckCovered
  <2> QED BY <2>1, <2>3, DriveSegmentCovers
<1>3. CASE AckTimeout
  <2>1. /\ rx_pc = "select" /\ rx_pc' = "drive"
        /\ ack_timer_running' = FALSE /\ ack_pending' = FALSE
        /\ UNCHANGED <<occupied, progress_deadline>>
    BY <1>3 DEF AckTimeout, rx_backend
  <2>2. result'.progress_timer = "keep"
    BY <1>3 DEF AckTimeout, OnAckTimeout, NoResult
  <2> QED BY <2>1, <2>2 DEF TimersInv, PcOK, AckCovered, GapCovered
<1>4. CASE ProgressTimeout
  <2>1. rx_pc = "select"
    BY <1>4 DEF ProgressTimeout
  <2> DEFINE b == SkipGap(Current)
  <2>2. CASE b.err
    <3>1. rx_pc' = "error" /\ UNCHANGED <<ack_pending, ack_timer_running>>
      BY <1>4, <2>2 DEF ProgressTimeout, Stop, rx_acks
    <3> QED BY <3>1 DEF TimersInv, PcOK, AckCovered, GapCovered
  <2>3. CASE ~b.err
    <3>1. /\ rx_pc' = "drive" /\ OnGapSkip(b) /\ occupied' = b.occ
          /\ UNCHANGED <<ack_pending, ack_timer_running>>
      BY <1>4, <2>3 DEF ProgressTimeout, SetStream
    <3>2. ack_deadline' = ack_deadline
      BY <1>4, <2>3 DEF ProgressTimeout, SetStream, Current
    <3>3. result'.ack_timer = "keep"
      BY <3>1 DEF OnGapSkip, NoResult
    <3>4. ProgressTimer /\ b.occ # {} => result'.progress_timer = "start"
      BY <3>1 DEF OnGapSkip, NoResult
    <3> QED BY <2>1, <3>1, <3>2, <3>3, <3>4 DEF TimersInv, PcOK, AckCovered, GapCovered
  <2> QED BY <2>2, <2>3
<1>5. CASE DriveActions
  <2>1. /\ rx_pc = "drive" /\ rx_pc' = "select"
        /\ ack_deadline' = Applied(result.ack_timer, ack_deadline)
        /\ progress_deadline' = Applied(result.progress_timer, progress_deadline)
        /\ UNCHANGED <<occupied, ack_pending, ack_timer_running>>
    BY <1>5 DEF DriveActions, rx_backend
  <2>2. \A armed : Applied("start", armed) /\ (Applied("keep", armed) = armed)
    BY DEF Applied
  <2> QED BY <2>1, <2>2 DEF TimersInv, PcOK, AckCovered, GapCovered
<1>6. CASE RxLinkFails
  <2>1. rx_pc' = "failed" /\ UNCHANGED <<ack_pending, ack_timer_running>>
    BY <1>6 DEF RxLinkFails, Stop, rx_acks
  <2> QED BY <2>1 DEF TimersInv, PcOK, AckCovered, GapCovered
<1>7. CASE RecvData \/ RecvEos \/ RxStopped \/ UNCHANGED rx_vars
  <2>1. UNCHANGED <<rx_pc, result, occupied, rx_acks>>
    BY <1>7 DEF RecvData, RecvEos, RxStopped, rx_vars, rx_backend
  <2> QED BY <2>1 DEF TimersInv, PcOK, AckCovered, GapCovered, rx_acks
<1> QED BY <1>1, <1>2, <1>3, <1>4, <1>5, <1>6, <1>7 DEF RxNext, Arrive

\* The timers are in agreement with the state at all times.
THEOREM TimersInvariant == RxSpec => []TimersInv
<1>1. RxInit => TimersInv
  BY DEF RxInit, TimersInv, PcOK, AckCovered, GapCovered
<1> QED BY <1>1, TimersStep, PTL DEF RxSpec

\* A delayed ACK that is owed is always scheduled, for every window, backend, stream and
\* interleaving of packets, timers and the consumer: AckState never believes a timer to be
\* running that the driver does not keep.
THEOREM OwedAcksAreScheduled == RxSpec => []OwedAckIsScheduled
<1>1. TimersInv => OwedAckIsScheduled
  BY DEF TimersInv, AckCovered, OwedAckIsScheduled, Running
<1> QED BY <1>1, TimersInvariant, PTL

\* With gap skipping configured, a reorder buffer that holds segments is always watched by
\* the progress timer.
THEOREM GapsAreTimed == RxSpec => []GapIsTimed
<1>1. TimersInv => GapIsTimed
  BY DEF TimersInv, GapCovered, GapIsTimed, Running
<1> QED BY <1>1, TimersInvariant, PTL
-----------------------------------------------------------------------------
(* The window: the slot of the j-th number from e on.                      *)

Slot(e, j) == SlotIdx(SeqAdd(e, j))

\* WIN is 8 in every configuration of the repository, and the space is 2^14: the ring of
\* slots has no seam where the sequence numbers wrap.
WindowDividesSpace == SeqSpace % RxWin = 0

\* A slot is reached by steps of any size, and the numbers of one window have slots of
\* their own, also across the wrap.
LEMMA SlotFacts ==
    ASSUME WindowDividesSpace, NEW e \in SeqCounts
    PROVE  /\ \A n, j \in Nat : SeqAdd(e, n) \in SeqCounts /\ Slot(SeqAdd(e, n), j) = Slot(e, n + j)
           /\ \A i, j \in Nat : Slot(e, i) = Slot(e, j) /\ i - j < RxWin /\ j - i < RxWin => i = j
           /\ \A j \in Nat : Slot(e, j + RxWin) = Slot(e, j)
           /\ SeqAdd(e, 0) = e
<1>1. RxWin \in Nat \ {0} /\ SeqSpace \in Nat \ {0} /\ SeqSpace % RxWin = 0 /\ e \in Int
  BY RxAssumption, SeqSpaceAssumption DEF WindowDividesSpace, SeqCounts
<1>2. ASSUME NEW j \in Nat PROVE Slot(e, j) = (e + j) % RxWin
  <2>1. e + j \in Int
    BY <1>1
  <2>2. ((e + j) % SeqSpace) % RxWin = (e + j) % RxWin
    BY <1>1, <2>1, ModMod
  <2> QED BY <2>2 DEF Slot, SlotIdx, SeqAdd
<1>3. ASSUME NEW n \in Nat, NEW j \in Nat
      PROVE  SeqAdd(e, n) \in SeqCounts /\ Slot(SeqAdd(e, n), j) = Slot(e, n + j)
  <2>1. e + n \in Int /\ (e + n) + j = e + (n + j)
    BY <1>1
  <2>2. (e + n) % SeqSpace \in 0 .. SeqSpace - 1
    BY <1>1, <2>1, DivMod
  <2>3. j \in Int
    OBVIOUS
  <2>4. (((e + n) % SeqSpace) + j) % SeqSpace = ((e + n) + j) % SeqSpace
    BY <1>1, <2>1, <2>3, ModAdd, Zenon
  <2> QED BY <2>1, <2>2, <2>4 DEF Slot, SeqAdd, SeqCounts
<1>4. ASSUME NEW i \in Nat, NEW j \in Nat, Slot(e, i) = Slot(e, j), i - j < RxWin, j - i < RxWin
      PROVE  i = j
  <2> DEFINE a == e + i
             c == e + j
  <2>1. a \in Int /\ c \in Int /\ a - c < RxWin /\ c - a < RxWin
    BY <1>1, <1>4
  <2>2. a % RxWin = c % RxWin
    BY <1>2, <1>4
  <2> HIDE DEF a, c
  <2>3. a = c
    BY <1>1, <2>1, <2>2, ModDistinct
  <2> QED BY <1>1, <2>3 DEF a, c
<1>5. ASSUME NEW j \in Nat PROVE Slot(e, j + RxWin) = Slot(e, j)
  <2> DEFINE a == e + j
  <2>1. a \in Int /\ e + (j + RxWin) = RxWin * 1 + a /\ j + RxWin \in Nat
    BY <1>1
  <2> HIDE DEF a
  <2>2. 1 \in Int
    OBVIOUS
  <2>3. (RxWin * 1 + a) % RxWin = a % RxWin
    BY <1>1, <2>1, <2>2, ModMultiple, Zenon
  <2> QED BY <1>2, <2>1, <2>3 DEF a
<1>6. SeqAdd(e, 0) = e
  <2>1. e \in 0 .. SeqSpace - 1 /\ e + 0 = SeqSpace * 0 + e
    BY <1>1 DEF SeqCounts
  <2>2. (SeqSpace * 0 + e) % SeqSpace = e
    BY <1>1, <2>1, ModUnique
  <2> QED BY <2>1, <2>2 DEF SeqAdd
<1> QED BY <1>3, <1>4, <1>5, <1>6

\* Bitmap and slots agree beyond expected_seq.
Agree(e, bits, occ) ==
    /\ e \in SeqCounts /\ bits \subseteq 0 .. RxWin - 2
    /\ \A j \in 1 .. RxWin - 1 : j - 1 \in bits <=> Slot(e, j) \in occ

\* Between two packets the segment expected next is not buffered either.
Fits(e, bits, occ) == Agree(e, bits, occ) /\ Slot(e, 0) \notin occ

Shifted(bits, n) == {k - n : k \in {k \in bits : k >= n}}

\* ReceiverBase::advance, once: the slot that expected_seq leaves is the last one of the
\* window that it enters.
LEMMA AdvanceAgrees ==
    ASSUME WindowDividesSpace, NEW e, NEW bits, NEW occ, Fits(e, bits, occ)
    PROVE  Agree(SeqAdd(e, 1), Shifted(bits, 1), occ)
<1>1. RxWin \in Nat \ {0} /\ e \in SeqCounts
  BY RxAssumption DEF Fits, Agree
<1>2. SeqAdd(e, 1) \in SeqCounts /\ \A j \in Nat : Slot(SeqAdd(e, 1), j) = Slot(e, 1 + j)
  BY <1>1, SlotFacts
<1>3. Slot(e, RxWin) = Slot(e, 0)
  <2>1. 0 + RxWin = RxWin
    BY <1>1
  <2>2. Slot(e, 0 + RxWin) = Slot(e, 0)
    BY <1>1, SlotFacts
  <2> QED BY <2>1, <2>2
<1>4. Shifted(bits, 1) \subseteq 0 .. RxWin - 2
  BY <1>1 DEF Shifted, Fits, Agree
<1>5. ASSUME NEW j \in 1 .. RxWin - 1
      PROVE  j - 1 \in Shifted(bits, 1) <=> Slot(e, 1 + j) \in occ
  <2>1. j - 1 \in Shifted(bits, 1) <=> j \in bits
    BY <1>1 DEF Shifted, Fits, Agree
  <2>2. CASE j = RxWin - 1
    <3>1. j \notin bits /\ 1 + j = RxWin
      BY <1>1, <2>2 DEF Fits, Agree
    <3> QED BY <1>3, <2>1, <3>1 DEF Fits
  <2>3. CASE j # RxWin - 1
    <3>1. 1 + j \in 1 .. RxWin - 1 /\ (1 + j) - 1 = j
      BY <1>1, <2>3
    <3> QED BY <2>1, <3>1 DEF Fits, Agree
  <2> QED BY <2>2, <2>3
<1> QED BY <1>2, <1>4, <1>5 DEF Agree

\* deliver_buffered: n slots are freed, up to the next gap.
LEMMA RunFits ==
    ASSUME WindowDividesSpace, NEW e, NEW bits, NEW occ, Agree(e, bits, occ),
           NEW n \in 0 .. RxWin, n = RxWin \/ Slot(e, n) \notin occ
    PROVE  Fits(SeqAdd(e, n), Shifted(bits, n), occ \ {Slot(e, j) : j \in 0 .. n - 1})
<1> DEFINE freed == {Slot(e, j) : j \in 0 .. n - 1}
           left == occ \ freed
<1>1. RxWin \in Nat \ {0} /\ e \in SeqCounts /\ n \in Nat
  BY RxAssumption DEF Agree
<1>2. SeqAdd(e, n) \in SeqCounts /\ \A j \in Nat : Slot(SeqAdd(e, n), j) = Slot(e, n + j)
  BY <1>1, SlotFacts
<1>3. \A j \in Nat : Slot(e, j + RxWin) = Slot(e, j)
  BY <1>1, SlotFacts
<1>4. Shifted(bits, n) \subseteq 0 .. RxWin - 2
  BY <1>1 DEF Shifted, Agree
<1>5. Slot(e, n) \notin left
  <2>1. CASE n = RxWin
    <3>1. 0 + RxWin = n /\ 0 \in 0 .. n - 1
      BY <1>1, <2>1
    <3>2. Slot(e, 0 + RxWin) = Slot(e, 0)
      BY <1>3
    <3> QED BY <3>1, <3>2
  <2> QED BY <2>1
<1>6. ASSUME NEW j \in 1 .. RxWin - 1
      PROVE  j - 1 \in Shifted(bits, n) <=> Slot(e, n + j) \in left
  <2>1. j - 1 \in Shifted(bits, n) <=> (n + j) - 1 \in bits
    BY <1>1 DEF Shifted, Agree
  <2>2. CASE n + j <= RxWin - 1
    <3>1. n + j \in 1 .. RxWin - 1
      BY <1>1, <2>2
    <3>2. (n + j) - 1 \in bits <=> Slot(e, n + j) \in occ
      BY <3>1 DEF Agree
    <3>3. ASSUME NEW i \in 0 .. n - 1 PROVE Slot(e, n + j) # Slot(e, i)
      <4>1. n + j \in Nat /\ i \in Nat /\ (n + j) - i < RxWin /\ i - (n + j) < RxWin /\ n + j # i
        BY <1>1, <2>2
      <4> QED BY <1>1, <4>1, SlotFacts
    <3> QED BY <2>1, <3>2, <3>3
  <2>3. CASE ~(n + j <= RxWin - 1)
    <3> DEFINE i == (n + j) - RxWin
    <3>1. i \in 0 .. n - 1 /\ i \in Nat /\ i + RxWin = n + j
      BY <1>1, <2>3
    <3>2. (n + j) - 1 \notin bits
      BY <1>1, <2>3 DEF Agree
    <3> HIDE DEF i
    <3>3. Slot(e, n + j) = Slot(e, i)
      BY <1>3, <3>1
    <3> QED BY <2>1, <3>1, <3>2, <3>3
  <2> QED BY <2>2, <2>3
<1> HIDE DEF left
<1>7. Slot(SeqAdd(e, n), 0) = Slot(e, n)
  <2>1. Slot(SeqAdd(e, n), 0) = Slot(e, n + 0) /\ n + 0 = n
    BY <1>1, <1>2
  <2> QED BY <2>1
<1>8. Agree(SeqAdd(e, n), Shifted(bits, n), left)
  BY <1>1, <1>2, <1>4, <1>6 DEF Agree
<1> QED BY <1>5, <1>7, <1>8 DEF Fits, left
-----------------------------------------------------------------------------
(* The backend.                                                            *)

\* A set of counts up to n that is not empty has a greatest one.
LEMMA MaxOfCounts ==
    ASSUME NEW n \in Nat, NEW S, S \subseteq 0 .. n, S # {}
    PROVE  Max(S) \in S /\ \A y \in S : Max(S) >= y
<1> DEFINE T == {n - y : y \in S}
<1>1. T \subseteq Nat /\ T # {}
  <2>1. ASSUME NEW y \in S PROVE n - y \in Nat
    OBVIOUS
  <2> QED BY <2>1
<1>2. PICK x \in T : \A y \in T : ~(<<y, x>> \in OpToRel(<, Nat))
  BY <1>1, NatLessThanWellFounded, WFMin
<1>3. ASSUME NEW y \in T PROVE x <= y
  <2>1. <<y, x>> \in Nat \X Nat /\ <<y, x>>[1] = y /\ <<y, x>>[2] = x
    BY <1>1
  <2>2. <<y, x>>[1] < <<y, x>>[2] => <<y, x>> \in OpToRel(<, Nat)
    BY <2>1, Zenon DEF OpToRel
  <2>3. ~(<<y, x>>[1] < <<y, x>>[2])
    BY <1>2, <2>2, Zenon
  <2> QED BY <1>1, <2>1, <2>3
<1>4. PICK z \in S : x = n - z
  OBVIOUS
<1>5. ASSUME NEW y \in S PROVE z >= y
  <2>1. x <= n - y
    BY <1>3
  <2> QED BY <1>4, <2>1
<1> QED BY <1>5 DEF Max

\* What the reorder window of a stream consists of.
HasWindow(b) == {"expected", "bitmap", "occ", "past"} \subseteq DOMAIN b

\* The run that deliver_buffered takes is buffered, and ends at a gap.
LEMMA RunEndsAtGap ==
    ASSUME WindowDividesSpace, NEW b, b.expected \in SeqCounts
    PROVE  /\ RunLength(b) \in 0 .. RxWin
           /\ \A j \in 0 .. RunLength(b) - 1 : Slot(b.expected, j) \in b.occ
           /\ RunLength(b) = RxWin \/ Slot(b.expected, RunLength(b)) \notin b.occ
<1> DEFINE good(n) == \A j \in 0 .. n - 1 :
                         /\ Slot(b.expected, j) \in b.occ
                         /\ \A i \in 0 .. j - 1 : Slot(b.expected, i) # Slot(b.expected, j)
           S == {n \in 0 .. RxWin : good(n)}
<1>1. RxWin \in Nat \ {0}
  BY RxAssumption
<1>2. RunLength(b) = Max(S)
  BY DEF RunLength, Slot
<1>3. 0 \in S
  BY <1>1
<1>4. Max(S) \in S /\ \A y \in S : Max(S) >= y
  <2>1. S \subseteq 0 .. RxWin /\ S # {}
    BY <1>3
  <2> HIDE DEF S
  <2> QED BY <1>1, <2>1, MaxOfCounts
<1> DEFINE m == Max(S)
<1>5. m \in 0 .. RxWin /\ good(m) /\ \A y \in S : m >= y
  BY <1>4
<1> HIDE DEF m
<1>6. ASSUME m # RxWin, Slot(b.expected, m) \in b.occ PROVE FALSE
  <2>1. m \in Nat /\ m + 1 \in 0 .. RxWin
    BY <1>1, <1>5, <1>6
  <2>2. ASSUME NEW j \in 0 .. (m + 1) - 1
        PROVE  /\ Slot(b.expected, j) \in b.occ
               /\ \A i \in 0 .. j - 1 : Slot(b.expected, i) # Slot(b.expected, j)
    <3>1. CASE j \in 0 .. m - 1
      BY <1>5, <3>1
    <3>2. CASE j = m
      <4>1. ASSUME NEW i \in 0 .. j - 1 PROVE Slot(b.expected, i) # Slot(b.expected, j)
        <5>1. i \in Nat /\ j \in Nat /\ i - j < RxWin /\ j - i < RxWin /\ i # j
          BY <1>1, <2>1, <3>2
        <5> QED BY <5>1, SlotFacts
      <4> QED BY <1>6, <3>2, <4>1
    <3> QED BY <2>1, <3>1, <3>2
  <2>3. m + 1 \in S
    BY <2>1, <2>2
  <2>4. m >= m + 1
    BY <1>5, <2>3
  <2> QED BY <2>1, <2>4
<1> QED BY <1>2, <1>5, <1>6 DEF m

\* deliver_packet touches the message, not the window.
LEMMA DeliverPacketKeeps ==
    ASSUME NEW b, HasWindow(b), NEW kind \in PacketKinds, NEW bytes
    PROVE  LET r == DeliverPacket(b, kind, bytes)
           IN  /\ HasWindow(r) /\ r.expected = b.expected /\ r.bitmap = b.bitmap
               /\ r.occ = b.occ /\ r.past = b.past
<1> DEFINE keeps(r) == /\ HasWindow(r) /\ r.expected = b.expected /\ r.bitmap = b.bitmap
                       /\ r.occ = b.occ /\ r.past = b.past
<1>1. keeps(b)
  OBVIOUS
<1>2. ASSUME NEW x PROVE keeps(Complete(b, x))
  BY DEF Complete, HasWindow
<1>3. keeps([b EXCEPT !.err = TRUE])
  BY DEF HasWindow
<1>4. ASSUME NEW x PROVE keeps([b EXCEPT !.reasm = x])
  BY DEF HasWindow
<1>5. ASSUME NEW x PROVE keeps([b EXCEPT !.reasm = x, !.busy = TRUE, !.msg = NoMessage])
  BY DEF HasWindow
<1> DEFINE grown == b.reasm \o bytes
           whole == IF kind = "Last" THEN grown ELSE bytes
           out ==
             CASE kind \in {"Unsegmented", "Eos"} ->
                    IF bytes = <<>> /\ b.msg.ready THEN b
                    ELSE IF Len(bytes) > Reasm THEN [b EXCEPT !.err = TRUE]
                    ELSE Complete(b, bytes)
               [] kind = "First" ->
                    IF Len(bytes) > Reasm THEN [b EXCEPT !.err = TRUE]
                    ELSE [b EXCEPT !.reasm = bytes, !.busy = TRUE, !.msg = NoMessage]
               [] kind \in {"Continuation", "Last"} ->
                    IF ~b.busy \/ Len(grown) > Reasm THEN [b EXCEPT !.err = TRUE]
                    ELSE IF kind = "Last" THEN Complete(b, grown)
                    ELSE [b EXCEPT !.reasm = grown]
<1>6. DeliverPacket(b, kind, bytes) =
         IF b.err THEN b
         ELSE IF kind \in {"Unsegmented", "Last"} THEN [out EXCEPT !.done = Append(@, whole)]
         ELSE out
  BY DEF DeliverPacket
<1> HIDE DEF keeps
<1>7. CASE kind \in PacketKinds
  <2>1. keeps(out)
    BY <1>1, <1>2, <1>3, <1>4, <1>5, <1>7 DEF PacketKinds
  <2> HIDE DEF out, whole, grown
  <2>2. keeps([out EXCEPT !.done = Append(@, whole)])
    BY <2>1 DEF keeps, HasWindow
  <2>3. keeps(DeliverPacket(b, kind, bytes))
    BY <1>1, <1>6, <2>1, <2>2, Zenon
  <2> QED BY <2>3 DEF keeps
<1> QED BY <1>7

\* ReceiverBase::advance.
LEMMA AdvanceResult ==
    ASSUME NEW b, HasWindow(b), NEW n
    PROVE  LET r == Advance(b, n)
           IN  /\ HasWindow(r) /\ r.expected = SeqAdd(b.expected, n)
               /\ r.bitmap = Shifted(b.bitmap, n) /\ r.occ = b.occ /\ r.past = b.past + n
  BY DEF Advance, HasWindow, Shifted

\* deliver_buffered, on the window.
LEMMA DeliverBufferedResult ==
    ASSUME NEW b, HasWindow(b)
    PROVE  LET r == DeliverBuffered(b)
               n == RunLength(b)
           IN  /\ HasWindow(r) /\ r.expected = SeqAdd(b.expected, n)
               /\ r.bitmap = Shifted(b.bitmap, n) /\ r.past = b.past + n
               /\ r.occ = b.occ \ {RunSlots(b)[j] : j \in 1 .. n}
<1> DEFINE a == Advance(b, RunLength(b))
           out == DeliverRun(b)
<1>1. /\ HasWindow(a) /\ a.expected = SeqAdd(b.expected, RunLength(b))
      /\ a.bitmap = Shifted(b.bitmap, RunLength(b)) /\ a.occ = b.occ
      /\ a.past = b.past + RunLength(b)
  BY AdvanceResult
<1>2. DeliverBuffered(b) =
         [a EXCEPT !.occ = @ \ {RunSlots(b)[j] : j \in 1 .. RunLength(b)}, !.used = 0,
                   !.reasm = out.reasm, !.busy = out.busy, !.msg = out.msg,
                   !.done = out.done, !.err = out.err]
  BY DEF DeliverBuffered
<1> HIDE DEF a, out
<1> QED BY <1>1, <1>2 DEF HasWindow

FitsWindow(b) == HasWindow(b) /\ Fits(b.expected, b.bitmap, b.occ)

\* What a stream that is handed on keeps of what it had: n numbers are behind it, and each
\* segment that was buffered is among them or still buffered.
MovesOn(b, r, n) ==
    /\ n \in Nat /\ r.past = b.past + n /\ r.expected = SeqAdd(b.expected, n)
    /\ \A k \in b.bitmap : k + 1 < n \/ (k >= n /\ k - n \in r.bitmap)

\* The segment expected next is delivered or given up, and the run behind it delivered.
LEMMA PassFits ==
    ASSUME WindowDividesSpace, NEW b, NEW a, FitsWindow(b), HasWindow(a),
           a.expected = b.expected, a.bitmap = b.bitmap, a.occ = b.occ, a.past = b.past,
           b.past \in Nat
    PROVE  LET r == DeliverBuffered(Advance(a, 1))
           IN  FitsWindow(r) /\ \E n \in Nat : MovesOn(b, r, n)
<1> DEFINE c == Advance(a, 1)
           r == DeliverBuffered(c)
           n == RunLength(c)
           e == b.expected
<1>1. /\ HasWindow(c) /\ c.expected = SeqAdd(e, 1) /\ c.bitmap = Shifted(b.bitmap, 1)
      /\ c.occ = b.occ /\ c.past = b.past + 1
  BY AdvanceResult
<1>2. Agree(c.expected, c.bitmap, c.occ)
  BY <1>1, AdvanceAgrees DEF FitsWindow
<1>3. RxWin \in Nat \ {0} /\ e \in SeqCounts /\ c.expected \in SeqCounts
  BY <1>2, RxAssumption DEF FitsWindow, Fits, Agree
<1> HIDE DEF c
<1>4. /\ n \in 0 .. RxWin /\ n \in Nat
      /\ n = RxWin \/ Slot(c.expected, n) \notin c.occ
  <2>1. n \in 0 .. RxWin /\ (n = RxWin \/ Slot(c.expected, n) \notin c.occ)
    BY <1>3, RunEndsAtGap
  <2> QED BY <1>3, <2>1
<1>5. /\ HasWindow(r) /\ r.expected = SeqAdd(c.expected, n)
      /\ r.bitmap = Shifted(c.bitmap, n) /\ r.past = c.past + n
      /\ r.occ = c.occ \ {RunSlots(c)[j] : j \in 1 .. n}
  BY <1>1, DeliverBufferedResult
<1>6. {RunSlots(c)[j] : j \in 1 .. n} = {Slot(c.expected, j) : j \in 0 .. n - 1}
  <2>1. \A j \in 1 .. n : RunSlots(c)[j] = Slot(c.expected, j - 1)
    BY DEF RunSlots, Slot
  <2>2. \A j \in 1 .. n : j - 1 \in 0 .. n - 1
    BY <1>4
  <2>3. \A j \in 0 .. n - 1 : j + 1 \in 1 .. n /\ (j + 1) - 1 = j
    BY <1>4
  <2> HIDE DEF n
  <2>4. \A x : x \in {RunSlots(c)[j] : j \in 1 .. n} => x \in {Slot(c.expected, j) : j \in 0 .. n - 1}
    BY <2>1, <2>2
  <2>5. \A j \in 0 .. n - 1 : Slot(c.expected, j) = RunSlots(c)[j + 1]
    BY <2>1, <2>3
  <2>6. \A x : x \in {Slot(c.expected, j) : j \in 0 .. n - 1} => x \in {RunSlots(c)[j] : j \in 1 .. n}
    BY <2>3, <2>5
  <2> QED BY <2>4, <2>6
<1> HIDE DEF n
<1>7. Fits(r.expected, r.bitmap, r.occ)
  <2>1. Fits(SeqAdd(c.expected, n), Shifted(c.bitmap, n),
             c.occ \ {Slot(c.expected, j) : j \in 0 .. n - 1})
    BY <1>2, <1>4, RunFits
  <2>2. r.occ = c.occ \ {Slot(c.expected, j) : j \in 0 .. n - 1}
    BY <1>5, <1>6, Zenon
  <2> HIDE DEF r
  <2> QED BY <1>5, <2>1, <2>2, Zenon
<1>8. \A i, j \in Nat : SeqAdd(SeqAdd(e, i), j) = SeqAdd(e, i + j)
  <2> SUFFICES ASSUME NEW i \in Nat, NEW j \in Nat
               PROVE  SeqAdd(SeqAdd(e, i), j) = SeqAdd(e, i + j)
    OBVIOUS
  <2>1. SeqSpace \in Nat \ {0} /\ e + i \in Int /\ j \in Int /\ (e + i) + j = e + (i + j)
    BY <1>3, SeqSpaceAssumption DEF SeqCounts
  <2>2. (((e + i) % SeqSpace) + j) % SeqSpace = ((e + i) + j) % SeqSpace
    BY <2>1, ModAdd, Zenon
  <2> QED BY <2>1, <2>2 DEF SeqAdd
<1>9. MovesOn(b, r, 1 + n)
  <2>1. 1 + n \in Nat /\ r.past = b.past + (1 + n)
    BY <1>1, <1>4, <1>5
  <2>2. r.expected = SeqAdd(e, 1 + n)
    BY <1>1, <1>4, <1>5, <1>8
  <2>3. ASSUME NEW k \in b.bitmap PROVE k + 1 < 1 + n \/ (k >= 1 + n /\ k - (1 + n) \in r.bitmap)
    <3>1. k \in 0 .. RxWin - 2 /\ k \in Nat
      BY <1>3 DEF FitsWindow, Fits, Agree
    <3>2. CASE k >= 1 + n
      <4>1. k - 1 \in c.bitmap
        BY <1>1, <1>4, <3>1, <3>2 DEF Shifted
      <4>2. (k - 1) - n \in r.bitmap /\ (k - 1) - n = k - (1 + n)
        BY <1>4, <1>5, <3>1, <3>2, <4>1 DEF Shifted
      <4> QED BY <3>2, <4>2
    <3>3. CASE k = n
      <4>1. k + 1 \in 1 .. RxWin - 1 /\ (k + 1) - 1 = k /\ n # RxWin
        BY <1>3, <3>1, <3>3
      <4>2. Slot(e, k + 1) \in b.occ
        BY <4>1 DEF FitsWindow, Fits, Agree
      <4>3. Slot(c.expected, n) = Slot(e, 1 + n)
        <5>1. e \in SeqCounts /\ 1 \in Nat /\ c.expected = SeqAdd(e, 1)
          BY <1>1, <1>3
        <5> HIDE DEF e
        <5>2. Slot(SeqAdd(e, 1), n) = Slot(e, 1 + n)
          BY <1>4, <5>1, SlotFacts, Zenon
        <5> QED BY <5>1, <5>2
      <4>4. 1 + n = k + 1
        BY <1>4, <3>3
      <4> QED BY <1>1, <1>4, <4>1, <4>2, <4>3, <4>4
    <3> QED BY <1>4, <3>1, <3>2, <3>3
  <2> QED BY <2>1, <2>2, <2>3 DEF MovesOn
<1>10. 1 + n \in Nat
  BY <1>4
<1>11. FitsWindow(r) /\ \E k \in Nat : MovesOn(b, r, k)
  BY <1>5, <1>7, <1>9, <1>10 DEF FitsWindow
<1> QED BY <1>11 DEF c

\* StoreOoo, on the window: a segment within it is buffered, and its bit set, together.
LEMMA StoreFits ==
    ASSUME WindowDividesSpace, NEW b, FitsWindow(b), b.past \in Nat, NEW p, p.seq \in SeqCounts,
           InWindow(SeqSub(p.seq, b.expected)), SeqSub(p.seq, b.expected) - 1 \notin b.bitmap
    PROVE  FitsWindow(StoreOoo(b, p)) /\ MovesOn(b, StoreOoo(b, p), 0)
<1> DEFINE e == b.expected
           d == SeqSub(p.seq, e)
           i == SlotIdx(p.seq)
           r == StoreOoo(b, p)
<1>1. RxWin \in Nat \ {0} /\ e \in SeqCounts /\ SeqSpace \in Nat \ {0}
  BY RxAssumption, SeqSpaceAssumption DEF FitsWindow, Fits, Agree
<1>2. d \in 1 .. RxWin - 1 /\ d \in Nat
  <2>1. p.seq - e \in Int
    BY <1>1 DEF SeqCounts
  <2>2. d \in 0 .. SeqSpace - 1
    BY <1>1, <2>1, DivMod DEF SeqSub
  <2> HIDE DEF d
  <2>3. d > 0 /\ d < RxWin
    BY DEF InWindow, d
  <2> QED BY <1>1, <2>2, <2>3
<1>3. SeqAdd(e, d) = p.seq
  <2> DEFINE s == p.seq
             x == s - e
  <2>1. s \in 0 .. SeqSpace - 1 /\ e \in 0 .. SeqSpace - 1 /\ x \in Int /\ x + e = SeqSpace * 0 + s
        /\ e \in Int /\ 0 \in Int
    BY <1>1 DEF SeqCounts
  <2> HIDE DEF x, s
  <2>2. ((x % SeqSpace) + e) % SeqSpace = (x + e) % SeqSpace
    BY <1>1, <2>1, ModAdd, Zenon
  <2>3. (SeqSpace * 0 + s) % SeqSpace = s
    BY <1>1, <2>1, ModUnique, Zenon
  <2>4. (x % SeqSpace) + e = e + (x % SeqSpace)
    BY <1>1, <2>1, DivMod
  <2> QED BY <2>1, <2>2, <2>3, <2>4 DEF SeqAdd, SeqSub, x, s
<1>4. i = Slot(e, d)
  BY <1>3 DEF Slot
<1>5. i \notin b.occ
  <2>1. d - 1 \in b.bitmap <=> Slot(e, d) \in b.occ
    BY <1>2 DEF FitsWindow, Fits, Agree
  <2> QED BY <1>4, <2>1
<1> HIDE DEF d, i
<1>6. /\ HasWindow(r) /\ r.expected = e /\ r.past = b.past
      /\ \/ r.bitmap = b.bitmap /\ r.occ = b.occ
         \/ r.bitmap = b.bitmap \cup {d - 1} /\ r.occ = b.occ \cup {i}
  <2>1. CASE Backend = "packed" /\ b.used + Len(p.bytes) > SlabSize
    <3>1. r = [b EXCEPT !.err = TRUE]
      BY <1>5, <2>1 DEF StoreOoo, i
    <3> QED BY <3>1 DEF FitsWindow, HasWindow
  <2>2. CASE ~(Backend = "packed" /\ b.used + Len(p.bytes) > SlabSize)
    <3> DEFINE bit == [b EXCEPT !.bitmap = @ \cup {d - 1}]
    <3>1. HasWindow(bit) /\ bit.expected = e /\ bit.past = b.past /\ bit.occ = b.occ
          /\ bit.bitmap = b.bitmap \cup {d - 1}
      BY DEF FitsWindow, HasWindow
    <3> HIDE DEF bit
    <3>2. \E u, v, w : r = [bit EXCEPT !.occ = @ \cup {i}, !.meta[i] = u, !.cells = v, !.used = w]
      BY <1>5, <2>2 DEF StoreOoo, i, d, bit
    <3> QED BY <3>1, <3>2 DEF HasWindow
  <2> QED BY <2>1, <2>2
<1> HIDE DEF r
<1>7. ASSUME r.bitmap = b.bitmap \cup {d - 1}, r.occ = b.occ \cup {i}
      PROVE  Fits(e, r.bitmap, r.occ)
  <2>1. r.bitmap \subseteq 0 .. RxWin - 2
    BY <1>1, <1>2, <1>7 DEF FitsWindow, Fits, Agree
  <2>2. ASSUME NEW j \in 0 .. RxWin - 1, j # d PROVE Slot(e, j) # i
    <3>1. j \in Nat /\ j - d < RxWin /\ d - j < RxWin
      BY <1>1, <1>2
    <3> HIDE DEF e
    <3>2. Slot(e, j) = Slot(e, d) => j = d
      BY <1>1, <1>2, <3>1, SlotFacts
    <3> QED BY <1>4, <2>2, <3>2
  <2>3. ASSUME NEW j \in 1 .. RxWin - 1 PROVE j - 1 \in r.bitmap <=> Slot(e, j) \in r.occ
    <3>1. CASE j = d
      BY <1>4, <1>7, <3>1
    <3>2. CASE j # d
      <4>1. j - 1 # d - 1 /\ j \in 0 .. RxWin - 1
        BY <1>1, <1>2, <3>2
      <4>2. j - 1 \in b.bitmap <=> Slot(e, j) \in b.occ
        BY DEF FitsWindow, Fits, Agree
      <4> QED BY <1>7, <2>2, <3>2, <4>1, <4>2
    <3> QED BY <3>1, <3>2
  <2>4. Slot(e, 0) \notin r.occ
    <3>1. 0 \in 0 .. RxWin - 1 /\ 0 # d
      BY <1>1, <1>2
    <3> QED BY <1>7, <2>2, <3>1 DEF FitsWindow, Fits
  <2> QED BY <1>1, <2>1, <2>3, <2>4 DEF Fits, Agree
<1>8. FitsWindow(r)
  BY <1>6, <1>7 DEF FitsWindow
<1>9. MovesOn(b, r, 0)
  <2>1. SeqAdd(e, 0) = e
    <3>1. e \in SeqCounts
      BY <1>1
    <3> HIDE DEF e
    <3> QED BY <3>1, SlotFacts
  <2>2. \A k \in b.bitmap : k \in Int /\ k >= 0 /\ k - 0 = k
    BY <1>1 DEF FitsWindow, Fits, Agree
  <2> QED BY <1>6, <2>1, <2>2 DEF MovesOn
<1> QED BY <1>8, <1>9 DEF r

\* handle_data and skip_gap keep bitmap and slots in agreement, and nothing they pass over
\* was buffered.
LEMMA HandleDataFits ==
    ASSUME WindowDividesSpace, NEW b, FitsWindow(b), b.past \in Nat,
           NEW p, p.seq \in SeqCounts, p.kind \in PacketKinds
    PROVE  FitsWindow(HandleData(b, p)) /\ \E n \in Nat : MovesOn(b, HandleData(b, p), n)
<1> DEFINE d == SeqSub(p.seq, b.expected)
<1>1. CASE d = 0
  <2> DEFINE a == DeliverPacket(b, p.kind, p.bytes)
  <2>1. HandleData(b, p) = DeliverBuffered(Advance(a, 1))
    BY <1>1 DEF HandleData, InWindow
  <2>2. /\ HasWindow(a) /\ a.expected = b.expected /\ a.bitmap = b.bitmap
        /\ a.occ = b.occ /\ a.past = b.past
    BY DeliverPacketKeeps DEF FitsWindow
  <2> HIDE DEF a
  <2> QED BY <2>1, <2>2, PassFits
<1>2. CASE d # 0 /\ InWindow(d) /\ d - 1 \notin b.bitmap
  <2>1. HandleData(b, p) = StoreOoo(b, p)
    BY <1>2 DEF HandleData
  <2> QED BY <1>2, <2>1, StoreFits
<1>3. CASE d # 0 /\ ~(InWindow(d) /\ d - 1 \notin b.bitmap)
  <2>1. HandleData(b, p) = b
    BY <1>3 DEF HandleData
  <2>2. MovesOn(b, b, 0)
    <3>1. b.expected \in SeqCounts /\ \A k \in b.bitmap : k \in Int /\ k >= 0 /\ k - 0 = k
      BY RxAssumption DEF FitsWindow, Fits, Agree
    <3>2. SeqAdd(b.expected, 0) = b.expected
      <4> DEFINE e == b.expected
      <4>1. e \in SeqCounts
        BY <3>1
      <4> HIDE DEF e
      <4>2. SeqAdd(e, 0) = e
        BY <4>1, SlotFacts
      <4> QED BY <4>2 DEF e
    <3> QED BY <3>1, <3>2 DEF MovesOn
  <2> QED BY <2>1, <2>2
<1> QED BY <1>1, <1>2, <1>3

\* Skipping a gap moves the window past the gap and over what was buffered behind it.
LEMMA SkipGapFits ==
    ASSUME WindowDividesSpace, NEW b, FitsWindow(b), b.past \in Nat
    PROVE  FitsWindow(SkipGap(b)) /\ \E n \in Nat : MovesOn(b, SkipGap(b), n)
<1> DEFINE a == [b EXCEPT !.reasm = <<>>, !.busy = FALSE]
<1>1. SkipGap(b) = DeliverBuffered(Advance(a, 1))
  BY DEF SkipGap
<1>2. /\ HasWindow(a) /\ a.expected = b.expected /\ a.bitmap = b.bitmap
      /\ a.occ = b.occ /\ a.past = b.past
  BY DEF FitsWindow, HasWindow
<1> HIDE DEF a
<1> QED BY <1>1, <1>2, PassFits
-----------------------------------------------------------------------------
(* The stream.                                                             *)

\* The inductive invariant: bitmap and slots agree, and the segment expected next is not
\* buffered.
WindowInv == Fits(expected_seq, recv_bitmap, occupied) /\ passed \in Nat

\* The stream that is handed to drive_segment.
Handed(b) == FitsWindow(b) /\ b.past \in Nat

\* The stream as it is, with or without a new EOS or deadline, fits its window.
LEMMA CurrentHanded ==
    ASSUME WindowInv
    PROVE  /\ Handed(Current)
           /\ \A x : Handed([Current EXCEPT !.eos = x]) /\ Handed([Current EXCEPT !.progdl = x])
<1>1. /\ Current.expected = expected_seq /\ Current.bitmap = recv_bitmap
      /\ Current.occ = occupied /\ Current.past = passed /\ HasWindow(Current)
  BY DEF Current, HasWindow
<1>2. Handed(Current)
  BY <1>1 DEF WindowInv, Handed, FitsWindow
<1> DEFINE c == Current
<1>3. Handed(c) /\ HasWindow(c)
  BY <1>1, <1>2
<1> HIDE DEF c
<1>4. ASSUME NEW x PROVE Handed([c EXCEPT !.eos = x]) /\ Handed([c EXCEPT !.progdl = x])
  BY <1>3 DEF Handed, FitsWindow, HasWindow
<1> QED BY <1>2, <1>4 DEF c

\* So does the fresh stream that replaces an ended one.
LEMMA FreshHanded == Handed(Fresh)
<1>1. Fresh.expected = 0 /\ Fresh.bitmap = {} /\ Fresh.occ = {} /\ Fresh.past = 0 /\ HasWindow(Fresh)
  BY DEF Fresh, HasWindow
<1>2. Fits(0, {}, {})
  BY SeqSpaceAssumption DEF Fits, Agree, SeqCounts
<1> QED BY <1>1, <1>2 DEF Handed, FitsWindow

\* drive_segment leaves a stream whose window fits, or the one there was.
LEMMA DriveSegmentFits ==
    ASSUME WindowDividesSpace, WindowInv, NEW b, Handed(b),
           NEW p, p.seq \in SeqCounts, p.kind \in PacketKinds, DriveSegment(b, p)
    PROVE  WindowInv'
<1> DEFINE r == HandleData(b, p)
<1>1. FitsWindow(r) /\ \E n \in Nat : MovesOn(b, r, n)
  BY HandleDataFits DEF Handed
<1>2. r.past \in Nat
  BY <1>1 DEF MovesOn, Handed
<1>3. CASE r.err
  BY <1>3 DEF DriveSegment, Stop, rx_backend, WindowInv
<1>4. CASE ~r.err
  <2>1. expected_seq' = r.expected /\ recv_bitmap' = r.bitmap /\ occupied' = r.occ /\ passed' = r.past
    BY <1>4 DEF DriveSegment, SetStream
  <2> QED BY <1>1, <1>2, <2>1 DEF WindowInv, FitsWindow
<1> QED BY <1>3, <1>4

\* The handling of a DATA or an EOS packet.
LEMMA ReceiveFits ==
    ASSUME WindowDividesSpace, WindowInv, NEW p, p.seq \in SeqCounts, p.kind \in PacketKinds,
           ReceiveData(p) \/ ReceiveEos(p)
    PROVE  WindowInv'
<1>1. CASE ReceiveData(p)
  <2>1. DriveSegment(Fresh, p) \/ DriveSegment(Current, p)
    BY <1>1 DEF ReceiveData
  <2> QED BY <2>1, CurrentHanded, FreshHanded, DriveSegmentFits
<1>2. CASE ReceiveEos(p)
  <2> DEFINE noted == [Current EXCEPT !.eos = IF @ = Unknown THEN p.seq ELSE @]
  <2>1. DriveSegment(noted, p)
    BY <1>2 DEF ReceiveEos
  <2>2. Handed(noted)
    BY CurrentHanded
  <2> HIDE DEF noted
  <2> QED BY <2>1, <2>2, DriveSegmentFits
<1> QED BY <1>1, <1>2

\* The expiry of the progress timer.
LEMMA ProgressTimeoutFits ==
    ASSUME WindowDividesSpace, WindowInv, ProgressTimeout
    PROVE  WindowInv'
<1> DEFINE r == SkipGap(Current)
<1>1. FitsWindow(r) /\ \E n \in Nat : MovesOn(Current, r, n)
  BY CurrentHanded, SkipGapFits DEF Handed
<1>2. r.past \in Nat
  BY <1>1, CurrentHanded DEF MovesOn, Handed
<1> HIDE DEF r
<1>3. CASE r.err
  BY <1>3 DEF ProgressTimeout, Stop, rx_backend, WindowInv, r
<1>4. CASE ~r.err
  <2>1. expected_seq' = r.expected /\ recv_bitmap' = r.bitmap /\ occupied' = r.occ /\ passed' = r.past
    BY <1>4 DEF ProgressTimeout, SetStream, r
  <2> QED BY <1>1, <1>2, <2>1 DEF WindowInv, FitsWindow
<1> QED BY <1>3, <1>4

\* What a selective ACK claims is in the reorder buffer and nothing else is, for every
\* window that divides the sequence space, both backends, every stream, and every order in
\* which its packets arrive, also across the wrap and after skipped gaps.
THEOREM BitmapIsTrue ==
    ASSUME WindowDividesSpace
    PROVE  RxSpec => []BitmapMatchesSlots
<1>1. RxInit => WindowInv
  BY SeqSpaceAssumption DEF RxInit, WindowInv, Fits, Agree, SeqCounts
<1>2. WindowInv /\ [RxNext]_rx_vars => WindowInv'
  <2> SUFFICES ASSUME WindowInv, [RxNext]_rx_vars PROVE WindowInv'
    OBVIOUS
  <2>1. ASSUME NEW k \in 1 .. Len(Stream), Arrive(k) PROVE WindowInv'
    <3>1. Len(Stream) \in Nat /\ Stream[k].kind \in PacketKinds
      <4> DEFINE R == [kind : PacketKinds, bytes : Seq(Nat \X Nat)]
      <4>1. Stream \in Seq(R)
        BY StreamAssumption
      <4>2. \A r \in R : r.kind \in PacketKinds
        OBVIOUS
      <4> HIDE DEF R
      <4>3. Len(Stream) \in Nat /\ Stream[k] \in R
        BY <4>1
      <4> QED BY <4>2, <4>3
    <3>2. Packet(k).seq \in SeqCounts /\ Packet(k).kind \in PacketKinds
      <4>1. 0 + (k - 1) \in Int /\ SeqSpace \in Nat \ {0}
        BY <3>1, SeqSpaceAssumption
      <4>2. (0 + (k - 1)) % SeqSpace \in 0 .. SeqSpace - 1
        BY <4>1, DivMod
      <4> QED BY <3>1, <4>2 DEF Packet, SeqAdd, SeqCounts
    <3> QED BY <2>1, <3>2, ReceiveFits DEF Arrive
  <2>2. CASE ProgressTimeout
    BY <2>2, ProgressTimeoutFits
  <2>3. CASE \/ AckTimeout \/ DriveActions \/ RxLinkFails \/ RxStopped \/ RecvData \/ RecvEos
             \/ UNCHANGED rx_vars
    <3>1. UNCHANGED <<expected_seq, recv_bitmap, occupied, passed>>
      BY <2>3 DEF AckTimeout, DriveActions, RxLinkFails, Stop, RxStopped, RecvData, RecvEos,
                  rx_vars, rx_backend
    <3> QED BY <3>1 DEF WindowInv
  <2> QED BY <2>1, <2>2, <2>3 DEF RxNext
<1>3. WindowInv => BitmapMatchesSlots
  <2> SUFFICES ASSUME WindowInv, NEW b \in 0 .. RxWin - 2
               PROVE  b \in recv_bitmap <=> SlotIdx(SeqAdd(expected_seq, 1 + b)) \in occupied
    BY DEF BitmapMatchesSlots
  <2>1. 1 + b \in 1 .. RxWin - 1 /\ (1 + b) - 1 = b
    BY RxAssumption
  <2>2. (1 + b) - 1 \in recv_bitmap <=> Slot(expected_seq, 1 + b) \in occupied
    BY <2>1 DEF WindowInv, Fits, Agree
  <2> QED BY <2>1, <2>2 DEF Slot
<1> QED BY <1>1, <1>2, <1>3, PTL DEF RxSpec
-----------------------------------------------------------------------------
(* The delivery of a run of segments.                                      *)

\* deliver_packet of the segment in slot i of b, to a stream a
Stage(b, a, i) == DeliverPacket(a, Segment(b, i).kind, Segment(b, i).bytes)

\* g folds the segments of b in the slots q over every set of places, the last one last
RunsUp(g, b, q, S) ==
    g = [s \in SUBSET S |-> IF s = {} THEN b ELSE Stage(b, g[s \ {Max(s)}], q[Max(s)])]

\* DeliverRun is such a fold.
LEMMA DeliverRunIs ==
    ASSUME NEW b
    PROVE  LET S == 1 .. RunLength(b)
           IN  DeliverRun(b) = (CHOOSE g : RunsUp(g, b, RunSlots(b), S))[S]
<1>1. DOMAIN RunSlots(b) = 1 .. RunLength(b)
  BY DEF RunSlots
<1> QED BY <1>1 DEF DeliverRun, FoldLeft, MapThenFoldSet, RunsUp, Stage

\* The greatest of the first n counts, and what is left without it.
LEMMA LastOfCounts ==
    ASSUME NEW n \in Nat, NEW s, s \subseteq 1 .. n + 1, n + 1 \in s
    PROVE  Max(s) = n + 1 /\ s \ {n + 1} \subseteq 1 .. n
<1>1. s \subseteq 0 .. n + 1 /\ s # {} /\ n + 1 \in Nat
  OBVIOUS
<1>2. Max(s) \in s /\ \A y \in s : Max(s) >= y
  BY <1>1, MaxOfCounts
<1> DEFINE m == Max(s)
<1>3. m \in s /\ m >= n + 1
  BY <1>2
<1> HIDE DEF m
<1>4. m = n + 1
  BY <1>3
<1> QED BY <1>4 DEF m

\* A fold over the first n places exists.
LEMMA RunExists ==
    ASSUME NEW b, NEW q, NEW n \in Nat
    PROVE  \E g : RunsUp(g, b, q, 1 .. n)
<1> DEFINE Bad == {m \in Nat : ~\E g : RunsUp(g, b, q, 1 .. m)}
<1> SUFFICES ASSUME n \in Bad PROVE FALSE
  OBVIOUS
<1>1. PICK m \in Bad : \A y \in Bad : m <= y
  <2>1. Bad \subseteq Nat /\ Bad # {}
    OBVIOUS
  <2> HIDE DEF Bad
  <2> QED BY <2>1, LeastNat
<1>2. m \in Nat /\ ~\E g : RunsUp(g, b, q, 1 .. m)
  BY <1>1
<1>3. CASE m = 0
  <2> DEFINE g == [s \in SUBSET (1 .. 0) |-> b]
  <2>1. \A s \in SUBSET (1 .. 0) : s = {} /\ g[s] = b
    OBVIOUS
  <2>2. g = [s \in SUBSET (1 .. 0) |-> g[s]]
    OBVIOUS
  <2> HIDE DEF g
  <2>3. \A s \in SUBSET (1 .. 0) :
           g[s] = IF s = {} THEN b ELSE Stage(b, g[s \ {Max(s)}], q[Max(s)])
    BY <2>1
  <2>4. g = [s \in SUBSET (1 .. 0) |-> IF s = {} THEN b ELSE Stage(b, g[s \ {Max(s)}], q[Max(s)])]
    BY <2>2, <2>3
  <2>5. RunsUp(g, b, q, 1 .. 0)
    BY <2>4, Zenon DEF RunsUp
  <2> QED BY <1>2, <1>3, <2>5
<1>4. CASE m # 0
  <2> DEFINE l == m - 1
  <2>1. l \in Nat /\ l + 1 = m /\ l < m
    BY <1>2, <1>4
  <2> HIDE DEF l
  <2>2. l \notin Bad
    <3> HIDE DEF Bad
    <3> QED BY <1>1, <1>2, <2>1
  <2>3. PICK h : RunsUp(h, b, q, 1 .. l)
    BY <2>1, <2>2
  <2> DEFINE P == SUBSET (1 .. l + 1)
             g == [s \in P |-> IF l + 1 \in s THEN Stage(b, h[s \ {l + 1}], q[l + 1]) ELSE h[s]]
  <2>4. ASSUME NEW s, s \subseteq 1 .. l
        PROVE  s \in P /\ g[s] = h[s]
    BY <2>1, <2>4
  <2>5. ASSUME NEW s \in P
        PROVE  g[s] = IF s = {} THEN b ELSE Stage(b, g[s \ {Max(s)}], q[Max(s)])
    <3>1. CASE l + 1 \in s
      <4>1. Max(s) = l + 1 /\ s \ {l + 1} \subseteq 1 .. l /\ s # {}
        BY <2>1, <3>1, LastOfCounts
      <4>2. g[s \ {l + 1}] = h[s \ {l + 1}]
        BY <2>4, <4>1
      <4>3. g[s] = Stage(b, h[s \ {l + 1}], q[l + 1])
        BY <3>1
      <4> HIDE DEF g
      <4> QED BY <4>1, <4>2, <4>3
    <3>2. CASE l + 1 \notin s
      <4>1. s \subseteq 1 .. l
        BY <2>1, <3>2
      <4>2. h[s] = IF s = {} THEN b ELSE Stage(b, h[s \ {Max(s)}], q[Max(s)])
        <5>1. s \in SUBSET (1 .. l)
          BY <4>1
        <5> QED BY <2>3, <5>1, Zenon DEF RunsUp
      <4>3. g[s] = h[s] /\ g[s \ {Max(s)}] = h[s \ {Max(s)}]
        <5>1. s \ {Max(s)} \subseteq 1 .. l
          BY <4>1
        <5> HIDE DEF g
        <5> QED BY <2>4, <4>1, <5>1
      <4> HIDE DEF g
      <4> QED BY <4>2, <4>3
    <3> QED BY <3>1, <3>2
  <2>6. g = [s \in P |-> g[s]]
    OBVIOUS
  <2> HIDE DEF g
  <2>7. g = [s \in P |-> IF s = {} THEN b ELSE Stage(b, g[s \ {Max(s)}], q[Max(s)])]
    BY <2>5, <2>6
  <2>8. RunsUp(g, b, q, 1 .. l + 1)
    BY <2>7, Zenon DEF RunsUp
  <2> QED BY <1>2, <2>1, <2>8
<1> QED BY <1>3, <1>4

\* t takes b through its run: one deliver_packet after the other
Trace(t, b) ==
    /\ t[0] = b
    /\ \A j \in 1 .. RunLength(b) : t[j] = Stage(b, t[j - 1], RunSlots(b)[j])

\* DeliverRun is where the segments of the run lead, one after the other.
LEMMA DeliverRunTrace ==
    ASSUME NEW b, RunLength(b) \in Nat
    PROVE  \E t : Trace(t, b) /\ DeliverRun(b) = t[RunLength(b)]
<1> DEFINE n == RunLength(b)
           q == RunSlots(b)
           g == CHOOSE g : RunsUp(g, b, q, 1 .. n)
           t == [j \in 0 .. n |-> g[1 .. j]]
<1>1. RunsUp(g, b, q, 1 .. n)
  BY RunExists
<1>2. DeliverRun(b) = g[1 .. n]
  BY DeliverRunIs
<1> HIDE DEF g, q, n
<1>0. n \in Nat
  BY DEF n
<1>3. ASSUME NEW s, s \subseteq 1 .. n
      PROVE  g[s] = IF s = {} THEN b ELSE Stage(b, g[s \ {Max(s)}], q[Max(s)])
  <2>1. s \in SUBSET (1 .. n)
    BY <1>3
  <2> QED BY <1>1, <2>1, Zenon DEF RunsUp
<1>4. t[0] = b
  <2>1. 1 .. 0 = {} /\ 0 \in 0 .. n /\ 1 .. 0 \subseteq 1 .. n
    BY <1>0
  <2>2. t[0] = g[1 .. 0]
    BY <2>1
  <2> QED BY <1>3, <2>1, <2>2
<1>5. ASSUME NEW j \in 1 .. n PROVE t[j] = Stage(b, t[j - 1], q[j])
  <2> DEFINE i == j - 1
             s == 1 .. j
  <2>1. i \in Nat /\ j = i + 1 /\ s \subseteq 1 .. n /\ j \in s /\ i \in 0 .. n /\ j \in 0 .. n
    BY <1>0
  <2>2. Max(s) = j /\ s \ {j} \subseteq 1 .. i
    <3>1. s \subseteq 1 .. i + 1 /\ i + 1 \in s
      BY <2>1
    <3> HIDE DEF i, s
    <3> QED BY <2>1, <3>1, LastOfCounts
  <2>3. s \ {j} = 1 .. i
    BY <2>1, <2>2
  <2>4. g[s] = Stage(b, g[s \ {Max(s)}], q[Max(s)])
    BY <1>3, <2>1
  <2>5. t[j] = g[s] /\ t[i] = g[1 .. i]
    BY <2>1
  <2> QED BY <2>2, <2>3, <2>4, <2>5
<1>6. DeliverRun(b) = t[n]
  BY <1>0, <1>2
<1> HIDE DEF t
<1>7. Trace(t, b)
  BY <1>4, <1>5 DEF Trace, n, q
<1> QED BY <1>6, <1>7 DEF n
-----------------------------------------------------------------------------
(* Types of the receiver.                                                  *)

Sequential(s) == \E T : s \in Seq(T)

\* the message that is read and the one that is complete fit their buffers
MessageOK(a) ==
    /\ {"reasm", "busy", "msg", "done", "err"} \subseteq DOMAIN a
    /\ a.busy \in BOOLEAN /\ a.msg.ready \in BOOLEAN
    /\ Sequential(a.reasm) /\ Len(a.reasm) <= Reasm
    /\ Sequential(a.msg.bytes) /\ Len(a.msg.bytes) <= Reasm

MetaOK == [off : Nat, len : Nat, kind : PacketKinds]

BackendOK(b) ==
    /\ HasWindow(b) /\ {"meta", "cells", "used"} \subseteq DOMAIN b
    /\ b.expected \in SeqCounts /\ b.bitmap \subseteq 0 .. RxWin - 2
    /\ b.occ \subseteq SlotIndices /\ b.meta \in [SlotIndices -> MetaOK]
    /\ b.used \in Nat

StreamOK(b) == MessageOK(b) /\ BackendOK(b)

\* Sequences can be joined, and the empty one is one.
LEMMA Joins ==
    /\ Sequential(<<>>) /\ Len(<<>>) = 0
    /\ \A s : Sequential(s) => Len(s) \in Nat
    /\ \A s, t : Sequential(s) /\ Sequential(t) =>
                    Sequential(s \o t) /\ Len(s \o t) = Len(s) + Len(t)
<1>1. Sequential(<<>>) /\ Len(<<>>) = 0
  <2>1. <<>> \in Seq({})
    OBVIOUS
  <2> QED BY <2>1 DEF Sequential
<1>2. ASSUME NEW s, NEW t, Sequential(s), Sequential(t)
      PROVE  Sequential(s \o t) /\ Len(s \o t) = Len(s) + Len(t)
  <2>1. PICK S : s \in Seq(S)
    BY <1>2 DEF Sequential
  <2>2. PICK T : t \in Seq(T)
    BY <1>2 DEF Sequential
  <2> DEFINE U == S \cup T
  <2>3. S \subseteq U /\ T \subseteq U
    OBVIOUS
  <2> HIDE DEF U
  <2>4. s \in Seq(U)
    BY <2>1, <2>3
  <2>5. t \in Seq(U)
    BY <2>2, <2>3
  <2>6. s \o t \in Seq(U) /\ Len(s \o t) = Len(s) + Len(t)
    BY <2>4, <2>5
  <2> QED BY <2>6 DEF Sequential
<1>3. ASSUME NEW s, Sequential(s) PROVE Len(s) \in Nat
  <2>1. PICK S : s \in Seq(S)
    BY <1>3 DEF Sequential
  <2> QED BY <2>1
<1> QED BY <1>1, <1>2, <1>3

\* A buffered segment has a kind and a sequence of bytes.
LEMMA SegmentTyped ==
    ASSUME NEW b, BackendOK(b), NEW i \in SlotIndices
    PROVE  Segment(b, i).kind \in PacketKinds /\ Sequential(Segment(b, i).bytes)
<1> DEFINE n == b.meta[i].len
           s == [k \in 1 .. n |-> b.cells[b.meta[i].off + k - 1]]
<1>1. b.meta[i] \in MetaOK
  BY DEF BackendOK
<1>2. n \in Nat /\ b.meta[i].kind \in PacketKinds
  BY <1>1 DEF MetaOK
<1>3. Segment(b, i).kind = b.meta[i].kind /\ Segment(b, i).bytes = s
  BY DEF Segment
<1> HIDE DEF n
<1>4. s \in Seq({s[k] : k \in 1 .. n})
  <2> DEFINE T == {s[k] : k \in 1 .. n}
  <2>1. s \in [1 .. n -> T]
    OBVIOUS
  <2> HIDE DEF s, T
  <2>2. s \in Seq(T)
    BY <1>2, <2>1
  <2> QED BY <2>2 DEF T
<1> QED BY <1>2, <1>3, <1>4 DEF Sequential

HasMessage(a) == {"reasm", "busy", "msg", "done", "err"} \subseteq DOMAIN a

\* what is left of the message that is read, and of the one that is complete
Leaves(r, reasm, busy, msg) == r.reasm = reasm /\ r.busy = busy /\ r.msg = msg

\* What deliver_packet does to a stream without an error.
PacketResult(a, kind, bytes, r) ==
    LET grown == a.reasm \o bytes
    IN  \/ r.err /\ Leaves(r, a.reasm, a.busy, a.msg)
        \/ /\ ~r.err /\ kind \in {"Unsegmented", "Eos"} /\ bytes = <<>> /\ a.msg.ready
           /\ Leaves(r, a.reasm, a.busy, a.msg)
        \/ /\ ~r.err /\ kind \in {"Unsegmented", "Eos"} /\ ~(Len(bytes) > Reasm)
           /\ Leaves(r, <<>>, FALSE, [ready |-> TRUE, bytes |-> bytes])
        \/ /\ ~r.err /\ kind = "First" /\ ~(Len(bytes) > Reasm)
           /\ Leaves(r, bytes, TRUE, NoMessage)
        \/ /\ ~r.err /\ kind = "Last" /\ a.busy /\ ~(Len(grown) > Reasm)
           /\ Leaves(r, <<>>, FALSE, [ready |-> TRUE, bytes |-> grown])
        \/ /\ ~r.err /\ kind = "Continuation" /\ a.busy /\ ~(Len(grown) > Reasm)
           /\ Leaves(r, grown, a.busy, a.msg)

\* The cases of deliver_packet.
LEMMA DeliverPacketIs ==
    ASSUME NEW a, HasMessage(a), NEW kind \in PacketKinds, NEW bytes
    PROVE  LET r == DeliverPacket(a, kind, bytes)
           IN  /\ DOMAIN r = DOMAIN a
               /\ a.err => r = a
               /\ ~a.err => PacketResult(a, kind, bytes, r)
<1> DEFINE grown == a.reasm \o bytes
           whole == IF kind = "Last" THEN grown ELSE bytes
           failed == [a EXCEPT !.err = TRUE]
           done(x) == Complete(a, x)
           more(x) == [a EXCEPT !.reasm = x]
           begun(x) == [a EXCEPT !.reasm = x, !.busy = TRUE, !.msg = NoMessage]
           out ==
             CASE kind \in {"Unsegmented", "Eos"} ->
                    IF bytes = <<>> /\ a.msg.ready THEN a
                    ELSE IF Len(bytes) > Reasm THEN failed
                    ELSE done(bytes)
               [] kind = "First" ->
                    IF Len(bytes) > Reasm THEN failed
                    ELSE begun(bytes)
               [] kind \in {"Continuation", "Last"} ->
                    IF ~a.busy \/ Len(grown) > Reasm THEN failed
                    ELSE IF kind = "Last" THEN done(grown)
                    ELSE more(grown)
<1>1. DeliverPacket(a, kind, bytes) =
         IF a.err THEN a
         ELSE IF kind \in {"Unsegmented", "Last"} THEN [out EXCEPT !.done = Append(@, whole)]
         ELSE out
  BY SMTT(40) DEF DeliverPacket
<1> SUFFICES ASSUME ~a.err
             PROVE  LET r == DeliverPacket(a, kind, bytes)
                    IN  DOMAIN r = DOMAIN a /\ PacketResult(a, kind, bytes, r)
  BY <1>1
<1>2. DOMAIN failed = DOMAIN a /\ failed.err /\ Leaves(failed, a.reasm, a.busy, a.msg)
  BY DEF HasMessage, Leaves
<1>3. ASSUME NEW x
      PROVE  /\ DOMAIN done(x) = DOMAIN a /\ ~done(x).err
             /\ Leaves(done(x), <<>>, FALSE, [ready |-> TRUE, bytes |-> x])
  <2>1. done(x) = [a EXCEPT !.msg = [ready |-> TRUE, bytes |-> x], !.reasm = <<>>, !.busy = FALSE]
    BY DEF Complete
  <2> HIDE DEF done
  <2> QED BY <2>1 DEF HasMessage, Leaves
<1>4. ASSUME NEW x
      PROVE  /\ DOMAIN more(x) = DOMAIN a /\ ~more(x).err
             /\ Leaves(more(x), x, a.busy, a.msg)
  BY DEF HasMessage, Leaves
<1>5. ASSUME NEW x
      PROVE  /\ DOMAIN begun(x) = DOMAIN a /\ ~begun(x).err
             /\ Leaves(begun(x), x, TRUE, NoMessage)
  BY DEF HasMessage, Leaves
<1>6. Leaves(a, a.reasm, a.busy, a.msg)
  BY DEF Leaves
<1> HIDE DEF failed, done, more, begun, grown
<1>7. DOMAIN out = DOMAIN a
  BY <1>2, <1>3, <1>4, <1>5 DEF PacketKinds
<1>8. PacketResult(a, kind, bytes, out)
  <2>1. CASE kind \in {"Unsegmented", "Eos"}
    BY <1>2, <1>3, <1>6, <2>1 DEF PacketResult
  <2>2. CASE kind = "First"
    BY <1>2, <1>5, <2>2 DEF PacketResult
  <2>3. CASE kind \in {"Continuation", "Last"}
    BY <1>2, <1>3, <1>4, <2>3 DEF PacketResult, grown
  <2> QED BY <2>1, <2>2, <2>3 DEF PacketKinds
<1> HIDE DEF out, whole
<1> DEFINE noted == [out EXCEPT !.done = Append(@, whole)]
<1>9. /\ DOMAIN noted = DOMAIN out /\ noted.err = out.err
      /\ noted.reasm = out.reasm /\ noted.busy = out.busy /\ noted.msg = out.msg
  BY <1>7 DEF HasMessage
<1> HIDE DEF noted
<1>10. PacketResult(a, kind, bytes, noted)
  BY <1>8, <1>9, Zenon DEF PacketResult, Leaves
<1>11. DeliverPacket(a, kind, bytes) \in {noted, out}
  BY <1>1 DEF noted
<1> QED BY <1>7, <1>8, <1>9, <1>10, <1>11

\* deliver_packet checks the length of what it keeps.
LEMMA DeliverPacketTyped ==
    ASSUME NEW a, MessageOK(a), NEW kind \in PacketKinds, NEW bytes, Sequential(bytes)
    PROVE  MessageOK(DeliverPacket(a, kind, bytes))
<1> DEFINE grown == a.reasm \o bytes
           r == DeliverPacket(a, kind, bytes)
<1>1. HasMessage(a)
  BY DEF MessageOK, HasMessage
<1>2. DOMAIN r = DOMAIN a /\ (a.err => r = a) /\ (~a.err => PacketResult(a, kind, bytes, r))
  BY <1>1, DeliverPacketIs
<1>3. Len(bytes) \in Nat /\ Sequential(grown) /\ Len(grown) \in Nat /\ Reasm \in Nat
  BY Joins, RxAssumption DEF MessageOK
<1>4. Sequential(<<>>) /\ Len(<<>>) <= Reasm
  BY <1>3, Joins
<1> SUFFICES MessageOK(r)
  OBVIOUS
<1> HIDE DEF r
<1> DEFINE fits(x) == Sequential(x) /\ Len(x) <= Reasm
<1>5. {"reasm", "busy", "msg", "done", "err"} \subseteq DOMAIN r
  BY <1>2, Zenon DEF MessageOK
<1>6. /\ ~(Len(bytes) > Reasm) => fits(bytes)
      /\ ~(Len(grown) > Reasm) => fits(grown)
      /\ fits(<<>>) /\ fits(a.reasm) /\ fits(a.msg.bytes)
      /\ a.msg.ready \in BOOLEAN /\ a.busy \in BOOLEAN
  BY <1>3, <1>4 DEF MessageOK
<1>7. /\ NoMessage.bytes = <<>> /\ NoMessage.ready = FALSE
      /\ \A x : LET m == [ready |-> TRUE, bytes |-> x] IN m.ready = TRUE /\ m.bytes = x
  BY DEF NoMessage
<1>8. CASE PacketResult(a, kind, bytes, r)
  <2>1. CASE Leaves(r, a.reasm, a.busy, a.msg)
    BY <1>5, <1>6, <1>7, <2>1 DEF Leaves, MessageOK
  <2>2. CASE ~(Len(bytes) > Reasm) /\ Leaves(r, <<>>, FALSE, [ready |-> TRUE, bytes |-> bytes])
    BY <1>5, <1>6, <1>7, <2>2 DEF Leaves, MessageOK
  <2>3. CASE ~(Len(bytes) > Reasm) /\ Leaves(r, bytes, TRUE, NoMessage)
    BY <1>5, <1>6, <1>7, <2>3 DEF Leaves, MessageOK
  <2>4. CASE ~(Len(grown) > Reasm) /\ Leaves(r, <<>>, FALSE, [ready |-> TRUE, bytes |-> grown])
    BY <1>5, <1>6, <1>7, <2>4 DEF Leaves, MessageOK
  <2>5. CASE ~(Len(grown) > Reasm) /\ Leaves(r, grown, a.busy, a.msg)
    BY <1>5, <1>6, <1>7, <2>5 DEF Leaves, MessageOK
  <2> QED BY <1>8, <2>1, <2>2, <2>3, <2>4, <2>5, Zenon DEF PacketResult
<1> QED BY <1>2, <1>8, Zenon

\* The run is no longer than the window.
LEMMA RunIsShort ==
    ASSUME NEW b
    PROVE  /\ RunLength(b) \in 0 .. RxWin
           /\ \A j \in 1 .. RunLength(b) : RunSlots(b)[j] \in b.occ
<1> DEFINE S == {n \in 0 .. RxWin : \A j \in 0 .. n - 1 :
                    /\ SlotIdx(SeqAdd(b.expected, j)) \in b.occ
                    /\ \A i \in 0 .. j - 1 :
                          SlotIdx(SeqAdd(b.expected, i)) # SlotIdx(SeqAdd(b.expected, j))}
<1>1. RunLength(b) = Max(S)
  BY DEF RunLength
<1>2. RxWin \in Nat /\ S \subseteq 0 .. RxWin /\ 0 \in S
  BY RxAssumption
<1>3. Max(S) \in S
  <2> HIDE DEF S
  <2> QED BY <1>2, MaxOfCounts
<1> DEFINE m == Max(S)
<1>4. m \in 0 .. RxWin /\ \A j \in 0 .. m - 1 : SlotIdx(SeqAdd(b.expected, j)) \in b.occ
  BY <1>3
<1> HIDE DEF m
<1>5. ASSUME NEW j \in 1 .. RunLength(b) PROVE RunSlots(b)[j] \in b.occ
  <2>1. RunSlots(b)[j] = SlotIdx(SeqAdd(b.expected, j - 1))
    BY DEF RunSlots
  <2>2. j - 1 \in 0 .. m - 1
    BY <1>1, <1>2, <1>4 DEF m
  <2> QED BY <1>4, <2>1, <2>2
<1> QED BY <1>1, <1>4, <1>5 DEF m

\* So does the delivery of a run.
LEMMA DeliverRunTyped ==
    ASSUME NEW b, StreamOK(b)
    PROVE  MessageOK(DeliverRun(b))
<1> DEFINE n == RunLength(b)
<1>1. n \in Nat /\ \A j \in 1 .. n : RunSlots(b)[j] \in SlotIndices
  BY RunIsShort, RxAssumption DEF StreamOK, BackendOK
<1>2. PICK t : Trace(t, b) /\ DeliverRun(b) = t[n]
  BY <1>1, DeliverRunTrace
<1> DEFINE Bad == {j \in 0 .. n : ~MessageOK(t[j])}
<1> SUFFICES ASSUME n \in Bad PROVE FALSE
  BY <1>1, <1>2
<1>3. PICK j \in Bad : \A y \in Bad : j <= y
  <2>1. Bad \subseteq Nat /\ Bad # {}
    BY <1>1
  <2> HIDE DEF Bad
  <2> QED BY <2>1, LeastNat
<1>4. j \in 0 .. n /\ ~MessageOK(t[j])
  BY <1>3
<1>5. j # 0
  <2>1. t[0] = b /\ MessageOK(b)
    BY <1>2 DEF Trace, StreamOK
  <2> QED BY <1>4, <2>1
<1>6. j \in 1 .. n /\ j - 1 \in 0 .. n /\ j - 1 < j
  BY <1>1, <1>4, <1>5
<1>7. MessageOK(t[j - 1])
  <2>1. j - 1 \notin Bad
    <3>1. Bad \subseteq Int
      BY <1>1
    <3> HIDE DEF Bad
    <3> QED BY <1>1, <1>3, <1>6, <3>1
  <2> QED BY <1>6, <2>1
<1> DEFINE i == RunSlots(b)[j]
<1>8. t[j] = Stage(b, t[j - 1], i) /\ i \in SlotIndices
  BY <1>1, <1>2, <1>6 DEF Trace
<1> HIDE DEF i, n, Bad
<1>9. MessageOK(Stage(b, t[j - 1], i))
  BY <1>7, <1>8, SegmentTyped, DeliverPacketTyped DEF Stage, StreamOK
<1> QED BY <1>4, <1>8, <1>9

\* A fact about the fields that advance does not touch.
LEMMA AdvanceTyped ==
    ASSUME NEW b, StreamOK(b), NEW n \in Nat
    PROVE  StreamOK(Advance(b, n))
<1> DEFINE r == Advance(b, n)
<1>1. r = [b EXCEPT !.expected = SeqAdd(b.expected, n), !.past = b.past + n, !.bitmap = Shifted(b.bitmap, n)]
  BY DEF Advance, Shifted
<1>2. SeqAdd(b.expected, n) \in SeqCounts /\ Shifted(b.bitmap, n) \subseteq 0 .. RxWin - 2
  <2>1. b.expected + n \in Int /\ SeqSpace \in Nat \ {0} /\ RxWin \in Nat
    BY SeqSpaceAssumption, RxAssumption DEF StreamOK, BackendOK, SeqCounts
  <2>2. (b.expected + n) % SeqSpace \in 0 .. SeqSpace - 1
    BY <2>1, DivMod
  <2>3. b.bitmap \subseteq 0 .. RxWin - 2
    BY DEF StreamOK, BackendOK
  <2>4. Shifted(b.bitmap, n) \subseteq 0 .. RxWin - 2
    BY <2>1, <2>3 DEF Shifted
  <2> QED BY <2>2, <2>4 DEF SeqAdd, SeqCounts
<1> HIDE DEF r
<1>3. /\ DOMAIN r = DOMAIN b /\ r.expected = SeqAdd(b.expected, n) /\ r.bitmap = Shifted(b.bitmap, n)
      /\ r.occ = b.occ /\ r.meta = b.meta /\ r.used = b.used /\ r.cells = b.cells
      /\ r.reasm = b.reasm /\ r.busy = b.busy /\ r.msg = b.msg
  BY <1>1 DEF StreamOK, BackendOK, MessageOK, HasWindow
<1>4. MessageOK(r)
  BY <1>3 DEF MessageOK, StreamOK
<1>5. BackendOK(r)
  BY <1>2, <1>3 DEF BackendOK, StreamOK, HasWindow
<1> QED BY <1>4, <1>5 DEF StreamOK, r

\* deliver_buffered keeps the types.
LEMMA DeliverBufferedTyped ==
    ASSUME NEW b, StreamOK(b)
    PROVE  StreamOK(DeliverBuffered(b))
<1> DEFINE n == RunLength(b)
           out == DeliverRun(b)
           a == Advance(b, n)
           r == DeliverBuffered(b)
<1>1. n \in Nat
  BY RunIsShort, RxAssumption
<1>2. StreamOK(a)
  BY <1>1, AdvanceTyped
<1>3. MessageOK(out)
  BY DeliverRunTyped
<1>4. r = [a EXCEPT !.occ = @ \ {RunSlots(b)[j] : j \in 1 .. n}, !.used = 0,
                    !.reasm = out.reasm, !.busy = out.busy, !.msg = out.msg,
                    !.done = out.done, !.err = out.err]
  BY DEF DeliverBuffered
<1> HIDE DEF a, r, out
<1>5. /\ DOMAIN r = DOMAIN a /\ r.expected = a.expected /\ r.bitmap = a.bitmap
      /\ r.occ \subseteq a.occ /\ r.meta = a.meta /\ r.used = 0
      /\ r.reasm = out.reasm /\ r.busy = out.busy /\ r.msg = out.msg
  BY <1>2, <1>4 DEF StreamOK, BackendOK, MessageOK, HasWindow
<1>6. MessageOK(r)
  BY <1>2, <1>3, <1>5 DEF MessageOK, StreamOK
<1>7. BackendOK(r)
  BY <1>2, <1>5 DEF BackendOK, StreamOK, HasWindow
<1> QED BY <1>6, <1>7 DEF StreamOK, r

PacketOK(p) == p.seq \in SeqCounts /\ p.kind \in PacketKinds /\ Sequential(p.bytes)

SegmentOffset(b, p) == IF Backend = "packed" THEN b.used ELSE SlotIdx(p.seq) * SlotSize
SegmentBit(b, p) == SeqSub(p.seq, b.expected) - 1
SegmentMeta(b, p) == [off |-> SegmentOffset(b, p), len |-> Len(p.bytes), kind |-> p.kind]

\* r is b with the segment of p
Stored(b, p, r) ==
    /\ r.err = b.err /\ r.bitmap = b.bitmap \cup {SegmentBit(b, p)}
    /\ r.occ = b.occ \cup {SlotIdx(p.seq)}
    /\ r.meta = [b.meta EXCEPT ![SlotIdx(p.seq)] = SegmentMeta(b, p)]
    /\ r.cells = [c \in StoreCells |-> IF c - SegmentOffset(b, p) \in 0 .. Len(p.bytes) - 1
                                       THEN p.bytes[c - SegmentOffset(b, p) + 1] ELSE b.cells[c]]
    /\ r.used = b.used + Len(p.bytes)

\* the slots of r are those of b
SameStore(b, r) == r.occ = b.occ /\ r.meta = b.meta /\ r.cells = b.cells /\ r.used = b.used

\* store_ooo keeps the segment, or finds its slot taken, or fails.
LEMMA StoreOooIs ==
    ASSUME NEW b, StreamOK(b), NEW p, PacketOK(p)
    PROVE  LET r == StoreOoo(b, p)
           IN  /\ DOMAIN r = DOMAIN b /\ r.expected = b.expected /\ r.past = b.past
               /\ r.reasm = b.reasm /\ r.busy = b.busy /\ r.msg = b.msg
               /\ \/ /\ r.err = b.err /\ SlotIdx(p.seq) \in b.occ /\ SameStore(b, r)
                     /\ r.bitmap = b.bitmap \cup {SegmentBit(b, p)}
                  \/ r.err = TRUE /\ r.bitmap = b.bitmap /\ SameStore(b, r)
                  \/ Stored(b, p, r)
<1> DEFINE i   == SlotIdx(p.seq)
           len == Len(p.bytes)
           off == IF Backend = "packed" THEN b.used ELSE i * SlotSize
           bits == b.bitmap \cup {SeqSub(p.seq, b.expected) - 1}
           bit == [b EXCEPT !.bitmap = bits]
           meta == [off |-> off, len |-> len, kind |-> p.kind]
           cells == [c \in StoreCells |-> IF c - off \in 0 .. len - 1
                                          THEN p.bytes[c - off + 1] ELSE b.cells[c]]
           failed == [b EXCEPT !.err = TRUE]
           kept == [bit EXCEPT !.occ = @ \cup {i}, !.meta[i] = meta,
                               !.cells = [c \in StoreCells |-> IF c - off \in 0 .. len - 1
                                                               THEN p.bytes[c - off + 1] ELSE @[c]],
                               !.used = @ + len]
<1>1. StoreOoo(b, p) \in {bit, failed, kept} /\ (i \notin b.occ => StoreOoo(b, p) \in {failed, kept})
  BY DEF StoreOoo
<1>0. {"expected", "bitmap", "occ", "past", "meta", "cells", "used", "reasm", "busy", "msg", "done", "err"}
         \subseteq DOMAIN b
  BY DEF StreamOK, BackendOK, MessageOK, HasWindow
<1>2. /\ DOMAIN bit = DOMAIN b /\ bit.expected = b.expected /\ bit.past = b.past
      /\ bit.reasm = b.reasm /\ bit.busy = b.busy /\ bit.msg = b.msg /\ bit.err = b.err
      /\ bit.bitmap = bits /\ bit.occ = b.occ /\ bit.meta = b.meta /\ bit.cells = b.cells
      /\ bit.used = b.used
  BY <1>0
<1>3. /\ DOMAIN failed = DOMAIN b /\ failed.expected = b.expected /\ failed.past = b.past
      /\ failed.reasm = b.reasm /\ failed.busy = b.busy /\ failed.msg = b.msg /\ failed.err = TRUE
      /\ failed.bitmap = b.bitmap /\ failed.occ = b.occ /\ failed.meta = b.meta
      /\ failed.cells = b.cells /\ failed.used = b.used
  BY <1>0
<1> HIDE DEF bit
<1>4. kept = [bit EXCEPT !.occ = bit.occ \cup {i}, !.meta = [bit.meta EXCEPT ![i] = meta],
                         !.cells = [c \in StoreCells |-> IF c - off \in 0 .. len - 1
                                                         THEN p.bytes[c - off + 1] ELSE bit.cells[c]],
                         !.used = bit.used + len]
  OBVIOUS
<1> HIDE DEF kept, failed, i, len, off, bits, meta
<1>5. /\ DOMAIN kept = DOMAIN b /\ kept.expected = b.expected /\ kept.past = b.past
      /\ kept.reasm = b.reasm /\ kept.busy = b.busy /\ kept.msg = b.msg /\ kept.err = b.err
      /\ kept.bitmap = bits /\ kept.occ = b.occ \cup {i}
      /\ kept.meta = [b.meta EXCEPT ![i] = meta]
      /\ kept.used = b.used + len
  BY <1>0, <1>2, <1>4
<1>6. kept.cells = cells
  <2>1. kept.cells = [c \in StoreCells |-> IF c - off \in 0 .. len - 1
                                            THEN p.bytes[c - off + 1] ELSE bit.cells[c]]
    BY <1>0, <1>2, <1>4
  <2> QED BY <1>2, <2>1
<1> DEFINE r == StoreOoo(b, p)
<1>7. CASE r = bit /\ i \in b.occ
  BY <1>2, <1>7, Zenon DEF i, bits, SameStore, SegmentBit
<1>8. CASE r = failed
  BY <1>3, <1>8, Zenon DEF SameStore
<1>9. CASE r = kept
  BY <1>5, <1>6, <1>9, Zenon DEF i, len, off, bits, meta, Stored, SegmentBit, SegmentOffset, SegmentMeta
<1> QED BY <1>1, <1>7, <1>8, <1>9, Zenon

\* deliver_packet does not touch the reorder buffer.
LEMMA DeliverPacketRest ==
    ASSUME NEW b, BackendOK(b), MessageOK(b), NEW kind \in PacketKinds, NEW bytes
    PROVE  LET r == DeliverPacket(b, kind, bytes)
           IN  BackendOK(r) /\ r.meta = b.meta /\ r.cells = b.cells /\ r.used = b.used
<1> DEFINE r == DeliverPacket(b, kind, bytes)
<1>1. HasMessage(b) /\ HasWindow(b)
  BY DEF MessageOK, HasMessage, BackendOK
<1>2. DOMAIN r = DOMAIN b
  BY <1>1, DeliverPacketIs
<1>3. r.expected = b.expected /\ r.bitmap = b.bitmap /\ r.occ = b.occ /\ HasWindow(r)
  BY <1>1, DeliverPacketKeeps
<1> DEFINE keeps(x) == DOMAIN x = DOMAIN b /\ x.meta = b.meta /\ x.cells = b.cells /\ x.used = b.used
<1>4. {"meta", "cells", "used", "done", "err", "msg", "reasm", "busy"} \subseteq DOMAIN b
  BY DEF BackendOK, MessageOK
<1>5. /\ keeps(b) /\ keeps([b EXCEPT !.err = TRUE])
      /\ \A x : keeps([b EXCEPT !.reasm = x])
      /\ \A x : keeps([b EXCEPT !.reasm = x, !.busy = TRUE, !.msg = NoMessage])
  BY <1>4
<1>6. \A x : keeps(Complete(b, x))
  BY <1>4 DEF Complete
<1>7. \A x, y : keeps(x) => keeps([x EXCEPT !.done = y])
  BY <1>4
<1> DEFINE grown == b.reasm \o bytes
           whole == IF kind = "Last" THEN grown ELSE bytes
           out ==
             CASE kind \in {"Unsegmented", "Eos"} ->
                    IF bytes = <<>> /\ b.msg.ready THEN b
                    ELSE IF Len(bytes) > Reasm THEN [b EXCEPT !.err = TRUE]
                    ELSE Complete(b, bytes)
               [] kind = "First" ->
                    IF Len(bytes) > Reasm THEN [b EXCEPT !.err = TRUE]
                    ELSE [b EXCEPT !.reasm = bytes, !.busy = TRUE, !.msg = NoMessage]
               [] kind \in {"Continuation", "Last"} ->
                    IF ~b.busy \/ Len(grown) > Reasm THEN [b EXCEPT !.err = TRUE]
                    ELSE IF kind = "Last" THEN Complete(b, grown)
                    ELSE [b EXCEPT !.reasm = grown]
<1>8. r = IF b.err THEN b
          ELSE IF kind \in {"Unsegmented", "Last"} THEN [out EXCEPT !.done = Append(out.done, whole)]
          ELSE out
  BY DEF DeliverPacket
<1> HIDE DEF keeps, r
<1>9. keeps(out)
  BY <1>5, <1>6 DEF PacketKinds
<1> HIDE DEF out
<1>10. keeps(r)
  BY <1>5, <1>7, <1>8, <1>9, Zenon
<1> QED BY <1>2, <1>3, <1>10 DEF keeps, BackendOK, r

\* store_ooo keeps the types, within the window.
LEMMA StoreOooTyped ==
    ASSUME NEW b, StreamOK(b), NEW p, PacketOK(p), InWindow(SeqSub(p.seq, b.expected))
    PROVE  StreamOK(StoreOoo(b, p))
<1> DEFINE i   == SlotIdx(p.seq)
           len == Len(p.bytes)
           d == SegmentBit(b, p)
           r == StoreOoo(b, p)
<1>1. RxWin \in Nat \ {0} /\ SlotSize \in Nat /\ len \in Nat /\ b.used \in Nat
  BY RxAssumption, Joins DEF StreamOK, BackendOK, PacketOK
<1>2. i \in SlotIndices /\ i \in Nat
  <2>1. p.seq \in Int
    BY SeqSpaceAssumption DEF PacketOK, SeqCounts
  <2>2. p.seq % RxWin \in 0 .. RxWin - 1
    BY <1>1, <2>1, DivMod
  <2> QED BY <1>1, <2>2 DEF SlotIdx, SlotIndices
<1>3. d \in 0 .. RxWin - 2
  <2> DEFINE x == SeqSub(p.seq, b.expected)
  <2>1. p.seq - b.expected \in Int /\ SeqSpace \in Nat \ {0}
    BY SeqSpaceAssumption DEF PacketOK, SeqCounts, StreamOK, BackendOK
  <2>2. x \in 0 .. SeqSpace - 1
    BY <2>1, DivMod DEF SeqSub
  <2>3. x > 0 /\ x < RxWin
    BY DEF InWindow
  <2> HIDE DEF x
  <2>4. x - 1 \in 0 .. RxWin - 2
    BY <1>1, <2>2, <2>3
  <2> QED BY <2>4 DEF x, SegmentBit
<1>4. SegmentMeta(b, p) \in MetaOK
  <2>1. SegmentOffset(b, p) \in Nat
    BY <1>1, <1>2 DEF SegmentOffset
  <2> QED BY <1>1, <2>1 DEF MetaOK, PacketOK, SegmentMeta
<1>5. /\ DOMAIN r = DOMAIN b /\ r.expected = b.expected
      /\ r.reasm = b.reasm /\ r.busy = b.busy /\ r.msg = b.msg
      /\ \/ SameStore(b, r) /\ (r.bitmap = b.bitmap \/ r.bitmap = b.bitmap \cup {d})
         \/ Stored(b, p, r)
  BY StoreOooIs
<1> HIDE DEF i, len, d, r
<1>6. MessageOK(r)
  BY <1>5 DEF MessageOK, StreamOK
<1>7. b.meta \in [SlotIndices -> MetaOK] /\ b.occ \subseteq SlotIndices /\ b.bitmap \subseteq 0 .. RxWin - 2
  BY DEF StreamOK, BackendOK
<1>8. /\ r.bitmap \subseteq 0 .. RxWin - 2 /\ r.occ \subseteq SlotIndices /\ r.used \in Nat
      /\ r.meta \in [SlotIndices -> MetaOK]
  <2>1. CASE SameStore(b, r) /\ (r.bitmap = b.bitmap \/ r.bitmap = b.bitmap \cup {d})
    BY <1>1, <1>3, <1>7, <2>1 DEF SameStore
  <2>2. CASE Stored(b, p, r)
    <3>1. /\ r.bitmap = b.bitmap \cup {d} /\ r.occ = b.occ \cup {i} /\ r.used = b.used + len
          /\ r.meta = [b.meta EXCEPT ![i] = SegmentMeta(b, p)]
      BY <2>2 DEF Stored, i, d, len
    <3> QED BY <1>1, <1>2, <1>3, <1>4, <1>7, <3>1
  <2> QED BY <1>5, <2>1, <2>2
<1>9. BackendOK(r)
  BY <1>5, <1>8 DEF BackendOK, StreamOK, HasWindow
<1> QED BY <1>6, <1>9 DEF StreamOK, r

\* handle_data keeps the types.
LEMMA HandleDataTyped ==
    ASSUME NEW b, StreamOK(b), NEW p, PacketOK(p)
    PROVE  StreamOK(HandleData(b, p))
<1> DEFINE d == SeqSub(p.seq, b.expected)
<1>1. CASE d = 0
  <2> DEFINE a == DeliverPacket(b, p.kind, p.bytes)
  <2>1. HandleData(b, p) = DeliverBuffered(Advance(a, 1))
    BY <1>1 DEF HandleData, InWindow
  <2>2. MessageOK(a)
    BY DeliverPacketTyped DEF StreamOK, PacketOK
  <2>3. BackendOK(a)
    BY DeliverPacketRest DEF StreamOK, PacketOK
  <2>4. StreamOK(a)
    BY <2>2, <2>3 DEF StreamOK
  <2> HIDE DEF a
  <2> QED BY <2>1, <2>4, AdvanceTyped, DeliverBufferedTyped
<1>2. CASE d # 0 /\ InWindow(d) /\ d - 1 \notin b.bitmap
  <2>1. HandleData(b, p) = StoreOoo(b, p)
    BY <1>2 DEF HandleData
  <2> QED BY <1>2, <2>1, StoreOooTyped
<1>3. CASE d # 0 /\ ~(InWindow(d) /\ d - 1 \notin b.bitmap)
  BY <1>3 DEF HandleData
<1> QED BY <1>1, <1>2, <1>3

\* So does skip_gap.
LEMMA SkipGapTyped ==
    ASSUME NEW b, StreamOK(b)
    PROVE  StreamOK(SkipGap(b))
<1> DEFINE a == [b EXCEPT !.reasm = <<>>, !.busy = FALSE]
<1>1. SkipGap(b) = DeliverBuffered(Advance(a, 1))
  BY DEF SkipGap
<1>2. /\ DOMAIN a = DOMAIN b /\ a.reasm = <<>> /\ a.busy = FALSE /\ a.msg = b.msg
      /\ a.expected = b.expected /\ a.bitmap = b.bitmap /\ a.occ = b.occ /\ a.meta = b.meta
      /\ a.used = b.used
  BY DEF StreamOK, MessageOK, BackendOK, HasWindow
<1> HIDE DEF a
<1>3. Sequential(<<>>) /\ Len(<<>>) <= Reasm
  BY Joins, RxAssumption
<1>4. MessageOK(a)
  BY <1>2, <1>3 DEF StreamOK, MessageOK
<1>5. BackendOK(a)
  BY <1>2 DEF StreamOK, BackendOK, HasWindow
<1>6. StreamOK(a)
  BY <1>4, <1>5 DEF StreamOK
<1> QED BY <1>1, <1>6, AdvanceTyped, DeliverBufferedTyped

\* The types of the stream, of the timers and of what drive_actions is to do.
StreamTypes ==
    /\ expected_seq \in SeqCounts /\ recv_bitmap \subseteq 0 .. RxWin - 2
    /\ occupied \subseteq SlotIndices /\ slot_meta \in [SlotIndices -> MetaOK] /\ slab_len \in Nat
    /\ in_progress \in BOOLEAN /\ message.ready \in BOOLEAN
    /\ Sequential(reassembly) /\ Len(reassembly) <= Reasm
    /\ Sequential(message.bytes) /\ Len(message.bytes) <= Reasm

DriverTypes ==
    /\ eos_observed \in BOOLEAN /\ eos_seq \in SeqCounts \cup {Unknown}
    /\ ack_pending \in BOOLEAN /\ ack_timer_running \in BOOLEAN
    /\ ack_deadline \in BOOLEAN /\ progress_deadline \in BOOLEAN
    /\ result.ack_timer \in {"start", "stop", "keep"}
    /\ result.progress_timer \in {"start", "stop", "keep"}
    /\ rx_pc \in {"select", "drive", "error", "failed"}

ReceiverTypes == StreamTypes /\ DriverTypes

\* what the driver adds to a stream that is handed on
HandedTyped(b) ==
    /\ StreamOK(b) /\ b.eos \in SeqCounts \cup {Unknown}
    /\ b.seen \in BOOLEAN /\ b.ackdl \in BOOLEAN /\ b.progdl \in BOOLEAN

\* The stream as it is, with an EOS noted or the progress timer expired, and a fresh one.
LEMMA HandedTypes ==
    ASSUME ReceiverTypes
    PROVE  /\ HandedTyped(Current) /\ HandedTyped(Fresh)
           /\ \A x \in SeqCounts \cup {Unknown} : HandedTyped([Current EXCEPT !.eos = x])
           /\ HandedTyped([Current EXCEPT !.progdl = FALSE])
<1> DEFINE c == Current
           f == Fresh
           fields == {"expected", "bitmap", "occ", "past", "meta", "cells", "used", "reasm", "busy",
                      "msg", "done", "err", "eos", "seen", "ackdl", "progdl"}
<1>1. /\ fields \subseteq DOMAIN c
      /\ c.expected = expected_seq /\ c.bitmap = recv_bitmap /\ c.occ = occupied /\ c.meta = slot_meta
      /\ c.used = slab_len /\ c.reasm = reassembly /\ c.busy = in_progress /\ c.msg = message
      /\ c.eos = eos_seq /\ c.seen = eos_observed /\ c.ackdl = ack_deadline
      /\ c.progdl = progress_deadline
  BY DEF Current
<1>2. /\ fields \subseteq DOMAIN f
      /\ f.expected = 0 /\ f.bitmap = {} /\ f.occ = {} /\ f.meta = FreshSlots
      /\ f.used = 0 /\ f.reasm = <<>> /\ f.busy = FALSE /\ f.msg = NoMessage
      /\ f.eos = Unknown /\ f.seen = FALSE /\ f.ackdl = FALSE /\ f.progdl = FALSE
  BY DEF Fresh
<1> HIDE DEF c, f
<1>3. HandedTyped(c)
  <2>1. MessageOK(c)
    BY <1>1 DEF MessageOK, ReceiverTypes, StreamTypes
  <2>2. BackendOK(c)
    BY <1>1 DEF BackendOK, HasWindow, ReceiverTypes, StreamTypes
  <2> QED BY <1>1, <2>1, <2>2 DEF HandedTyped, StreamOK, ReceiverTypes, DriverTypes
<1>4. HandedTyped(f)
  <2>1. MessageOK(f)
    <3>1. Sequential(<<>>) /\ Len(<<>>) <= Reasm
      BY Joins, RxAssumption
    <3>2. f.msg.ready = FALSE /\ f.msg.bytes = <<>>
      BY <1>2 DEF NoMessage
    <3> QED BY <1>2, <3>1, <3>2 DEF MessageOK
  <2>2. BackendOK(f)
    <3>1. FreshSlots \in [SlotIndices -> MetaOK]
      BY DEF FreshSlots, MetaOK, PacketKinds
    <3>2. 0 \in SeqCounts
      BY SeqSpaceAssumption DEF SeqCounts
    <3> QED BY <1>2, <3>1, <3>2 DEF BackendOK, HasWindow
  <2> QED BY <1>2, <2>1, <2>2 DEF HandedTyped, StreamOK
<1>5. ASSUME NEW x \in SeqCounts \cup {Unknown} PROVE HandedTyped([c EXCEPT !.eos = x])
  <2> DEFINE d == [c EXCEPT !.eos = x]
  <2>1. /\ DOMAIN d = DOMAIN c /\ d.eos = x
        /\ d.expected = c.expected /\ d.bitmap = c.bitmap /\ d.occ = c.occ /\ d.meta = c.meta
        /\ d.used = c.used /\ d.reasm = c.reasm /\ d.busy = c.busy /\ d.msg = c.msg
        /\ d.seen = c.seen /\ d.ackdl = c.ackdl /\ d.progdl = c.progdl
    BY <1>1
  <2> HIDE DEF d
  <2>2. MessageOK(d)
    BY <1>3, <2>1 DEF MessageOK, HandedTyped, StreamOK
  <2>3. BackendOK(d)
    BY <1>3, <2>1 DEF BackendOK, HasWindow, HandedTyped, StreamOK
  <2>4. HandedTyped(d)
    BY <1>3, <2>1, <2>2, <2>3 DEF HandedTyped, StreamOK
  <2> QED BY <2>4 DEF d
<1>6. HandedTyped([c EXCEPT !.progdl = FALSE])
  <2> DEFINE d == [c EXCEPT !.progdl = FALSE]
  <2>1. /\ DOMAIN d = DOMAIN c /\ d.eos = c.eos
        /\ d.expected = c.expected /\ d.bitmap = c.bitmap /\ d.occ = c.occ /\ d.meta = c.meta
        /\ d.used = c.used /\ d.reasm = c.reasm /\ d.busy = c.busy /\ d.msg = c.msg
        /\ d.seen = c.seen /\ d.ackdl = c.ackdl /\ d.progdl = FALSE
    BY <1>1
  <2> HIDE DEF d
  <2>2. MessageOK(d)
    BY <1>3, <2>1 DEF MessageOK, HandedTyped, StreamOK
  <2>3. BackendOK(d)
    BY <1>3, <2>1 DEF BackendOK, HasWindow, HandedTyped, StreamOK
  <2>4. HandedTyped(d)
    BY <1>3, <2>1, <2>2, <2>3 DEF HandedTyped, StreamOK
  <2> QED BY <2>4 DEF d
<1> QED BY <1>3, <1>4, <1>5, <1>6 DEF c, f

\* What is left of a stream has the types of the stream.
LEMMA SetStreamTyped ==
    ASSUME NEW before, HandedTyped(before), NEW b, StreamOK(b), NEW msg,
           msg \in {b.msg, NoMessage}, SetStream(before, b, msg)
    PROVE  /\ StreamTypes' /\ eos_observed' \in BOOLEAN /\ eos_seq' \in SeqCounts \cup {Unknown}
           /\ ack_deadline' \in BOOLEAN /\ progress_deadline' \in BOOLEAN
<1>1. Sequential(<<>>) /\ Len(<<>>) <= Reasm /\ NoMessage.ready = FALSE /\ NoMessage.bytes = <<>>
  BY Joins, RxAssumption DEF NoMessage
<1>2. /\ message'.ready \in BOOLEAN /\ Sequential(message'.bytes) /\ Len(message'.bytes) <= Reasm
  BY <1>1 DEF SetStream, StreamOK, MessageOK
<1>3. StreamTypes'
  BY <1>2 DEF SetStream, StreamOK, MessageOK, BackendOK, StreamTypes
<1> QED BY <1>3 DEF SetStream, HandedTyped

\* drive_segment keeps the types.
LEMMA DriveSegmentTyped ==
    ASSUME ReceiverTypes, NEW before, HandedTyped(before), NEW p, PacketOK(p), DriveSegment(before, p)
    PROVE  ReceiverTypes'
<1> DEFINE b == HandleData(before, p)
<1>1. StreamOK(b)
  BY HandleDataTyped DEF HandedTyped
<1>2. CASE b.err
  <2>1. Stop("error")
    BY <1>2 DEF DriveSegment
  <2> QED BY <2>1 DEF Stop, rx_backend, rx_acks, ReceiverTypes, StreamTypes, DriverTypes
<1>3. CASE ~b.err
  <2>1. PICK msg \in {b.msg, NoMessage} : SetStream(before, b, msg)
    BY <1>3 DEF DriveSegment
  <2>2. OnData(before, b) /\ rx_pc' = "drive"
    BY <1>3 DEF DriveSegment
  <2> HIDE DEF b
  <2>3. /\ StreamTypes' /\ eos_observed' \in BOOLEAN /\ eos_seq' \in SeqCounts \cup {Unknown}
        /\ ack_deadline' \in BOOLEAN /\ progress_deadline' \in BOOLEAN
    BY <1>1, <2>1, SetStreamTyped
  <2>4. ack_pending' \in BOOLEAN /\ ack_timer_running' \in BOOLEAN
    BY <2>2, RxAssumption DEF OnData
  <2>5. /\ result'.ack_timer \in {"start", "stop", "keep"}
        /\ result'.progress_timer \in {"start", "stop", "keep"}
    BY <2>2 DEF OnData
  <2> QED BY <2>2, <2>3, <2>4, <2>5 DEF ReceiverTypes, DriverTypes
<1> QED BY <1>2, <1>3

\* The packets of the peer have their types.
LEMMA StreamPackets ==
    /\ Len(Stream) \in Nat
    /\ \A k \in 1 .. Len(Stream) :
          /\ Stream[k].kind \in PacketKinds /\ Stream[k].bytes \in Seq(Nat \X Nat)
          /\ PacketOK(Packet(k)) /\ Packet(k).kind = Stream[k].kind /\ Packet(k).bytes = Stream[k].bytes
<1> DEFINE B == Seq(Nat \X Nat)
           R == [kind : PacketKinds, bytes : B]
<1>1. Stream \in Seq(R)
  BY StreamAssumption
<1>2. \A r \in R : r.kind \in PacketKinds /\ r.bytes \in B
  OBVIOUS
<1> HIDE DEF R
<1>3. Len(Stream) \in Nat /\ \A k \in 1 .. Len(Stream) : Stream[k] \in R
  BY <1>1
<1>4. ASSUME NEW k \in 1 .. Len(Stream)
      PROVE  /\ Stream[k].kind \in PacketKinds /\ Stream[k].bytes \in B
             /\ PacketOK(Packet(k)) /\ Packet(k).kind = Stream[k].kind /\ Packet(k).bytes = Stream[k].bytes
  <2>1. Stream[k].kind \in PacketKinds /\ Stream[k].bytes \in B
    BY <1>2, <1>3
  <2>2. SeqAdd(0, k - 1) \in SeqCounts
    <3>1. 0 + (k - 1) \in Int /\ SeqSpace \in Nat \ {0}
      BY <1>3, SeqSpaceAssumption
    <3>2. (0 + (k - 1)) % SeqSpace \in 0 .. SeqSpace - 1
      BY <3>1, DivMod
    <3> QED BY <3>2 DEF SeqAdd, SeqCounts
  <2>3. Packet(k).kind = Stream[k].kind /\ Packet(k).bytes = Stream[k].bytes
        /\ Packet(k).seq = SeqAdd(0, k - 1)
    BY DEF Packet
  <2> QED BY <2>1, <2>2, <2>3 DEF PacketOK, Sequential
<1> QED BY <1>3, <1>4

\* Every step keeps the types.
LEMMA ReceiverTypesStep ==
    ASSUME ReceiverTypes, [RxNext]_rx_vars
    PROVE  ReceiverTypes'
<1>1. ASSUME NEW p, PacketOK(p), ReceiveData(p) PROVE ReceiverTypes'
  <2>1. DriveSegment(Fresh, p) \/ DriveSegment(Current, p)
    BY <1>1 DEF ReceiveData
  <2> QED BY <1>1, <2>1, HandedTypes, DriveSegmentTyped
<1>2. ASSUME NEW p, PacketOK(p), ReceiveEos(p) PROVE ReceiverTypes'
  <2> DEFINE x == IF Current.eos = Unknown THEN p.seq ELSE Current.eos
             noted == [Current EXCEPT !.eos = x]
  <2>1. DriveSegment(noted, p)
    BY <1>2 DEF ReceiveEos
  <2>2. x \in SeqCounts \cup {Unknown}
    BY <1>2 DEF PacketOK, ReceiverTypes, DriverTypes, Current
  <2> HIDE DEF x
  <2>3. HandedTyped(noted)
    BY <2>2, HandedTypes
  <2> HIDE DEF noted
  <2> QED BY <1>2, <2>1, <2>3, DriveSegmentTyped
<1>3. CASE ProgressTimeout
  <2> DEFINE b == SkipGap(Current)
             before == [Current EXCEPT !.progdl = FALSE]
  <2>1. StreamOK(b) /\ HandedTyped(before)
    BY HandedTypes, SkipGapTyped DEF HandedTyped
  <2>2. CASE b.err
    <3>1. Stop("error")
      BY <1>3, <2>2 DEF ProgressTimeout
    <3> QED BY <3>1 DEF Stop, rx_backend, rx_acks, ReceiverTypes, StreamTypes, DriverTypes
  <2>3. CASE ~b.err
    <3>1. /\ SetStream(before, b, b.msg) /\ OnGapSkip(b) /\ rx_pc' = "drive"
          /\ UNCHANGED <<ack_pending, ack_timer_running>>
      BY <1>3, <2>3 DEF ProgressTimeout
    <3> HIDE DEF b, before
    <3>2. /\ StreamTypes' /\ eos_observed' \in BOOLEAN /\ eos_seq' \in SeqCounts \cup {Unknown}
          /\ ack_deadline' \in BOOLEAN /\ progress_deadline' \in BOOLEAN
      BY <2>1, <3>1, SetStreamTyped
    <3>3. /\ result'.ack_timer \in {"start", "stop", "keep"}
          /\ result'.progress_timer \in {"start", "stop", "keep"}
      BY <3>1 DEF OnGapSkip, NoResult
    <3> QED BY <3>1, <3>2, <3>3 DEF ReceiverTypes, DriverTypes
  <2> QED BY <2>2, <2>3
<1>4. CASE AckTimeout
  <2>1. /\ result'.ack_timer = "keep" /\ result'.progress_timer = "keep"
    BY <1>4 DEF AckTimeout, OnAckTimeout, NoResult
  <2> QED BY <1>4, <2>1 DEF AckTimeout, rx_backend, ReceiverTypes, StreamTypes, DriverTypes
<1>5. CASE DriveActions
  <2>1. \A x \in {"start", "stop", "keep"}, y \in BOOLEAN : Applied(x, y) \in BOOLEAN
    BY DEF Applied
  <2>2. ack_deadline' \in BOOLEAN /\ progress_deadline' \in BOOLEAN
    BY <1>5, <2>1 DEF DriveActions, ReceiverTypes, DriverTypes
  <2>3. result'.ack_timer = "keep" /\ result'.progress_timer = "keep"
    BY <1>5 DEF DriveActions, NoResult
  <2> QED BY <1>5, <2>2, <2>3 DEF DriveActions, rx_backend, ReceiverTypes, StreamTypes, DriverTypes
<1>6. CASE RxLinkFails
  BY <1>6 DEF RxLinkFails, Stop, rx_backend, rx_acks, ReceiverTypes, StreamTypes, DriverTypes
<1>7. CASE RecvData
  <2>1. /\ message'.ready = FALSE /\ message'.bytes = <<>> /\ Sequential(<<>>) /\ Len(<<>>) <= Reasm
    BY <1>7, Joins, RxAssumption DEF RecvData, NoMessage
  <2>2. message'.ready \in BOOLEAN /\ Sequential(message'.bytes) /\ Len(message'.bytes) <= Reasm
    BY <2>1, Zenon
  <2>3. UNCHANGED <<expected_seq, recv_bitmap, occupied, slot_meta, slab_len, reassembly, in_progress>>
    BY <1>7 DEF RecvData
  <2>4. StreamTypes'
    BY <2>2, <2>3 DEF ReceiverTypes, StreamTypes
  <2> QED BY <1>7, <2>4 DEF RecvData, rx_acks, ReceiverTypes, StreamTypes, DriverTypes
<1>8. CASE RecvEos
  BY <1>8 DEF RecvEos, rx_backend, rx_acks, ReceiverTypes, StreamTypes, DriverTypes
<1>9. CASE RxStopped \/ UNCHANGED rx_vars
  BY <1>9 DEF RxStopped, rx_vars, rx_backend, rx_acks, ReceiverTypes, StreamTypes, DriverTypes
<1>10. ASSUME NEW k \in 1 .. Len(Stream), Arrive(k) PROVE ReceiverTypes'
  BY <1>1, <1>2, <1>10, StreamPackets DEF Arrive
<1> QED BY <1>3, <1>4, <1>5, <1>6, <1>7, <1>8, <1>9, <1>10 DEF RxNext

\* They hold at the beginning.
LEMMA ReceiverTypesInit == RxInit => ReceiverTypes
<1> SUFFICES ASSUME RxInit PROVE ReceiverTypes
  OBVIOUS
<1>1. FreshSlots \in [SlotIndices -> MetaOK]
  BY DEF FreshSlots, MetaOK, PacketKinds
<1>2. Sequential(<<>>) /\ Len(<<>>) <= Reasm
  BY Joins, RxAssumption
<1>3. message.bytes = <<>> /\ message.ready = FALSE /\ reassembly = <<>>
  BY DEF RxInit, NoMessage
<1>4. /\ Sequential(message.bytes) /\ Len(message.bytes) <= Reasm
      /\ Sequential(reassembly) /\ Len(reassembly) <= Reasm
  BY <1>2, <1>3, Zenon
<1>5. /\ expected_seq \in SeqCounts /\ recv_bitmap = {} /\ occupied = {} /\ slot_meta = FreshSlots
      /\ slab_len = 0 /\ in_progress = FALSE
  BY SeqSpaceAssumption DEF RxInit, SeqCounts
<1>6. StreamTypes
  BY <1>1, <1>3, <1>4, <1>5 DEF StreamTypes
<1> QED BY <1>6 DEF RxInit, ReceiverTypes, DriverTypes, NoResult

\* The types hold at all times.
LEMMA ReceiverTyped == RxSpec => []ReceiverTypes
<1>1. ReceiverTypes /\ [RxNext]_rx_vars => ReceiverTypes'
  BY ReceiverTypesStep
<1> QED BY <1>1, ReceiverTypesInit, PTL DEF RxSpec

\* No message outgrows the reassembly buffer, no bit or slot lies outside of the window, and
\* every flag, number and state of the stream has its type, for every window and backend,
\* every stream of packets and every order in which they arrive.
THEOREM ReceiverStaysTyped == RxSpec => []RxTypeOK
<1>1. ReceiverTypes => RxTypeOK
  BY DEF ReceiverTypes, StreamTypes, DriverTypes, RxTypeOK, MetaOK
<1> QED BY <1>1, ReceiverTyped, PTL
-----------------------------------------------------------------------------
(* Positions: the packets of one connection, counted without wrapping.     *)

\* Numbers come round later than any packet arrives, and the window is at most half of them:
\* no packet on the network carries the number of another one in the window.
NumbersApart == MaxAge + RxWin <= SeqSpace /\ 2 * RxWin <= SeqSpace

\* expected_seq is the number of the packet behind the first b.past, and every segment that
\* is buffered is one of the packets of the peer
Placed(b) ==
    /\ b.past \in Nat /\ b.past <= Len(Stream) /\ b.expected = SeqAdd(0, b.past)
    /\ \A j \in 1 .. RxWin - 1 : Slot(b.expected, j) \in b.occ => b.past + 1 + j <= Len(Stream)

\* The distance by which the receiver sorts a packet tells its position.
LEMMA ArrivalDistance ==
    ASSUME NumbersApart, NEW past \in Nat, NEW k \in Nat \ {0}, k - 1 - past \in -MaxAge .. RxWin
    PROVE  LET d == SeqSub(SeqAdd(0, k - 1), SeqAdd(0, past))
           IN  /\ d \in Nat
               /\ d = 0 => k = past + 1
               /\ InWindow(d) => k = past + 1 + d
<1> DEFINE x == k - 1 - past
           d == SeqSub(SeqAdd(0, k - 1), SeqAdd(0, past))
<1>1. /\ SeqSpace \in Nat \ {0} /\ RxWin \in Nat \ {0} /\ MaxAge \in Nat
      /\ MaxAge + RxWin <= SeqSpace /\ 2 * RxWin <= SeqSpace
  BY SeqSpaceAssumption, RxAssumption, StreamAssumption DEF NumbersApart
<1>2. x \in Int /\ x >= -MaxAge /\ x <= RxWin /\ k = past + 1 + x
  BY <1>1
<1>3. d = x % SeqSpace
  <2> DEFINE u == k - 1
             v == past
             m == v % SeqSpace
             q == v \div SeqSpace
  <2>1. u \in Int /\ v \in Int /\ 0 + u = u /\ 0 + v = v /\ x = u - v
    OBVIOUS
  <2>2. SeqAdd(0, k - 1) = u % SeqSpace /\ SeqAdd(0, past) = m
    BY <2>1 DEF SeqAdd
  <2>3. m \in 0 .. SeqSpace - 1 /\ q \in Int /\ v = SeqSpace * q + m
    BY <1>1, <2>1, DivMod
  <2> HIDE DEF u, v, m, q
  <2> DEFINE w == -m
             y == u + w
  <2>4. w \in Int /\ y \in Int /\ -q \in Int
    BY <1>1, <2>1, <2>3
  <2>5. ((u % SeqSpace) + w) % SeqSpace = (u + w) % SeqSpace
    BY <1>1, <2>1, <2>4, ModAdd, Zenon
  <2>6. (u % SeqSpace) - m = (u % SeqSpace) + w
    <3>1. u % SeqSpace \in Int
      BY <1>1, <2>1, DivMod
    <3> QED BY <2>3, <3>1
  <2>7. x = SeqSpace * (-q) + y
    <3> DEFINE z == SeqSpace * q
    <3>1. z \in Int /\ v = z + m /\ SeqSpace * (-q) = -z
      BY <1>1, <2>3
    <3> HIDE DEF z
    <3> QED BY <1>1, <2>1, <2>3, <3>1
  <2> HIDE DEF w, x
  <2>8. (SeqSpace * (-q) + y) % SeqSpace = y % SeqSpace
    <3> HIDE DEF y
    <3> QED BY <1>1, <2>4, ModMultiple
  <2> QED BY <2>2, <2>5, <2>6, <2>7, <2>8 DEF SeqSub
<1> HIDE DEF d, x
<1>4. CASE x >= 0
  <2>1. x \in 0 .. SeqSpace - 1 /\ x = SeqSpace * 0 + x /\ 0 \in Int
    BY <1>1, <1>2, <1>4
  <2>2. (SeqSpace * 0 + x) % SeqSpace = x
    BY <1>1, <2>1, ModUnique
  <2>3. d = x
    BY <1>3, <2>1, <2>2
  <2>4. d \in Nat /\ (d = 0 => k = past + 1) /\ (InWindow(d) => k = past + 1 + d)
    BY <1>2, <2>1, <2>3
  <2> QED BY <2>4 DEF d
<1>5. CASE x < 0
  <2> DEFINE y == x + SeqSpace
  <2>1. y \in 0 .. SeqSpace - 1 /\ x = SeqSpace * (-1) + y /\ -1 \in Int /\ y >= RxWin
    BY <1>1, <1>2, <1>5
  <2> HIDE DEF y
  <2>2. (SeqSpace * (-1) + y) % SeqSpace = y
    BY <1>1, <2>1, ModUnique
  <2>3. d = y
    BY <1>3, <2>1, <2>2
  <2>4. d \in Nat /\ d # 0 /\ ~InWindow(d)
    BY <1>1, <2>1, <2>3 DEF InWindow
  <2> QED BY <2>4 DEF d
<1> QED BY <1>2, <1>4, <1>5

\* The expected packet is passed, and the run behind it: where slots lie before and after.
LEMMA PassSlots ==
    ASSUME WindowDividesSpace, NEW b, NEW a, FitsWindow(b), HasWindow(a),
           a.expected = b.expected, a.bitmap = b.bitmap, a.occ = b.occ, a.past = b.past,
           b.past \in Nat
    PROVE  LET c == Advance(a, 1)
               r == DeliverBuffered(c)
               n == RunLength(c)
           IN  /\ n \in Nat /\ n <= RxWin - 1
               /\ r.past = b.past + 1 + n /\ r.expected = SeqAdd(b.expected, 1 + n)
               /\ \A j \in 1 .. n : RunSlots(c)[j] = Slot(b.expected, j) /\ Slot(b.expected, j) \in b.occ
               /\ \A j \in 1 .. RxWin - 1 : Slot(r.expected, j) \in r.occ =>
                     /\ 1 + n + j <= RxWin - 1 /\ Slot(r.expected, j) = Slot(b.expected, 1 + n + j)
                     /\ Slot(b.expected, 1 + n + j) \in b.occ
<1> DEFINE c == Advance(a, 1)
           r == DeliverBuffered(c)
           n == RunLength(c)
           e == b.expected
<1>1. /\ HasWindow(c) /\ c.expected = SeqAdd(e, 1) /\ c.occ = b.occ /\ c.past = b.past + 1
  BY AdvanceResult
<1>2. RxWin \in Nat \ {0} /\ e \in SeqCounts
  BY RxAssumption DEF FitsWindow, Fits, Agree
<1>3. n \in 0 .. RxWin /\ \A j \in 1 .. n : RunSlots(c)[j] \in c.occ
  BY RunIsShort
<1>4. /\ r.expected = SeqAdd(c.expected, n) /\ r.past = c.past + n
      /\ r.occ = c.occ \ {RunSlots(c)[j] : j \in 1 .. n}
  BY <1>1, DeliverBufferedResult
<1>5. \A j \in 1 .. n : RunSlots(c)[j] = Slot(c.expected, j - 1)
  BY DEF RunSlots, Slot
<1> HIDE DEF c, r, n
<1>0. n \in Nat
  BY <1>2, <1>3
<1>6. ASSUME NEW j \in 1 .. n PROVE RunSlots(c)[j] = Slot(e, j)
  <2>1. j - 1 \in Nat /\ 1 \in Nat /\ 1 + (j - 1) = j
    BY <1>0
  <2> HIDE DEF e
  <2>2. Slot(SeqAdd(e, 1), j - 1) = Slot(e, 1 + (j - 1))
    <3>1. \A i, k \in Nat : Slot(SeqAdd(e, i), k) = Slot(e, i + k)
      BY <1>2, SlotFacts
    <3> DEFINE k == j - 1
    <3>2. k \in Nat /\ 1 \in Nat
      BY <2>1
    <3> HIDE DEF k
    <3>3. Slot(SeqAdd(e, 1), k) = Slot(e, 1 + k)
      BY <3>1, <3>2, ZenonT(60)
    <3> QED BY <3>3 DEF k
  <2> QED BY <1>1, <1>5, <2>1, <2>2
<1>7. Slot(e, RxWin) = Slot(e, 0) /\ Slot(e, 0) \notin b.occ
  <2>1. 0 + RxWin = RxWin /\ 0 \in Nat
    BY <1>2
  <2>2. Slot(e, 0) \notin b.occ
    BY DEF FitsWindow, Fits
  <2> HIDE DEF e
  <2>3. Slot(e, 0 + RxWin) = Slot(e, 0)
    BY <1>2, <2>1, SlotFacts, Zenon
  <2> QED BY <2>1, <2>2, <2>3
<1>8. n <= RxWin - 1
  <2> SUFFICES ASSUME n = RxWin PROVE FALSE
    BY <1>2, <1>3
  <2>1. RxWin \in 1 .. n
    BY <1>2
  <2>2. Slot(e, RxWin) \in b.occ
    BY <1>1, <1>3, <1>6, <2>1
  <2> QED BY <1>7, <2>2
<1>9. r.past = b.past + 1 + n
  BY <1>0, <1>1, <1>4
<1>10. \A i, j \in Nat : SeqAdd(SeqAdd(e, i), j) = SeqAdd(e, i + j)
  <2> SUFFICES ASSUME NEW i \in Nat, NEW j \in Nat
               PROVE  SeqAdd(SeqAdd(e, i), j) = SeqAdd(e, i + j)
    OBVIOUS
  <2>1. SeqSpace \in Nat \ {0} /\ e + i \in Int /\ j \in Int /\ (e + i) + j = e + (i + j)
    BY <1>2, SeqSpaceAssumption DEF SeqCounts
  <2>2. (((e + i) % SeqSpace) + j) % SeqSpace = ((e + i) + j) % SeqSpace
    BY <2>1, ModAdd, Zenon
  <2> QED BY <2>1, <2>2 DEF SeqAdd
<1>11. r.expected = SeqAdd(e, 1 + n)
  BY <1>0, <1>1, <1>4, <1>10
<1>12. ASSUME NEW j \in 1 .. RxWin - 1, Slot(r.expected, j) \in r.occ
       PROVE  /\ 1 + n + j <= RxWin - 1 /\ Slot(r.expected, j) = Slot(e, 1 + n + j)
              /\ Slot(e, 1 + n + j) \in b.occ
  <2> DEFINE m == 1 + n + j
  <2>1. m \in Nat /\ 1 + n \in Nat /\ j \in Nat /\ (1 + n) + j = m
    BY <1>0, <1>2
  <2> HIDE DEF m
  <2>2. Slot(r.expected, j) = Slot(e, m)
    <3> DEFINE l == 1 + n
    <3>0. l \in Nat /\ r.expected = SeqAdd(e, l) /\ l + j = m
      BY <1>11, <2>1
    <3> HIDE DEF e, l
    <3>1. Slot(SeqAdd(e, l), j) = Slot(e, l + j)
      BY <1>2, <2>1, <3>0, SlotFacts
    <3> QED BY <3>0, <3>1
  <2>3. Slot(e, m) \in b.occ /\ \A i \in 1 .. n : Slot(e, m) # Slot(e, i)
    BY <1>1, <1>4, <1>6, <1>12, <2>2
  <2>4. m <= RxWin - 1
    <3> SUFFICES ASSUME m >= RxWin PROVE FALSE
      BY <1>2, <2>1
    <3> DEFINE i == m - RxWin
    <3>1. i \in Nat /\ i + RxWin = m /\ i <= n
      BY <1>0, <1>2, <2>1 DEF m
    <3> HIDE DEF i
    <3>2. Slot(e, m) = Slot(e, i)
      <4> HIDE DEF e
      <4>1. Slot(e, i + RxWin) = Slot(e, i)
        BY <1>2, <3>1, SlotFacts, Zenon
      <4> QED BY <3>1, <4>1
    <3>3. i # 0
      BY <1>7, <2>3, <3>2
    <3>4. i \in 1 .. n
      BY <1>0, <3>1, <3>3
    <3> QED BY <2>3, <3>2, <3>4
  <2> QED BY <2>2, <2>3, <2>4 DEF m
<1> QED BY <1>0, <1>1, <1>3, <1>6, <1>8, <1>9, <1>11, <1>12 DEF c, r, n

\* Numbers add up.
LEMMA SeqAdds ==
    ASSUME NEW i \in Nat, NEW j \in Nat
    PROVE  SeqAdd(SeqAdd(0, i), j) = SeqAdd(0, i + j)
<1>1. SeqSpace \in Nat \ {0} /\ i \in Int /\ j \in Int /\ 0 + i = i /\ 0 + (i + j) = i + j
  BY SeqSpaceAssumption
<1>2. ((i % SeqSpace) + j) % SeqSpace = (i + j) % SeqSpace
  BY <1>1, ModAdd, Zenon
<1> QED BY <1>1, <1>2 DEF SeqAdd

\* Past the expected packet and the run behind it, positions hold on.
LEMMA PassPlaced ==
    ASSUME WindowDividesSpace, NEW b, NEW a, FitsWindow(b), HasWindow(a), Placed(b),
           a.expected = b.expected, a.bitmap = b.bitmap, a.occ = b.occ, a.past = b.past,
           b.past < Len(Stream)
    PROVE  LET r == DeliverBuffered(Advance(a, 1))
           IN  FitsWindow(r) /\ Placed(r) /\ r.past > b.past
<1> DEFINE c == Advance(a, 1)
           r == DeliverBuffered(c)
           n == RunLength(c)
<1>1. b.past \in Nat /\ Len(Stream) \in Nat /\ b.expected = SeqAdd(0, b.past) /\ RxWin \in Nat
  BY StreamPackets, RxAssumption DEF Placed
<1>2. FitsWindow(r)
  BY <1>1, PassFits
<1>3. /\ n \in Nat /\ n <= RxWin - 1
      /\ r.past = b.past + 1 + n /\ r.expected = SeqAdd(b.expected, 1 + n)
      /\ \A j \in 1 .. n : Slot(b.expected, j) \in b.occ
      /\ \A j \in 1 .. RxWin - 1 : Slot(r.expected, j) \in r.occ =>
            1 + n + j <= RxWin - 1 /\ Slot(b.expected, 1 + n + j) \in b.occ
  BY <1>1, PassSlots
<1> HIDE DEF r, n, c
<1>4. r.past \in Nat /\ r.past > b.past
  BY <1>1, <1>3
<1>5. r.past <= Len(Stream)
  <2>1. CASE n = 0
    BY <1>1, <1>3, <2>1
  <2>2. CASE n # 0
    <3>1. n \in 1 .. n /\ n \in 1 .. RxWin - 1
      BY <1>1, <1>3, <2>2
    <3>2. b.past + 1 + n <= Len(Stream)
      BY <1>3, <3>1 DEF Placed
    <3> QED BY <1>3, <3>2
  <2> QED BY <2>1, <2>2
<1>6. r.expected = SeqAdd(0, r.past)
  <2> DEFINE l == 1 + n
             p == b.past
  <2>1. l \in Nat /\ p \in Nat /\ r.past = p + l /\ r.expected = SeqAdd(SeqAdd(0, p), l)
    BY <1>1, <1>3
  <2> HIDE DEF l, p
  <2> QED BY <2>1, SeqAdds
<1>7. ASSUME NEW j \in 1 .. RxWin - 1, Slot(r.expected, j) \in r.occ
      PROVE  r.past + 1 + j <= Len(Stream)
  <2>1. 1 + n + j \in 1 .. RxWin - 1 /\ Slot(b.expected, 1 + n + j) \in b.occ
    BY <1>1, <1>3, <1>7
  <2>2. b.past + 1 + (1 + n + j) <= Len(Stream)
    BY <2>1 DEF Placed
  <2> QED BY <1>1, <1>3, <2>2
<1> QED BY <1>2, <1>4, <1>5, <1>6, <1>7 DEF Placed, r, c

\* the stream b can be handed packet k
Arrives(b, k) == k \in 1 .. Len(Stream) /\ k - 1 - b.past \in -MaxAge .. RxWin

\* What a packet means to a stream: it is the next one, or one of the window, or ignored.
LEMMA HandlePlaces ==
    ASSUME NumbersApart, NEW b, Placed(b), NEW k, Arrives(b, k)
    PROVE  LET p == Packet(k)
               d == SeqSub(p.seq, b.expected)
           IN  \/ k = b.past + 1 /\ d = 0
                  /\ HandleData(b, p) = DeliverBuffered(Advance(DeliverPacket(b, p.kind, p.bytes), 1))
               \/ k = b.past + 1 + d /\ d \in 1 .. RxWin - 1 /\ InWindow(d) /\ d - 1 \notin b.bitmap
                  /\ HandleData(b, p) = StoreOoo(b, p)
               \/ HandleData(b, p) = b
<1> DEFINE p == Packet(k)
           d == SeqSub(p.seq, b.expected)
<1>1. b.past \in Nat /\ k \in Nat \ {0} /\ RxWin \in Nat /\ p.seq = SeqAdd(0, k - 1)
      /\ b.expected = SeqAdd(0, b.past) /\ k - 1 - b.past \in -MaxAge .. RxWin
  BY StreamPackets, RxAssumption DEF Placed, Arrives, Packet
<1>2. d \in Nat /\ (d = 0 => k = b.past + 1) /\ (InWindow(d) => k = b.past + 1 + d)
  BY <1>1, ArrivalDistance
<1> HIDE DEF p
<1>3. CASE d = 0
  <2>1. HandleData(b, p) = DeliverBuffered(Advance(DeliverPacket(b, p.kind, p.bytes), 1))
    BY <1>3 DEF HandleData, InWindow
  <2> QED BY <1>2, <1>3, <2>1 DEF p
<1>4. CASE d # 0 /\ InWindow(d) /\ d - 1 \notin b.bitmap
  <2>1. HandleData(b, p) = StoreOoo(b, p)
    BY <1>4 DEF HandleData
  <2>2. d \in 1 .. RxWin - 1
    <3> HIDE DEF d
    <3> QED BY <1>1, <1>2, <1>4 DEF InWindow
  <2> QED BY <1>2, <1>4, <2>1, <2>2 DEF p
<1>5. CASE d # 0 /\ ~(InWindow(d) /\ d - 1 \notin b.bitmap)
  <2>1. HandleData(b, p) = b
    BY <1>5 DEF HandleData
  <2> QED BY <2>1 DEF p
<1> QED BY <1>3, <1>4, <1>5

\* the stream b in a window that fits, its types included
Sound(b) == StreamOK(b) /\ FitsWindow(b) /\ Placed(b)

\* handle_data keeps positions; it passes packets or keeps all that is buffered.
LEMMA HandlePlaced ==
    ASSUME WindowDividesSpace, NumbersApart, NEW b, Sound(b), NEW k, Arrives(b, k)
    PROVE  LET r == HandleData(b, Packet(k))
           IN  /\ Sound(r)
               /\ r.past > b.past \/ (r.past = b.past /\ b.occ \subseteq r.occ)
               /\ k <= b.past => r = b
<1> DEFINE p == Packet(k)
           d == SeqSub(p.seq, b.expected)
           r == HandleData(b, p)
<1>0. PacketOK(p) /\ b.past \in Nat /\ k \in Nat /\ RxWin \in Nat
  BY StreamPackets, RxAssumption DEF Arrives, Sound, Placed
<1>1. StreamOK(r)
  BY <1>0, HandleDataTyped DEF Sound
<1> HIDE DEF p
<1>2. CASE k = b.past + 1 /\ d = 0
           /\ r = DeliverBuffered(Advance(DeliverPacket(b, p.kind, p.bytes), 1))
  <2> DEFINE a == DeliverPacket(b, p.kind, p.bytes)
  <2>1. /\ HasWindow(a) /\ a.expected = b.expected /\ a.bitmap = b.bitmap
        /\ a.occ = b.occ /\ a.past = b.past
    BY <1>0, DeliverPacketKeeps DEF FitsWindow, Sound, PacketOK
  <2>2. b.past < Len(Stream)
    BY <1>0, <1>2, StreamPackets DEF Arrives
  <2> HIDE DEF a
  <2>3. FitsWindow(r) /\ Placed(r) /\ r.past > b.past
    BY <1>2, <2>1, <2>2, PassPlaced DEF Sound, a
  <2>4. ~(k <= b.past)
    BY <1>0, <1>2
  <2> QED BY <1>1, <2>3, <2>4 DEF Sound, p
<1>3. CASE /\ k = b.past + 1 + d /\ d \in 1 .. RxWin - 1 /\ InWindow(d) /\ d - 1 \notin b.bitmap
           /\ r = StoreOoo(b, p)
  <2> DEFINE i == SlotIdx(p.seq)
  <2>1. FitsWindow(r)
    BY <1>0, <1>3, StoreFits DEF Sound, PacketOK
  <2>2. /\ r.expected = b.expected /\ r.past = b.past
        /\ r.occ \subseteq b.occ \cup {i} /\ b.occ \subseteq r.occ
    <3>1. /\ r.expected = b.expected /\ r.past = b.past
          /\ SameStore(b, r) \/ Stored(b, p, r)
      <4> DEFINE s == StoreOoo(b, p)
      <4>1. s.expected = b.expected /\ s.past = b.past /\ (SameStore(b, s) \/ Stored(b, p, s))
        BY <1>0, StoreOooIs DEF Sound
      <4>2. r = s
        BY <1>3
      <4> HIDE DEF r, s
      <4> QED BY <4>1, <4>2
    <3> HIDE DEF r
    <3>2. r.occ = b.occ \/ r.occ = b.occ \cup {i}
      BY <3>1 DEF Stored, SameStore
    <3> QED BY <3>1, <3>2
  <2>3. i = Slot(b.expected, d)
    <3>1. /\ b.expected = SeqAdd(0, b.past) /\ p.seq = SeqAdd(0, k - 1) /\ k - 1 = b.past + d
      BY <1>0, <1>3 DEF Sound, Placed, Packet, p
    <3>2. d \in Nat
      BY <1>0, <1>3
    <3> DEFINE q == b.past
    <3>3. q \in Nat /\ k - 1 = q + d
      BY <1>0, <3>1
    <3> HIDE DEF d, q
    <3>4. SeqAdd(SeqAdd(0, q), d) = SeqAdd(0, q + d)
      BY <3>2, <3>3, SeqAdds
    <3> QED BY <3>1, <3>3, <3>4 DEF Slot, q
  <2>4. ASSUME NEW j \in 1 .. RxWin - 1, Slot(b.expected, j) \in r.occ
        PROVE  b.past + 1 + j <= Len(Stream)
    <3>1. CASE Slot(b.expected, j) \in b.occ
      BY <3>1 DEF Sound, Placed
    <3>2. CASE Slot(b.expected, j) = i
      <4> DEFINE e == b.expected
      <4>1. e \in SeqCounts /\ j \in Nat /\ d \in Nat /\ j - d < RxWin /\ d - j < RxWin
            /\ Slot(e, j) = Slot(e, d)
        BY <1>0, <1>3, <2>3, <3>2 DEF Sound, FitsWindow, Fits, Agree
      <4> HIDE DEF e, d
      <4>2. j = d
        BY <4>1, SlotFacts
      <4>3. k <= Len(Stream)
        BY <1>0, StreamPackets DEF Arrives
      <4> QED BY <1>0, <1>3, <4>2, <4>3
    <3> QED BY <2>2, <2>4, <3>1, <3>2
  <2> HIDE DEF r
  <2>5. Placed(r)
    BY <2>2, <2>4 DEF Sound, Placed
  <2>6. ~(k <= b.past)
    BY <1>0, <1>3
  <2> QED BY <1>1, <2>1, <2>2, <2>5, <2>6 DEF Sound, p, r
<1>4. CASE r = b
  BY <1>4 DEF p
<1> QED BY <1>2, <1>3, <1>4, HandlePlaces DEF Sound, p

\* skip_gap keeps positions.
LEMMA SkipPlaced ==
    ASSUME WindowDividesSpace, NEW b, Sound(b), b.past < Len(Stream)
    PROVE  Sound(SkipGap(b)) /\ SkipGap(b).past > b.past
<1> DEFINE a == [b EXCEPT !.reasm = <<>>, !.busy = FALSE]
<1>1. SkipGap(b) = DeliverBuffered(Advance(a, 1))
  BY DEF SkipGap
<1>2. /\ HasWindow(a) /\ a.expected = b.expected /\ a.bitmap = b.bitmap
      /\ a.occ = b.occ /\ a.past = b.past
  BY DEF Sound, FitsWindow, HasWindow
<1> HIDE DEF a
<1>3. StreamOK(SkipGap(b))
  BY SkipGapTyped DEF Sound
<1> QED BY <1>1, <1>2, <1>3, PassPlaced DEF Sound

\* A stream at the end of the packets has nothing buffered.
LEMMA EndIsEmpty ==
    ASSUME WindowDividesSpace, NEW b, Sound(b), b.occ # {}
    PROVE  b.past < Len(Stream)
<1> DEFINE e == b.expected
<1>1. PICK i \in b.occ : TRUE
  OBVIOUS
<1>2. i \in 0 .. RxWin - 1 /\ e \in SeqCounts /\ RxWin \in Nat \ {0} /\ b.past \in Nat
      /\ SeqSpace \in Nat \ {0} /\ SeqSpace % RxWin = 0
  BY RxAssumption, SeqSpaceAssumption
     DEF Sound, StreamOK, BackendOK, SlotIndices, Placed, WindowDividesSpace
<1>3. Len(Stream) \in Nat
  BY StreamPackets
<1> DEFINE x == i - e
           j == x % RxWin
<1>4. x \in Int /\ e \in Int
  BY <1>2 DEF SeqCounts
<1>5. j \in 0 .. RxWin - 1
  BY <1>2, <1>4, DivMod
<1>6. Slot(e, j) = i
  <2>1. ((e + j) % SeqSpace) % RxWin = (e + j) % RxWin
    <3>1. e + j \in Int
      BY <1>2, <1>4, <1>5
    <3> QED BY <1>2, <3>1, ModMod
  <2>2. (e + j) % RxWin = i
    <3> HIDE DEF x
    <3>1. ((x % RxWin) + e) % RxWin = (x + e) % RxWin
      BY <1>2, <1>4, ModAdd, Zenon
    <3>2. x + e = RxWin * 0 + i
      BY <1>2, <1>4 DEF x
    <3>3. (RxWin * 0 + i) % RxWin = i
      BY <1>2, ModUnique
    <3>4. j + e = e + j
      BY <1>2, <1>4, <1>5
    <3> QED BY <3>1, <3>2, <3>3, <3>4
  <2> QED BY <2>1, <2>2 DEF Slot, SlotIdx, SeqAdd
<1> HIDE DEF j
<1>7. j # 0
  BY <1>1, <1>6 DEF Sound, FitsWindow, Fits
<1>8. j \in 1 .. RxWin - 1
  BY <1>2, <1>5, <1>7
<1>9. b.past + 1 + j <= Len(Stream)
  BY <1>1, <1>6, <1>8 DEF Sound, Placed
<1> QED BY <1>2, <1>3, <1>8, <1>9

\* The positions of the stream.
PositionState ==
    /\ Fits(expected_seq, recv_bitmap, occupied)
    /\ passed \in Nat /\ passed <= Len(Stream) /\ expected_seq = SeqAdd(0, passed)
    /\ \A j \in 1 .. RxWin - 1 : Slot(expected_seq, j) \in occupied => passed + 1 + j <= Len(Stream)

\* b is the stream as it is, but for the number of its EOS
AsItIs(b) ==
    /\ b.expected = expected_seq /\ b.bitmap = recv_bitmap /\ b.occ = occupied /\ b.past = passed
    /\ b.meta = slot_meta /\ b.cells = store /\ b.reasm = reassembly /\ b.busy = in_progress
    /\ b.msg = message /\ b.seen = eos_observed /\ b.ackdl = ack_deadline
    /\ b.progdl = progress_deadline /\ b.reaps = reaps /\ b.err = FALSE

\* The stream that is handed on is sound.
LEMMA HandedSound ==
    ASSUME ReceiverTypes, PositionState
    PROVE  /\ Sound(Current) /\ AsItIs(Current) /\ Current.eos = eos_seq
           /\ \A x \in SeqCounts \cup {Unknown} :
                 LET b == [Current EXCEPT !.eos = x] IN Sound(b) /\ AsItIs(b) /\ b.eos = x
<1>1. AsItIs(Current) /\ HasWindow(Current) /\ Current.eos = eos_seq
  BY DEF AsItIs, Current, HasWindow
<1>2. ASSUME NEW b, AsItIs(b), HasWindow(b), StreamOK(b) PROVE Sound(b)
  <2>1. FitsWindow(b)
    BY <1>2 DEF AsItIs, FitsWindow, PositionState
  <2>2. Placed(b)
    BY <1>2 DEF AsItIs, Placed, PositionState
  <2> QED BY <1>2, <2>1, <2>2 DEF Sound
<1>3. Sound(Current)
  BY <1>1, <1>2, HandedTypes DEF HandedTyped
<1>4. ASSUME NEW x \in SeqCounts \cup {Unknown}
      PROVE  LET b == [Current EXCEPT !.eos = x] IN Sound(b) /\ AsItIs(b) /\ b.eos = x
  <2> DEFINE b == [Current EXCEPT !.eos = x]
  <2>1. AsItIs(b) /\ HasWindow(b) /\ b.eos = x
    BY DEF AsItIs, Current, HasWindow
  <2>2. StreamOK(b)
    BY HandedTypes DEF HandedTyped
  <2> HIDE DEF b
  <2>3. Sound(b)
    BY <1>2, <2>1, <2>2
  <2> QED BY <2>1, <2>3 DEF b
<1> QED BY <1>1, <1>3, <1>4

\* The number of the EOS packet, once it has arrived.
Noted(k) == IF eos_seq = Unknown THEN Packet(k).seq ELSE eos_seq

\* The arrival of packet k, on one connection: the stream as it is meets handle_data.
ArrivalAt(b, k) ==
    /\ rx_pc = "select" /\ Sound(b) /\ AsItIs(b) /\ Arrives(b, k) /\ DriveSegment(b, Packet(k))
    /\ \/ Stream[k].kind # "Eos" /\ b.eos = eos_seq /\ ~EosReached(Current)
       \/ Stream[k].kind = "Eos" /\ b.eos = Noted(k)

\* On one connection no stream is replaced.
LEMMA ArrivalIs ==
    ASSUME ReceiverTypes, PositionState, MaxReaps = 0, reaps = 0,
           NEW k \in 1 .. Len(Stream), Arrive(k)
    PROVE  \E b : ArrivalAt(b, k)
<1> DEFINE p == Packet(k)
<1>1. PacketOK(p) /\ p.kind = Stream[k].kind /\ k - 1 - passed \in -MaxAge .. RxWin
  BY StreamPackets DEF Arrive
<1>2. ASSUME NEW b, AsItIs(b) PROVE Arrives(b, k)
  BY <1>1, <1>2 DEF AsItIs, Arrives
<1>3. CASE ReceiveData(p)
  <2>1. rx_pc = "select" /\ p.kind # "Eos" /\ ~EosReached(Current) /\ DriveSegment(Current, p)
    BY <1>3 DEF ReceiveData
  <2>2. ArrivalAt(Current, k)
    BY <1>1, <1>2, <2>1, HandedSound DEF ArrivalAt
  <2> QED BY <2>2
<1>4. CASE ReceiveEos(p)
  <2> DEFINE x == Noted(k)
             b == [Current EXCEPT !.eos = x]
  <2>1. x \in SeqCounts \cup {Unknown}
    BY <1>1 DEF Noted, PacketOK, ReceiverTypes, DriverTypes
  <2>2. Current.eos = eos_seq
    BY HandedSound
  <2>3. [Current EXCEPT !.eos = IF @ = Unknown THEN p.seq ELSE @] = b
    BY <2>2 DEF Noted
  <2>4. rx_pc = "select" /\ p.kind = "Eos" /\ DriveSegment(b, p)
    BY <1>4, <2>3 DEF ReceiveEos
  <2>5. Sound(b) /\ AsItIs(b) /\ b.eos = x
    BY <2>1, HandedSound
  <2> HIDE DEF b, x
  <2>6. ArrivalAt(b, k)
    BY <1>1, <1>2, <2>4, <2>5 DEF ArrivalAt, x
  <2> QED BY <2>6
<1> QED BY <1>3, <1>4 DEF Arrive

\* What the driver does with the stream that handle_data leaves.
LEMMA ArrivalLeaves ==
    ASSUME NEW b, NEW k, ArrivalAt(b, k)
    PROVE  LET r == HandleData(b, Packet(k))
           IN  \/ r.err /\ Stop("error")
               \/ /\ ~r.err /\ OnData(b, r) /\ rx_pc' = "drive" /\ UNCHANGED events
                  /\ \E msg \in {r.msg, NoMessage} : SetStream(b, r, msg)
  BY DEF ArrivalAt, DriveSegment

\* SetStream, on the positions.
LEMMA SetStreamPlaced ==
    ASSUME NEW before, NEW b, Sound(b), NEW msg, SetStream(before, b, msg)
    PROVE  PositionState' /\ passed' = b.past /\ occupied' = b.occ
  BY DEF SetStream, Sound, FitsWindow, Placed, PositionState

\* the progress timer is armed only where segments are buffered
GapsOnly ==
    /\ progress_deadline => ProgressTimer
    /\ rx_pc = "drive" /\ result.progress_timer = "start" => ProgressTimer /\ occupied # {}
    /\ rx_pc = "select" /\ progress_deadline => occupied # {}
    /\ rx_pc = "drive" /\ result.progress_timer = "keep" /\ progress_deadline => occupied # {}

PositionInv == ReceiverTypes /\ PositionState /\ GapsOnly /\ reaps = 0

\* The arrival of a packet keeps the positions.
LEMMA ArrivalPlaced ==
    ASSUME WindowDividesSpace, NumbersApart, PositionInv, NEW b, NEW k, ArrivalAt(b, k)
    PROVE  PositionState' /\ GapsOnly' /\ reaps' = 0 /\ passed' >= passed
<1> DEFINE r == HandleData(b, Packet(k))
<1>1. Sound(r) /\ (r.past > b.past \/ (r.past = b.past /\ b.occ \subseteq r.occ))
  BY HandlePlaced DEF ArrivalAt
<1>2. /\ b.past = passed /\ b.occ = occupied /\ b.progdl = progress_deadline /\ b.reaps = 0
      /\ passed \in Nat /\ rx_pc = "select"
  BY DEF ArrivalAt, AsItIs, PositionInv, PositionState
<1>3. CASE r.err /\ Stop("error")
  BY <1>2, <1>3 DEF Stop, rx_backend, rx_acks, PositionInv, PositionState, GapsOnly
<1>4. CASE /\ ~r.err /\ OnData(b, r) /\ rx_pc' = "drive"
           /\ \E msg \in {r.msg, NoMessage} : SetStream(b, r, msg)
  <2> HIDE DEF r
  <2>1. PICK msg : SetStream(b, r, msg)
    BY <1>4
  <2>2. PositionState' /\ passed' = r.past /\ occupied' = r.occ
    BY <1>1, <2>1, SetStreamPlaced
  <2>3. progress_deadline' = progress_deadline /\ reaps' = 0
    BY <1>2, <2>1 DEF SetStream
  <2>4. r.past >= passed /\ (r.past = passed => occupied \subseteq r.occ)
    BY <1>1, <1>2 DEF Sound, Placed
  <2>5. result'.progress_timer = CASE ProgressTimer /\ r.occ # {} -> "start"
                                   [] ProgressTimer /\ r.occ = {} /\ r.past # b.past -> "stop"
                                   [] OTHER -> "keep"
    BY <1>4 DEF OnData
  <2>6. GapsOnly'
    <3>1. progress_deadline => ProgressTimer /\ occupied # {}
      BY <1>2 DEF PositionInv, GapsOnly
    <3> QED BY <1>2, <1>4, <2>2, <2>3, <2>4, <2>5, <3>1 DEF GapsOnly
  <2> QED BY <2>2, <2>3, <2>4, <2>6
<1> QED BY <1>3, <1>4, ArrivalLeaves

\* The expiry of the progress timer, too: a gap is skipped only before buffered segments.
LEMMA SkipKeeps ==
    ASSUME WindowDividesSpace, PositionInv, ProgressTimeout
    PROVE  PositionState' /\ GapsOnly' /\ reaps' = 0 /\ passed' >= passed /\ passed < Len(Stream)
<1> DEFINE c == Current
           r == SkipGap(c)
<1>1. Sound(c) /\ c.past = passed /\ c.occ = occupied /\ c.reaps = 0 /\ passed \in Nat
  BY HandedSound DEF PositionInv, AsItIs, PositionState
<1>2. occupied # {} /\ rx_pc = "select"
  BY DEF ProgressTimeout, PositionInv, GapsOnly
<1>3. c.past < Len(Stream)
  BY <1>1, <1>2, EndIsEmpty
<1>4. Sound(r) /\ r.past > c.past
  BY <1>1, <1>3, SkipPlaced
<1>5. CASE r.err
  <2>1. Stop("error")
    BY <1>5 DEF ProgressTimeout
  <2> QED BY <1>1, <1>3, <2>1 DEF Stop, rx_backend, rx_acks, PositionInv, PositionState, GapsOnly
<1>6. CASE ~r.err
  <2> DEFINE before == [c EXCEPT !.progdl = FALSE]
  <2>1. SetStream(before, r, r.msg) /\ OnGapSkip(r) /\ rx_pc' = "drive"
    BY <1>6 DEF ProgressTimeout
  <2>2. before.progdl = FALSE /\ before.reaps = 0
    BY <1>1 DEF Current, PositionInv
  <2> HIDE DEF before, c, r
  <2>3. PositionState' /\ passed' = r.past /\ occupied' = r.occ
    BY <1>4, <2>1, SetStreamPlaced
  <2>4. progress_deadline' = FALSE /\ reaps' = 0
    BY <2>1, <2>2 DEF SetStream
  <2>5. result'.progress_timer = CASE r.occ = {} -> "stop"
                                   [] r.occ # {} /\ ProgressTimer -> "start"
                                   [] OTHER -> "keep"
    BY <2>1 DEF OnGapSkip, NoResult
  <2>6. GapsOnly'
    BY <2>1, <2>3, <2>4, <2>5 DEF GapsOnly
  <2>7. passed' >= passed
    BY <1>1, <1>4, <2>3 DEF Sound, Placed
  <2> QED BY <1>1, <1>3, <2>3, <2>4, <2>6, <2>7
<1> QED BY <1>5, <1>6

\* All other steps leave the positions as they are.
Elsewhere == \/ AckTimeout \/ DriveActions \/ RxLinkFails \/ RxStopped \/ RecvData \/ RecvEos
             \/ UNCHANGED rx_vars

LEMMA ElsewhereKeeps ==
    ASSUME PositionInv, Elsewhere
    PROVE  /\ PositionState' /\ GapsOnly' /\ reaps' = 0
           /\ UNCHANGED <<expected_seq, recv_bitmap, occupied, slot_meta, store, reassembly,
                          in_progress, passed, eos_seq, reaps>>
<1>1. UNCHANGED <<expected_seq, recv_bitmap, occupied, slot_meta, store, reassembly,
                  in_progress, passed, eos_seq, reaps>>
  BY DEF Elsewhere, AckTimeout, DriveActions, RxLinkFails, Stop, RxStopped, RecvData, RecvEos,
         rx_vars, rx_backend
<1>2. GapsOnly'
  <2>1. CASE AckTimeout
    <3>1. result'.progress_timer = "keep" /\ rx_pc = "select" /\ rx_pc' = "drive"
          /\ progress_deadline' = progress_deadline
      BY <2>1 DEF AckTimeout, OnAckTimeout, NoResult
    <3> QED BY <1>1, <3>1 DEF PositionInv, GapsOnly
  <2>2. CASE DriveActions
    <3>1. /\ rx_pc = "drive" /\ rx_pc' = "select"
          /\ progress_deadline' = Applied(result.progress_timer, progress_deadline)
          /\ result.progress_timer \in {"start", "stop", "keep"}
      BY <2>2 DEF DriveActions, PositionInv, ReceiverTypes, DriverTypes
    <3>2. \A x : Applied("start", x) = TRUE /\ Applied("stop", x) = FALSE /\ Applied("keep", x) = x
      BY DEF Applied
    <3> QED BY <1>1, <3>1, <3>2 DEF PositionInv, GapsOnly
  <2>3. CASE RxLinkFails
    <3>1. rx_pc' = "failed" /\ progress_deadline' = progress_deadline
      BY <2>3 DEF RxLinkFails, Stop, rx_acks
    <3> QED BY <3>1 DEF PositionInv, GapsOnly
  <2>4. CASE RxStopped \/ RecvData \/ RecvEos \/ UNCHANGED rx_vars
    <3>1. UNCHANGED <<rx_pc, result, progress_deadline>>
      BY <2>4 DEF RxStopped, RecvData, RecvEos, rx_vars, rx_acks
    <3> QED BY <1>1, <3>1 DEF PositionInv, GapsOnly
  <2> QED BY <2>1, <2>2, <2>3, <2>4 DEF Elsewhere
<1> QED BY <1>1, <1>2 DEF PositionInv, PositionState

\* A step of the receiver is an arrival, the expiry of the progress timer or another one.
LEMMA StepCases ==
    ASSUME PositionInv, MaxReaps = 0, [RxNext]_rx_vars
    PROVE  \/ \E k \in 1 .. Len(Stream) : \E b : ArrivalAt(b, k)
           \/ ProgressTimeout \/ Elsewhere
  BY ArrivalIs DEF RxNext, Elsewhere, PositionInv

\* The positions hold at all times.
LEMMA PositionStep ==
    ASSUME WindowDividesSpace, NumbersApart, MaxReaps = 0, PositionInv, [RxNext]_rx_vars
    PROVE  PositionInv'
<1>1. ReceiverTypes'
  BY ReceiverTypesStep DEF PositionInv
<1> QED BY <1>1, StepCases, ArrivalPlaced, SkipKeeps, ElsewhereKeeps DEF PositionInv

LEMMA PositionInit == RxInit => PositionInv
<1> SUFFICES ASSUME RxInit PROVE PositionInv
  OBVIOUS
<1>1. SeqAdd(0, 0) = 0
  <2>1. SeqSpace \in Nat \ {0} /\ 0 \in 0 .. SeqSpace - 1 /\ 0 \in Int /\ 0 + 0 = SeqSpace * 0 + 0
    BY SeqSpaceAssumption
  <2>2. (SeqSpace * 0 + 0) % SeqSpace = 0
    BY <2>1, ModUnique
  <2> QED BY <2>1, <2>2 DEF SeqAdd
<1>2. PositionState
  BY <1>1, StreamPackets, SeqSpaceAssumption DEF RxInit, PositionState, Fits, Agree, SeqCounts
<1>3. GapsOnly
  BY DEF RxInit, GapsOnly
<1> QED BY <1>2, <1>3, ReceiverTypesInit DEF PositionInv, RxInit

\* done() of the peer is its last packet.
EosIsFinal == \A k \in 1 .. Len(Stream) : Stream[k].kind = "Eos" => k = Len(Stream)

\* The EOS is behind all packets, it is reported when all are passed, and then nothing more
\* is delivered.
EndInv ==
    /\ Sequential(events)
    /\ \A k \in 1 .. Len(events) : events[k].kind = "Eos" => k = Len(events) /\ eos_observed
    /\ eos_observed => passed = Len(Stream) /\ eos_seq # Unknown /\ ~message.ready
    /\ eos_seq # Unknown =>
          /\ Len(Stream) >= 1 /\ eos_seq = SeqAdd(0, Len(Stream) - 1)
          /\ passed + 1 + RxWin >= Len(Stream)

\* The end is reached when every packet is passed.
LEMMA EndReached ==
    ASSUME NumbersApart, PositionInv, EndInv, eos_seq # Unknown
    PROVE  EosReached(Current) <=> passed = Len(Stream)
<1> DEFINE l == Len(Stream)
           x == passed - (l - 1)
           d == SeqSub(expected_seq, eos_seq)
<1>1. /\ l \in Nat /\ l >= 1 /\ eos_seq = SeqAdd(0, l - 1) /\ expected_seq = SeqAdd(0, passed)
      /\ passed \in Nat /\ passed <= l /\ passed + 1 + RxWin >= l
      /\ SeqSpace \in Nat /\ SeqSpace >= 4 /\ RxWin \in Nat \ {0} /\ 2 * RxWin <= SeqSpace
  BY StreamPackets, SeqSpaceAssumption, RxAssumption DEF EndInv, PositionInv, PositionState, NumbersApart
<1>2. EosReached(Current) <=> SeqStrictlyPast(expected_seq, eos_seq)
  BY DEF EosReached, Current
<1> HIDE DEF l
<1>3. d = x % SeqSpace
  <2> DEFINE u == passed
             v == l - 1
             m == v % SeqSpace
             q == v \div SeqSpace
  <2>1. u \in Int /\ v \in Int /\ 0 + u = u /\ 0 + v = v /\ x = u - v /\ SeqSpace \in Nat \ {0}
    BY <1>1
  <2>2. expected_seq = u % SeqSpace /\ eos_seq = m
    BY <1>1, <2>1 DEF SeqAdd
  <2>3. m \in 0 .. SeqSpace - 1 /\ q \in Int /\ v = SeqSpace * q + m
    BY <2>1, DivMod
  <2> HIDE DEF u, v, m, q
  <2> DEFINE w == -m
             y == u + w
  <2>4. w \in Int /\ y \in Int /\ -q \in Int
    BY <2>1, <2>3
  <2>5. ((u % SeqSpace) + w) % SeqSpace = (u + w) % SeqSpace
    BY <2>1, <2>4, ModAdd, Zenon
  <2>6. (u % SeqSpace) - m = (u % SeqSpace) + w
    <3>1. u % SeqSpace \in Int
      BY <2>1, DivMod
    <3> QED BY <2>3, <3>1
  <2>7. x = SeqSpace * (-q) + y
    <3> DEFINE z == SeqSpace * q
    <3>1. z \in Int /\ v = z + m /\ SeqSpace * (-q) = -z
      BY <2>1, <2>3
    <3> HIDE DEF z
    <3> QED BY <2>1, <2>3, <3>1
  <2> HIDE DEF w, x
  <2>8. (SeqSpace * (-q) + y) % SeqSpace = y % SeqSpace
    <3> HIDE DEF y
    <3> QED BY <2>1, <2>4, ModMultiple
  <2> QED BY <2>2, <2>5, <2>6, <2>7, <2>8 DEF SeqSub
<1>4. x \in Int /\ x <= 1 /\ x >= -RxWin /\ (x = 1 <=> passed = l)
  BY <1>1
<1> DEFINE h == SeqSpace \div 2
<1>5. h \in Int /\ h >= 2 /\ SeqSpace - RxWin >= h
  BY <1>1
<1>6. SeqStrictlyPast(expected_seq, eos_seq) <=> d > 0 /\ d < h
  BY DEF SeqStrictlyPast
<1> HIDE DEF d, h, x
<1>7. CASE x >= 0
  <2>1. x \in 0 .. SeqSpace - 1 /\ x = SeqSpace * 0 + x /\ 0 \in Int /\ SeqSpace \in Nat \ {0}
    BY <1>1, <1>4, <1>7
  <2>2. (SeqSpace * 0 + x) % SeqSpace = x
    BY <2>1, ModUnique
  <2>3. d = x
    BY <1>3, <2>1, <2>2
  <2> QED BY <1>2, <1>4, <1>5, <1>6, <1>7, <2>3 DEF l
<1>8. CASE x < 0
  <2> DEFINE y == x + SeqSpace
  <2>1. y \in 0 .. SeqSpace - 1 /\ x = SeqSpace * (-1) + y /\ -1 \in Int /\ y >= h /\ SeqSpace \in Nat \ {0}
    BY <1>1, <1>4, <1>5, <1>8
  <2> HIDE DEF y
  <2>2. (SeqSpace * (-1) + y) % SeqSpace = y
    BY <2>1, ModUnique
  <2>3. d = y
    BY <1>3, <2>1, <2>2
  <2> QED BY <1>2, <1>4, <1>5, <1>6, <1>8, <2>1, <2>3 DEF l
<1> QED BY <1>4, <1>7, <1>8

\* The arrival of a packet.
LEMMA ArrivalEnd ==
    ASSUME WindowDividesSpace, NumbersApart, EosIsFinal, PositionInv, EndInv,
           NEW k \in 1 .. Len(Stream), NEW b, ArrivalAt(b, k)
    PROVE  EndInv'
<1> DEFINE r == HandleData(b, Packet(k))
<1>1. passed' >= passed /\ passed' \in Nat /\ passed \in Nat /\ RxWin \in Nat /\ k \in Nat
      /\ Len(Stream) \in Nat
  BY ArrivalPlaced, StreamPackets, RxAssumption DEF PositionInv, PositionState
<1>2. CASE Stop("error")
  BY <1>2 DEF Stop, rx_backend, EndInv
<1>3. CASE /\ UNCHANGED events
           /\ \E msg \in {r.msg, NoMessage} : SetStream(b, r, msg)
  <2>1. PICK msg \in {r.msg, NoMessage} : SetStream(b, r, msg)
    BY <1>3
  <2>2. eos_observed' = eos_observed /\ eos_seq' = b.eos /\ passed' = r.past /\ message' = msg
    BY <2>1 DEF SetStream, ArrivalAt, AsItIs
  <2>3. ASSUME b.eos # Unknown
        PROVE  /\ Len(Stream) >= 1 /\ b.eos = SeqAdd(0, Len(Stream) - 1)
               /\ passed + 1 + RxWin >= Len(Stream)
    <3>1. CASE b.eos = eos_seq
      BY <2>3, <3>1 DEF EndInv
    <3>2. CASE b.eos # eos_seq
      <4>1. Stream[k].kind = "Eos" /\ b.eos = Packet(k).seq
        BY <3>2 DEF ArrivalAt, Noted
      <4>2. k = Len(Stream) /\ b.eos = SeqAdd(0, k - 1) /\ k - 1 - passed <= RxWin
        <5>1. k - 1 - b.past \in -MaxAge .. RxWin /\ b.past = passed /\ MaxAge \in Nat
          BY StreamAssumption DEF ArrivalAt, Arrives, AsItIs
        <5>2. k - 1 - passed <= RxWin
          BY <1>1, <5>1
        <5> QED BY <4>1, <5>2 DEF EosIsFinal, Packet
      <4> QED BY <1>1, <4>2
    <3> QED BY <3>1, <3>2
  <2>4. ASSUME eos_observed
        PROVE  r = b /\ b.eos = eos_seq
    <3>1. passed = Len(Stream) /\ eos_seq # Unknown
      BY <2>4 DEF EndInv
    <3>2. EosReached(Current)
      BY <3>1, EndReached
    <3>3. b.eos = eos_seq /\ k <= b.past
      BY <1>1, <3>1, <3>2 DEF ArrivalAt, AsItIs, Noted
    <3> QED BY <3>3, HandlePlaced DEF ArrivalAt
  <2>5. eos_observed' => passed' = Len(Stream) /\ eos_seq' # Unknown /\ ~message'.ready
    <3> SUFFICES ASSUME eos_observed
                 PROVE  passed' = Len(Stream) /\ eos_seq' # Unknown /\ ~message'.ready
      BY <2>2
    <3>1. r = b /\ b.eos = eos_seq /\ b.past = passed /\ b.msg = message
      BY <2>4 DEF ArrivalAt, AsItIs
    <3>2. passed = Len(Stream) /\ eos_seq # Unknown /\ ~message.ready
      BY DEF EndInv
    <3>3. msg \in {message, NoMessage} /\ passed' = passed /\ eos_seq' = eos_seq
      BY <2>1, <2>2, <3>1
    <3>4. ~NoMessage.ready
      BY DEF NoMessage
    <3> QED BY <2>2, <3>2, <3>3, <3>4
  <2>6. eos_seq' # Unknown =>
          /\ Len(Stream) >= 1 /\ eos_seq' = SeqAdd(0, Len(Stream) - 1)
          /\ passed' + 1 + RxWin >= Len(Stream)
    BY <1>1, <2>2, <2>3
  <2>7. UNCHANGED <<events, eos_observed>>
    BY <1>3, <2>2
  <2> QED BY <2>5, <2>6, <2>7 DEF EndInv
<1> QED BY <1>2, <1>3, ArrivalLeaves

\* recv() of a message, and of the end.
LEMMA ConsumeEnd ==
    ASSUME NumbersApart, PositionInv, EndInv, RecvData \/ RecvEos
    PROVE  EndInv'
<1>0. PICK T : events \in Seq(T)
  BY DEF EndInv, Sequential
<1>1. ASSUME NEW e, events' = Append(events, e), ~eos_observed, e.kind = "Eos" => eos_observed'
      PROVE  /\ Sequential(events')
             /\ \A k \in 1 .. Len(events') : events'[k].kind = "Eos" => k = Len(events') /\ eos_observed'
  <2> DEFINE U == T \cup {e}
  <2>1. events \in Seq(U) /\ e \in U
    BY <1>0
  <2> HIDE DEF U
  <2>2. /\ events' \in Seq(U) /\ Len(events') = Len(events) + 1 /\ Len(events) \in Nat
        /\ events'[Len(events) + 1] = e /\ \A k \in 1 .. Len(events) : events'[k] = events[k]
    BY <1>1, <2>1
  <2>3. ASSUME NEW k \in 1 .. Len(events'), events'[k].kind = "Eos"
        PROVE  k = Len(events') /\ eos_observed'
    <3>1. CASE k \in 1 .. Len(events)
      BY <1>1, <2>2, <2>3, <3>1 DEF EndInv
    <3>2. CASE k = Len(events) + 1
      BY <1>1, <2>2, <2>3, <3>2
    <3> QED BY <2>2, <3>1, <3>2
  <2> QED BY <2>2, <2>3 DEF Sequential
<1>2. CASE RecvData
  <2> DEFINE e == [kind |-> "Data", bytes |-> message.bytes]
  <2>1. events' = Append(events, e) /\ ~eos_observed /\ e.kind # "Eos"
        /\ UNCHANGED <<eos_observed, eos_seq, passed>>
    BY <1>2 DEF RecvData, EndInv
  <2> HIDE DEF e
  <2>2. /\ Sequential(events')
        /\ \A k \in 1 .. Len(events') : events'[k].kind = "Eos" => k = Len(events') /\ eos_observed'
    BY <1>1, <2>1
  <2> QED BY <2>1, <2>2 DEF EndInv
<1>3. CASE RecvEos
  <2> DEFINE e == [kind |-> "Eos", bytes |-> <<>>]
  <2>1. events' = Append(events, e) /\ ~eos_observed /\ eos_observed' = TRUE /\ ~message.ready
        /\ EosReached(Current) /\ UNCHANGED <<message, eos_seq, passed>>
    BY <1>3 DEF RecvEos, rx_backend
  <2> HIDE DEF e
  <2>2. /\ Sequential(events')
        /\ \A k \in 1 .. Len(events') : events'[k].kind = "Eos" => k = Len(events') /\ eos_observed'
    BY <1>1, <2>1
  <2>3. eos_seq # Unknown
    BY <2>1 DEF EosReached, Current
  <2>4. passed = Len(Stream)
    BY <2>1, <2>3, EndReached
  <2> QED BY <2>1, <2>2, <2>3, <2>4 DEF EndInv
<1> QED BY <1>2, <1>3

\* The end of the stream is reported once, and no data after it, for every stream of one
\* connection whose EOS is its last packet, whatever is lost, late, repeated or skipped, by
\* both backends.
THEOREM EndComesLast ==
    ASSUME WindowDividesSpace, NumbersApart, EosIsFinal, MaxReaps = 0
    PROVE  RxSpec => []EosIsLast
<1>1. RxInit => PositionInv /\ EndInv
  <2>1. RxInit => EndInv
    <3>1. Sequential(<<>>) /\ Len(<<>>) = 0
      BY Joins
    <3> QED BY <3>1 DEF RxInit, EndInv
  <2> QED BY <2>1, PositionInit
<1>2. PositionInv /\ EndInv /\ [RxNext]_rx_vars => (PositionInv /\ EndInv)'
  <2> SUFFICES ASSUME PositionInv, EndInv, [RxNext]_rx_vars
               PROVE  PositionInv' /\ EndInv'
    OBVIOUS
  <2>1. PositionInv'
    BY PositionStep
  <2>2. ASSUME NEW k \in 1 .. Len(Stream), NEW b, ArrivalAt(b, k) PROVE EndInv'
    BY <2>2, ArrivalEnd
  <2>3. CASE ProgressTimeout
    <3>1. passed < Len(Stream) /\ passed' >= passed /\ passed \in Nat /\ passed' \in Nat
          /\ Len(Stream) \in Nat /\ RxWin \in Nat
      BY <2>1, <2>3, SkipKeeps, StreamPackets, RxAssumption DEF PositionInv, PositionState
    <3>2. ~eos_observed
      BY <3>1 DEF EndInv
    <3>3. UNCHANGED <<eos_observed, eos_seq, events>>
      BY <2>3 DEF ProgressTimeout, SetStream, Stop, Current
    <3> QED BY <2>1, <3>1, <3>2, <3>3 DEF EndInv
  <2>4. CASE RecvData \/ RecvEos
    BY <2>1, <2>4, ConsumeEnd
  <2>5. CASE AckTimeout \/ DriveActions \/ RxLinkFails \/ RxStopped \/ UNCHANGED rx_vars
    <3>1. UNCHANGED <<eos_observed, eos_seq, events, passed, message>>
      BY <2>5 DEF AckTimeout, DriveActions, RxLinkFails, Stop, RxStopped, rx_vars, rx_backend
    <3> QED BY <2>1, <3>1 DEF EndInv
  <2> QED BY <2>1, <2>2, <2>3, <2>4, <2>5, StepCases DEF Elsewhere
<1>3. EndInv => EosIsLast
  <2> SUFFICES ASSUME EndInv, NEW k \in DOMAIN events, events[k].kind = "Eos" PROVE k = Len(events)
    BY DEF EosIsLast
  <2>1. PICK T : events \in Seq(T)
    BY DEF EndInv, Sequential
  <2>2. k \in 1 .. Len(events)
    BY <2>1
  <2> QED BY <2>2 DEF EndInv
<1> QED BY <1>1, <1>2, <1>3, PTL DEF RxSpec
-----------------------------------------------------------------------------
(* Messages.                                                               *)

\* Packets have kinds and bytes, and bytes carry the number of their message.
LEMMA CutFacts ==
    ASSUME NEW k \in 1 .. Len(Stream)
    PROVE  /\ Stream[k].bytes \in Seq(Nat \X Nat) /\ Stream[k].kind \in PacketKinds
           /\ Len(Stream[k].bytes) \in Nat /\ Sequential(Stream[k].bytes)
           /\ Carries(k) => Len(Stream[k].bytes) >= 1 /\ PacketMessage(k) \in Nat /\ PacketStart(k) \in Nat
<1> DEFINE T == [kind : PacketKinds, bytes : Seq(Nat \X Nat)]
<1>1. Stream[k] \in T
  <2>1. Stream \in Seq(T)
    BY StreamAssumption
  <2> HIDE DEF T
  <2> QED BY <2>1
<1> DEFINE s == Stream[k].bytes
<1>2. s \in Seq(Nat \X Nat) /\ Stream[k].kind \in PacketKinds
  BY <1>1
<1>3. Carries(k) => PacketStart(k) \in Nat
  BY StreamAssumption DEF StreamIsCut
<1> HIDE DEF s
<1>4. Len(s) \in Nat /\ (s # <<>> => Len(s) >= 1 /\ s[1] \in Nat \X Nat)
  BY <1>2
<1>5. Sequential(s)
  BY <1>2 DEF Sequential
<1>6. s # <<>> => s[1][1] \in Nat
  BY <1>4
<1> QED BY <1>2, <1>3, <1>4, <1>5, <1>6 DEF s, Carries, PacketMessage

\* s holds the bytes of message m that the first q packets carry
Covers(s, m, q) ==
    /\ \A j \in 1 .. Len(s) :
          /\ s[j] = <<m, j>>
          /\ \E k \in 1 .. q : \E l \in 1 .. Len(Stream[k].bytes) : Stream[k].bytes[l] = s[j]
    /\ \A k \in 1 .. q : Carries(k) /\ PacketMessage(k) = m =>
          PacketStart(k) + Len(Stream[k].bytes) <= Len(s)

\* s is the beginning of a message, up to packet q
Partial(s, q) ==
    /\ q \in 1 .. Len(Stream) /\ GoesOn(q)
    /\ Len(s) = PacketStart(q) + Len(Stream[q].bytes) /\ Covers(s, PacketMessage(q), q)

\* s is a message, and the packets behind the first q are of later ones
Whole(s, q) ==
    /\ s[1][1] \in Nat /\ Covers(s, s[1][1], Len(Stream))
    /\ \A k \in q + 1 .. Len(Stream) : Carries(k) => s[1][1] < PacketMessage(k)

\* A packet that starts a message.
LEMMA StartCovers ==
    ASSUME NEW k \in 1 .. Len(Stream), Carries(k), ~Continues(k)
    PROVE  /\ Covers(Stream[k].bytes, PacketMessage(k), k) /\ PacketStart(k) = 0
           /\ Len(Stream[k].bytes) >= 1
<1> DEFINE s == Stream[k].bytes
           m == PacketMessage(k)
<1>1. /\ PacketStart(k) = 0 /\ \A j \in 1 .. Len(s) : s[j] = <<m, PacketStart(k) + j>>
      /\ \A i \in 1 .. k - 1 : Carries(i) => PacketMessage(i) < m
  BY StreamAssumption DEF StreamIsCut
<1>2. Len(s) \in Nat /\ m \in Nat /\ k \in Nat /\ Len(Stream) \in Nat /\ Len(s) >= 1
  BY CutFacts, StreamPackets
<1>3. ASSUME NEW j \in 1 .. Len(s)
      PROVE  s[j] = <<m, j>> /\ \E i \in 1 .. k : \E l \in 1 .. Len(Stream[i].bytes) : Stream[i].bytes[l] = s[j]
  <2>1. 0 + j = j /\ k \in 1 .. k
    BY <1>2
  <2>2. s[j] = <<m, j>>
    BY <1>1, <2>1
  <2> QED BY <2>1, <2>2
<1>4. ASSUME NEW i \in 1 .. k, Carries(i), PacketMessage(i) = m
      PROVE  PacketStart(i) + Len(Stream[i].bytes) <= Len(s)
  <2>1. i = k
    <3> SUFFICES ASSUME i # k PROVE FALSE
      OBVIOUS
    <3>1. i \in 1 .. k - 1
      BY <1>2
    <3>2. PacketMessage(i) < m
      BY <1>1, <1>4, <3>1
    <3> QED BY <1>2, <1>4, <3>2
  <2> QED BY <1>1, <1>2, <2>1
<1> QED BY <1>1, <1>2, <1>3, <1>4 DEF Covers

\* A packet that goes on with one.
LEMMA NextCovers ==
    ASSUME NEW k \in 1 .. Len(Stream), Continues(k), NEW s, Sequential(s), Partial(s, k - 1)
    PROVE  LET t == s \o Stream[k].bytes
           IN  /\ Covers(t, PacketMessage(k), k) /\ Len(t) = PacketStart(k) + Len(Stream[k].bytes)
               /\ Len(t) >= 1
<1> DEFINE u == Stream[k].bytes
           m == PacketMessage(k)
           n == PacketStart(k)
           t == s \o u
<1>1. /\ k > 1 /\ PacketMessage(k - 1) = m /\ n = PacketStart(k - 1) + Len(Stream[k - 1].bytes)
      /\ Carries(k) /\ \A j \in 1 .. Len(u) : u[j] = <<m, n + j>>
  BY StreamAssumption DEF StreamIsCut
<1>2. Len(u) \in Nat /\ m \in Nat /\ n \in Nat /\ k \in Nat /\ Len(u) >= 1 /\ Sequential(u)
  BY <1>1, CutFacts, StreamPackets
<1>3. Len(s) = n /\ Covers(s, m, k - 1)
  BY <1>1 DEF Partial
<1> HIDE DEF n, m
<1>4. /\ Len(t) = n + Len(u)
      /\ \A j \in 1 .. n : t[j] = s[j]
      /\ \A j \in n + 1 .. n + Len(u) : t[j] = u[j - n]
  <2> HIDE DEF u
  <2>1. PICK S : s \in Seq(S)
    BY DEF Sequential
  <2>2. PICK T : u \in Seq(T)
    BY <1>2 DEF Sequential
  <2> QED BY <1>2, <1>3, <2>1, <2>2
<1>5. ASSUME NEW j \in 1 .. Len(t)
      PROVE  t[j] = <<m, j>> /\ \E i \in 1 .. k : \E l \in 1 .. Len(Stream[i].bytes) : Stream[i].bytes[l] = t[j]
  <2>1. CASE j \in 1 .. n
    <3>1. t[j] = s[j] /\ s[j] = <<m, j>>
          /\ \E i \in 1 .. k - 1 : \E l \in 1 .. Len(Stream[i].bytes) : Stream[i].bytes[l] = s[j]
      BY <1>3, <1>4, <2>1 DEF Covers
    <3>2. 1 .. k - 1 \subseteq 1 .. k
      BY <1>2
    <3> HIDE DEF t
    <3> QED BY <3>1, <3>2
  <2>2. CASE j \in n + 1 .. n + Len(u)
    <3> DEFINE l == j - n
    <3>1. l \in 1 .. Len(u) /\ n + l = j /\ k \in 1 .. k
      BY <1>2, <2>2
    <3>2. t[j] = u[l]
      BY <1>4, <2>2
    <3> HIDE DEF l, t
    <3>3. u[l] = <<m, j>>
      BY <1>1, <3>1
    <3> QED BY <3>1, <3>2, <3>3
  <2> HIDE DEF t, u
  <2>3. j \in 1 .. n \/ j \in n + 1 .. n + Len(u)
    BY <1>2, <1>4
  <2> QED BY <2>1, <2>2, <2>3
<1>6. ASSUME NEW i \in 1 .. k, Carries(i), PacketMessage(i) = m
      PROVE  PacketStart(i) + Len(Stream[i].bytes) <= Len(t)
  <2>1. CASE i = k
    BY <1>2, <1>4, <2>1 DEF n
  <2>2. CASE i # k
    <3>1. i \in 1 .. k - 1 /\ i \in 1 .. Len(Stream)
      BY <1>2, <2>2, StreamPackets
    <3>2. PacketStart(i) + Len(Stream[i].bytes) <= n
      BY <1>3, <1>6, <3>1 DEF Covers
    <3>3. PacketStart(i) \in Nat /\ Len(Stream[i].bytes) \in Nat
      BY <1>6, <3>1, CutFacts
    <3> HIDE DEF t, u
    <3> QED BY <1>2, <1>4, <3>2, <3>3
  <2> QED BY <2>1, <2>2
<1> HIDE DEF t, u
<1>7. Covers(t, m, k)
  BY <1>5, <1>6, Zenon DEF Covers
<1>8. Len(t) >= 1
  BY <1>2, <1>4
<1> QED BY <1>4, <1>7, <1>8 DEF t, u, m, n

\* A packet that ends one: no later packet is of the message.
LEMMA EndIsWhole ==
    ASSUME NEW k \in 1 .. Len(Stream), Carries(k), ~GoesOn(k),
           NEW s, Covers(s, PacketMessage(k), k), Len(s) \in Nat \ {0}
    PROVE  Whole(s, k) /\ s[1][1] = PacketMessage(k)
<1> DEFINE m == PacketMessage(k)
<1>1. k \in Nat /\ Len(Stream) \in Nat /\ m \in Nat
  BY CutFacts, StreamPackets
<1>2. ASSUME NEW i \in k + 1 .. Len(Stream), Carries(i) PROVE m < PacketMessage(i)
  <2>1. i \in 1 .. Len(Stream) /\ k \in 1 .. i - 1
    BY <1>1
  <2> QED BY <1>2, <2>1, StreamAssumption DEF StreamIsCut
<1>3. s[1][1] = m
  <2>1. 1 \in 1 .. Len(s)
    OBVIOUS
  <2>2. s[1] = <<m, 1>>
    BY <2>1 DEF Covers
  <2> QED BY <2>2
<1>4. Covers(s, m, Len(Stream))
  <2>1. 1 .. k \subseteq 1 .. Len(Stream)
    BY <1>1
  <2>2. ASSUME NEW i \in 1 .. Len(Stream), Carries(i), PacketMessage(i) = m PROVE i \in 1 .. k
    <3> SUFFICES ASSUME i > k PROVE FALSE
      BY <1>1
    <3>1. i \in k + 1 .. Len(Stream)
      BY <1>1
    <3>2. m < PacketMessage(i)
      BY <1>2, <2>2, <3>1
    <3> QED BY <1>1, <2>2, <3>2
  <2> HIDE DEF m
  <2>3. Covers(s, m, k)
    BY DEF m
  <2> QED BY <2>1, <2>2, <2>3 DEF Covers
<1> QED BY <1>1, <1>2, <1>3, <1>4 DEF Whole

\* Behind the first q packets and the delivered messages M: the message in progress goes up
\* to packet q, and the complete one is whole.
Reads(a, q, M) ==
    ~a.err =>
       /\ a.busy => ~a.msg.ready /\ Partial(a.reasm, q) /\ \A m \in M : m < PacketMessage(q)
       /\ a.msg.ready /\ a.msg.bytes # <<>> =>
             Whole(a.msg.bytes, q) /\ \A m \in M : m < a.msg.bytes[1][1]

\* the packets behind the first q are of later messages than M
Ahead(M, q) == \A k \in q + 1 .. Len(Stream) : Carries(k) => \A m \in M : m < PacketMessage(k)

\* deliver_packet of the next packet.
LEMMA ReadsNext ==
    ASSUME NEW a, MessageOK(a), NEW k \in 1 .. Len(Stream), NEW M, Reads(a, k - 1, M), Ahead(M, k - 1)
    PROVE  Reads(DeliverPacket(a, Stream[k].kind, Stream[k].bytes), k, M)
<1> DEFINE s == Stream[k].bytes
           kind == Stream[k].kind
           r == DeliverPacket(a, kind, s)
           grown == a.reasm \o s
<1>1. k \in Nat /\ Len(Stream) \in Nat /\ kind \in PacketKinds /\ Len(s) \in Nat
  BY CutFacts, StreamPackets
<1>2. (a.err => r = a) /\ (~a.err => PacketResult(a, kind, s, r))
  BY <1>1, DeliverPacketIs DEF MessageOK, HasMessage
<1>3. Carries(k) => \A m \in M : m < PacketMessage(k)
  <2>1. k \in k - 1 + 1 .. Len(Stream)
    BY <1>1
  <2> QED BY <2>1 DEF Ahead
<1>4. \A x : LET y == [ready |-> TRUE, bytes |-> x] IN y.ready /\ y.bytes = x
  OBVIOUS
<1>5. ~NoMessage.ready
  BY DEF NoMessage
<1> SUFFICES ASSUME ~r.err, ~a.err PROVE Reads(r, k, M)
  BY <1>2 DEF Reads
<1> HIDE DEF r
<1>6. CASE kind \in {"Unsegmented", "Eos"} /\ s = <<>> /\ a.msg.ready
           /\ Leaves(r, a.reasm, a.busy, a.msg)
  <2>1. ~r.busy
    BY <1>6 DEF Reads, Leaves
  <2>2. r.msg = a.msg
    BY <1>6 DEF Leaves
  <2>3. ASSUME NEW t, Whole(t, k - 1) PROVE Whole(t, k)
    <3>1. k + 1 .. Len(Stream) \subseteq k - 1 + 1 .. Len(Stream)
      BY <1>1
    <3> QED BY <2>3, <3>1 DEF Whole
  <2> QED BY <2>1, <2>2, <2>3 DEF Reads
<1>7. CASE kind \in {"Unsegmented", "Eos"} /\ Leaves(r, <<>>, FALSE, [ready |-> TRUE, bytes |-> s])
  <2>1. ~r.busy /\ r.msg.bytes = s
    BY <1>4, <1>7 DEF Leaves
  <2>2. ASSUME s # <<>> PROVE Whole(s, k) /\ \A m \in M : m < s[1][1]
    <3>1. Carries(k) /\ ~Continues(k) /\ ~GoesOn(k)
      BY <1>7, <2>2 DEF Carries, Continues, GoesOn
    <3>2. Covers(s, PacketMessage(k), k) /\ Len(s) \in Nat \ {0}
      BY <1>1, <3>1, StartCovers
    <3> HIDE DEF s
    <3>3. Whole(s, k) /\ s[1][1] = PacketMessage(k)
      BY <3>1, <3>2, EndIsWhole
    <3> QED BY <1>3, <3>1, <3>3
  <2> HIDE DEF s
  <2> QED BY <2>1, <2>2 DEF Reads
<1>8. CASE kind = "First" /\ Leaves(r, s, TRUE, NoMessage)
  <2>1. r.reasm = s /\ ~r.msg.ready
    BY <1>5, <1>8 DEF Leaves
  <2>2. GoesOn(k) /\ ~Continues(k)
    BY <1>8 DEF GoesOn, Continues
  <2>3. Carries(k)
    BY <2>2, StreamAssumption DEF StreamIsCut
  <2>4. Partial(s, k)
    <3>1. Covers(s, PacketMessage(k), k) /\ PacketStart(k) = 0 /\ 0 + Len(s) = Len(s)
      BY <1>1, <2>2, <2>3, StartCovers
    <3> QED BY <2>2, <3>1 DEF Partial
  <2> HIDE DEF s
  <2> QED BY <1>3, <2>1, <2>3, <2>4 DEF Reads
<1>9. ASSUME kind \in {"Continuation", "Last"}, a.busy
      PROVE  /\ Continues(k) /\ Carries(k) /\ Covers(grown, PacketMessage(k), k)
             /\ Len(grown) = PacketStart(k) + Len(s) /\ Len(grown) \in Nat \ {0} /\ ~a.msg.ready
  <2>1. Continues(k)
    BY <1>9 DEF Continues
  <2>2. Carries(k)
    BY <2>1, StreamAssumption DEF StreamIsCut
  <2>3. Partial(a.reasm, k - 1) /\ ~a.msg.ready /\ Sequential(a.reasm)
    BY <1>9 DEF Reads, MessageOK
  <2>4. /\ Covers(grown, PacketMessage(k), k) /\ Len(grown) = PacketStart(k) + Len(s)
        /\ Len(grown) >= 1
    BY <2>1, <2>3, NextCovers
  <2>5. PacketStart(k) \in Nat
    BY <2>2, CutFacts
  <2> HIDE DEF grown, s
  <2>6. Len(grown) \in Nat \ {0}
    BY <1>1, <2>4, <2>5
  <2> QED BY <2>1, <2>2, <2>3, <2>4, <2>6
<1>10. CASE kind = "Last" /\ a.busy /\ Leaves(r, <<>>, FALSE, [ready |-> TRUE, bytes |-> grown])
  <2>1. ~r.busy /\ r.msg.bytes = grown
    BY <1>4, <1>10 DEF Leaves
  <2>2. ~GoesOn(k)
    BY <1>10 DEF GoesOn
  <2> HIDE DEF grown
  <2>3. Whole(grown, k) /\ grown[1][1] = PacketMessage(k)
    BY <1>9, <1>10, <2>2, EndIsWhole
  <2> QED BY <1>3, <1>9, <1>10, <2>1, <2>3 DEF Reads
<1>11. CASE kind = "Continuation" /\ a.busy /\ Leaves(r, grown, a.busy, a.msg)
  <2>1. r.reasm = grown /\ r.msg = a.msg
    BY <1>11 DEF Leaves
  <2>2. GoesOn(k)
    BY <1>11 DEF GoesOn
  <2> HIDE DEF grown, s
  <2>3. Partial(grown, k)
    BY <1>9, <1>11, <2>2 DEF Partial, s
  <2> QED BY <1>3, <1>9, <1>11, <2>1, <2>3 DEF Reads
<1>12. PacketResult(a, kind, s, r)
  BY <1>2
<1> HIDE DEF s, kind, grown
<1> QED BY <1>6, <1>7, <1>8, <1>10, <1>11, <1>12 DEF PacketResult, grown

\* A packet that is passed over ends the message in progress.
LEMMA ReadsSkip ==
    ASSUME NEW a, NEW k \in 1 .. Len(Stream), NEW M, Reads(a, k - 1, M), ~a.err,
           NEW r, ~r.busy, r.msg = a.msg
    PROVE  Reads(r, k, M)
<1>1. ASSUME NEW t, Whole(t, k - 1) PROVE Whole(t, k)
  <2>1. k + 1 .. Len(Stream) \subseteq k - 1 + 1 .. Len(Stream)
    BY StreamPackets
  <2> QED BY <1>1, <2>1 DEF Whole
<1> QED BY <1>1 DEF Reads

\* The slots: each holds the bytes of its packet in its own part of the store.
FastSlots == Backend = "fast" /\ \A k \in 1 .. Len(Stream) : Len(Stream[k].bytes) <= SlotSize

\* slot i of b holds packet k
Keeps(b, i, k) ==
    /\ b.meta[i].kind = Stream[k].kind /\ b.meta[i].len = Len(Stream[k].bytes)
    /\ b.meta[i].off = i * SlotSize
    /\ \A l \in 1 .. Len(Stream[k].bytes) : b.cells[i * SlotSize + l - 1] = Stream[k].bytes[l]

SlotsKept(b) ==
    \A j \in 1 .. RxWin - 1 : Slot(b.expected, j) \in b.occ => Keeps(b, Slot(b.expected, j), b.past + 1 + j)

\* What a slot holds is the segment that is delivered.
LEMMA KeptSegment ==
    ASSUME NEW b, NEW i, NEW k \in 1 .. Len(Stream), Keeps(b, i, k)
    PROVE  Segment(b, i).kind = Stream[k].kind /\ Segment(b, i).bytes = Stream[k].bytes
<1> DEFINE s == Stream[k].bytes
           o == i * SlotSize
           t == [l \in 1 .. Len(s) |-> b.cells[o + l - 1]]
<1>1. s \in Seq(Nat \X Nat)
  BY CutFacts
<1>2. /\ b.meta[i].kind = Stream[k].kind /\ b.meta[i].len = Len(s) /\ b.meta[i].off = o
      /\ \A l \in 1 .. Len(s) : b.cells[o + l - 1] = s[l]
  BY DEF Keeps
<1> HIDE DEF s, o
<1>3. Segment(b, i).kind = Stream[k].kind /\ Segment(b, i).bytes = t
  BY <1>2 DEF Segment
<1>4. t = [l \in 1 .. Len(s) |-> s[l]]
  BY <1>2
<1>5. s = [l \in 1 .. Len(s) |-> s[l]]
  BY <1>1
<1> QED BY <1>3, <1>4, <1>5 DEF s

\* The delivery of a run is the delivery of its packets.
LEMMA ReadsRun ==
    ASSUME NEW c, StreamOK(c), NEW q \in Nat, NEW M, q + RunLength(c) <= Len(Stream),
           \A j \in 1 .. RunLength(c) : Keeps(c, RunSlots(c)[j], q + j),
           Reads(c, q, M), Ahead(M, q)
    PROVE  Reads(DeliverRun(c), q + RunLength(c), M)
<1> DEFINE n == RunLength(c)
<1>1. n \in Nat /\ Len(Stream) \in Nat
  BY RunIsShort, RxAssumption, StreamPackets
<1>2. PICK t : Trace(t, c) /\ DeliverRun(c) = t[n]
  BY <1>1, DeliverRunTrace
<1> DEFINE Good(j) == MessageOK(t[j]) /\ Reads(t[j], q + j, M)
           Bad == {j \in 0 .. n : ~Good(j)}
<1> SUFFICES ASSUME n \in Bad PROVE FALSE
  BY <1>1, <1>2
<1>3. PICK j \in Bad : \A y \in Bad : j <= y
  <2>1. Bad \subseteq Nat /\ Bad # {}
    BY <1>1
  <2> HIDE DEF Bad
  <2> QED BY <2>1, LeastNat
<1>4. j \in 0 .. n /\ ~Good(j)
  BY <1>3
<1>5. j # 0
  <2>1. t[0] = c /\ MessageOK(c) /\ q + 0 = q
    BY <1>2 DEF Trace, StreamOK
  <2>2. Good(0)
    BY <2>1
  <2> QED BY <1>4, <2>2
<1>6. j \in 1 .. n /\ j - 1 \in 0 .. n /\ j - 1 < j
  BY <1>1, <1>4, <1>5
<1>7. Good(j - 1)
  <2>1. j - 1 \notin Bad
    <3>1. Bad \subseteq Int
      BY <1>1
    <3> HIDE DEF Bad
    <3> QED BY <1>1, <1>3, <1>6, <3>1
  <2> QED BY <1>6, <2>1
<1> DEFINE i == RunSlots(c)[j]
           k == q + j
           a == t[j - 1]
<1>8. t[j] = Stage(c, a, i) /\ Keeps(c, i, k)
  BY <1>2, <1>6 DEF Trace
<1>9. k \in 1 .. Len(Stream) /\ q + (j - 1) = k - 1
  BY <1>1, <1>6
<1>10. MessageOK(a) /\ Reads(a, k - 1, M)
  BY <1>7, <1>9
<1>11. Ahead(M, k - 1)
  <2>1. k - 1 + 1 .. Len(Stream) \subseteq q + 1 .. Len(Stream)
    BY <1>1, <1>6
  <2> QED BY <2>1 DEF Ahead
<1> HIDE DEF i, k, a, n, Bad
<1>12. t[j] = DeliverPacket(a, Stream[k].kind, Stream[k].bytes)
  <2>1. Segment(c, i).kind = Stream[k].kind /\ Segment(c, i).bytes = Stream[k].bytes
    BY <1>8, <1>9, KeptSegment
  <2> QED BY <1>8, <2>1, Zenon DEF Stage
<1>13. MessageOK(t[j]) /\ Reads(t[j], k, M)
  <2>1. Stream[k].kind \in PacketKinds /\ Sequential(Stream[k].bytes)
    BY <1>9, CutFacts
  <2>2. Reads(DeliverPacket(a, Stream[k].kind, Stream[k].bytes), k, M)
    BY <1>9, <1>10, <1>11, ReadsNext
  <2>3. MessageOK(DeliverPacket(a, Stream[k].kind, Stream[k].bytes))
    BY <1>10, <2>1, DeliverPacketTyped
  <2> QED BY <1>12, <2>2, <2>3
<1> QED BY <1>4, <1>13 DEF k

\* Advance, on what is stored and read.
LEMMA AdvanceStore ==
    ASSUME NEW b, StreamOK(b), NEW n
    PROVE  LET r == Advance(b, n)
           IN  /\ r.meta = b.meta /\ r.cells = b.cells
               /\ r.reasm = b.reasm /\ r.busy = b.busy /\ r.msg = b.msg /\ r.err = b.err
<1> DEFINE x == SeqAdd(b.expected, n)
           y == b.past + n
           z == {k - n : k \in {k \in b.bitmap : k >= n}}
<1>1. Advance(b, n) = [b EXCEPT !.expected = x, !.past = y, !.bitmap = z]
  BY DEF Advance
<1> HIDE DEF x, y, z
<1> QED BY <1>1 DEF StreamOK, BackendOK, MessageOK, HasWindow

\* deliver_buffered, too.
LEMMA BufferedStore ==
    ASSUME NEW b, StreamOK(b)
    PROVE  LET r == DeliverBuffered(b)
               out == DeliverRun(b)
           IN  /\ r.meta = b.meta /\ r.cells = b.cells
               /\ r.reasm = out.reasm /\ r.busy = out.busy /\ r.msg = out.msg /\ r.err = out.err
<1> DEFINE n == RunLength(b)
           out == DeliverRun(b)
           a == Advance(b, n)
           o == a.occ \ {RunSlots(b)[j] : j \in 1 .. n}
           r == DeliverBuffered(b)
<1>1. n \in Nat
  BY RunIsShort, RxAssumption
<1>2. StreamOK(a)
  BY <1>1, AdvanceTyped
<1>3. r = [a EXCEPT !.occ = o, !.used = 0,
                    !.reasm = out.reasm, !.busy = out.busy, !.msg = out.msg,
                    !.done = out.done, !.err = out.err]
  BY DEF DeliverBuffered
<1>4. a.meta = b.meta /\ a.cells = b.cells
  BY AdvanceStore
<1> HIDE DEF a, r, out, o, n
<1>5. /\ r.meta = a.meta /\ r.cells = a.cells
      /\ r.reasm = out.reasm /\ r.busy = out.busy /\ r.msg = out.msg /\ r.err = out.err
  BY <1>2, <1>3 DEF StreamOK, BackendOK, MessageOK, HasWindow
<1> QED BY <1>4, <1>5 DEF r, out

\* Past a packet that was read or skipped, and the run behind it.
LEMMA PassReads ==
    ASSUME WindowDividesSpace, NEW b, Sound(b), SlotsKept(b), b.past < Len(Stream),
           NEW a, StreamOK(a), a.expected = b.expected, a.bitmap = b.bitmap, a.occ = b.occ,
           a.past = b.past, a.meta = b.meta, a.cells = b.cells,
           NEW M, Ahead(M, b.past), Reads(a, b.past + 1, M)
    PROVE  LET r == DeliverBuffered(Advance(a, 1))
           IN  SlotsKept(r) /\ Reads(r, r.past, M)
<1> DEFINE c == Advance(a, 1)
           r == DeliverBuffered(c)
           n == RunLength(c)
           out == DeliverRun(c)
           q == b.past + 1
<1>1. FitsWindow(b) /\ HasWindow(a) /\ b.past \in Nat /\ Len(Stream) \in Nat /\ RxWin \in Nat
  BY StreamPackets, RxAssumption DEF Sound, Placed, StreamOK, BackendOK
<1>2. /\ n \in Nat /\ n <= RxWin - 1
      /\ r.past = b.past + 1 + n /\ r.expected = SeqAdd(b.expected, 1 + n)
      /\ \A j \in 1 .. n : RunSlots(c)[j] = Slot(b.expected, j) /\ Slot(b.expected, j) \in b.occ
      /\ \A j \in 1 .. RxWin - 1 : Slot(r.expected, j) \in r.occ =>
            /\ 1 + n + j <= RxWin - 1 /\ Slot(r.expected, j) = Slot(b.expected, 1 + n + j)
            /\ Slot(b.expected, 1 + n + j) \in b.occ
  BY <1>1, PassSlots
<1>3. r.past <= Len(Stream)
  <2>1. Placed(r)
    BY <1>1, PassPlaced DEF Sound
  <2> QED BY <2>1 DEF Placed
<1>4. StreamOK(c)
  BY AdvanceTyped
<1>5. /\ c.meta = b.meta /\ c.cells = b.cells
      /\ c.reasm = a.reasm /\ c.busy = a.busy /\ c.msg = a.msg /\ c.err = a.err
  BY AdvanceStore
<1> HIDE DEF c
<1>6. /\ r.meta = c.meta /\ r.cells = c.cells
      /\ r.reasm = out.reasm /\ r.busy = out.busy /\ r.msg = out.msg /\ r.err = out.err
  BY <1>4, BufferedStore
<1> HIDE DEF r, n, out
<1>7. \A x, i, k : x.meta = b.meta /\ x.cells = b.cells /\ Keeps(b, i, k) => Keeps(x, i, k)
  BY DEF Keeps
<1>8. ASSUME NEW j \in 1 .. n PROVE Keeps(c, RunSlots(c)[j], q + j)
  <2>1. j \in 1 .. RxWin - 1 /\ b.past + 1 + j = q + j
    BY <1>1, <1>2
  <2>2. Keeps(b, Slot(b.expected, j), q + j)
    BY <1>2, <2>1 DEF SlotsKept
  <2> QED BY <1>2, <1>5, <1>7, <2>2
<1>9. Reads(c, q, M)
  BY <1>5 DEF Reads
<1>10. Ahead(M, q)
  <2>1. q + 1 .. Len(Stream) \subseteq b.past + 1 .. Len(Stream)
    BY <1>1
  <2> QED BY <2>1 DEF Ahead
<1>11. q \in Nat /\ q + n <= Len(Stream) /\ r.past = q + n
  BY <1>1, <1>2, <1>3
<1> HIDE DEF q
<1>12. Reads(out, q + n, M)
  BY <1>4, <1>8, <1>9, <1>10, <1>11, ReadsRun DEF n, out
<1>13. Reads(r, r.past, M)
  BY <1>6, <1>11, <1>12 DEF Reads
<1>14. ASSUME NEW j \in 1 .. RxWin - 1, Slot(r.expected, j) \in r.occ
       PROVE  Keeps(r, Slot(r.expected, j), r.past + 1 + j)
  <2> DEFINE l == 1 + n + j
  <2>1. l \in 1 .. RxWin - 1 /\ b.past + 1 + l = r.past + 1 + j
    BY <1>1, <1>2, <1>14
  <2>2. Slot(r.expected, j) = Slot(b.expected, l) /\ Slot(b.expected, l) \in b.occ
    BY <1>2, <1>14
  <2> HIDE DEF l
  <2>3. Keeps(b, Slot(b.expected, l), r.past + 1 + j)
    BY <2>1, <2>2 DEF SlotsKept
  <2> QED BY <1>5, <1>6, <1>7, <2>2, <2>3
<1>15. SlotsKept(r)
  BY <1>14 DEF SlotsKept
<1> QED BY <1>13, <1>15 DEF r, c

\* The parts of the store that two slots have lie apart.
LEMMA PartsApart ==
    ASSUME NEW i \in Nat, NEW j \in Nat, NEW s \in Nat, i < j
    PROVE  i * s \in Nat /\ j * s \in Nat /\ i * s + s <= j * s
<1> DEFINE d == j - i - 1
<1>1. d \in Nat /\ j = i + 1 + d
  OBVIOUS
<1> HIDE DEF d
<1>2. d * s \in Nat /\ i * s \in Nat
  BY <1>1
<1>3. j * s = i * s + s + d * s
  BY <1>1
<1> DEFINE x == i * s
           y == d * s
           z == j * s
<1> HIDE DEF x, y, z
<1>4. x \in Nat /\ y \in Nat /\ z = x + s + y
  BY <1>2, <1>3 DEF x, y, z
<1>5. z \in Nat /\ x + s <= z
  BY <1>4
<1> QED BY <1>4, <1>5 DEF x, z

\* store_ooo writes the part of its slot only.
LEMMA StoreKeeps ==
    ASSUME WindowDividesSpace, FastSlots, NEW b, Sound(b), SlotsKept(b),
           NEW d \in 1 .. RxWin - 1, NEW k \in 1 .. Len(Stream), k = b.past + 1 + d
    PROVE  SlotsKept(StoreOoo(b, Packet(k)))
<1> DEFINE p == Packet(k)
           r == StoreOoo(b, p)
           i == SlotIdx(p.seq)
           e == b.expected
           n == Len(Stream[k].bytes)
<1>1. /\ RxWin \in Nat \ {0} /\ SlotSize \in Nat /\ b.past \in Nat /\ e \in SeqCounts
      /\ Len(Stream) \in Nat /\ PacketOK(p) /\ d \in Nat
  BY RxAssumption, StreamPackets DEF Sound, StreamOK, BackendOK, Placed
<1>2. p.kind = Stream[k].kind /\ p.bytes = Stream[k].bytes /\ p.seq = SeqAdd(0, k - 1)
  BY DEF Packet
<1>3. i = Slot(e, d)
  <2> DEFINE q == b.past
  <2>1. q \in Nat /\ k - 1 = q + d /\ e = SeqAdd(0, q)
    BY <1>1 DEF Sound, Placed
  <2> HIDE DEF q
  <2>2. SeqAdd(SeqAdd(0, q), d) = SeqAdd(0, q + d)
    BY <1>1, <2>1, SeqAdds
  <2> QED BY <1>2, <2>1, <2>2 DEF Slot
<1>4. r.expected = e /\ r.past = b.past /\ (SameStore(b, r) \/ Stored(b, p, r))
  BY <1>1, StoreOooIs DEF Sound
<1>5. \A j \in Nat : Slot(e, j) \in 0 .. RxWin - 1
  <2> SUFFICES ASSUME NEW j \in Nat PROVE Slot(e, j) \in 0 .. RxWin - 1
    OBVIOUS
  <2>1. SeqAdd(e, j) \in Int
    <3>1. e + j \in Int /\ SeqSpace \in Nat \ {0}
      BY <1>1, SeqSpaceAssumption DEF SeqCounts
    <3>2. (e + j) % SeqSpace \in 0 .. SeqSpace - 1
      BY <3>1, DivMod
    <3> QED BY <3>1, <3>2 DEF SeqAdd
  <2> QED BY <1>1, <2>1, DivMod DEF Slot, SlotIdx
<1>6. n \in Nat /\ n <= SlotSize
  BY CutFacts DEF FastSlots
<1>7. i \in Nat /\ i < RxWin
  BY <1>1, <1>3, <1>5
<1>8. i * SlotSize \in Nat /\ RxWin * SlotSize \in Nat /\ i * SlotSize + SlotSize <= RxWin * SlotSize
  <2> HIDE DEF i
  <2> QED BY <1>1, <1>7, PartsApart
<1> HIDE DEF r, i, e, n, p
<1>9. CASE SameStore(b, r)
  <2>1. r.occ = b.occ /\ r.meta = b.meta /\ r.cells = b.cells
    BY <1>9 DEF SameStore
  <2>2. SlotsKept(r)
    BY <1>4, <2>1 DEF SlotsKept, Keeps, e
  <2> QED BY <2>2 DEF r, p
<1>10. CASE Stored(b, p, r)
  <2> DEFINE o == i * SlotSize
             C == StoreCells
             s == Stream[k].bytes
  <2>1. /\ r.occ = b.occ \cup {i}
        /\ r.meta = [b.meta EXCEPT ![i] = [off |-> o, len |-> n, kind |-> Stream[k].kind]]
        /\ r.cells = [c \in C |-> IF c - o \in 0 .. n - 1 THEN s[c - o + 1] ELSE b.cells[c]]
    BY <1>2, <1>10 DEF Stored, SegmentMeta, SegmentOffset, FastSlots, i, n
  <2>2. C = 0 .. RxWin * SlotSize - 1
    BY DEF StoreCells, FastSlots
  <2>3. b.meta \in [0 .. RxWin - 1 -> MetaOK]
    BY DEF Sound, StreamOK, BackendOK, SlotIndices
  <2> HIDE DEF C, s
  <2>4. Keeps(r, i, k)
    <3>1. i \in 0 .. RxWin - 1
      BY <1>1, <1>7
    <3>2. r.meta[i] = [off |-> o, len |-> n, kind |-> Stream[k].kind]
      BY <2>1, <2>3, <3>1
    <3>3. ASSUME NEW l \in 1 .. n PROVE r.cells[o + l - 1] = s[l]
      <4> DEFINE c == o + l - 1
                 w == RxWin * SlotSize
      <4>1. o \in Nat /\ w \in Nat /\ o + SlotSize <= w /\ C = 0 .. w - 1
        BY <1>8, <2>2
      <4> HIDE DEF o, w
      <4>2. c \in 0 .. w - 1 /\ c - o \in 0 .. n - 1 /\ c - o + 1 = l
        BY <1>1, <1>6, <4>1
      <4> HIDE DEF c
      <4>3. r.cells[c] = s[l]
        BY <2>1, <4>1, <4>2
      <4> QED BY <4>3 DEF c
    <3> QED BY <3>2, <3>3 DEF Keeps, n, s
  <2>5. ASSUME NEW h \in 0 .. RxWin - 1, h # i, NEW g \in 1 .. Len(Stream), Keeps(b, h, g)
        PROVE  Keeps(r, h, g)
    <3> DEFINE x == h * SlotSize
               m == Len(Stream[g].bytes)
    <3>1. r.meta[h] = b.meta[h]
      BY <2>1, <2>3, <2>5
    <3>2. m \in Nat /\ m <= SlotSize
      BY CutFacts DEF FastSlots
    <3>3. h \in Nat /\ h < RxWin
      BY <1>1
    <3>4. x \in Nat /\ (x + SlotSize <= o \/ o + SlotSize <= x) /\ x + SlotSize <= RxWin * SlotSize
      <4>1. x \in Nat /\ x + SlotSize <= RxWin * SlotSize
        BY <1>1, <3>3, PartsApart
      <4>2. CASE h < i
        BY <1>1, <1>7, <3>3, <4>1, <4>2, PartsApart
      <4>3. CASE i < h
        BY <1>1, <1>7, <3>3, <4>1, <4>3, PartsApart
      <4> QED BY <1>7, <2>5, <3>3, <4>2, <4>3
    <3>5. ASSUME NEW l \in 1 .. m PROVE r.cells[x + l - 1] = b.cells[x + l - 1]
      <4> DEFINE c == x + l - 1
                 w == RxWin * SlotSize
      <4>1. o \in Nat /\ w \in Nat /\ x \in Nat /\ x + SlotSize <= w /\ C = 0 .. w - 1
            /\ (x + SlotSize <= o \/ o + SlotSize <= x)
        BY <1>8, <2>2, <3>4
      <4> HIDE DEF o, w, x
      <4>2. c \in 0 .. w - 1 /\ ~(c - o \in 0 .. n - 1)
        BY <1>1, <1>6, <3>2, <4>1
      <4> HIDE DEF c
      <4>3. r.cells[c] = b.cells[c]
        BY <2>1, <4>1, <4>2
      <4> QED BY <4>3 DEF c
    <3> QED BY <2>5, <3>1, <3>5 DEF Keeps, m, x
  <2>6. ASSUME NEW j \in 1 .. RxWin - 1, Slot(e, j) \in r.occ
        PROVE  Keeps(r, Slot(e, j), b.past + 1 + j)
    <3>1. CASE j = d
      BY <1>3, <2>4, <3>1
    <3>2. CASE j # d
      <4>1. j \in Nat /\ j - d < RxWin /\ d - j < RxWin
        BY <1>1
      <4>2. Slot(e, j) # i
        BY <1>1, <1>3, <3>2, <4>1, SlotFacts
      <4>3. Slot(e, j) \in b.occ
        BY <2>1, <2>6, <4>2
      <4>4. b.past + 1 + j \in 1 .. Len(Stream)
        <5>1. b.past + 1 + j <= Len(Stream)
          BY <4>3 DEF Sound, Placed, e
        <5> QED BY <1>1, <4>1, <5>1
      <4>5. Keeps(b, Slot(e, j), b.past + 1 + j)
        BY <4>3 DEF SlotsKept, e
      <4> DEFINE h == Slot(e, j)
                 g == b.past + 1 + j
      <4>6. h \in 0 .. RxWin - 1 /\ h # i /\ g \in 1 .. Len(Stream) /\ Keeps(b, h, g)
        BY <1>5, <4>1, <4>2, <4>4, <4>5
      <4> HIDE DEF h, g
      <4>7. Keeps(r, h, g)
        BY <2>5, <4>6
      <4> QED BY <4>7 DEF h, g
    <3> QED BY <3>1, <3>2
  <2>7. SlotsKept(r)
    BY <1>4, <2>6 DEF SlotsKept
  <2> QED BY <2>7 DEF r, p
<1> QED BY <1>4, <1>9, <1>10

\* what is stored and read, behind the delivered messages M
Delivers(b, M) == SlotsKept(b) /\ Reads(b, b.past, M)

\* handle_data reads the packets of the peer in their order.
LEMMA HandleReads ==
    ASSUME WindowDividesSpace, NumbersApart, FastSlots, NEW b, Sound(b), ~b.err, NEW k, Arrives(b, k),
           NEW M, Ahead(M, b.past), Delivers(b, M)
    PROVE  Delivers(HandleData(b, Packet(k)), M)
<1> DEFINE p == Packet(k)
           d == SeqSub(p.seq, b.expected)
           r == HandleData(b, p)
<1>1. /\ b.past \in Nat /\ k \in 1 .. Len(Stream) /\ Len(Stream) \in Nat /\ StreamOK(b) /\ PacketOK(p)
      /\ p.kind = Stream[k].kind /\ p.bytes = Stream[k].bytes
  BY StreamPackets DEF Sound, Placed, Arrives, Packet
<1>2. CASE k = b.past + 1 /\ r = DeliverBuffered(Advance(DeliverPacket(b, p.kind, p.bytes), 1))
  <2> DEFINE a == DeliverPacket(b, p.kind, p.bytes)
  <2>1. a.expected = b.expected /\ a.bitmap = b.bitmap /\ a.occ = b.occ /\ a.past = b.past
    BY <1>1, DeliverPacketKeeps DEF Sound, FitsWindow, PacketOK
  <2>2. BackendOK(a) /\ a.meta = b.meta /\ a.cells = b.cells
    BY <1>1, DeliverPacketRest DEF StreamOK, PacketOK
  <2>3. MessageOK(a)
    BY <1>1, DeliverPacketTyped DEF StreamOK, PacketOK
  <2>4. Reads(a, k, M)
    <3>1. k - 1 = b.past
      BY <1>1, <1>2
    <3>2. Reads(b, k - 1, M) /\ Ahead(M, k - 1) /\ MessageOK(b)
      BY <1>1, <3>1 DEF Delivers, StreamOK
    <3>3. Reads(DeliverPacket(b, Stream[k].kind, Stream[k].bytes), k, M)
      BY <1>1, <3>2, ReadsNext
    <3> QED BY <1>1, <3>3
  <2> HIDE DEF a
  <2>5. StreamOK(a) /\ b.past < Len(Stream) /\ SlotsKept(b) /\ Reads(a, b.past + 1, M)
    BY <1>1, <1>2, <2>2, <2>3, <2>4 DEF StreamOK, Delivers
  <2>6. LET x == DeliverBuffered(Advance(a, 1)) IN SlotsKept(x) /\ Reads(x, x.past, M)
    BY <2>1, <2>2, <2>5, PassReads
  <2> QED BY <1>2, <2>6 DEF Delivers, a
<1>3. CASE k = b.past + 1 + d /\ d \in 1 .. RxWin - 1 /\ r = StoreOoo(b, p)
  <2>1. SlotsKept(r)
    <3> HIDE DEF d
    <3>1. SlotsKept(StoreOoo(b, Packet(k)))
      BY <1>1, <1>3, StoreKeeps DEF Delivers
    <3> QED BY <1>3, <3>1
  <2>2. r.past = b.past /\ r.reasm = b.reasm /\ r.busy = b.busy /\ r.msg = b.msg
    <3> DEFINE s == StoreOoo(b, p)
    <3>1. s.past = b.past /\ s.reasm = b.reasm /\ s.busy = b.busy /\ s.msg = b.msg
      BY <1>1, StoreOooIs
    <3> HIDE DEF s, r
    <3> QED BY <1>3, <3>1 DEF s
  <2> HIDE DEF r
  <2>3. Reads(r, r.past, M)
    BY <2>2 DEF Delivers, Reads
  <2> QED BY <2>1, <2>3 DEF Delivers, r
<1>4. CASE r = b
  BY <1>4
<1> QED BY <1>2, <1>3, <1>4, HandlePlaces DEF Sound

\* So does skip_gap, without the packets it passes over.
LEMMA SkipReads ==
    ASSUME WindowDividesSpace, NEW b, Sound(b), ~b.err, b.past < Len(Stream),
           NEW M, Ahead(M, b.past), Delivers(b, M)
    PROVE  Delivers(SkipGap(b), M)
<1> DEFINE a == [b EXCEPT !.reasm = <<>>, !.busy = FALSE]
           k == b.past + 1
<1>1. SkipGap(b) = DeliverBuffered(Advance(a, 1))
  BY DEF SkipGap
<1>2. /\ DOMAIN a = DOMAIN b /\ a.reasm = <<>> /\ a.busy = FALSE /\ a.msg = b.msg /\ a.err = b.err
      /\ a.expected = b.expected /\ a.bitmap = b.bitmap /\ a.occ = b.occ /\ a.meta = b.meta
      /\ a.used = b.used /\ a.past = b.past /\ a.cells = b.cells
  BY DEF Sound, StreamOK, MessageOK, BackendOK, HasWindow
<1> HIDE DEF a
<1>3. StreamOK(a)
  <2>1. Sequential(<<>>) /\ Len(<<>>) <= Reasm
    BY Joins, RxAssumption
  <2>2. MessageOK(a)
    BY <1>2, <2>1 DEF Sound, StreamOK, MessageOK
  <2>3. BackendOK(a)
    BY <1>2 DEF Sound, StreamOK, BackendOK, HasWindow
  <2> QED BY <2>2, <2>3 DEF StreamOK
<1>4. k \in 1 .. Len(Stream) /\ k - 1 = b.past
  BY StreamPackets DEF Sound, Placed
<1>5. Reads(b, k - 1, M) /\ SlotsKept(b)
  BY <1>4 DEF Delivers
<1> HIDE DEF k
<1>6. Reads(a, k, M)
  BY <1>2, <1>4, <1>5, ReadsSkip
<1>7. Reads(a, b.past + 1, M)
  BY <1>6 DEF k
<1>8. LET x == DeliverBuffered(Advance(a, 1)) IN SlotsKept(x) /\ Reads(x, x.past, M)
  BY <1>2, <1>3, <1>5, <1>7, PassReads
<1> QED BY <1>1, <1>8 DEF Delivers

\* the numbers of the messages that were delivered
Ids == {MessageId(k) : k \in Payloads}

\* each is whole, and they are in order
EventsState ==
    /\ Sequential(events)
    /\ \A k \in Payloads : Sequential(events[k].bytes) /\ Covers(events[k].bytes, MessageId(k), Len(Stream))
    /\ DeliveredInOrder

\* the slots hold packets
StoreState ==
    \A j \in 1 .. RxWin - 1 : Slot(expected_seq, j) \in occupied =>
        Keeps([meta |-> slot_meta, cells |-> store], Slot(expected_seq, j), passed + 1 + j)

\* what is read follows the delivered messages
ReadState ==
    /\ Reads([err |-> FALSE, busy |-> in_progress, msg |-> message, reasm |-> reassembly], passed, Ids)
    /\ Ahead(Ids, passed)

DeliveryInv == EventsState /\ StoreState /\ ReadState

\* The stream that is handed on.
LEMMA HandedDelivers ==
    ASSUME DeliveryInv, NEW b, AsItIs(b)
    PROVE  Delivers(b, Ids) /\ Ahead(Ids, b.past) /\ ~b.err
<1>1. SlotsKept(b)
  BY DEF DeliveryInv, StoreState, SlotsKept, Keeps, AsItIs
<1>2. Reads(b, b.past, Ids)
  BY DEF DeliveryInv, ReadState, Reads, AsItIs
<1> QED BY <1>1, <1>2 DEF Delivers, DeliveryInv, ReadState, AsItIs

\* The stream that is left.
LEMMA SetStreamDelivers ==
    ASSUME DeliveryInv, NEW before, NEW r, ~r.err, r.past \in Nat, passed \in Nat, r.past >= passed,
           Delivers(r, Ids), NEW msg \in {r.msg, NoMessage}, SetStream(before, r, msg), UNCHANGED events
    PROVE  DeliveryInv'
<1>1. PICK M : M = Ids
  OBVIOUS
<1>2. Ids' = M /\ EventsState'
  BY <1>1 DEF DeliveryInv, EventsState, Ids, Payloads, MessageId, DeliveredInOrder
<1>3. StoreState'
  BY DEF SetStream, StoreState, Delivers, SlotsKept, Keeps
<1>4. Ahead(M, r.past)
  <2>1. r.past + 1 .. Len(Stream) \subseteq passed + 1 .. Len(Stream)
    BY StreamPackets
  <2>2. Ahead(M, passed)
    BY <1>1 DEF DeliveryInv, ReadState
  <2> QED BY <2>1, <2>2 DEF Ahead
<1>5. Reads([err |-> FALSE, busy |-> r.busy, msg |-> msg, reasm |-> r.reasm], r.past, M)
  <2>1. Reads(r, r.past, M) /\ ~NoMessage.ready
    BY <1>1 DEF Delivers, NoMessage
  <2> QED BY <2>1 DEF Reads
<1>6. ReadState'
  BY <1>2, <1>4, <1>5 DEF SetStream, ReadState
<1> QED BY <1>2, <1>3, <1>6 DEF DeliveryInv

\* The arrival of a packet.
LEMMA ArrivalDelivers ==
    ASSUME WindowDividesSpace, NumbersApart, FastSlots, PositionInv, DeliveryInv,
           NEW k \in 1 .. Len(Stream), NEW b, ArrivalAt(b, k)
    PROVE  DeliveryInv'
<1> DEFINE r == HandleData(b, Packet(k))
<1>1. CASE Stop("error")
  BY <1>1 DEF Stop, rx_backend, DeliveryInv, EventsState, StoreState, ReadState, Ids, Payloads,
              MessageId, DeliveredInOrder
<1>2. CASE ~r.err /\ UNCHANGED events /\ \E msg \in {r.msg, NoMessage} : SetStream(b, r, msg)
  <2>1. Sound(b) /\ AsItIs(b) /\ Arrives(b, k)
    BY DEF ArrivalAt
  <2>2. Delivers(r, Ids)
    BY <2>1, HandedDelivers, HandleReads
  <2>3. r.past \in Nat /\ passed \in Nat /\ r.past >= passed
    <3>1. Sound(r) /\ (r.past > b.past \/ r.past = b.past) /\ b.past = passed
      BY <2>1, HandlePlaced DEF AsItIs
    <3> HIDE DEF r
    <3> QED BY <2>1, <3>1 DEF Sound, Placed
  <2>4. PICK msg \in {r.msg, NoMessage} : SetStream(b, r, msg)
    BY <1>2
  <2> HIDE DEF r
  <2> QED BY <1>2, <2>2, <2>3, <2>4, SetStreamDelivers
<1> QED BY <1>1, <1>2, ArrivalLeaves

\* The expiry of the progress timer.
LEMMA SkipDelivers ==
    ASSUME WindowDividesSpace, NumbersApart, FastSlots, PositionInv, DeliveryInv, ProgressTimeout
    PROVE  DeliveryInv'
<1> DEFINE c == Current
           r == SkipGap(c)
<1>1. Sound(c) /\ AsItIs(c) /\ c.past = passed /\ passed < Len(Stream)
  BY HandedSound, SkipKeeps DEF PositionInv, AsItIs
<1>2. Delivers(r, Ids)
  BY <1>1, HandedDelivers, SkipReads
<1>3. r.past \in Nat /\ passed \in Nat /\ r.past >= passed
  <2>1. Sound(r) /\ r.past > c.past
    BY <1>1, SkipPlaced
  <2> HIDE DEF r, c
  <2> QED BY <1>1, <2>1 DEF Sound, Placed
<1>4. CASE Stop("error")
  BY <1>4 DEF Stop, rx_backend, DeliveryInv, EventsState, StoreState, ReadState, Ids, Payloads,
              MessageId, DeliveredInOrder
<1>5. CASE ~r.err /\ UNCHANGED events /\ SetStream([c EXCEPT !.progdl = FALSE], r, r.msg)
  <2> DEFINE before == [c EXCEPT !.progdl = FALSE]
             msg == r.msg
  <2>1. SetStream(before, r, msg) /\ msg \in {r.msg, NoMessage}
    BY <1>5
  <2> HIDE DEF r, before, msg
  <2> QED BY <1>2, <1>3, <1>5, <2>1, SetStreamDelivers
<1> QED BY <1>4, <1>5 DEF ProgressTimeout

\* recv() returns what is next.
LEMMA ConsumeDelivers ==
    ASSUME PositionInv, DeliveryInv, RecvData \/ RecvEos
    PROVE  DeliveryInv'
<1>0. PICK T : events \in Seq(T)
  BY DEF DeliveryInv, EventsState, Sequential
<1>1. ASSUME NEW e, events' = Append(events, e)
      PROVE  /\ Sequential(events') /\ Len(events) \in Nat
             /\ DOMAIN events = 1 .. Len(events) /\ DOMAIN events' = 1 .. Len(events) + 1
             /\ events'[Len(events) + 1] = e /\ \A k \in 1 .. Len(events) : events'[k] = events[k]
  <2> DEFINE U == T \cup {e}
  <2>1. events \in Seq(U) /\ e \in U
    BY <1>0
  <2> HIDE DEF U
  <2>2. events' \in Seq(U) /\ Len(events') = Len(events) + 1
    BY <1>1, <2>1
  <2> QED BY <1>1, <2>1, <2>2 DEF Sequential
<1>2. ASSUME NEW e, events' = Append(events, e), e.kind # "Data" \/ e.bytes = <<>>
      PROVE  EventsState' /\ Ids' = Ids
  <2>1. Payloads' = Payloads /\ \A k \in Payloads : events'[k] = events[k]
    BY <1>1, <1>2 DEF Payloads
  <2>2. Ids' = Ids
    BY <2>1 DEF Ids, MessageId
  <2>3. EventsState'
    BY <1>1, <1>2, <2>1, ZenonT(60) DEF EventsState, DeliveryInv, DeliveredInOrder, MessageId
  <2> QED BY <2>2, <2>3
<1>3. CASE RecvEos
  <2> DEFINE e == [kind |-> "Eos", bytes |-> <<>>]
  <2>1. /\ events' = Append(events, e) /\ e.kind # "Data"
        /\ UNCHANGED <<expected_seq, occupied, slot_meta, store, passed, in_progress, message, reassembly>>
    BY <1>3 DEF RecvEos, rx_backend
  <2> HIDE DEF e
  <2>2. EventsState' /\ Ids' = Ids
    BY <1>2, <2>1
  <2> QED BY <2>1, <2>2 DEF DeliveryInv, StoreState, ReadState
<1>4. CASE RecvData
  <2> DEFINE e == [kind |-> "Data", bytes |-> message.bytes]
             l == Len(events) + 1
             m == message.bytes[1][1]
  <2>1. /\ events' = Append(events, e) /\ e.kind = "Data" /\ e.bytes = message.bytes
        /\ message.ready /\ message' = NoMessage /\ ~NoMessage.ready
        /\ UNCHANGED <<expected_seq, occupied, slot_meta, store, passed, in_progress, reassembly>>
    BY <1>4 DEF RecvData, NoMessage
  <2> HIDE DEF e
  <2>2. ~in_progress /\ (message.bytes # <<>> => Whole(message.bytes, passed) /\ \A x \in Ids : x < m)
    BY <2>1 DEF DeliveryInv, ReadState, Reads
  <2>3. StoreState'
    BY <2>1 DEF DeliveryInv, StoreState
  <2>4. CASE message.bytes = <<>>
    <3>1. EventsState' /\ Ids' = Ids
      BY <1>2, <2>1, <2>4
    <3>2. ReadState'
      BY <2>1, <2>2, <3>1 DEF DeliveryInv, ReadState, Reads
    <3> QED BY <2>3, <3>1, <3>2 DEF DeliveryInv
  <2>5. CASE message.bytes # <<>>
    <3>1. /\ m \in Nat /\ Covers(message.bytes, m, Len(Stream)) /\ Sequential(message.bytes)
          /\ \A k \in passed + 1 .. Len(Stream) : Carries(k) => m < PacketMessage(k)
      BY <2>2, <2>5 DEF Whole, PositionInv, ReceiverTypes, StreamTypes
    <3>2. /\ Payloads' = Payloads \cup {l} /\ events'[l].bytes = message.bytes
          /\ \A k \in Payloads : events'[k] = events[k] /\ k < l /\ k \in Nat
          /\ l \in Nat /\ Sequential(events')
      BY <1>1, <2>1, <2>5 DEF Payloads
    <3>3. Ids' = Ids \cup {m}
      BY <3>2 DEF Ids, MessageId
    <3>4. EventsState'
      <4>1. ASSUME NEW k \in Payloads'
            PROVE  /\ Sequential(events'[k].bytes)
                   /\ Covers(events'[k].bytes, events'[k].bytes[1][1], Len(Stream))
        <5>1. CASE k = l
          BY <3>1, <3>2, <5>1
        <5>2. CASE k \in Payloads
          BY <3>2, <5>2 DEF DeliveryInv, EventsState, MessageId
        <5> QED BY <3>2, <5>1, <5>2
      <4>2. ASSUME NEW i \in Payloads', NEW j \in Payloads', i < j
            PROVE  events'[i].bytes[1][1] < events'[j].bytes[1][1]
        <5>1. i \in Payloads
          BY <3>2, <4>2
        <5>2. CASE j = l
          <6>1. MessageId(i) \in Ids
            BY <5>1 DEF Ids
          <6> QED BY <2>2, <2>5, <3>2, <5>1, <5>2, <6>1 DEF MessageId
        <5>3. CASE j \in Payloads
          BY <3>2, <4>2, <5>1, <5>3 DEF DeliveryInv, EventsState, DeliveredInOrder, MessageId
        <5> QED BY <3>2, <5>2, <5>3
      <4> QED BY <3>2, <4>1, <4>2 DEF EventsState, DeliveredInOrder, MessageId
    <3>5. ReadState'
      <4>1. \A k \in passed + 1 .. Len(Stream) : Carries(k) => \A x \in Ids : x < PacketMessage(k)
        BY DEF DeliveryInv, ReadState, Ahead
      <4>2. Ahead(Ids, passed)'
        BY <2>1, <3>1, <3>3, <4>1 DEF Ahead
      <4> QED BY <2>1, <2>2, <4>2 DEF ReadState, Reads
    <3> QED BY <2>3, <3>4, <3>5 DEF DeliveryInv
  <2> QED BY <2>4, <2>5
<1> QED BY <1>3, <1>4

\* What is delivered is whole and in order at all times.
LEMMA DeliveryStep ==
    ASSUME WindowDividesSpace, NumbersApart, FastSlots, MaxReaps = 0, PositionInv, DeliveryInv,
           [RxNext]_rx_vars
    PROVE  DeliveryInv'
<1>1. CASE AckTimeout \/ DriveActions \/ RxLinkFails \/ RxStopped \/ UNCHANGED rx_vars
  <2>1. UNCHANGED <<expected_seq, occupied, slot_meta, store, passed, in_progress, message, reassembly, events>>
    BY <1>1 DEF AckTimeout, DriveActions, RxLinkFails, Stop, RxStopped, rx_vars, rx_backend
  <2> QED BY <2>1 DEF DeliveryInv, EventsState, StoreState, ReadState, Ids, Payloads, MessageId,
                      DeliveredInOrder
<1> QED BY <1>1, ArrivalDelivers, SkipDelivers, ConsumeDelivers, StepCases DEF Elsewhere

LEMMA DeliveryInit == RxInit => DeliveryInv
<1> SUFFICES ASSUME RxInit PROVE DeliveryInv
  OBVIOUS
<1>1. Sequential(<<>>) /\ Payloads = {}
  BY Joins DEF RxInit, Payloads
<1>2. Ids = {}
  BY <1>1 DEF Ids
<1>3. EventsState
  BY <1>1 DEF RxInit, EventsState, DeliveredInOrder
<1>4. StoreState
  BY DEF RxInit, StoreState
<1>5. ReadState
  BY <1>2 DEF RxInit, ReadState, Reads, Ahead, NoMessage
<1> QED BY <1>3, <1>4, <1>5 DEF DeliveryInv

LEMMA DeliveryInvariant ==
    ASSUME WindowDividesSpace, NumbersApart, FastSlots, MaxReaps = 0
    PROVE  RxSpec => [](PositionInv /\ DeliveryInv)
<1>1. RxInit => PositionInv /\ DeliveryInv
  BY PositionInit, DeliveryInit
<1>2. PositionInv /\ DeliveryInv /\ [RxNext]_rx_vars => (PositionInv /\ DeliveryInv)'
  BY PositionStep, DeliveryStep
<1> QED BY <1>1, <1>2, PTL DEF RxSpec

\* What recv() returns are messages of the peer, each whole and unaltered, whatever is lost,
\* late, repeated or skipped: the fast backend never delivers bytes of an overwritten slot,
\* and never joins two messages over a gap.
THEOREM MessagesStayWhole ==
    ASSUME WindowDividesSpace, NumbersApart, FastSlots, MaxReaps = 0
    PROVE  RxSpec => []DeliveredIntact
<1>1. DeliveryInv => DeliveredIntact
  <2> SUFFICES ASSUME DeliveryInv, NEW k \in Payloads
               PROVE  /\ Range(events[k].bytes) = MessageBytes(MessageId(k))
                      /\ \A j \in DOMAIN events[k].bytes : events[k].bytes[j] = <<MessageId(k), j>>
    BY DEF DeliveredIntact
  <2> DEFINE s == events[k].bytes
             m == MessageId(k)
  <2>1. Sequential(s) /\ Covers(s, m, Len(Stream))
    BY DEF DeliveryInv, EventsState
  <2> HIDE DEF s, m
  <2>2. Len(s) \in Nat /\ DOMAIN s = 1 .. Len(s)
    <3>1. PICK T : s \in Seq(T)
      BY <2>1 DEF Sequential
    <3> QED BY <3>1
  <2>3. \A j \in DOMAIN s : s[j] = <<m, j>>
    BY <2>1, <2>2 DEF Covers
  <2>4. ASSUME NEW x \in Range(s) PROVE x \in MessageBytes(m)
    <3>1. PICK j \in 1 .. Len(s) : x = s[j]
      BY <2>2 DEF Range
    <3>2. PICK i \in 1 .. Len(Stream) : \E l \in 1 .. Len(Stream[i].bytes) : Stream[i].bytes[l] = x
      BY <2>1, <3>1 DEF Covers
    <3>3. x \in Range(Stream[i].bytes)
      <4>1. DOMAIN Stream[i].bytes = 1 .. Len(Stream[i].bytes)
        BY CutFacts
      <4> QED BY <3>2, <4>1 DEF Range
    <3>4. x[1] = m
      BY <2>2, <2>3, <3>1
    <3> QED BY <3>3, <3>4 DEF MessageBytes
  <2>5. ASSUME NEW x \in MessageBytes(m) PROVE x \in Range(s)
    <3>1. PICK i \in 1 .. Len(Stream) : x \in Range(Stream[i].bytes)
      BY <2>5 DEF MessageBytes
    <3> DEFINE u == Stream[i].bytes
               n == PacketStart(i)
    <3>2. u \in Seq(Nat \X Nat) /\ Len(u) \in Nat
      BY CutFacts
    <3> HIDE DEF u
    <3>3. PICK l \in 1 .. Len(u) : x = u[l]
      <4>1. x \in Range(u)
        BY <3>1 DEF u
      <4> QED BY <3>2, <4>1 DEF Range
    <3>4. Carries(i)
      <4>1. u # <<>>
        BY <3>2, <3>3
      <4> QED BY <4>1 DEF Carries, u
    <3>5. n \in Nat /\ x = <<PacketMessage(i), n + l>>
      BY <3>3, <3>4, StreamAssumption DEF StreamIsCut, u
    <3> HIDE DEF n
    <3>6. PacketMessage(i) = m
      BY <2>5, <3>5 DEF MessageBytes
    <3>7. n + Len(u) <= Len(s)
      BY <2>1, <3>4, <3>6 DEF Covers, u, n
    <3> DEFINE j == n + l
    <3>8. j \in 1 .. Len(s)
      BY <2>2, <3>2, <3>5, <3>7
    <3> HIDE DEF j
    <3>9. s[j] = x
      BY <2>2, <2>3, <3>5, <3>6, <3>8 DEF j
    <3> QED BY <2>2, <3>8, <3>9 DEF Range
  <2>6. Range(s) = MessageBytes(m)
    BY <2>4, <2>5
  <2> QED BY <2>3, <2>6 DEF s, m
<1> QED BY <1>1, DeliveryInvariant, PTL

\* And in the order in which they were sent, none twice.
THEOREM MessagesStayInOrder ==
    ASSUME WindowDividesSpace, NumbersApart, FastSlots, MaxReaps = 0
    PROVE  RxSpec => []DeliveredInOrder
<1>1. DeliveryInv => DeliveredInOrder
  BY DEF DeliveryInv, EventsState
<1> QED BY <1>1, DeliveryInvariant, PTL
=============================================================================
