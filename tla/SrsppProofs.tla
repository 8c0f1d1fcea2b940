---------------------------- MODULE SrsppProofs -----------------------------
(***************************************************************************)
(* Two endpoints: the ACKs on the network tell the truth, for every        *)
(* window, buffer, backend and number of messages, as long as the sequence *)
(* numbers have not wrapped and the receiver has not opened a new          *)
(* connection, for then a number names two packets.                        *)
(***************************************************************************)
EXTENDS Srspp, SrsppSenderProofs, SrsppStreamProofs, FiniteSetTheorems

\* every number the receiver's window reaches names one packet
OneConnection == reaps = 0 /\ passed + RxWin <= SeqSpace

\* The slots of the sender and the packets on the network have sequence numbers.
Numbered ==
    /\ next_seq \in SeqCounts
    /\ DOMAIN tx_seq = Slots /\ DOMAIN tx_kind = Slots
    /\ \A i \in Slots : tx_seq[i] \in SeqCounts /\ tx_kind[i] \in PacketKinds
    /\ \A p \in net_data : p.seq \in SeqCounts /\ p.kind \in PacketKinds

\* What an ACK says holds, of a receiver that expects e and has bits set.
Heard(s, past, e, bits) == s < past \/ (s - e - 1) \in bits
Says(a, past, e, bits) ==
    /\ a.cum \in SeqCounts /\ a.bits \subseteq Nat
    /\ a.cum # SeqSub(0, 1) => \A s \in 0 .. a.cum : Heard(s, past, e, bits)
    /\ \A b \in a.bits : Heard(SeqAdd(a.cum, 2 + b), past, e, bits)
AckTrue(a) == Says(a, passed, expected_seq, recv_bitmap)

\* The inductive invariant: also the ACK that link.write has not put on the network yet.
AckInv ==
    /\ Numbered /\ WindowInv /\ expected_seq = passed
    /\ \A a \in net_acks : AckTrue(a)
    /\ result.ack # NoAck => AckTrue(result.ack)
-----------------------------------------------------------------------------
(* The sender numbers its packets.                                         *)

\* Sequence numbers stay within their space.
LEMMA SeqAddType ==
    ASSUME NEW s \in SeqCounts, NEW n \in Int
    PROVE  SeqAdd(s, n) \in SeqCounts /\ SeqSub(s, n) \in SeqCounts
<1>1. SeqSpace \in Nat \ {0} /\ s + n \in Int /\ s - n \in Int
  BY SeqSpaceAssumption DEF SeqCounts
<1>2. (s + n) % SeqSpace \in 0 .. SeqSpace - 1 /\ (s - n) % SeqSpace \in 0 .. SeqSpace - 1
  BY <1>1, DivMod
<1> QED BY <1>2 DEF SeqAdd, SeqSub, SeqCounts

\* The ranks of free slots are numbers.
LEMMA RankType ==
    ASSUME NEW i PROVE Rank(i) \in Nat /\ Cardinality(Free) \in Nat
<1>1. IsFiniteSet(Slots)
  BY TxAssumption, FS_Interval DEF Slots
<1>2. {j \in Free : j <= i} \subseteq Slots /\ Free \subseteq Slots
  BY DEF Free
<1>3. IsFiniteSet({j \in Free : j <= i}) /\ IsFiniteSet(Free)
  BY <1>1, <1>2, FS_Subset
<1> QED BY <1>3, FS_CardinalityType DEF Rank

\* The number of chunks of a request is a number.
LEMMA ChunkCountType ==
    ASSUME NEW l \in Nat PROVE ChunkCount(l) \in Nat
<1>1. MaxPayload \in Nat \ {0}
  BY TxAssumption
<1>2. CASE l <= MaxPayload
  BY <1>2 DEF ChunkCount
<1>3. CASE ~(l <= MaxPayload)
  <2> DEFINE a == l + (MaxPayload - 1)
  <2>1. a \in Nat
    BY <1>1
  <2> HIDE DEF a
  <2>2. a \div MaxPayload \in Int /\ a % MaxPayload \in 0 .. MaxPayload - 1
        /\ a = MaxPayload * (a \div MaxPayload) + (a % MaxPayload)
    BY <1>1, <2>1, DivMod
  <2>3. a \div MaxPayload >= 0
    <3> DEFINE q == a \div MaxPayload
    <3>1. q \in Int /\ MaxPayload * q > -MaxPayload
      BY <1>1, <2>1, <2>2
    <3> HIDE DEF q
    <3>2. CASE q <= -1
      <4>1. MaxPayload * q <= -MaxPayload
        BY <1>1, <3>1, <3>2
      <4> QED BY <1>1, <3>1, <4>1
    <3> QED BY <3>1, <3>2 DEF q
  <2>4. ChunkCount(l) = a \div MaxPayload
    BY <1>3, Zenon DEF ChunkCount, a
  <2> QED BY <2>2, <2>3, <2>4
<1> QED BY <1>2, <1>3

\* handle_send_request has slots for a number of chunks.
LEMMA ReachType ==
    ASSUME NEW l \in Nat
    PROVE  Min({ChunkCount(l), Cardinality(Free)}) \in Nat
<1> DEFINE a == ChunkCount(l)
           c == Cardinality(Free)
<1>1. a \in Nat /\ c \in Nat
  BY ChunkCountType, RankType
<1> HIDE DEF a, c
<1>2. \E x \in {a, c} : \A y \in {a, c} : x <= y
  BY <1>1
<1>3. Min({a, c}) \in {a, c}
  BY <1>2 DEF Min
<1>4. Min({a, c}) \in Nat
  BY <1>1, <1>3
<1> QED BY <1>4 DEF a, c

\* What the application hands in is numbered.
LEMMA AppNumbers ==
    ASSUME Numbered, AppSends PROVE Numbered'
<1>1. net_data' = net_data
  BY DEF AppSends, net_vars
<1>2. ASSUME NEW l \in MsgLens, Send(l) PROVE Numbered'
  <2>1. l \in Nat
    BY TxAssumption
  <2> DEFINE reach == Min({ChunkCount(l), Cardinality(Free)})
             compacts == reach > 0 /\ ChunkEnd(l, reach) > AvailableBytes
             base == IF compacts THEN Bytes(Live) ELSE write_pos
             fits(j) == j = 0 \/ base + ChunkEnd(l, j) <= BufSize
             queued == Max({j \in 0 .. reach : fits(j)})
             new(i) == i \in Free /\ Rank(i) <= queued
  <2>2. /\ tx_seq' = [i \in Slots |-> IF new(i) THEN SeqAdd(next_seq, Rank(i) - 1) ELSE tx_seq[i]]
        /\ tx_kind' = [i \in Slots |-> IF new(i) THEN ChunkKind(l, Rank(i)) ELSE tx_kind[i]]
        /\ next_seq' = SeqAdd(next_seq, queued)
    BY <1>2 DEF Send, SendRequest
  <2> DEFINE S == {j \in 0 .. reach : fits(j)}
  <2>3. reach \in Nat
    BY <2>1, ReachType
  <2>4. queued \in Nat
    <3> HIDE DEF reach
    <3>1. S \subseteq 0 .. reach /\ 0 \in S
      BY <2>3
    <3> HIDE DEF S
    <3>2. Max(S) \in S
      BY <2>3, <3>1, MaxOfCounts
    <3>3. Max(S) \in 0 .. reach
      BY <3>1, <3>2
    <3> DEFINE m == Max(S)
    <3>4. m \in 0 .. reach
      BY <3>3
    <3> HIDE DEF m
    <3>5. m \in Nat
      BY <2>3, <3>4
    <3> QED BY <3>5 DEF m, S
  <2> HIDE DEF queued, reach
  <2>5. next_seq' \in SeqCounts
    BY <2>2, <2>4, SeqAddType DEF Numbered
  <2>6. ASSUME NEW i \in Slots PROVE SeqAdd(next_seq, Rank(i) - 1) \in SeqCounts
    <3>1. Rank(i) - 1 \in Int
      BY RankType
    <3> QED BY <3>1, SeqAddType DEF Numbered
  <2>7. ASSUME NEW n PROVE ChunkKind(l, n) \in PacketKinds
    BY DEF ChunkKind, PacketKinds
  <2> HIDE DEF new
  <2> QED BY <1>1, <2>2, <2>5, <2>6, <2>7 DEF Numbered
<1>3. CASE SendEos
  <2> DEFINE i == Min(Free)
  <2>1. tx_seq' = [tx_seq EXCEPT ![i] = next_seq] /\ tx_kind' = [tx_kind EXCEPT ![i] = "Eos"]
        /\ next_seq' = SeqAdd(next_seq, 1)
    BY <1>3 DEF SendEos
  <2> HIDE DEF i
  <2>2. next_seq' \in SeqCounts
    BY <2>1, SeqAddType DEF Numbered
  <2> QED BY <1>1, <2>1, <2>2 DEF Numbered, PacketKinds
<1> QED BY <1>2, <1>3 DEF AppSends

\* link.write puts a numbered packet on the network.
LEMMA WriteNumbers ==
    ASSUME Numbered, SenderWrites PROVE Numbered'
<1> DEFINE S == {i \in Slots : Matches(i, Head(actions).seq)}
<1>1. S \subseteq Slots /\ S # {} /\ writing' = Payload(Min(S))
  BY DEF SenderWrites, StartWrite
<1>2. Min(S) \in Slots
  BY <1>1, MinOfSlots
<1>3. net_data' = net_data \cup {writing'} /\ UNCHANGED <<next_seq, tx_seq, tx_kind>>
  BY DEF SenderWrites, StartWrite, tx_machine
<1> HIDE DEF S
<1>4. writing'.seq \in SeqCounts /\ writing'.kind \in PacketKinds
  BY <1>1, <1>2 DEF Payload, Numbered
<1> QED BY <1>3, <1>4 DEF Numbered

\* The other steps leave the numbers alone.
LEMMA NumberedStep == Numbered /\ [Next]_vars => Numbered'
<1> SUFFICES ASSUME Numbered, [Next]_vars PROVE Numbered'
  OBVIOUS
<1>1. ASSUME UNCHANGED <<next_seq, tx_seq, tx_kind, net_data>> PROVE Numbered'
  BY <1>1 DEF Numbered
<1>2. CASE SenderSteps
  BY <1>1, <1>2 DEF SenderSteps, PopAction, AwaitEvent, HandleTimeout, FinishWrite, TxTimer,
                    Timeout, tx_machine, net_vars
<1>3. CASE AckArrives
  BY <1>1, <1>3 DEF AckArrives, ReceiveAck, net_vars
<1>4. CASE DataArrives \/ ReceiverDrives \/ ReceiverSteps \/ UNCHANGED vars
  BY <1>1, <1>4 DEF DataArrives, ReceiverDrives, ReceiverSteps, tx_vars, tx_machine, net_vars, vars
<1> QED BY <1>2, <1>3, <1>4, AppNumbers, WriteNumbers DEF Next
-----------------------------------------------------------------------------
(* The receiver's ACKs.                                                    *)

\* A step of the receiver that moves its window on, as handle_data and skip_gap do, or
\* leaves it.
WindowMoves ==
    \E n \in Nat :
       /\ expected_seq' = SeqAdd(expected_seq, n) /\ passed' = passed + n
       /\ \A k \in recv_bitmap : k + 1 < n \/ (k >= n /\ k - n \in recv_bitmap')

\* What was received stays received, and no number is named twice.
LEMMA ReceivedStays ==
    ASSUME WindowInv, expected_seq = passed, WindowMoves, OneConnection'
    PROVE  /\ expected_seq' = passed'
           /\ \A a : AckTrue(a) => AckTrue(a)'
<1> PICK n \in Nat : /\ expected_seq' = SeqAdd(expected_seq, n) /\ passed' = passed + n
                     /\ \A k \in recv_bitmap : k + 1 < n \/ (k >= n /\ k - n \in recv_bitmap')
  BY DEF WindowMoves
<1>1. /\ expected_seq \in SeqCounts /\ passed \in Nat /\ recv_bitmap \subseteq Int
      /\ RxWin \in Nat \ {0} /\ SeqSpace \in Nat \ {0}
  BY RxAssumption, SeqSpaceAssumption DEF WindowInv, Fits, Agree
<1>2. expected_seq' = passed'
  <2> DEFINE r == passed + n
  <2>1. r \in 0 .. SeqSpace - 1 /\ r = SeqSpace * 0 + r /\ 0 \in Int
    BY <1>1 DEF OneConnection
  <2> HIDE DEF r
  <2>2. (SeqSpace * 0 + r) % SeqSpace = r
    BY <1>1, <2>1, ModUnique, Zenon
  <2> QED BY <2>1, <2>2 DEF SeqAdd, r
<1>3. ASSUME NEW s \in Int, Heard(s, passed, expected_seq, recv_bitmap)
      PROVE  Heard(s, passed', expected_seq', recv_bitmap')
  <2>1. CASE s < passed
    BY <1>1, <2>1 DEF Heard
  <2>2. CASE (s - expected_seq - 1) \in recv_bitmap
    <3> DEFINE k == s - expected_seq - 1
    <3>1. k \in recv_bitmap /\ k \in Int /\ s = (passed + 1) + k
      BY <1>1, <2>2
    <3> HIDE DEF k
    <3>2. CASE k + 1 < n
      BY <1>1, <3>1, <3>2 DEF Heard
    <3>3. CASE k - n \in recv_bitmap'
      <4>1. s - expected_seq' - 1 = k - n
        BY <1>1, <1>2, <3>1
      <4> QED BY <3>3, <4>1 DEF Heard
    <3> QED BY <3>1, <3>2, <3>3
  <2> QED BY <1>3, <2>1, <2>2 DEF Heard
<1>4. ASSUME NEW a, AckTrue(a) PROVE AckTrue(a)'
  <2>1. a.cum \in SeqCounts /\ a.bits \subseteq Nat
    BY <1>4 DEF AckTrue, Says
  <2>2. \A s \in 0 .. a.cum : s \in Int
    BY <2>1 DEF SeqCounts
  <2>3. \A b \in a.bits : SeqAdd(a.cum, 2 + b) \in Int
    <3> SUFFICES ASSUME NEW b \in a.bits PROVE SeqAdd(a.cum, 2 + b) \in Int
      OBVIOUS
    <3>1. 2 + b \in Int
      BY <2>1
    <3>2. SeqAdd(a.cum, 2 + b) \in SeqCounts
      BY <2>1, <3>1, SeqAddType
    <3> QED BY <1>1, <3>2 DEF SeqCounts
  <2> QED BY <1>3, <1>4, <2>1, <2>2, <2>3 DEF AckTrue, Says
<1> QED BY <1>2, <1>4

\* AckState reports the state it sees.
LEMMA AckNow ==
    ASSUME NEW e \in SeqCounts, e + RxWin <= SeqSpace, NEW bits, bits \subseteq 0 .. RxWin - 2
    PROVE  Says([cum |-> SeqSub(e, 1), bits |-> bits], e, e, bits)
<1> DEFINE cum == SeqSub(e, 1)
<1>1. /\ e \in SeqCounts /\ e \in Nat /\ e + RxWin <= SeqSpace /\ bits \subseteq 0 .. RxWin - 2
      /\ RxWin \in Nat \ {0} /\ SeqSpace \in Nat \ {0} /\ SeqSpace >= 4
  BY RxAssumption, SeqSpaceAssumption DEF SeqCounts
<1>2. cum \in SeqCounts
  BY <1>1, SeqAddType
<1>3. e > 0 => cum = e - 1
  <2> SUFFICES ASSUME e > 0 PROVE cum = e - 1
    OBVIOUS
  <2> DEFINE r == e - 1
  <2>1. r \in 0 .. SeqSpace - 1 /\ r = SeqSpace * 0 + r /\ 0 \in Int
    BY <1>1
  <2> HIDE DEF r
  <2>2. (SeqSpace * 0 + r) % SeqSpace = r
    BY <1>1, <2>1, ModUnique, Zenon
  <2> QED BY <2>1, <2>2 DEF SeqSub, r
<1>4. e = 0 => cum = SeqSub(0, 1)
  OBVIOUS
<1>5. ASSUME NEW b \in bits PROVE SeqAdd(cum, 2 + b) = e + 1 + b
  <2> DEFINE x == e - 1
             r == e + 1 + b
  <2>1. x \in Int /\ 2 + b \in Int /\ r \in 0 .. SeqSpace - 1 /\ x + (2 + b) = r
        /\ r = SeqSpace * 0 + r /\ 0 \in Int
    BY <1>1
  <2>2. ((x % SeqSpace) + (2 + b)) % SeqSpace = (x + (2 + b)) % SeqSpace
    <3> HIDE DEF x
    <3> QED BY <1>1, <2>1, ModAdd, Zenon
  <2>3. (SeqSpace * 0 + r) % SeqSpace = r
    <3> HIDE DEF r
    <3> QED BY <1>1, <2>1, ModUnique, Zenon
  <2>4. (x % SeqSpace) = cum
    BY DEF SeqSub
  <2> HIDE DEF x, r, cum
  <2>5. (cum + (2 + b)) % SeqSpace = r
    BY <2>1, <2>2, <2>3, <2>4
  <2> QED BY <2>5 DEF SeqAdd, r
<1>6. ASSUME NEW b \in bits PROVE Heard(SeqAdd(cum, 2 + b), e, e, bits)
  <2>1. (e + 1 + b) - e - 1 = b
    BY <1>1
  <2> QED BY <1>5, <2>1 DEF Heard
<1>7. ASSUME cum # SeqSub(0, 1), NEW s \in 0 .. cum PROVE Heard(s, e, e, bits)
  <2>1. e > 0
    BY <1>1, <1>4, <1>7
  <2>2. s < e
    BY <1>1, <1>3, <2>1
  <2> QED BY <2>2 DEF Heard
<1>8. bits \subseteq Nat
  BY <1>1
<1> HIDE DEF cum
<1> QED BY <1>2, <1>6, <1>7, <1>8 DEF Says, cum

\* The ACK of the state a step leads to.
AckOfNow == [cum |-> SeqSub(expected_seq, 1), bits |-> recv_bitmap]

\* The window is left, and so is the result.
LEMMA StillMoves ==
    ASSUME WindowDividesSpace, WindowInv, UNCHANGED <<expected_seq, recv_bitmap, occupied, passed>>
    PROVE  WindowMoves /\ WindowInv'
<1>1. /\ expected_seq \in SeqCounts /\ passed \in Nat
      /\ \A k \in recv_bitmap : k \in Int /\ k >= 0 /\ k - 0 = k
  BY RxAssumption DEF WindowInv, Fits, Agree
<1>2. SeqAdd(expected_seq, 0) = expected_seq
  BY <1>1, SlotFacts
<1>3. passed' = passed + 0
  BY <1>1
<1>4. WindowMoves
  BY <1>1, <1>2, <1>3 DEF WindowMoves
<1> QED BY <1>4 DEF WindowInv

\* The window of b is the receiver's.
SameWindow(b) ==
    /\ HasWindow(b) /\ b.expected = expected_seq /\ b.bitmap = recv_bitmap
    /\ b.occ = occupied /\ b.past = passed

\* The record handed to the backend has the window of the stream; EOS does not touch it.
LEMMA CurrentWindow ==
    /\ SameWindow(Current)
    /\ \A x : SameWindow([Current EXCEPT !.eos = x])
<1>1. SameWindow(Current)
  BY DEF SameWindow, Current, HasWindow
<1> DEFINE c == Current
<1>2. SameWindow(c)
  BY <1>1
<1> HIDE DEF c
<1>3. ASSUME NEW x PROVE SameWindow([c EXCEPT !.eos = x])
  BY <1>2 DEF SameWindow, HasWindow
<1> QED BY <1>1, <1>3 DEF c

\* The stream that replaces the receiver's is it, moved on.
LEMMA MovedWindow ==
    ASSUME NEW b, NEW r, SameWindow(b), FitsWindow(r), \E n \in Nat : MovesOn(b, r, n),
           WindowInv, expected_seq' = r.expected, recv_bitmap' = r.bitmap, occupied' = r.occ,
           passed' = r.past
    PROVE  WindowMoves /\ WindowInv'
<1> PICK n \in Nat : MovesOn(b, r, n)
  OBVIOUS
<1>1. WindowMoves
  BY DEF MovesOn, SameWindow, WindowMoves
<1>2. passed' \in Nat
  BY DEF MovesOn, SameWindow, WindowInv
<1> QED BY <1>1, <1>2 DEF WindowInv, FitsWindow

\* drive_segment on the receiver's stream.
LEMMA DriveMoves ==
    ASSUME WindowDividesSpace, WindowInv, NEW b, SameWindow(b), NEW p, p.seq \in SeqCounts,
           p.kind \in PacketKinds, DriveSegment(b, p)
    PROVE  /\ WindowMoves /\ WindowInv'
           /\ result' = result \/ result'.ack \in {NoAck, AckOfNow'}
<1> DEFINE r == HandleData(b, p)
<1>1. FitsWindow(b) /\ b.past \in Nat
  BY DEF SameWindow, FitsWindow, WindowInv
<1>2. FitsWindow(r) /\ \E n \in Nat : MovesOn(b, r, n)
  BY <1>1, HandleDataFits
<1> HIDE DEF r
<1>3. CASE r.err
  <2>1. UNCHANGED <<expected_seq, recv_bitmap, occupied, passed, result>>
    BY <1>3 DEF DriveSegment, Stop, rx_backend, r
  <2> QED BY <2>1, StillMoves
<1>4. CASE ~r.err
  <2>1. /\ expected_seq' = r.expected /\ recv_bitmap' = r.bitmap /\ occupied' = r.occ
        /\ passed' = r.past /\ OnData(b, r)
    BY <1>4 DEF DriveSegment, SetStream, r
  <2>2. WindowMoves /\ WindowInv'
    BY <1>2, <2>1, MovedWindow
  <2>3. result'.ack \in {NoAck, AckOf(r)}
    BY <2>1 DEF OnData
  <2>4. AckOf(r) = AckOfNow'
    BY <2>1 DEF AckOf, AckOfNow
  <2> QED BY <2>2, <2>3, <2>4
<1> QED BY <1>3, <1>4

\* A DATA or an EOS packet, within one connection.
LEMMA ReceiveMoves ==
    ASSUME WindowDividesSpace, WindowInv, reaps = 0, reaps' = 0, NEW p, p.seq \in SeqCounts,
           p.kind \in PacketKinds, ReceiveData(p) \/ ReceiveEos(p)
    PROVE  /\ WindowMoves /\ WindowInv'
           /\ result' = result \/ result'.ack \in {NoAck, AckOfNow'}
<1>1. CASE ReceiveData(p) /\ ~EosReached(Current)
  <2>1. DriveSegment(Current, p)
    BY <1>1 DEF ReceiveData
  <2> QED BY <2>1, CurrentWindow, DriveMoves
<1>2. CASE ReceiveData(p) /\ EosReached(Current)
  <2>1. DriveSegment(Fresh, p)
    BY <1>2 DEF ReceiveData
  <2> DEFINE r == HandleData(Fresh, p)
  <2>2. CASE r.err
    <3>1. UNCHANGED <<expected_seq, recv_bitmap, occupied, passed, result>>
      BY <2>1, <2>2 DEF DriveSegment, Stop, rx_backend
    <3> QED BY <3>1, StillMoves
  <2>3. CASE ~r.err
    <3>1. reaps' = Fresh.reaps
      BY <2>1, <2>3 DEF DriveSegment, SetStream
    <3>2. Fresh.reaps = 1
      BY DEF Fresh
    <3> QED BY <3>1, <3>2
  <2> QED BY <2>2, <2>3
<1>3. CASE ReceiveEos(p)
  <2> DEFINE noted == [Current EXCEPT !.eos = IF @ = Unknown THEN p.seq ELSE @]
  <2>1. DriveSegment(noted, p)
    BY <1>3 DEF ReceiveEos
  <2>2. SameWindow(noted)
    BY CurrentWindow
  <2> HIDE DEF noted
  <2> QED BY <2>1, <2>2, DriveMoves
<1> QED BY <1>1, <1>2, <1>3

\* The timers and the consumer.
LEMMA ReceiverStepMoves ==
    ASSUME WindowDividesSpace, WindowInv, AckTimeout \/ ProgressTimeout \/ RecvData \/ RecvEos
    PROVE  /\ WindowMoves /\ WindowInv'
           /\ result' = result \/ result'.ack \in {NoAck, AckOfNow'}
<1>1. CASE AckTimeout
  <2>1. UNCHANGED <<expected_seq, recv_bitmap, occupied, passed>>
    BY <1>1 DEF AckTimeout, rx_backend
  <2>2. AckOf(Current) = AckOfNow'
    BY <2>1 DEF AckOf, Current, AckOfNow
  <2>3. result'.ack \in {NoAck, AckOf(Current)}
    BY <1>1 DEF AckTimeout, OnAckTimeout, NoResult
  <2> QED BY <2>1, <2>2, <2>3, StillMoves
<1>2. CASE ProgressTimeout
  <2> DEFINE r == SkipGap(Current)
  <2>1. SameWindow(Current) /\ FitsWindow(Current) /\ Current.past \in Nat
    BY CurrentWindow, CurrentHanded DEF Handed
  <2>2. FitsWindow(r) /\ \E n \in Nat : MovesOn(Current, r, n)
    BY <2>1, SkipGapFits
  <2> HIDE DEF r
  <2>3. CASE r.err
    <3>1. UNCHANGED <<expected_seq, recv_bitmap, occupied, passed, result>>
      BY <1>2, <2>3 DEF ProgressTimeout, Stop, rx_backend, r
    <3> QED BY <3>1, StillMoves
  <2>4. CASE ~r.err
    <3>1. /\ expected_seq' = r.expected /\ recv_bitmap' = r.bitmap /\ occupied' = r.occ
          /\ passed' = r.past /\ OnGapSkip(r)
      BY <1>2, <2>4 DEF ProgressTimeout, SetStream, r
    <3>2. result'.ack = NoAck
      BY <3>1 DEF OnGapSkip, NoResult
    <3> QED BY <2>1, <2>2, <3>1, <3>2, MovedWindow
  <2> QED BY <2>3, <2>4
<1>3. CASE RecvData \/ RecvEos
  <2>1. UNCHANGED <<expected_seq, recv_bitmap, occupied, passed, result>>
    BY <1>3 DEF RecvData, RecvEos, rx_backend
  <2> QED BY <2>1, StillMoves
<1> QED BY <1>1, <1>2, <1>3
-----------------------------------------------------------------------------
(* The two endpoints.                                                      *)

\* A step that moves the receiver on and puts no ACK on the network that it did not owe.
LEMMA AckInvKept ==
    ASSUME AckInv, OneConnection', Numbered', WindowInv', WindowMoves,
           net_acks' \subseteq net_acks \cup (IF result.ack = NoAck THEN {} ELSE {result.ack}),
           result' = result \/ result'.ack \in {NoAck, AckOfNow'}
    PROVE  AckInv'
<1> DEFINE held(a) == Says(a, passed', expected_seq', recv_bitmap')
<1>1. expected_seq' = passed' /\ \A a : AckTrue(a) => held(a)
  BY ReceivedStays DEF AckInv, AckTrue
<1>2. held(AckOfNow')
  <2> DEFINE e == expected_seq'
             bits == recv_bitmap'
  <2>1. e \in SeqCounts /\ e + RxWin <= SeqSpace /\ bits \subseteq 0 .. RxWin - 2
    BY <1>1 DEF WindowInv, Fits, Agree, OneConnection
  <2>2. AckOfNow' = [cum |-> SeqSub(e, 1), bits |-> bits]
    BY DEF AckOfNow
  <2> HIDE DEF e, bits
  <2>3. Says([cum |-> SeqSub(e, 1), bits |-> bits], e, e, bits)
    BY <2>1, AckNow
  <2> QED BY <1>1, <2>2, <2>3 DEF e, bits
<1> HIDE DEF held
<1>3. \A a \in net_acks' : held(a)
  BY <1>1 DEF AckInv
<1>4. (result.ack # NoAck)' => held(result.ack')
  BY <1>1, <1>2 DEF AckInv
<1> QED BY <1>1, <1>3, <1>4 DEF AckInv, AckTrue, held

\* Nothing is known, and nothing claimed, at the start.
LEMMA AckInvInit == Init => AckInv
<1> SUFFICES ASSUME Init PROVE AckInv
  OBVIOUS
<1>1. Numbered
  BY SeqSpaceAssumption DEF Init, TxInit, Numbered, SeqCounts, PacketKinds
<1>2. WindowInv /\ expected_seq = passed
  BY SeqSpaceAssumption DEF Init, RxInit, WindowInv, Fits, Agree, SeqCounts
<1>3. net_acks = {} /\ result.ack = NoAck
  BY DEF Init, RxInit, NoResult
<1> QED BY <1>1, <1>2, <1>3 DEF AckInv

\* Every step within one connection keeps the ACKs true.
LEMMA AckInvStep ==
    ASSUME WindowDividesSpace, AckInv, OneConnection, OneConnection', [Next]_vars
    PROVE  AckInv'
<1>1. Numbered' /\ WindowInv /\ reaps = 0 /\ reaps' = 0
  BY NumberedStep DEF AckInv, OneConnection
<1>2. CASE AppSends \/ SenderWrites \/ SenderSteps \/ AckArrives \/ UNCHANGED vars
  <2>1. UNCHANGED <<expected_seq, recv_bitmap, occupied, passed, result, net_acks>>
    BY <1>2 DEF AppSends, SenderWrites, SenderSteps, AckArrives, vars, rx_vars, rx_backend, net_vars
  <2>2. WindowMoves /\ WindowInv'
    BY <1>1, <2>1, StillMoves
  <2> QED BY <1>1, <2>1, <2>2, AckInvKept
<1>3. CASE DataArrives
  <2>1. PICK p \in net_data : ReceiveData(p) \/ ReceiveEos(p)
    BY <1>3 DEF DataArrives
  <2>2. p.seq \in SeqCounts /\ p.kind \in PacketKinds
    BY DEF AckInv, Numbered
  <2>3. /\ WindowMoves /\ WindowInv'
        /\ result' = result \/ result'.ack \in {NoAck, AckOfNow'}
    BY <1>1, <2>1, <2>2, ReceiveMoves
  <2>4. net_acks' = net_acks
    BY <1>3 DEF DataArrives, net_vars
  <2> QED BY <1>1, <2>3, <2>4, AckInvKept
<1>4. CASE ReceiverDrives
  <2>1. /\ UNCHANGED <<expected_seq, recv_bitmap, occupied, passed>> /\ result' = NoResult
        /\ net_acks' = IF result.ack = NoAck THEN net_acks ELSE net_acks \cup {result.ack}
    BY <1>4 DEF ReceiverDrives, DriveActions, rx_backend
  <2>2. WindowMoves /\ WindowInv'
    BY <1>1, <2>1, StillMoves
  <2>3. result'.ack = NoAck
    BY <2>1 DEF NoResult
  <2> QED BY <1>1, <2>1, <2>2, <2>3, AckInvKept
<1>5. CASE ReceiverSteps
  <2>1. /\ WindowMoves /\ WindowInv'
        /\ result' = result \/ result'.ack \in {NoAck, AckOfNow'}
    BY <1>1, <1>5, ReceiverStepMoves DEF ReceiverSteps
  <2>2. net_acks' = net_acks
    BY <1>5 DEF ReceiverSteps, net_vars
  <2> QED BY <1>1, <2>1, <2>2, AckInvKept
<1> QED BY <1>2, <1>3, <1>4, <1>5 DEF Next

\* No ACK on the network claims a packet that the receiver does not have or has not passed,
\* however old it is when it is read: for every window that divides the sequence space, both
\* backends, every loss, duplication and reordering, within one connection.
THEOREM AcksTellTheTruth ==
    ASSUME WindowDividesSpace
    PROVE  Spec /\ []OneConnection => []AcksAreTrue
<1>1. AckInv /\ OneConnection /\ OneConnection' /\ [Next]_vars => AckInv'
  BY AckInvStep
<1>2. AckInv => AcksAreTrue
  BY DEF AckInv, AckTrue, Says, Heard, AcksAreTrue, Received
<1> QED BY <1>1, <1>2, AckInvInit, PTL DEF Spec
=============================================================================
