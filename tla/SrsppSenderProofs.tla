-------------------------- MODULE SrsppSenderProofs --------------------------
(***************************************************************************)
(* The SRSPP sender, for every window, queue, buffer and number of         *)
(* retransmissions: a message is given up only after all its attempts, a   *)
(* packet that waits for its transmission has a Transmit in the queue, and *)
(* one that waits for its ACK has its timer armed, as long as the packets  *)
(* in the window have different numbers.                                   *)
(* The payloads in the send buffer do not overlap, and compacting moves    *)
(* each of them whole, so that what is sent again is what was queued.      *)
(***************************************************************************)
EXTENDS SrsppSender, ModularArithmetic, FiniteSetTheorems,
        SequenceTheorems, TLAPS

\* A set of slots that is not empty has a first slot.
LEMMA MinOfSlots ==
    ASSUME NEW S, S \subseteq Slots, S # {}
    PROVE  Min(S) \in S /\ \A y \in S : Min(S) <= y
<1>1. S \subseteq Nat
  BY TxAssumption DEF Slots
<1>2. \E x \in S : \A y \in S : x <= y
  BY <1>1, LeastNat
<1> QED
  BY <1>2 DEF Min

SlotState == {"Empty", "PendingTransmit", "AwaitingAck"}

\* The attempts a slot has made agree with its retransmit_count.
AttemptsOf(st, count, made) ==
    /\ st \in SlotState /\ count \in 0 .. MaxRetransmits /\ made \in Nat
    /\ st = "PendingTransmit" => made = count
    /\ st = "AwaitingAck" => made = count + 1

Attempts ==
    /\ DOMAIN tx_st = Slots /\ DOMAIN tx_count = Slots /\ DOMAIN writes = Slots
    /\ \A i \in Slots : AttemptsOf(tx_st[i], tx_count[i], writes[i])

\* A slot that is filled, or filled afresh, has made no attempt.
LEMMA FilledSlots ==
    ASSUME Attempts,
           DOMAIN tx_st' = Slots, DOMAIN tx_count' = Slots, DOMAIN writes' = Slots,
           \A i \in Slots :
              \/ tx_st'[i] \in {"Empty", "PendingTransmit"} /\ tx_count'[i] = 0 /\ writes'[i] = 0
              \/ tx_st'[i] = "Empty" /\ tx_count'[i] = tx_count[i] /\ writes'[i] = writes[i]
              \/ tx_st'[i] = tx_st[i] /\ tx_count'[i] = tx_count[i] /\ writes'[i] = writes[i]
    PROVE  Attempts'
<1>1. ASSUME NEW i \in Slots PROVE AttemptsOf(tx_st'[i], tx_count'[i], writes'[i])
  BY TxAssumption DEF Attempts, AttemptsOf, SlotState
<1> QED
  BY <1>1 DEF Attempts

\* Empty slots have no attempts.
LEMMA AttemptsInit == TxInit => Attempts
  BY TxAssumption DEF TxInit, Attempts, AttemptsOf, SlotState

\* The application fills free slots only; a new packet has not been written.
LEMMA AppAttempts == ASSUME Attempts, TxApp PROVE Attempts'
<1>1. ASSUME NEW l, SendRequest(l) PROVE Attempts'
  <2>1. /\ DOMAIN tx_st' = Slots /\ DOMAIN tx_count' = Slots /\ DOMAIN writes' = Slots
        /\ \A i \in Slots :
              \/ tx_st'[i] = "PendingTransmit" /\ tx_count'[i] = 0 /\ writes'[i] = 0
              \/ tx_st'[i] = tx_st[i] /\ tx_count'[i] = tx_count[i] /\ writes'[i] = writes[i]
    BY <1>1 DEF SendRequest
  <2> QED
    BY <2>1, FilledSlots
<1>2. CASE SendEos
  <2> DEFINE i == Min(Free)
  <2>1. i \in Slots
    BY <1>2, MinOfSlots DEF SendEos, Free
  <2>2. /\ tx_st' = [tx_st EXCEPT ![i] = "PendingTransmit"]
        /\ tx_count' = [tx_count EXCEPT ![i] = 0] /\ writes' = [writes EXCEPT ![i] = 0]
    BY <1>2 DEF SendEos
  <2> HIDE DEF i
  <2> QED
    BY <2>1, <2>2, FilledSlots DEF Attempts
<1>3. ASSUME ResetSlot PROVE Attempts'
  BY <1>3, FilledSlots DEF ResetSlot
<1> QED
  BY <1>1, <1>2, <1>3 DEF TxApp, Send, Drop, Bind

\* link.write makes one attempt of the slot it was for, if it is still pending.
LEMMA WriteAttempts == ASSUME Attempts, FinishWrite PROVE Attempts'
<1> DEFINE pending == {i \in Slots : tx_st[i] = "PendingTransmit" /\ tx_seq[i] = writing.seq}
           first == Min(pending)
<1>1. /\ tx_st' = [i \in Slots |-> IF pending # {} /\ i = first THEN "AwaitingAck" ELSE tx_st[i]]
      /\ writes' = [i \in Slots |-> IF pending # {} /\ i = first THEN writes[i] + 1 ELSE writes[i]]
      /\ tx_count' = tx_count
  BY DEF FinishWrite
<1>2. pending # {} => first \in pending
  BY MinOfSlots
<1>3. pending # {} => tx_st[first] = "PendingTransmit"
  BY <1>2
<1> HIDE DEF pending, first
<1>4. ASSUME NEW i \in Slots PROVE AttemptsOf(tx_st'[i], tx_count'[i], writes'[i])
  BY <1>1, <1>3 DEF Attempts, AttemptsOf, SlotState
<1> QED
  BY <1>1, <1>4 DEF Attempts

\* handle_timeout counts an attempt that was made.
LEMMA TimeoutAttempts == ASSUME Attempts, HandleTimeout PROVE Attempts'
<1> DEFINE i == Min(Awaiting(Head(expired)))
<1>1. CASE UNCHANGED <<tx_st, tx_count>>
  BY <1>1 DEF HandleTimeout, Attempts
<1>2. CASE tx_st' = [tx_st EXCEPT ![i] = "Empty"] /\ UNCHANGED tx_count
  BY <1>2, FilledSlots DEF HandleTimeout, Attempts
<1>3. CASE /\ Awaiting(Head(expired)) # {} /\ ~Exhausted(i)
           /\ tx_st' = [tx_st EXCEPT ![i] = "PendingTransmit"]
           /\ tx_count' = [tx_count EXCEPT ![i] = @ + 1]
  <2>1. i \in Slots /\ tx_st[i] = "AwaitingAck"
    BY <1>3, MinOfSlots DEF Awaiting
  <2>2. writes' = writes
    BY DEF HandleTimeout
  <2> HIDE DEF i
  <2>3. ASSUME NEW x \in Slots PROVE AttemptsOf(tx_st'[x], tx_count'[x], writes'[x])
    BY <1>3, <2>1, <2>2, TxAssumption DEF Attempts, AttemptsOf, SlotState, Exhausted
  <2> QED
    BY <1>3, <2>2, <2>3 DEF Attempts
<1> QED
  BY <1>1, <1>2, <1>3 DEF HandleTimeout

\* Every step of the sender keeps the attempts in agreement with the counts.
LEMMA AttemptsStep == Attempts /\ [TxNext]_tx_vars => Attempts'
<1> SUFFICES ASSUME Attempts, [TxNext]_tx_vars PROVE Attempts'
  OBVIOUS
<1>1. ASSUME UNCHANGED <<tx_st, tx_count, writes>> PROVE Attempts'
  BY <1>1 DEF Attempts
<1>2. CASE TxApp
  BY <1>2, AppAttempts
<1>3. CASE TxLoop
  BY <1>1, <1>3, TimeoutAttempts DEF TxLoop, StartWrite, PopAction, AwaitEvent, tx_machine
<1>4. CASE FinishWrite
  BY <1>4, WriteAttempts
<1>5. ASSUME NEW cum, NEW bits, ReceiveAck(cum, bits) PROVE Attempts'
  <2>1. /\ \/ tx_st' = tx_st
           \/ tx_st' = [i \in Slots |-> IF i \in Acked(cum, bits) THEN "Empty" ELSE tx_st[i]]
        /\ tx_count' = tx_count /\ writes' = writes
    BY <1>5 DEF ReceiveAck
  <2> QED
    BY <2>1, FilledSlots DEF Attempts
<1>6. CASE LinkFails \/ TxTimer \/ TxStopped \/ UNCHANGED tx_vars
  BY <1>1, <1>6 DEF LinkFails, TxTimer, Timeout, TxStopped, tx_machine, tx_vars
<1> QED
  BY <1>2, <1>3, <1>4, <1>5, <1>6 DEF TxNext

\* The attempts that the code counts are the attempts the link saw.
THEOREM AttemptsAreCounted == TxSpec => []Attempts
<1> QED
  BY AttemptsInit, AttemptsStep, PTL DEF TxSpec

\* One packet more is declared lost only by handle_timeout.
LEMMA OnlyTimeoutGivesUp ==
    ASSUME [TxNext]_tx_vars, ~HandleTimeout PROVE gave_up' \subseteq gave_up
<1>1. CASE TxApp
  BY <1>1 DEF TxApp, Send, SendEos, Drop, Bind, ResetSlot
<1>2. CASE TxLoop
  BY <1>2 DEF TxLoop, StartWrite, PopAction, AwaitEvent
<1>3. CASE \E cum \in SeqCounts, bits \in SUBSET (0 .. SackBits - 1) : ReceiveAck(cum, bits)
  BY <1>3 DEF ReceiveAck
<1>4. CASE FinishWrite \/ LinkFails \/ TxTimer \/ TxStopped \/ UNCHANGED tx_vars
  BY <1>4 DEF FinishWrite, LinkFails, TxTimer, Timeout, TxStopped, tx_vars
<1> QED
  BY <1>1, <1>2, <1>3, <1>4 DEF TxNext

\* A timeout frees a slot only after the first write and all retransmissions.
LEMMA TimeoutGivesUpLast ==
    ASSUME Attempts, HandleTimeout, NEW i \in Slots, GivesUp(i)
    PROVE  writes[i] = MaxRetransmits + 1
<1> DEFINE k == Min(Awaiting(Head(expired)))
<1>1. tx_st[i] = "AwaitingAck" /\ tx_st'[i] = "Empty"
  BY DEF GivesUp
<1>2. /\ Exhausted(k) /\ tx_st' = [tx_st EXCEPT ![k] = "Empty"]
  BY <1>1 DEF HandleTimeout, Attempts
<1>3. i = k
  BY <1>1, <1>2 DEF Attempts
<1> HIDE DEF k
<1> QED
  BY <1>1, <1>2, <1>3, TxAssumption DEF Attempts, AttemptsOf, Exhausted

\* A packet is declared lost only after MaxRetransmits + 1 attempts, whatever
\* timers expire, ACKs arrive and senders are dropped and bound meanwhile.
THEOREM GiveUpIsLast == TxSpec => GiveUpAfterAllAttempts
<1> DEFINE A == \A i \in Slots : GivesUp(i) /\ ~overtaken => writes[i] = MaxRetransmits + 1
<1>1. Attempts /\ [TxNext]_tx_vars => A
  <2> SUFFICES ASSUME Attempts, [TxNext]_tx_vars, NEW i \in Slots, GivesUp(i)
               PROVE  writes[i] = MaxRetransmits + 1
    OBVIOUS
  <2>1. HandleTimeout
    BY OnlyTimeoutGivesUp DEF GivesUp
  <2> QED
    BY <2>1, TimeoutGivesUpLast
<1>2. Attempts /\ [TxNext]_tx_vars => [A]_tx_vars
  BY <1>1
<1> QED
  BY <1>2, AttemptsAreCounted, PTL DEF TxSpec, GiveUpAfterAllAttempts

(* Sets of slots in order.                                                 *)

\* There are TxWin slots.
LEMMA SlotsAreFinite ==
    /\ IsFiniteSet(Slots) /\ Cardinality(Slots) = TxWin
    /\ \A S : S \subseteq Slots =>
          IsFiniteSet(S) /\ Cardinality(S) \in Nat /\ Cardinality(S) <= TxWin
<1>1. TxWin \in Nat /\ TxWin >= 1 /\ 1 \in Int /\ TxWin \in Int
  BY TxAssumption
<1>2. IsFiniteSet(1 .. TxWin) /\ Cardinality(1 .. TxWin) = TxWin
  BY <1>1, FS_Interval
<1> QED
  BY <1>2, FS_Subset, FS_CardinalityType DEF Slots

\* The slots of a set have the positions 1, 2, ... up to their number.
LEMMA PositionsCount ==
    ASSUME NEW S, S \subseteq Slots, NEW key \in [Slots -> Int]
    PROVE  /\ \A i \in S : Position(S, key, i) \in 1 .. Cardinality(S)
           /\ \A i, j \in S : Position(S, key, i) = Position(S, key, j) => i = j
           /\ \A k \in 1 .. Cardinality(S) : \E i \in S : Position(S, key, i) = k
<1> DEFINE UpTo(i) == {j \in S : key[j] < key[i] \/ (key[j] = key[i] /\ j <= i)}
           n == Cardinality(S)
<1>1. IsFiniteSet(S) /\ n \in Nat
  BY SlotsAreFinite
<1>2. \A i \in S : Position(S, key, i) = Cardinality(UpTo(i))
  BY DEF Position
<1>3. \A i \in S : i \in Int /\ key[i] \in Int
  BY DEF Slots
<1>4. \A i \in S : i \in UpTo(i) /\ UpTo(i) \subseteq S
  BY <1>3
<1>5. \A T : T \subseteq S => IsFiniteSet(T) /\ Cardinality(T) \in Nat /\ Cardinality(T) <= n
  BY <1>1, FS_Subset, FS_CardinalityType
<1>6. ASSUME NEW i \in S PROVE Position(S, key, i) \in 1 .. n
  <2>1. UpTo(i) # {} /\ UpTo(i) \subseteq S
    BY <1>4
  <2>2. Cardinality(UpTo(i)) # 0
    BY <1>5, <2>1, FS_EmptySet
  <2> HIDE DEF UpTo
  <2> QED BY <1>1, <1>2, <1>5, <2>1, <2>2
<1>7. ASSUME NEW i \in S, NEW j \in S, key[i] < key[j] \/ (key[i] = key[j] /\ i < j)
      PROVE  Position(S, key, i) # Position(S, key, j)
  <2>1. UpTo(i) \subseteq UpTo(j)
    BY <1>3, <1>7
  <2>2. j \in UpTo(j) /\ j \notin UpTo(i)
    BY <1>3, <1>7
  <2>3. IsFiniteSet(UpTo(j)) /\ UpTo(i) # UpTo(j)
    BY <1>4, <1>5, <2>2
  <2> HIDE DEF UpTo
  <2>4. Cardinality(UpTo(j)) # Cardinality(UpTo(i))
    BY <2>1, <2>3, FS_Subset
  <2> QED BY <1>2, <2>4
<1>8. ASSUME NEW i \in S, NEW j \in S, Position(S, key, i) = Position(S, key, j) PROVE i = j
  BY <1>3, <1>7, <1>8
<1>9. ASSUME NEW k \in 1 .. n PROVE \E i \in S : Position(S, key, i) = k
  <2> DEFINE f == [i \in S |-> Position(S, key, i)]
  <2>1. f \in Injection(S, 1 .. n)
    <3>1. f \in [S -> 1 .. n]
      BY <1>6
    <3>2. \A i, j \in S : f[i] = f[j] => i = j
      BY <1>8
    <3> HIDE DEF f
    <3> QED BY <3>1, <3>2 DEF Injection, IsInjective
  <2>2. IsFiniteSet(1 .. n) /\ Cardinality(1 .. n) = n
    BY <1>1, FS_Interval
  <2>3. f \in Surjection(S, 1 .. n)
    BY <2>1, <2>2, FS_Injection
  <2> QED BY <2>3 DEF Surjection
<1> QED
  BY <1>6, <1>8, <1>9

\* InOrder lists the set, each slot once.
LEMMA InOrderLists ==
    ASSUME NEW S, S \subseteq Slots, NEW key \in [Slots -> Int]
    PROVE  /\ InOrder(S, key) \in Seq(S) /\ Len(InOrder(S, key)) = Cardinality(S)
           /\ DOMAIN InOrder(S, key) = 1 .. Cardinality(S)
           /\ \A k \in 1 .. Cardinality(S) : InOrder(S, key)[k] \in S
           /\ \A i \in S : \E k \in 1 .. Cardinality(S) : InOrder(S, key)[k] = i
           /\ \A k, l \in 1 .. Cardinality(S) :
                 InOrder(S, key)[k] = InOrder(S, key)[l] => k = l
<1> DEFINE n == Cardinality(S)
           q == InOrder(S, key)
<1>1. n \in Nat
  BY SlotsAreFinite
<1>2. q = [k \in 1 .. n |-> CHOOSE i \in S : Position(S, key, i) = k]
  BY DEF InOrder
<1>3. \A k \in 1 .. n : q[k] \in S /\ Position(S, key, q[k]) = k
  BY <1>2, PositionsCount
<1>4. q \in [1 .. n -> S]
  BY <1>2, <1>3
<1>5. \A i \in S : q[Position(S, key, i)] = i /\ Position(S, key, i) \in 1 .. n
  BY <1>3, PositionsCount
<1> HIDE DEF q, n
<1>6. q \in Seq(S) /\ Len(q) = n /\ DOMAIN q = 1 .. n
  BY <1>1, <1>4
<1>7. \A i \in S : \E k \in 1 .. n : q[k] = i
  BY <1>5
<1>8. \A k, l \in 1 .. n : q[k] = q[l] => k = l
  BY <1>3
<1> QED
  BY <1>3, <1>6, <1>7, <1>8 DEF q, n

\* The free slots have the ranks 1, 2, ... up to their number.
LEMMA RanksCount ==
    /\ \A i \in Free : Rank(i) \in 1 .. Cardinality(Free)
    /\ \A i, j \in Free : Rank(i) = Rank(j) => i = j
    /\ \A k \in 1 .. Cardinality(Free) : \E i \in Free : Rank(i) = k
<1> DEFINE key == [i \in Slots |-> i]
<1>1. Free \subseteq Slots /\ key \in [Slots -> Int]
  BY DEF Free, Slots
<1>2. ASSUME NEW i \in Free PROVE Position(Free, key, i) = Rank(i)
  <2>1. {j \in Free : key[j] < key[i] \/ (key[j] = key[i] /\ j <= i)} = {j \in Free : j <= i}
    <3>1. \A j \in Free : key[j] = j /\ j \in Int
      BY <1>1 DEF Slots
    <3> HIDE DEF key
    <3> QED BY <3>1
  <2> QED BY <2>1 DEF Position, Rank
<1> HIDE DEF key
<1> QED
  BY <1>1, <1>2, PositionsCount, SMTT(40)

(* The queue of actions.                                                   *)

\* The queue has room for what can pile up between two drains.  (MAX_ACTIONS is 32, for
\* windows of up to 16.)
RoomForActions == MaxActions >= 2 * TxWin - 1

\* The packets in the window carry different numbers.
DistinctSeqs == \A i, j \in Live : tx_seq[i] = tx_seq[j] => i = j

SenderAction == [type : ActionTypes, seq : SeqCounts \cup {NoSeq}]

IsTransmit(k) == actions[k].type = "Transmit"

\* the types of the slots, and of what the queue and the timers are made of
SlotTypes ==
    tx_st \in [Slots -> SlotState] /\ tx_seq \in [Slots -> SeqCounts] /\ next_seq \in SeqCounts

QueueTypes ==
    /\ tx_st \in [Slots -> SlotState] /\ tx_seq \in [Slots -> SeqCounts] /\ next_seq \in SeqCounts
    /\ actions \in Seq(SenderAction) /\ Len(actions) <= MaxActions
    /\ timers \in [Slots -> SeqCounts \cup {NoSeq}]
    /\ expired \in Seq(SeqCounts)
    /\ writing.seq \in SeqCounts \cup {NoSeq}
    /\ tx_pc \in {"drain", "expire", "write", "select", "failed"}

\* a Transmit belongs to a live slot, and none has two
TransmitsOwned ==
    /\ \A k \in DOMAIN actions : IsTransmit(k) => \E i \in Slots : Matches(i, actions[k].seq)
    /\ \A k, l \in DOMAIN actions : IsTransmit(k) /\ actions[l] = actions[k] => l = k

\* in the select, and when it ends with expired timers, the queue holds first transmissions only
SelectQueue ==
    /\ tx_pc = "select" =>
        /\ expired = <<>>
        /\ \A i \in Slots : tx_st[i] = "PendingTransmit" => writes[i] = 0
    /\ tx_pc \in {"select", "expire"} =>
        /\ \A k \in DOMAIN actions : IsTransmit(k)
        /\ \A i \in Live, k \in DOMAIN actions :
              tx_seq[i] = actions[k].seq => tx_st[i] = "PendingTransmit"

\* the other actions take few places while there is a packet to write
NoticesAreFew ==
    tx_pc = "write" \/ (\E t \in DOMAIN actions : IsTransmit(t)) =>
        \A k, l \in DOMAIN actions : ~IsTransmit(k) /\ ~IsTransmit(l) => l - k < TxWin

\* with other actions in the queue, link.write has the packet of a slot of its own
WriteTakesSlot ==
    tx_pc = "write" /\ (\E k \in DOMAIN actions : ~IsTransmit(k)) =>
        /\ \E i \in Slots : Matches(i, writing.seq)
        /\ \A k \in DOMAIN actions : actions[k] # Transmit(writing.seq)

QueueInv ==
    /\ QueueTypes /\ TransmitsOwned /\ PendingIsQueued
    /\ SelectQueue /\ NoticesAreFew /\ WriteTakesSlot

\* Push appends a prefix, all of it if there is room.
LEMMA PushTakes ==
    ASSUME NEW queue \in Seq(SenderAction), NEW new \in Seq(SenderAction),
           Len(queue) <= MaxActions
    PROVE  \E m \in 0 .. Len(new) :
              /\ Push(queue, new) \in Seq(SenderAction)
              /\ Len(Push(queue, new)) = Len(queue) + m /\ Len(queue) + m <= MaxActions
              /\ \A k \in 1 .. Len(queue) : Push(queue, new)[k] = queue[k]
              /\ \A k \in 1 .. m : Push(queue, new)[Len(queue) + k] = new[k]
              /\ Len(queue) + Len(new) <= MaxActions => m = Len(new)
              /\ Len(queue) + Len(new) > MaxActions => m = MaxActions - Len(queue)
<1> DEFINE a == Len(new)
           b == MaxActions - Len(queue)
           m == Min({a, b})
<1>1. a \in Nat /\ b \in Nat /\ Len(queue) \in Nat /\ MaxActions \in Nat
  BY TxAssumption
<1>2. m \in {a, b} /\ m <= a /\ m <= b
  <2>1. \E x \in {a, b} : \A y \in {a, b} : x <= y
    BY <1>1
  <2> HIDE DEF a, b
  <2> QED BY <2>1 DEF Min
<1>3. Push(queue, new) = queue \o SubSeq(new, 1, m)
  BY DEF Push
<1>4. m \in 0 .. a /\ m \in Nat
  BY <1>1, <1>2
<1>5. Len(queue) + m <= MaxActions /\ (Len(queue) + a <= MaxActions => m = a)
      /\ (Len(queue) + a > MaxActions => m = b)
  BY <1>1, <1>2
<1> HIDE DEF m, b
<1>6. /\ SubSeq(new, 1, m) \in Seq(SenderAction) /\ Len(SubSeq(new, 1, m)) = m
      /\ \A k \in 1 .. m : SubSeq(new, 1, m)[k] = new[k]
  BY <1>4
<1>7. /\ Push(queue, new) \in Seq(SenderAction)
      /\ Len(Push(queue, new)) = Len(queue) + m
      /\ \A k \in 1 .. Len(queue) : Push(queue, new)[k] = queue[k]
      /\ \A k \in 1 .. m : Push(queue, new)[Len(queue) + k] = new[k]
  BY <1>3, <1>4, <1>6
<1> QED
  BY <1>4, <1>5, <1>7 DEF b

\* of a queue: its Transmits belong to slots of L, none is there twice, the others are few
OwnedBy(u, L, sq) == \A k \in DOMAIN u : u[k].type = "Transmit" => \E i \in L : sq[i] = u[k].seq
Once(u) == \A k, l \in DOMAIN u : u[k].type = "Transmit" /\ u[l] = u[k] => l = k
Few(u) == \A k, l \in DOMAIN u :
             u[k].type # "Transmit" /\ u[l].type # "Transmit" => l - k < TxWin
Transmits(u) == \A k \in DOMAIN u : u[k].type = "Transmit"

\* A queue whose Transmits belong to different slots of L, with few other actions, is short.
LEMMA QueueFits ==
    ASSUME NEW u \in Seq(SenderAction), NEW L, L \subseteq Slots, NEW sq,
           OwnedBy(u, L, sq), Once(u), Few(u)
    PROVE  /\ Len(u) <= Cardinality(L) + TxWin
           /\ Transmits(u) => Len(u) <= Cardinality(L)
<1> DEFINE T == {k \in DOMAIN u : u[k].type = "Transmit"}
           N == {k \in DOMAIN u : u[k].type # "Transmit"}
           own == [k \in T |-> CHOOSE i \in L : sq[i] = u[k].seq]
<1>1. Len(u) \in Nat /\ DOMAIN u = 1 .. Len(u) /\ TxWin \in Nat /\ TxWin >= 1
  BY TxAssumption
<1>2. IsFiniteSet(L) /\ Cardinality(L) \in Nat
  BY SlotsAreFinite
<1>3. own \in Injection(T, L)
  <2>1. ASSUME NEW k \in T PROVE own[k] \in L /\ sq[own[k]] = u[k].seq
    <3>1. \E i \in L : sq[i] = u[k].seq
      BY DEF OwnedBy
    <3>2. own[k] = CHOOSE i \in L : sq[i] = u[k].seq
      OBVIOUS
    <3> HIDE DEF own
    <3> QED BY <3>1, <3>2
  <2>2. ASSUME NEW k \in T, NEW l \in T, own[k] = own[l] PROVE k = l
    <3>1. u[k].seq = u[l].seq /\ u[k].type = "Transmit" /\ u[l].type = "Transmit"
      BY <2>1, <2>2
    <3>2. u[k] \in SenderAction /\ u[l] \in SenderAction
      BY ElementOfSeq
    <3>3. u[k] = u[l]
      BY <3>1, <3>2 DEF SenderAction
    <3> QED BY <3>1, <3>3 DEF Once
  <2>3. own \in [T -> L]
    BY <2>1
  <2>4. \A k, l \in T : own[k] = own[l] => k = l
    BY <2>2
  <2> HIDE DEF own, T
  <2> QED BY <2>3, <2>4 DEF Injection, IsInjective
<1>4. IsFiniteSet(T) /\ Cardinality(T) <= Cardinality(L) /\ Cardinality(T) \in Nat
  BY <1>2, <1>3, FS_Injection, FS_CardinalityType
<1>5. IsFiniteSet(N) /\ Cardinality(N) <= TxWin /\ Cardinality(N) \in Nat
  <2>1. CASE N = {}
    <3> HIDE DEF N, T, own
    <3>1. IsFiniteSet(N) /\ Cardinality(N) = 0
      BY <2>1, FS_EmptySet
    <3> QED BY <1>1, <3>1
  <2>2. CASE N # {}
    <3>1. N \subseteq Nat
      BY <1>1
    <3>2. PICK a \in N : \A y \in N : a <= y
      BY <2>2, <3>1, LeastNat
    <3>3. a \in Int /\ a + TxWin - 1 \in Int
      BY <1>1, <3>1, <3>2
    <3>4. N \subseteq a .. (a + TxWin - 1)
      BY <1>1, <3>2, <3>3 DEF Few
    <3> DEFINE J == a .. (a + TxWin - 1)
    <3>5. IsFiniteSet(J) /\ Cardinality(J) = TxWin
      <4> DEFINE b == a + TxWin - 1
      <4>1. b \in Int /\ ~(a > b) /\ b - a + 1 = TxWin
        BY <1>1, <3>3
      <4> HIDE DEF b
      <4>2. IsFiniteSet(a .. b) /\ Cardinality(a .. b) = TxWin
        BY <3>3, <4>1, FS_Interval
      <4> QED BY <4>2 DEF b
    <3> HIDE DEF N, T, own, J
    <3>6. IsFiniteSet(N) /\ Cardinality(N) <= Cardinality(J)
      BY <3>4, <3>5, FS_Subset DEF J
    <3> QED BY <3>5, <3>6, FS_CardinalityType
  <2> QED BY <2>1, <2>2
<1>6. T \cup N = 1 .. Len(u)
  BY <1>1
<1>7. Cardinality(1 .. Len(u)) = Len(u)
  BY <1>1, FS_Interval, SMTT(40)
<1> HIDE DEF T, N
<1>8. Len(u) = Cardinality(T) + Cardinality(N) - Cardinality(T \cap N)
  BY <1>4, <1>5, <1>6, <1>7, FS_Union
<1>9. Cardinality(T \cap N) \in Nat
  BY <1>4, FS_Intersection, FS_CardinalityType
<1>10. Len(u) <= Cardinality(L) + TxWin
  BY <1>1, <1>2, <1>4, <1>5, <1>8, <1>9
<1>11. ASSUME Transmits(u) PROVE Len(u) <= Cardinality(L)
  <2>1. T = 1 .. Len(u)
    BY <1>1, <1>11 DEF T, Transmits
  <2> QED BY <1>4, <1>7, <2>1
<1> QED
  BY <1>10, <1>11

\* A set of numbers that is not empty and bounded has a greatest.
LEMMA MaxOfBounded ==
    ASSUME NEW n \in Nat, NEW S, S \subseteq 0 .. n, S # {}
    PROVE  Max(S) \in S /\ \A y \in S : y <= Max(S)
<1> DEFINE R == {n - x : x \in S}
<1>1. R \subseteq Nat /\ R # {}
  <2>1. \A x \in S : x \in 0 .. n /\ n - x \in Nat
    OBVIOUS
  <2>2. PICK x \in S : TRUE
    OBVIOUS
  <2>3. n - x \in R
    OBVIOUS
  <2> QED BY <2>1, <2>3
<1>2. PICK r \in R : \A y \in R : r <= y
  BY <1>1, LeastNat
<1>3. PICK x \in S : r = n - x
  BY <1>2
<1>4. \A y \in S : n - x <= n - y
  BY <1>2, <1>3
<1>5. \A y \in S : x >= y
  BY <1>4
<1>6. \E z \in S : \A y \in S : z >= y
  BY <1>5
<1> QED
  BY <1>6 DEF Max

\* The application fills the free slots of F and queues a Transmit for each of them.
Fills(F, new, own) ==
    /\ F \subseteq Free
    /\ new \in Seq(SenderAction) /\ own \in [1 .. Len(new) -> F]
    /\ \A k, l \in 1 .. Len(new) : own[k] = own[l] => k = l
    /\ \A i \in F : \E k \in 1 .. Len(new) : own[k] = i
    /\ \A k \in 1 .. Len(new) :
          new[k] = Transmit(tx_seq'[own[k]]) /\ tx_seq'[own[k]] = SeqAdd(next_seq, k - 1)
    /\ next_seq' = SeqAdd(next_seq, Len(new))
    /\ tx_seq' \in [Slots -> SeqCounts] /\ next_seq' \in SeqCounts
    /\ tx_st' \in [Slots -> SlotState]
    /\ \A i \in Slots \ F :
          tx_seq'[i] = tx_seq[i] /\ tx_st'[i] = tx_st[i] /\ writes'[i] = writes[i]
    /\ \A i \in F : tx_st'[i] = "PendingTransmit" /\ writes'[i] = 0
    /\ actions' = Push(actions, new)
    /\ tx_pc \in {"write", "select"} /\ bound
    /\ UNCHANGED <<timers, tx_pc, expired, writing, bound, overtaken>>

\* A number of the sequence space and what follows it.
LEMMA SeqAddCounts == \A s \in SeqCounts, n \in Int : SeqAdd(s, n) \in SeqCounts
  BY SeqSpaceAssumption DEF SeqAdd, SeqCounts

\* send() fills slots.
LEMMA SendFills ==
    ASSUME SlotTypes, DOMAIN writes = Slots, NEW l \in MsgLens, Send(l)
    PROVE  \E F, new, own : Fills(F, new, own)
<1> DEFINE c == Cardinality(Free)
           Filled(q, i) == i \in Free /\ Rank(i) <= q
<1>1. PICK q \in 0 .. c :
         /\ tx_st' = [i \in Slots |-> IF Filled(q, i) THEN "PendingTransmit" ELSE tx_st[i]]
         /\ tx_seq' = [i \in Slots |-> IF Filled(q, i) THEN SeqAdd(next_seq, Rank(i) - 1)
                                                       ELSE tx_seq[i]]
         /\ writes' = [i \in Slots |-> IF Filled(q, i) THEN 0 ELSE writes[i]]
         /\ next_seq' = SeqAdd(next_seq, q)
         /\ actions' = Push(actions, [j \in 1 .. q |-> Transmit(SeqAdd(next_seq, j - 1))])
  <2> DEFINE reach    == Min({ChunkCount(l), c})
             compacts == reach > 0 /\ ChunkEnd(l, reach) > AvailableBytes
             base     == IF compacts THEN Bytes(Live) ELSE write_pos
             fits(j)  == j = 0 \/ base + ChunkEnd(l, j) <= BufSize
             queued   == Max({j \in 0 .. reach : fits(j)})
  <2>1. /\ tx_st' = [i \in Slots |-> IF Filled(queued, i) THEN "PendingTransmit" ELSE tx_st[i]]
        /\ tx_seq' = [i \in Slots |-> IF Filled(queued, i) THEN SeqAdd(next_seq, Rank(i) - 1)
                                                           ELSE tx_seq[i]]
        /\ writes' = [i \in Slots |-> IF Filled(queued, i) THEN 0 ELSE writes[i]]
        /\ next_seq' = SeqAdd(next_seq, queued)
        /\ actions' = Push(actions, [j \in 1 .. queued |-> Transmit(SeqAdd(next_seq, j - 1))])
    BY DEF Send, SendRequest
  <2>2. c \in Nat
    BY SlotsAreFinite DEF Free
  <2>3. ChunkCount(l) \in Nat
    <3>1. l \in Nat /\ MaxPayload \in Nat \ {0}
      BY TxAssumption
    <3>2. \A x \in Nat, y \in Nat \ {0} : (x + y - 1) \div y \in Nat
      BY SMT
    <3> QED BY <3>1, <3>2 DEF ChunkCount
  <2>4. reach \in 0 .. c /\ reach \in Nat
    <3>1. \E x \in {ChunkCount(l), c} : \A y \in {ChunkCount(l), c} : x <= y
      BY <2>2, <2>3
    <3> HIDE DEF c
    <3>2. Min({ChunkCount(l), c}) \in {ChunkCount(l), c} /\ Min({ChunkCount(l), c}) <= c
      BY <3>1 DEF Min
    <3> QED BY <2>2, <2>3, <3>2
  <2> HIDE DEF reach, base
  <2>5. queued \in 0 .. reach
    <3>1. {j \in 0 .. reach : fits(j)} # {} /\ {j \in 0 .. reach : fits(j)} \subseteq 0 .. reach
      BY <2>4
    <3> QED BY <2>4, <3>1, MaxOfBounded
  <2>6. queued \in 0 .. c
    <3> HIDE DEF queued, c
    <3> QED BY <2>2, <2>4, <2>5
  <2> HIDE DEF queued, c
  <2> QED BY <2>1, <2>6
<1> DEFINE F == {i \in Free : Rank(i) <= q}
           new == [j \in 1 .. q |-> Transmit(SeqAdd(next_seq, j - 1))]
           own == [k \in 1 .. q |-> CHOOSE i \in Free : Rank(i) = k]
<1>2. c \in Nat /\ q \in Nat /\ Free \subseteq Slots
  BY SlotsAreFinite DEF Free
<1>3. new \in Seq(SenderAction) /\ Len(new) = q
  <2>1. \A j \in 1 .. q : Transmit(SeqAdd(next_seq, j - 1)) \in SenderAction
    BY SeqAddCounts DEF SlotTypes, Transmit, SenderAction, ActionTypes
  <2>2. new \in [1 .. q -> SenderAction]
    BY <2>1
  <2> HIDE DEF new
  <2> QED BY <1>2, <2>2
<1>4. \A k \in 1 .. q : own[k] \in Free /\ Rank(own[k]) = k
  <2> SUFFICES ASSUME NEW k \in 1 .. q PROVE own[k] \in Free /\ Rank(own[k]) = k
    OBVIOUS
  <2>1. k \in 1 .. c
    <3> HIDE DEF c
    <3> QED BY <1>2
  <2>2. \E i \in Free : Rank(i) = k
    BY <2>1, RanksCount
  <2> QED BY <2>2
<1>5. \A i \in F : Rank(i) \in 1 .. q /\ own[Rank(i)] = i
  <2> SUFFICES ASSUME NEW i \in F PROVE Rank(i) \in 1 .. q /\ own[Rank(i)] = i
    OBVIOUS
  <2>1. Rank(i) \in 1 .. c
    BY RanksCount
  <2>2. Rank(i) \in 1 .. q
    <3> HIDE DEF c
    <3> QED BY <1>2, <2>1
  <2> HIDE DEF own, c
  <2> QED BY <1>4, <2>2, RanksCount
<1> HIDE DEF own, c
<1>6. /\ \A i \in F : tx_st'[i] = "PendingTransmit" /\ writes'[i] = 0
                      /\ tx_seq'[i] = SeqAdd(next_seq, Rank(i) - 1)
      /\ \A i \in Slots \ F :
            tx_seq'[i] = tx_seq[i] /\ tx_st'[i] = tx_st[i] /\ writes'[i] = writes[i]
  BY <1>1, <1>2
<1>7. own \in [1 .. q -> F]
  <2>1. \A k \in 1 .. q : own[k] \in F
    BY <1>2, <1>4
  <2> HIDE DEF F
  <2> QED BY <2>1 DEF own
<1>8. tx_seq' \in [Slots -> SeqCounts] /\ next_seq' \in SeqCounts /\ tx_st' \in [Slots -> SlotState]
  <2>1. \A i \in F : SeqAdd(next_seq, Rank(i) - 1) \in SeqCounts
    BY <1>2, <1>5, SeqAddCounts DEF SlotTypes
  <2>2. next_seq' \in SeqCounts
    BY <1>1, <1>2, SeqAddCounts DEF SlotTypes
  <2>3. \A i \in Slots : tx_seq'[i] \in SeqCounts /\ tx_st'[i] \in SlotState
    BY <1>6, <2>1 DEF SlotTypes, SlotState
  <2> HIDE DEF F
  <2> QED BY <1>1, <2>2, <2>3
<1>9. \A k \in 1 .. q :
         new[k] = Transmit(tx_seq'[own[k]]) /\ tx_seq'[own[k]] = SeqAdd(next_seq, k - 1)
  BY <1>4, <1>6, <1>7
<1>10. \A k, l2 \in 1 .. q : own[k] = own[l2] => k = l2
  BY <1>4
<1>11. /\ tx_pc \in {"write", "select"} /\ bound
       /\ UNCHANGED <<timers, tx_pc, expired, writing, bound, overtaken>>
       /\ actions' = Push(actions, new) /\ next_seq' = SeqAdd(next_seq, q)
  BY <1>1 DEF Send, AppMayRun
<1>12. F \subseteq Free
  OBVIOUS
<1>13. \A i \in F : \E k \in 1 .. q : own[k] = i
  BY <1>5
<1> HIDE DEF F, new
<1>14. Fills(F, new, own)
  BY <1>3, <1>6, <1>7, <1>8, <1>9, <1>10, <1>11, <1>12, <1>13 DEF Fills
<1> QED
  BY <1>14

\* send_eos() fills one.
LEMMA SendEosFills ==
    ASSUME SlotTypes, DOMAIN writes = Slots, SendEos
    PROVE  \E F, new, own : Fills(F, new, own)
<1> DEFINE i == Min(Free)
<1>1. i \in Free /\ Free \subseteq Slots
  BY MinOfSlots DEF SendEos, Free
<1>2. /\ tx_st' = [tx_st EXCEPT ![i] = "PendingTransmit"]
      /\ tx_seq' = [tx_seq EXCEPT ![i] = next_seq] /\ writes' = [writes EXCEPT ![i] = 0]
      /\ next_seq' = SeqAdd(next_seq, 1)
      /\ actions' = Push(actions, <<Transmit(next_seq)>>)
      /\ tx_pc \in {"write", "select"} /\ bound
      /\ UNCHANGED <<timers, tx_pc, expired, writing, bound, overtaken>>
  BY DEF SendEos, AppMayRun
<1> HIDE DEF i
<1> DEFINE new == <<Transmit(next_seq)>>
           own == [k \in 1 .. 1 |-> i]
<1>3. new \in Seq(SenderAction) /\ Len(new) = 1 /\ new[1] = Transmit(next_seq)
  BY DEF SlotTypes, Transmit, SenderAction, ActionTypes
<1>4. /\ tx_seq' \in [Slots -> SeqCounts] /\ next_seq' \in SeqCounts
      /\ tx_st' \in [Slots -> SlotState]
  BY <1>1, <1>2, SeqAddCounts DEF SlotTypes, SlotState
<1>5. /\ tx_seq'[i] = next_seq /\ tx_st'[i] = "PendingTransmit" /\ writes'[i] = 0
      /\ \A j \in Slots \ {i} :
            tx_seq'[j] = tx_seq[j] /\ tx_st'[j] = tx_st[j] /\ writes'[j] = writes[j]
  BY <1>1, <1>2 DEF SlotTypes
<1>6. own \in [1 .. 1 -> {i}] /\ own[1] = i
  OBVIOUS
<1>8. SeqAdd(next_seq, 1 - 1) = next_seq
  <2>1. next_seq + (1 - 1) = next_seq /\ next_seq \in 0 .. (SeqSpace - 1) /\ SeqSpace \in Nat \ {0}
    BY SeqSpaceAssumption DEF SlotTypes, SeqCounts
  <2>2. next_seq % SeqSpace = next_seq
    BY <2>1
  <2> QED BY <2>1, <2>2 DEF SeqAdd
<1> HIDE DEF new, own
<1>7. Fills({i}, new, own)
  BY <1>1, <1>2, <1>3, <1>4, <1>5, <1>6, <1>8 DEF Fills, new
<1> QED
  BY <1>7

\* The fields of a Transmit.
LEMMA TransmitFields == \A s : Transmit(s).type = "Transmit" /\ Transmit(s).seq = s
  BY DEF Transmit

\* The slots that are filled were free, those that were live keep their numbers.
LEMMA FillSlots ==
    ASSUME NEW F, NEW new, NEW own, Fills(F, new, own)
    PROVE  /\ F \subseteq Slots
           /\ \A i \in F : tx_st[i] = "Empty"
           /\ \A i \in Slots : tx_st[i] # "Empty" =>
                 i \notin F /\ tx_st'[i] = tx_st[i] /\ tx_seq'[i] = tx_seq[i]
  BY DEF Fills, Free, Live

\* A queue followed by the Transmits of the filled slots.
LEMMA FillExtends ==
    ASSUME QueueInv, DistinctSeqs', NEW F, NEW new, NEW own, Fills(F, new, own)
    PROVE  /\ actions \o new \in Seq(SenderAction)
           /\ Len(actions \o new) = Len(actions) + Len(new)
           /\ DOMAIN (actions \o new) = 1 .. Len(actions \o new)
           /\ DOMAIN actions = 1 .. Len(actions)
           /\ \A k \in DOMAIN actions :
                 k \in DOMAIN (actions \o new) /\ (actions \o new)[k] = actions[k]
           /\ \A k \in DOMAIN (actions \o new) \ DOMAIN actions :
                 \E i \in F : /\ (actions \o new)[k] = Transmit(tx_seq'[i])
                              /\ i = own[k - Len(actions)]
                              /\ k - Len(actions) \in 1 .. Len(new)
           /\ OwnedBy(actions \o new, {i \in Slots : tx_st'[i] # "Empty"}, tx_seq')
           /\ Once(actions \o new)
<1> DEFINE n == Len(actions)
           m == Len(new)
           u == actions \o new
<1>1. actions \in Seq(SenderAction) /\ new \in Seq(SenderAction) /\ n \in Nat /\ m \in Nat
  BY DEF QueueInv, QueueTypes, Fills
<1>2. /\ u \in Seq(SenderAction) /\ Len(u) = n + m
      /\ DOMAIN u = 1 .. (n + m) /\ DOMAIN actions = 1 .. n
      /\ \A k \in 1 .. n : u[k] = actions[k]
      /\ \A k \in (n + 1) .. (n + m) : u[k] = new[k - n] /\ k - n \in 1 .. m
  BY <1>1
<1>3. /\ own \in [1 .. m -> F] /\ F \subseteq Slots
      /\ \A k \in 1 .. m : new[k] = Transmit(tx_seq'[own[k]])
      /\ \A k, l \in 1 .. m : own[k] = own[l] => k = l
      /\ \A i \in F : tx_st'[i] = "PendingTransmit" /\ tx_st[i] = "Empty"
  <2>1. F \subseteq Slots /\ \A i \in F : tx_st[i] = "Empty"
    BY FillSlots
  <2> QED BY <2>1 DEF Fills
<1> HIDE DEF n, m, u
<1>4. \A k \in 1 .. (n + m) : k \in 1 .. n \/ k \in (n + 1) .. (n + m)
  BY <1>1
<1>5. \A k \in 1 .. n : k \notin (n + 1) .. (n + m)
  BY <1>1
<1>6. ASSUME NEW k \in (n + 1) .. (n + m)
      PROVE  \E i \in F : u[k] = Transmit(tx_seq'[i]) /\ i = own[k - n] /\ k - n \in 1 .. m
  <2>1. u[k] = new[k - n] /\ k - n \in 1 .. m
    BY <1>2
  <2>2. own[k - n] \in F /\ new[k - n] = Transmit(tx_seq'[own[k - n]])
    BY <1>3, <2>1
  <2> QED BY <2>1, <2>2
<1>7. ASSUME NEW k \in 1 .. (n + m), u[k].type = "Transmit"
      PROVE  \E i \in Slots : tx_st'[i] # "Empty" /\ tx_seq'[i] = u[k].seq
  <2>1. CASE k \in 1 .. n
    <3>1. PICK i \in Slots : tx_st[i] # "Empty" /\ tx_seq[i] = u[k].seq
      BY <1>2, <1>7, <2>1 DEF QueueInv, TransmitsOwned, IsTransmit, Matches
    <3>2. tx_st'[i] # "Empty" /\ tx_seq'[i] = u[k].seq
      BY <3>1, FillSlots
    <3> QED BY <3>2
  <2>2. CASE k \in (n + 1) .. (n + m)
    <3>1. PICK i \in F : u[k] = Transmit(tx_seq'[i])
      BY <1>6, <2>2
    <3>2. tx_st'[i] # "Empty" /\ tx_seq'[i] = u[k].seq /\ i \in Slots
      BY <1>3, <3>1, TransmitFields
    <3> QED BY <3>2
  <2> QED BY <1>4, <2>1, <2>2
<1>8. ASSUME NEW k \in 1 .. n, NEW l \in (n + 1) .. (n + m) PROVE u[k] # u[l]
  <2>1. PICK j \in F : u[l] = Transmit(tx_seq'[j])
    BY <1>6
  <2>2. SUFFICES ASSUME u[k] = u[l] PROVE FALSE
    OBVIOUS
  <2>3. actions[k].type = "Transmit" /\ actions[k].seq = tx_seq'[j]
    BY <1>2, <2>1, <2>2, TransmitFields
  <2>4. PICK i \in Slots : tx_st[i] # "Empty" /\ tx_seq[i] = tx_seq'[j]
    BY <1>2, <2>3 DEF QueueInv, TransmitsOwned, IsTransmit, Matches
  <2>5. i \notin F /\ tx_st'[i] # "Empty" /\ tx_seq'[i] = tx_seq'[j]
    BY <2>4, FillSlots
  <2>6. tx_st'[j] # "Empty" /\ j \in Slots
    BY <1>3
  <2>7. i = j
    BY <2>5, <2>6 DEF DistinctSeqs, Live
  <2> QED BY <2>5, <2>7
<1>9. ASSUME NEW k \in (n + 1) .. (n + m), NEW l \in (n + 1) .. (n + m), u[k] = u[l] PROVE k = l
  <2>1. PICK i \in F : u[k] = Transmit(tx_seq'[i]) /\ i = own[k - n] /\ k - n \in 1 .. m
    BY <1>6
  <2>2. PICK j \in F : u[l] = Transmit(tx_seq'[j]) /\ j = own[l - n] /\ l - n \in 1 .. m
    BY <1>6
  <2>3. tx_seq'[i] = tx_seq'[j]
    BY <1>9, <2>1, <2>2, TransmitFields, ZenonT(60)
  <2>4. i = j
    BY <1>3, <2>3 DEF DistinctSeqs, Live
  <2>5. k - n = l - n
    BY <1>3, <2>1, <2>2, <2>4
  <2> QED BY <1>1, <2>5
<1>10. ASSUME NEW k \in 1 .. (n + m), NEW l \in 1 .. (n + m), u[k].type = "Transmit", u[l] = u[k]
       PROVE  l = k
  <2>1. CASE k \in 1 .. n /\ l \in 1 .. n
    BY <1>2, <1>10, <2>1 DEF QueueInv, TransmitsOwned, IsTransmit
  <2> QED BY <1>4, <1>8, <1>9, <1>10, <2>1
<1>11. \A k \in DOMAIN u \ DOMAIN actions : k \in (n + 1) .. (n + m)
  BY <1>2, <1>4
<1>12. \A k \in DOMAIN actions : k \in DOMAIN u /\ u[k] = actions[k]
  BY <1>1, <1>2
<1>13. OwnedBy(u, {i \in Slots : tx_st'[i] # "Empty"}, tx_seq') /\ Once(u)
  BY <1>2, <1>7, <1>10 DEF OwnedBy, Once
<1> QED
  BY <1>2, <1>6, <1>11, <1>12, <1>13 DEF n, m, u

\* The queue has room for the Transmits of the filled slots.
LEMMA FillFits ==
    ASSUME RoomForActions, QueueInv, DistinctSeqs', NEW F, NEW new, NEW own, Fills(F, new, own)
    PROVE  actions' = actions \o new /\ Len(actions \o new) <= MaxActions
<1> DEFINE u == actions \o new
           n == Len(actions)
           L == {i \in Slots : tx_st'[i] # "Empty"}
<1>1. /\ u \in Seq(SenderAction) /\ Len(u) = Len(actions) + Len(new)
      /\ DOMAIN u = 1 .. Len(u) /\ DOMAIN actions = 1 .. Len(actions)
      /\ \A k \in DOMAIN actions : k \in DOMAIN u /\ u[k] = actions[k]
      /\ \A k \in DOMAIN u \ DOMAIN actions :
            \E i \in F : /\ u[k] = Transmit(tx_seq'[i])
                         /\ i = own[k - Len(actions)]
                         /\ k - Len(actions) \in 1 .. Len(new)
      /\ OwnedBy(u, L, tx_seq') /\ Once(u)
  BY FillExtends
<1>2. actions \in Seq(SenderAction) /\ new \in Seq(SenderAction) /\ Len(actions) <= MaxActions
  BY DEF QueueInv, QueueTypes, Fills
<1>3. TxWin \in Nat /\ TxWin >= 1 /\ MaxActions \in Nat /\ MaxActions >= 2 * TxWin - 1
  BY TxAssumption DEF RoomForActions
<1> HIDE DEF u
<1>4. \A k \in DOMAIN u : u[k].type # "Transmit" => k \in DOMAIN actions /\ ~IsTransmit(k)
  BY <1>1 DEF Transmit, IsTransmit
<1>5. ASSUME Transmits(u) PROVE Len(u) <= MaxActions
  <2>1. Few(u) /\ L \subseteq Slots
    BY <1>5 DEF Few, Transmits
  <2>2. Cardinality(L) \in Nat /\ Cardinality(L) <= TxWin
    BY SlotsAreFinite
  <2>3. Len(u) \in Nat
    BY <1>1
  <2> HIDE DEF L
  <2>4. Len(u) <= Cardinality(L)
    BY <1>1, <1>5, <2>1, QueueFits
  <2> QED BY <1>3, <2>2, <2>3, <2>4
<1>6. ASSUME ~Transmits(u) PROVE Len(u) <= MaxActions
  <2>1. PICK k0 \in DOMAIN actions : ~IsTransmit(k0)
    BY <1>4, <1>6 DEF Transmits
  <2>2. tx_pc = "write"
    BY <2>1 DEF QueueInv, SelectQueue, Fills
  <2>3. PICK w \in Slots : tx_st[w] # "Empty" /\ tx_seq[w] = writing.seq
    BY <2>1, <2>2 DEF QueueInv, WriteTakesSlot, Matches
  <2>4. \A k \in DOMAIN actions : actions[k] # Transmit(writing.seq)
    BY <2>1, <2>2 DEF QueueInv, WriteTakesSlot
  <2>5. w \notin F /\ tx_st'[w] # "Empty" /\ tx_seq'[w] = writing.seq
    BY <2>3, FillSlots
  <2>6. ASSUME NEW k \in DOMAIN u, u[k].type = "Transmit"
        PROVE  \E i \in L \ {w} : tx_seq'[i] = u[k].seq
    <3>1. PICK i \in L : tx_seq'[i] = u[k].seq
      BY <1>1, <2>6 DEF OwnedBy
    <3>2. SUFFICES ASSUME i = w PROVE FALSE
      BY <3>1
    <3>3. u[k].seq = writing.seq /\ u[k] \in SenderAction
      BY <1>1, <2>5, <3>1, <3>2, ElementOfSeq
    <3>4. u[k] = Transmit(writing.seq)
      BY <2>6, <3>3 DEF SenderAction, Transmit
    <3>5. k \notin DOMAIN actions
      BY <1>1, <2>4, <3>4
    <3>6. PICK j \in F : u[k] = Transmit(tx_seq'[j])
      BY <1>1, <3>5
    <3>7. tx_seq'[j] = tx_seq'[w] /\ j \in Slots /\ tx_st'[j] # "Empty"
      <4>1. j \in Slots /\ tx_st'[j] = "PendingTransmit"
        <5>1. j \in Slots
          BY <3>6, FillSlots
        <5> QED BY <3>6, <5>1 DEF Fills
      <4> QED BY <2>5, <3>4, <3>6, <4>1, TransmitFields
    <3>8. j = w
      BY <2>5, <3>7 DEF DistinctSeqs, Live
    <3> QED BY <2>5, <3>6, <3>8
  <2>7. Few(u)
    BY <1>4, <2>2 DEF QueueInv, NoticesAreFew, Few
  <2> DEFINE R == L \ {w}
  <2>8. R \subseteq Slots \ {w} /\ R \subseteq Slots
    OBVIOUS
  <2>9. Cardinality(Slots \ {w}) = TxWin - 1 /\ IsFiniteSet(Slots \ {w})
    BY SlotsAreFinite, FS_RemoveElement
  <2> HIDE DEF R
  <2>10. Cardinality(R) <= TxWin - 1 /\ Cardinality(R) \in Nat
    BY <2>8, <2>9, FS_Subset, FS_CardinalityType
  <2>11. Len(u) <= Cardinality(R) + TxWin
    <3>1. OwnedBy(u, R, tx_seq')
      BY <2>6 DEF R, OwnedBy
    <3> QED BY <1>1, <2>7, <2>8, <3>1, QueueFits
  <2>12. Len(u) \in Nat
    BY <1>1
  <2> QED BY <1>3, <2>10, <2>11, <2>12
<1>7. Len(u) <= MaxActions
  BY <1>5, <1>6
<1>8. Len(actions) + Len(new) <= MaxActions
  BY <1>1, <1>7
<1>9. Push(actions, new) = actions \o new
  <2> DEFINE p == Push(actions, new)
  <2>1. /\ p \in Seq(SenderAction) /\ Len(p) = Len(actions) + Len(new)
        /\ \A k \in 1 .. Len(actions) : p[k] = actions[k]
        /\ \A k \in 1 .. Len(new) : p[Len(actions) + k] = new[k]
    <3>1. PICK m \in 0 .. Len(new) :
             /\ p \in Seq(SenderAction)
             /\ Len(p) = Len(actions) + m /\ Len(actions) + m <= MaxActions
             /\ \A k \in 1 .. Len(actions) : p[k] = actions[k]
             /\ \A k \in 1 .. m : p[Len(actions) + k] = new[k]
             /\ Len(actions) + Len(new) <= MaxActions => m = Len(new)
             /\ Len(actions) + Len(new) > MaxActions => m = MaxActions - Len(actions)
      BY <1>2, PushTakes
    <3> HIDE DEF p
    <3>2. m = Len(new)
      BY <1>8, <3>1
    <3> QED BY <3>1, <3>2
  <2> HIDE DEF p
  <2>2. p = actions \o new
    <3>1. /\ Len(u) = Len(p) /\ u \in Seq(SenderAction)
          /\ \A k \in 1 .. Len(u) : k \in 1 .. Len(actions) \/ k - Len(actions) \in 1 .. Len(new)
      BY <1>1, <1>2, <2>1
    <3>2. ASSUME NEW k \in 1 .. Len(u) PROVE u[k] = p[k]
      <4>1. CASE k \in 1 .. Len(actions)
        BY <1>1, <2>1, <4>1
      <4>2. CASE k - Len(actions) \in 1 .. Len(new)
        <5>1. u[k] = new[k - Len(actions)]
          BY <1>2, <4>2 DEF u
        <5>2. p[Len(actions) + (k - Len(actions))] = new[k - Len(actions)]
          BY <2>1, <4>2
        <5>3. Len(actions) + (k - Len(actions)) = k
          BY <1>2
        <5> QED BY <5>1, <5>2, <5>3
      <4> QED BY <3>1, <4>1, <4>2
    <3>3. u = p
      BY <2>1, <3>1, <3>2, SeqEqual
    <3> QED BY <3>3 DEF u
  <2> QED BY <2>2 DEF p
<1> QED
  BY <1>7, <1>9 DEF Fills, u

\* Sends keep the queue in order.
LEMMA FillQueue ==
    ASSUME RoomForActions, QueueInv, DistinctSeqs', NEW F, NEW new, NEW own, Fills(F, new, own)
    PROVE  QueueInv'
<1> DEFINE u == actions'
<1>0. u = actions \o new /\ Len(u) <= MaxActions
  BY FillFits
<1>1. /\ u \in Seq(SenderAction) /\ Len(u) = Len(actions) + Len(new)
      /\ DOMAIN u = 1 .. Len(u) /\ DOMAIN actions = 1 .. Len(actions)
      /\ \A k \in DOMAIN actions : k \in DOMAIN u /\ u[k] = actions[k]
      /\ \A k \in DOMAIN u \ DOMAIN actions :
            \E i \in F : /\ u[k] = Transmit(tx_seq'[i])
                         /\ i = own[k - Len(actions)]
                         /\ k - Len(actions) \in 1 .. Len(new)
      /\ OwnedBy(u, {i \in Slots : tx_st'[i] # "Empty"}, tx_seq') /\ Once(u)
  <2> DEFINE v == actions \o new
             L == {i \in Slots : tx_st'[i] # "Empty"}
  <2>1. /\ v \in Seq(SenderAction) /\ Len(v) = Len(actions) + Len(new)
        /\ DOMAIN v = 1 .. Len(v) /\ DOMAIN actions = 1 .. Len(actions)
        /\ \A k \in DOMAIN actions : k \in DOMAIN v /\ v[k] = actions[k]
        /\ \A k \in DOMAIN v \ DOMAIN actions :
              \E i \in F : /\ v[k] = Transmit(tx_seq'[i])
                           /\ i = own[k - Len(actions)]
                           /\ k - Len(actions) \in 1 .. Len(new)
        /\ OwnedBy(v, L, tx_seq') /\ Once(v)
    BY FillExtends
  <2>2. u = v
    BY <1>0
  <2> HIDE DEF v, u, L
  <2> QED BY <2>1, <2>2 DEF L
<1>2. /\ tx_pc' = tx_pc /\ expired' = expired /\ writing' = writing /\ timers' = timers
      /\ tx_pc \in {"write", "select"} /\ F \subseteq Slots
      /\ \A i \in F : tx_st'[i] = "PendingTransmit" /\ writes'[i] = 0
      /\ \A i \in Slots \ F :
            tx_seq'[i] = tx_seq[i] /\ tx_st'[i] = tx_st[i] /\ writes'[i] = writes[i]
  <2>1. F \subseteq Slots
    BY FillSlots
  <2> QED BY <2>1 DEF Fills
<1>3. \A k \in DOMAIN u : ~IsTransmit(k)' => k \in DOMAIN actions /\ ~IsTransmit(k)
  BY <1>1, TransmitFields DEF IsTransmit
<1>4. QueueTypes'
  BY <1>0, <1>1, <1>2 DEF QueueInv, QueueTypes, Fills
<1>5. TransmitsOwned'
  <2>1. \A k \in DOMAIN actions' : IsTransmit(k)' => \E i \in Slots : Matches(i, actions[k].seq)'
    BY <1>1 DEF OwnedBy, IsTransmit, Matches
  <2>2. \A k, l \in DOMAIN actions' : IsTransmit(k)' /\ actions'[l] = actions'[k] => l = k
    BY <1>1 DEF Once, IsTransmit
  <2> QED BY <2>1, <2>2 DEF TransmitsOwned
<1>6. PendingIsQueued'
  <2> SUFFICES ASSUME NEW i \in Slots, tx_st'[i] = "PendingTransmit"
               PROVE  \/ \E k \in DOMAIN actions' : actions'[k] = Transmit(tx_seq'[i])
                      \/ tx_pc' = "write" /\ writing'.seq = tx_seq'[i]
    BY DEF PendingIsQueued, Transmit
  <2>1. CASE i \in F
    <3>1. PICK k \in 1 .. Len(new) : own[k] = i
      BY <2>1 DEF Fills
    <3>2. u[Len(actions) + k] = new[k] /\ Len(actions) + k \in DOMAIN u
      BY <1>0, <1>1, <3>1 DEF Fills, QueueInv, QueueTypes
    <3>3. new[k] = Transmit(tx_seq'[i])
      BY <3>1 DEF Fills
    <3> QED BY <3>2, <3>3
  <2>2. CASE i \notin F
    <3>1. tx_st[i] = "PendingTransmit" /\ tx_seq'[i] = tx_seq[i] /\ tx_pc # "failed"
      BY <1>2, <2>2
    <3>2. \/ \E k \in DOMAIN actions : actions[k] = Transmit(tx_seq[i])
          \/ tx_pc = "write" /\ writing.seq = tx_seq[i]
      BY <3>1 DEF QueueInv, PendingIsQueued
    <3> QED BY <1>1, <1>2, <3>1, <3>2
  <2> QED BY <2>1, <2>2
<1>7. SelectQueue'
  <2> SUFFICES ASSUME tx_pc = "select"
               PROVE  /\ expired' = <<>>
                      /\ \A k \in DOMAIN actions' : IsTransmit(k)'
                      /\ \A i \in Live', k \in DOMAIN actions' :
                            tx_seq'[i] = actions'[k].seq => tx_st'[i] = "PendingTransmit"
                      /\ \A i \in Slots : tx_st'[i] = "PendingTransmit" => writes'[i] = 0
    BY <1>2 DEF SelectQueue
  <2>1. expired' = <<>> /\ \A k \in DOMAIN actions' : IsTransmit(k)'
    BY <1>2, <1>3 DEF QueueInv, SelectQueue
  <2>2. \A i \in Slots : tx_st'[i] = "PendingTransmit" => writes'[i] = 0
    BY <1>2 DEF QueueInv, SelectQueue
  <2>3. ASSUME NEW i \in Live', NEW k \in DOMAIN actions', tx_seq'[i] = actions'[k].seq
        PROVE  tx_st'[i] = "PendingTransmit"
    <3>1. i \in Slots /\ tx_st'[i] # "Empty"
      BY DEF Live
    <3>2. CASE i \in F
      BY <1>2, <3>2
    <3>3. CASE k \notin DOMAIN actions
      <4>1. PICK j \in F : u[k] = Transmit(tx_seq'[j])
        BY <1>1, <3>3
      <4>2. tx_seq'[j] = tx_seq'[i] /\ j \in Slots /\ tx_st'[j] = "PendingTransmit"
        BY <1>2, <2>3, <4>1, TransmitFields
      <4>3. j = i
        BY <3>1, <4>2 DEF DistinctSeqs, Live
      <4> QED BY <4>2, <4>3
    <3>4. CASE i \notin F /\ k \in DOMAIN actions
      <4>1. tx_st[i] # "Empty" /\ tx_seq[i] = actions[k].seq /\ tx_st'[i] = tx_st[i]
        BY <1>1, <1>2, <2>3, <3>1, <3>4
      <4> QED BY <3>1, <3>4, <4>1 DEF QueueInv, SelectQueue, Live
    <3> QED BY <3>2, <3>3, <3>4
  <2> QED BY <2>1, <2>2, <2>3
<1>8. NoticesAreFew'
  <2>1. CASE tx_pc = "write"
    BY <1>1, <1>2, <1>3, <2>1 DEF QueueInv, NoticesAreFew
  <2>2. CASE tx_pc = "select"
    BY <1>3, <2>2 DEF QueueInv, SelectQueue, NoticesAreFew
  <2> QED BY <1>2, <2>1, <2>2
<1>9. WriteTakesSlot'
  <2> SUFFICES ASSUME tx_pc = "write", NEW k0 \in DOMAIN actions', ~IsTransmit(k0)'
               PROVE  /\ \E i \in Slots : Matches(i, writing.seq)'
                      /\ \A k \in DOMAIN actions' : actions'[k] # Transmit(writing'.seq)
    BY <1>2 DEF WriteTakesSlot, Transmit
  <2>1. /\ \E i \in Slots : Matches(i, writing.seq)
        /\ \A k \in DOMAIN actions : actions[k] # Transmit(writing.seq)
    BY <1>3 DEF QueueInv, WriteTakesSlot
  <2>2. PICK w \in Slots : tx_st[w] # "Empty" /\ tx_seq[w] = writing.seq
    BY <2>1 DEF Matches
  <2>3. w \notin F /\ tx_st'[w] # "Empty" /\ tx_seq'[w] = writing'.seq
    BY <1>2, <2>2, FillSlots
  <2>4. ASSUME NEW k \in DOMAIN actions', actions'[k] = Transmit(writing'.seq) PROVE FALSE
    <3>1. k \notin DOMAIN actions
      BY <1>1, <1>2, <2>1, <2>4
    <3>2. PICK j \in F : u[k] = Transmit(tx_seq'[j])
      BY <1>1, <3>1
    <3>3. tx_seq'[j] = tx_seq'[w] /\ j \in Slots /\ tx_st'[j] # "Empty"
      <4>1. Transmit(tx_seq'[j]).seq = Transmit(writing'.seq).seq
        BY <2>4, <3>2
      <4>2. tx_seq'[j] = writing'.seq
        BY <4>1, TransmitFields
      <4> QED BY <1>2, <2>3, <4>2
    <3>4. j = w
      BY <2>3, <3>3 DEF DistinctSeqs, Live
    <3> QED BY <2>3, <3>2, <3>4
  <2> QED BY <2>3, <2>4 DEF Matches
<1> QED
  BY <1>4, <1>5, <1>6, <1>7, <1>8, <1>9 DEF QueueInv

\* A dropped or freshly bound sender has an empty queue.
LEMMA ResetQueue == ASSUME QueueInv, Drop \/ Bind PROVE QueueInv'
<1>1. /\ actions' = <<>> /\ tx_st' = [i \in Slots |-> "Empty"] /\ tx_seq' = [i \in Slots |-> 0]
      /\ next_seq' = 0 /\ timers' = [i \in Slots |-> NoSeq]
      /\ UNCHANGED <<tx_pc, expired, writing>>
  BY DEF Drop, Bind, ResetSlot
<1>2. 0 \in SeqCounts /\ MaxActions \in Nat
  BY SeqSpaceAssumption, TxAssumption DEF SeqCounts
<1>3. QueueTypes'
  BY <1>1, <1>2 DEF QueueInv, QueueTypes, SlotState
<1>4. DOMAIN actions' = {}
  BY <1>1
<1> QED
  BY <1>1, <1>3, <1>4 DEF QueueInv, TransmitsOwned, PendingIsQueued, SelectQueue, NoticesAreFew,
     WriteTakesSlot

\* What Tail leaves of the queue.
LEMMA PopTakesHead ==
    ASSUME QueueTypes, actions # <<>>, actions' = Tail(actions)
    PROVE  /\ Len(actions) \in Nat /\ Len(actions) >= 1 /\ DOMAIN actions = 1 .. Len(actions)
           /\ actions' \in Seq(SenderAction) /\ Len(actions') <= MaxActions
           /\ DOMAIN actions' = 1 .. (Len(actions) - 1)
           /\ \A k \in DOMAIN actions' : k + 1 \in DOMAIN actions /\ actions'[k] = actions[k + 1]
           /\ 1 \in DOMAIN actions /\ Head(actions) = actions[1]
           /\ \A k \in DOMAIN actions : k # 1 => k - 1 \in DOMAIN actions'
                                              /\ actions'[k - 1] = actions[k]
<1>1. actions \in Seq(SenderAction) /\ Len(actions) \in Nat /\ Len(actions) <= MaxActions
      /\ DOMAIN actions = 1 .. Len(actions) /\ MaxActions \in Nat
  BY TxAssumption DEF QueueTypes
<1>2. Len(actions) >= 1
  BY <1>1
<1>3. /\ actions' \in Seq(SenderAction) /\ Len(actions') = Len(actions) - 1
      /\ \A k \in 1 .. (Len(actions) - 1) : actions'[k] = actions[k + 1]
      /\ Head(actions) = actions[1]
  BY <1>1, <1>2
<1>4. DOMAIN actions' = 1 .. (Len(actions) - 1)
  BY <1>1, <1>2, <1>3
<1>5. \A k \in DOMAIN actions : k # 1 => k - 1 \in DOMAIN actions' /\ actions'[k - 1] = actions[k]
  <2> SUFFICES ASSUME NEW k \in DOMAIN actions, k # 1
               PROVE  k - 1 \in DOMAIN actions' /\ actions'[k - 1] = actions[k]
    OBVIOUS
  <2>1. k - 1 \in 1 .. (Len(actions) - 1) /\ (k - 1) + 1 = k
    BY <1>1
  <2> QED BY <1>3, <1>4, <2>1
<1> QED
  BY <1>1, <1>2, <1>3, <1>4, <1>5

\* transmit() takes the packet of a live slot into link.write.
LEMMA StartWriteQueue ==
    ASSUME QueueInv, StartWrite
    PROVE  /\ QueueInv'
           /\ writing'.seq = actions[1].seq /\ IsTransmit(1) /\ 1 \in DOMAIN actions
           /\ \A k \in DOMAIN actions' : actions'[k] # Transmit(writing'.seq)
<1> DEFINE s == Head(actions).seq
           M == {i \in Slots : Matches(i, s)}
<1>1. /\ tx_pc = "drain" /\ tx_pc' = "write" /\ actions # <<>> /\ actions' = Tail(actions)
      /\ Head(actions).type = "Transmit" /\ M # {} /\ writing' = Payload(Min(M))
      /\ UNCHANGED <<tx_st, tx_seq, next_seq, timers, expired, writes>>
  BY DEF StartWrite, Draining, tx_machine
<1>2. QueueTypes
  BY DEF QueueInv
<1>3. /\ Len(actions) \in Nat /\ Len(actions) >= 1 /\ DOMAIN actions = 1 .. Len(actions)
      /\ actions' \in Seq(SenderAction) /\ Len(actions') <= MaxActions
      /\ DOMAIN actions' = 1 .. (Len(actions) - 1)
      /\ \A k \in DOMAIN actions' : k + 1 \in DOMAIN actions /\ actions'[k] = actions[k + 1]
      /\ 1 \in DOMAIN actions /\ Head(actions) = actions[1]
      /\ \A k \in DOMAIN actions : k # 1 => k - 1 \in DOMAIN actions' /\ actions'[k - 1] = actions[k]
  BY <1>1, <1>2, PopTakesHead
<1>4. PICK w \in Slots : Matches(w, s) /\ writing' = Payload(w)
  <2>1. Min(M) \in M
    BY <1>1, MinOfSlots
  <2> QED BY <1>1, <2>1
<1>5. writing'.seq = s /\ tx_seq[w] = s /\ s \in SeqCounts /\ tx_st[w] # "Empty"
  BY <1>2, <1>4 DEF Payload, Matches, QueueTypes
<1>6. IsTransmit(1) /\ actions[1].seq = s
  BY <1>1, <1>3 DEF IsTransmit
<1> HIDE DEF s, M
<1>7. actions[1] = Transmit(s)
  <2>1. actions[1] \in SenderAction
    BY <1>2, <1>3, ElementOfSeq DEF QueueTypes
  <2> QED BY <1>6, <2>1 DEF SenderAction, Transmit, IsTransmit
<1>8. \A k \in DOMAIN actions' : actions'[k] # Transmit(s)
  <2> SUFFICES ASSUME NEW k \in DOMAIN actions', actions'[k] = Transmit(s) PROVE FALSE
    OBVIOUS
  <2>1. k + 1 \in DOMAIN actions /\ actions[k + 1] = actions[1] /\ k + 1 # 1
    BY <1>3, <1>7
  <2> QED BY <1>3, <1>6, <2>1 DEF QueueInv, TransmitsOwned
<1>9. QueueTypes'
  BY <1>1, <1>2, <1>3, <1>5 DEF QueueTypes
<1>10. \A k \in DOMAIN actions' : IsTransmit(k)' <=> IsTransmit(k + 1)
  BY <1>3 DEF IsTransmit
<1>11. TransmitsOwned'
  <2>1. ASSUME NEW k \in DOMAIN actions', IsTransmit(k)'
        PROVE  \E i \in Slots : Matches(i, actions[k].seq)'
    BY <1>1, <1>3, <1>10, <2>1 DEF QueueInv, TransmitsOwned, Matches
  <2>2. ASSUME NEW k \in DOMAIN actions', NEW l \in DOMAIN actions', IsTransmit(k)',
               actions'[l] = actions'[k]
        PROVE  l = k
    <3>1. k + 1 = l + 1
      BY <1>3, <1>10, <2>2 DEF QueueInv, TransmitsOwned
    <3> QED BY <1>3, <3>1
  <2> QED BY <2>1, <2>2 DEF TransmitsOwned
<1>12. PendingIsQueued'
  <2> SUFFICES ASSUME NEW i \in Slots, tx_st[i] = "PendingTransmit"
               PROVE  \/ \E k \in DOMAIN actions' : actions'[k] = Transmit(tx_seq[i])
                      \/ writing'.seq = tx_seq[i]
    BY <1>1 DEF PendingIsQueued, Transmit
  <2>1. PICK k \in DOMAIN actions : actions[k] = Transmit(tx_seq[i])
    BY <1>1 DEF QueueInv, PendingIsQueued
  <2>2. CASE k = 1
    BY <1>5, <1>6, <2>1, <2>2, TransmitFields
  <2>3. CASE k # 1
    BY <1>3, <2>1, <2>3
  <2> QED BY <2>2, <2>3
<1>13. SelectQueue'
  BY <1>1 DEF SelectQueue
<1>14. NoticesAreFew'
  <2> SUFFICES ASSUME NEW k \in DOMAIN actions', NEW l \in DOMAIN actions',
                      ~IsTransmit(k)', ~IsTransmit(l)'
               PROVE  l - k < TxWin
    BY DEF NoticesAreFew
  <2>1. (l + 1) - (k + 1) < TxWin
    BY <1>3, <1>6, <1>10 DEF QueueInv, NoticesAreFew
  <2>2. k \in Int /\ l \in Int /\ TxWin \in Int
    BY <1>3, TxAssumption
  <2> QED BY <2>1, <2>2
<1>15. WriteTakesSlot'
  BY <1>1, <1>4, <1>5, <1>8 DEF WriteTakesSlot, Matches, Transmit
<1> QED
  BY <1>3, <1>5, <1>6, <1>8, <1>9, <1>11, <1>12, <1>13, <1>14, <1>15 DEF QueueInv

\* The other actions leave the queue without a Transmit of a live slot.
LEMMA PopActionQueue == ASSUME QueueInv, PopAction PROVE QueueInv'
<1>1. /\ tx_pc = "drain" /\ actions # <<>> /\ actions' = Tail(actions)
      /\ ~(Head(actions).type = "Transmit" /\ \E i \in Slots : Matches(i, Head(actions).seq))
      /\ UNCHANGED <<tx_st, tx_seq, next_seq, tx_pc, writing, expired, writes>>
      /\ timers' = timers \/ timers' = StopTimers(Head(actions).seq)
  BY DEF PopAction, Draining, tx_machine
<1>2. QueueTypes
  BY DEF QueueInv
<1>3. /\ Len(actions) \in Nat /\ Len(actions) >= 1 /\ DOMAIN actions = 1 .. Len(actions)
      /\ actions' \in Seq(SenderAction) /\ Len(actions') <= MaxActions
      /\ DOMAIN actions' = 1 .. (Len(actions) - 1)
      /\ \A k \in DOMAIN actions' : k + 1 \in DOMAIN actions /\ actions'[k] = actions[k + 1]
      /\ 1 \in DOMAIN actions /\ Head(actions) = actions[1]
      /\ \A k \in DOMAIN actions : k # 1 => k - 1 \in DOMAIN actions' /\ actions'[k - 1] = actions[k]
  BY <1>1, <1>2, PopTakesHead
<1>4. ~IsTransmit(1)
  BY <1>1, <1>3 DEF QueueInv, TransmitsOwned, IsTransmit
<1>5. QueueTypes'
  <2>1. timers' \in [Slots -> SeqCounts \cup {NoSeq}]
    BY <1>1, <1>2 DEF QueueTypes, StopTimers
  <2> QED BY <1>1, <1>2, <1>3, <2>1 DEF QueueTypes
<1>6. \A k \in DOMAIN actions' : IsTransmit(k)' <=> IsTransmit(k + 1)
  BY <1>3 DEF IsTransmit
<1>7. TransmitsOwned'
  <2>1. ASSUME NEW k \in DOMAIN actions', IsTransmit(k)'
        PROVE  \E i \in Slots : Matches(i, actions[k].seq)'
    BY <1>1, <1>3, <1>6, <2>1 DEF QueueInv, TransmitsOwned, Matches
  <2>2. ASSUME NEW k \in DOMAIN actions', NEW l \in DOMAIN actions', IsTransmit(k)',
               actions'[l] = actions'[k]
        PROVE  l = k
    <3>1. k + 1 = l + 1
      BY <1>3, <1>6, <2>2 DEF QueueInv, TransmitsOwned
    <3> QED BY <1>3, <3>1
  <2> QED BY <2>1, <2>2 DEF TransmitsOwned
<1>8. PendingIsQueued'
  <2> SUFFICES ASSUME NEW i \in Slots, tx_st[i] = "PendingTransmit"
               PROVE  \E k \in DOMAIN actions' : actions'[k] = Transmit(tx_seq[i])
    BY <1>1 DEF PendingIsQueued, Transmit
  <2>1. PICK k \in DOMAIN actions : actions[k] = Transmit(tx_seq[i])
    BY <1>1 DEF QueueInv, PendingIsQueued
  <2>2. k # 1
    BY <1>4, <2>1, TransmitFields DEF IsTransmit
  <2> QED BY <1>3, <2>1, <2>2
<1>9. SelectQueue'
  BY <1>1 DEF SelectQueue
<1>10. NoticesAreFew'
  <2> SUFFICES ASSUME NEW t \in DOMAIN actions', IsTransmit(t)',
                      NEW k \in DOMAIN actions', NEW l \in DOMAIN actions',
                      ~IsTransmit(k)', ~IsTransmit(l)'
               PROVE  l - k < TxWin
    BY <1>1 DEF NoticesAreFew
  <2>1. (l + 1) - (k + 1) < TxWin
    BY <1>3, <1>6 DEF QueueInv, NoticesAreFew
  <2>2. k \in Int /\ l \in Int /\ TxWin \in Int
    BY <1>3, TxAssumption
  <2> QED BY <2>1, <2>2
<1>11. WriteTakesSlot'
  BY <1>1 DEF WriteTakesSlot
<1> QED
  BY <1>5, <1>7, <1>8, <1>9, <1>10, <1>11 DEF QueueInv

\* The slot whose packet link.write took awaits its ACK.
LEMMA FinishWriteQueue == ASSUME QueueInv, DistinctSeqs, FinishWrite PROVE QueueInv'
<1> DEFINE pending == {i \in Slots : tx_st[i] = "PendingTransmit" /\ tx_seq[i] = writing.seq}
           first == Min(pending)
<1>1. /\ tx_pc = "write" /\ tx_pc' = "drain"
      /\ tx_st' = [i \in Slots |-> IF pending # {} /\ i = first THEN "AwaitingAck" ELSE tx_st[i]]
      /\ timers' = StartTimer(writing.seq) /\ writing' = NoPacket
      /\ UNCHANGED <<tx_seq, next_seq, actions, expired>>
  BY DEF FinishWrite
<1>2. pending # {} => first \in pending
  BY MinOfSlots
<1>3. \A i \in Slots : tx_st[i] # "Empty" => tx_st'[i] # "Empty"
  BY <1>1
<1>4. QueueTypes'
  <2>1. timers' \in [Slots -> SeqCounts \cup {NoSeq}]
    BY <1>1 DEF QueueInv, QueueTypes, StartTimer
  <2>2. tx_st' \in [Slots -> SlotState]
    <3> HIDE DEF pending, first
    <3> QED BY <1>1 DEF QueueInv, QueueTypes, SlotState
  <2>3. writing'.seq \in SeqCounts \cup {NoSeq}
    BY <1>1 DEF NoPacket
  <2> QED BY <1>1, <2>1, <2>2, <2>3 DEF QueueInv, QueueTypes
<1>5. TransmitsOwned'
  BY <1>1, <1>3 DEF QueueInv, TransmitsOwned, IsTransmit, Matches
<1>6. PendingIsQueued'
  <2> SUFFICES ASSUME NEW i \in Slots, tx_st'[i] = "PendingTransmit"
               PROVE  \E k \in DOMAIN actions : actions[k] = Transmit(tx_seq[i])
    BY <1>1 DEF PendingIsQueued, Transmit
  <2>1. tx_st[i] = "PendingTransmit" /\ ~(pending # {} /\ i = first)
    BY <1>1
  <2>2. tx_seq[i] # writing.seq
    <3> SUFFICES ASSUME tx_seq[i] = writing.seq PROVE FALSE
      OBVIOUS
    <3>1. i \in pending
      BY <2>1
    <3>2. first \in Slots /\ tx_st[first] = "PendingTransmit" /\ tx_seq[first] = writing.seq
      BY <1>2, <3>1
    <3>3. first = i
      BY <2>1, <3>2 DEF DistinctSeqs, Live
    <3> QED BY <2>1, <3>1, <3>3
  <2> QED BY <1>1, <2>1, <2>2 DEF QueueInv, PendingIsQueued
<1>7. SelectQueue' /\ WriteTakesSlot'
  BY <1>1 DEF SelectQueue, WriteTakesSlot
<1>8. NoticesAreFew'
  BY <1>1 DEF QueueInv, NoticesAreFew, IsTransmit
<1> QED
  BY <1>4, <1>5, <1>6, <1>7, <1>8 DEF QueueInv

\* handle_timeout finds first transmissions in the queue, or, after a drain, nothing.
LEMMA TimeoutFinds ==
    ASSUME QueueInv, HandleTimeout
    PROVE  /\ tx_pc \in {"drain", "expire"} /\ tx_pc' = "drain" /\ expired # <<>>
           /\ \A k \in DOMAIN actions : IsTransmit(k)
           /\ \A j \in Live, k \in DOMAIN actions :
                 tx_seq[j] = actions[k].seq => tx_st[j] = "PendingTransmit"
<1>1. /\ tx_pc = "expire" \/ (tx_pc = "drain" /\ actions = <<>>)
      /\ tx_pc' = "drain" /\ expired # <<>>
  BY DEF HandleTimeout, Draining
<1>2. CASE tx_pc = "expire"
  BY <1>1, <1>2 DEF QueueInv, SelectQueue
<1>3. CASE actions = <<>>
  <2>1. DOMAIN actions = {}
    BY <1>3
  <2> QED BY <1>1, <2>1
<1> QED
  BY <1>1, <1>2, <1>3

\* The slot that timed out has no part in the queue, so that there is room for its Transmit.
LEMMA TimeoutFits ==
    ASSUME RoomForActions, QueueInv, HandleTimeout, NEW i \in Slots, tx_st[i] = "AwaitingAck"
    PROVE  /\ Len(actions) \in Nat /\ Len(actions) + 1 <= MaxActions
           /\ \A k \in DOMAIN actions : actions[k].seq # tx_seq[i]
           /\ \A k \in DOMAIN actions : TxWin >= 2
<1> DEFINE L == Slots \ {i}
<1>1. QueueTypes /\ TransmitsOwned /\ i \in Live
  BY DEF QueueInv, Live
<1>2. \A k \in DOMAIN actions : actions[k].seq # tx_seq[i]
  BY <1>1, TimeoutFinds
<1>3. ASSUME NEW k \in DOMAIN actions PROVE \E j \in L : tx_seq[j] = actions[k].seq
  <2>1. PICK j \in Slots : Matches(j, actions[k].seq)
    BY <1>1, TimeoutFinds DEF TransmitsOwned
  <2>2. j # i
    BY <1>2, <2>1 DEF Matches
  <2> QED BY <2>1, <2>2 DEF Matches
<1>4. actions \in Seq(SenderAction) /\ Transmits(actions) /\ OwnedBy(actions, L, tx_seq)
  BY <1>1, <1>3, TimeoutFinds DEF QueueTypes, Transmits, OwnedBy, IsTransmit
<1>5. Once(actions) /\ Few(actions)
  BY <1>1, TimeoutFinds DEF TransmitsOwned, Once, Few, IsTransmit
<1>6. Cardinality(L) = TxWin - 1 /\ TxWin \in Nat /\ TxWin >= 1 /\ MaxActions \in Nat
  BY SlotsAreFinite, FS_RemoveElement, TxAssumption
<1>7. Len(actions) <= Cardinality(L)
  <2> HIDE DEF L
  <2>1. L \subseteq Slots
    BY DEF L
  <2> QED BY <1>4, <1>5, <2>1, QueueFits
<1>8. Len(actions) \in Nat /\ DOMAIN actions = 1 .. Len(actions)
  BY <1>4
<1>9. Len(actions) + 1 <= MaxActions
  BY <1>6, <1>7, <1>8 DEF RoomForActions
<1>10. \A k \in DOMAIN actions : TxWin >= 2
  BY <1>6, <1>7, <1>8
<1> QED
  BY <1>2, <1>8, <1>9, <1>10

\* handle_timeout keeps the queue in order.
LEMMA HandleTimeoutQueue == ASSUME RoomForActions, QueueInv, HandleTimeout PROVE QueueInv'
<1> DEFINE s == Head(expired)
           i == Min(Awaiting(s))
           lost == <<Notice("PacketLost", s)>> \o
                   (IF tx_kind[i] \in {"Unsegmented", "Eos"} THEN <<>>
                    ELSE <<Notice("MessageLost", NoSeq)>>)
<1>1. /\ tx_pc \in {"drain", "expire"} /\ tx_pc' = "drain" /\ expired # <<>>
      /\ expired' = Tail(expired)
      /\ UNCHANGED <<tx_seq, next_seq, timers, writing>>
  BY TimeoutFinds DEF HandleTimeout
<1>2. QueueTypes
  BY DEF QueueInv
<1>3. s \in SeqCounts /\ expired' \in Seq(SeqCounts)
  BY <1>1, <1>2 DEF QueueTypes
<1>4. /\ \A k \in DOMAIN actions : IsTransmit(k)
      /\ \A j \in Live, k \in DOMAIN actions :
            tx_seq[j] = actions[k].seq => tx_st[j] = "PendingTransmit"
      /\ \A j \in Slots : tx_st[j] = "PendingTransmit" =>
            \E k \in DOMAIN actions : actions[k] = Transmit(tx_seq[j])
  BY <1>1, TimeoutFinds DEF QueueInv, PendingIsQueued
<1>5. actions \in Seq(SenderAction) /\ Len(actions) \in Nat /\ DOMAIN actions = 1 .. Len(actions)
  BY <1>2 DEF QueueTypes
<1>6. SelectQueue' /\ WriteTakesSlot'
  BY <1>1 DEF SelectQueue, WriteTakesSlot
<1>7. CASE UNCHANGED <<tx_st, actions>>
  <2>2. QueueTypes'
    BY <1>1, <1>2, <1>3, <1>7 DEF QueueTypes
  <2>3. TransmitsOwned' /\ PendingIsQueued'
    BY <1>1, <1>4, <1>7 DEF QueueInv, TransmitsOwned, IsTransmit, Matches, PendingIsQueued
  <2>4. NoticesAreFew'
    BY <1>4, <1>7 DEF NoticesAreFew, IsTransmit
  <2> QED BY <1>6, <2>2, <2>3, <2>4 DEF QueueInv
<1>8. CASE /\ Awaiting(s) # {} /\ tx_st' = [tx_st EXCEPT ![i] = "Empty"]
           /\ actions' = Push(actions, lost)
  <2>0. i \in Slots /\ tx_st[i] = "AwaitingAck"
    BY <1>8, MinOfSlots DEF Awaiting
  <2>1. /\ lost \in Seq(SenderAction) /\ Len(lost) <= 2
        /\ \A k \in 1 .. Len(lost) : lost[k].type # "Transmit"
    <3>1. /\ Notice("PacketLost", s) \in SenderAction /\ Notice("MessageLost", NoSeq) \in SenderAction
          /\ Notice("PacketLost", s).type # "Transmit" /\ Notice("MessageLost", NoSeq).type # "Transmit"
      BY <1>3 DEF Notice, SenderAction, ActionTypes
    <3> DEFINE a == Notice("PacketLost", s)
               b == Notice("MessageLost", NoSeq)
               e == IF tx_kind[i] \in {"Unsegmented", "Eos"} THEN <<>> ELSE <<b>>
    <3>2. lost = <<a>> \o e /\ (e = <<>> \/ e = <<b>>)
      OBVIOUS
    <3>3. a \in SenderAction /\ b \in SenderAction /\ a.type # "Transmit" /\ b.type # "Transmit"
      BY <3>1
    <3> HIDE DEF a, b, e, lost
    <3>4. <<a>> \in Seq(SenderAction) /\ Len(<<a>>) = 1 /\ <<a>>[1] = a
      BY <3>3
    <3>5. e \in Seq(SenderAction) /\ Len(e) \in Nat /\ Len(e) <= 1 /\ \A k \in 1 .. Len(e) : e[k] = b
      <4>1. CASE e = <<>>
        BY <4>1
      <4>2. CASE e = <<b>>
        BY <3>3, <4>2
      <4> QED BY <3>2, <4>1, <4>2
    <3>6. /\ lost \in Seq(SenderAction) /\ Len(lost) = 1 + Len(e)
          /\ \A k \in 1 .. Len(lost) : lost[k] = a \/ (k - 1 \in 1 .. Len(e) /\ lost[k] = e[k - 1])
      BY <3>2, <3>4, <3>5
    <3> QED BY <3>3, <3>5, <3>6
  <2> HIDE DEF lost, i, s
  <2>2. /\ actions' \in Seq(SenderAction) /\ Len(actions') <= MaxActions
        /\ \A k \in DOMAIN actions : k \in DOMAIN actions' /\ actions'[k] = actions[k]
        /\ \A k \in DOMAIN actions' \ DOMAIN actions :
              ~IsTransmit(k)' /\ k \in Int /\ k > Len(actions) /\ k <= Len(actions) + 2
    <3>1. PICK m \in 0 .. Len(lost) :
             /\ actions' \in Seq(SenderAction)
             /\ Len(actions') = Len(actions) + m /\ Len(actions) + m <= MaxActions
             /\ \A k \in 1 .. Len(actions) : actions'[k] = actions[k]
             /\ \A k \in 1 .. m : actions'[Len(actions) + k] = lost[k]
      BY <1>2, <1>8, <2>1, PushTakes DEF QueueTypes
    <3>2. DOMAIN actions' = 1 .. (Len(actions) + m) /\ m \in Nat /\ m <= 2 /\ Len(lost) \in Nat
      BY <1>5, <2>1, <3>1
    <3>3. ASSUME NEW k \in DOMAIN actions' \ DOMAIN actions
          PROVE  ~IsTransmit(k)' /\ k \in Int /\ k > Len(actions) /\ k <= Len(actions) + 2
      <4>1. /\ k - Len(actions) \in 1 .. m /\ k - Len(actions) \in 1 .. Len(lost)
            /\ Len(actions) + (k - Len(actions)) = k
            /\ k \in Int /\ k > Len(actions) /\ k <= Len(actions) + 2
        BY <1>5, <2>1, <3>1, <3>2
      <4>2. actions'[k] = lost[k - Len(actions)]
        BY <3>1, <4>1
      <4> QED BY <2>1, <4>1, <4>2 DEF IsTransmit
    <3>4. \A k \in DOMAIN actions : k \in DOMAIN actions' /\ actions'[k] = actions[k]
      BY <1>5, <3>1, <3>2
    <3> QED BY <3>1, <3>3, <3>4
  <2>3. /\ tx_st' \in [Slots -> SlotState] /\ tx_st'[i] = "Empty"
        /\ \A j \in Slots : j # i => tx_st'[j] = tx_st[j]
    BY <1>2, <1>8, <2>0 DEF QueueTypes, SlotState
  <2>4. QueueTypes'
    BY <1>1, <1>2, <1>3, <2>2, <2>3 DEF QueueTypes
  <2>5. /\ \A k \in DOMAIN actions : actions[k].seq # tx_seq[i]
        /\ \A k \in DOMAIN actions : TxWin >= 2
    BY <2>0, TimeoutFits
  <2>6. TransmitsOwned'
    <3>1. ASSUME NEW k \in DOMAIN actions', IsTransmit(k)'
          PROVE  k \in DOMAIN actions /\ \E j \in Slots : Matches(j, actions[k].seq)'
      <4>1. k \in DOMAIN actions
        BY <2>2, <3>1
      <4>2. PICK j \in Slots : Matches(j, actions[k].seq)
        BY <1>4, <4>1 DEF QueueInv, TransmitsOwned
      <4>3. j # i
        BY <2>5, <4>1, <4>2 DEF Matches
      <4>4. Matches(j, actions[k].seq)'
        BY <1>1, <2>2, <2>3, <4>1, <4>2, <4>3 DEF Matches
      <4> QED BY <4>1, <4>4
    <3>2. ASSUME NEW k \in DOMAIN actions', NEW l \in DOMAIN actions', IsTransmit(k)',
                 actions'[l] = actions'[k]
          PROVE  l = k
      <4>1. k \in DOMAIN actions /\ l \in DOMAIN actions
        BY <2>2, <3>2 DEF IsTransmit
      <4>2. actions[l] = actions[k] /\ IsTransmit(k)
        BY <1>4, <2>2, <3>2, <4>1
      <4> QED BY <4>1, <4>2 DEF QueueInv, TransmitsOwned
    <3> QED BY <3>1, <3>2 DEF TransmitsOwned
  <2>7. PendingIsQueued'
    <3> SUFFICES ASSUME NEW j \in Slots, tx_st'[j] = "PendingTransmit"
                 PROVE  \E k \in DOMAIN actions' : actions'[k] = Transmit(tx_seq[j])
      BY <1>1 DEF PendingIsQueued, Transmit
    <3>1. tx_st[j] = "PendingTransmit"
      BY <2>3
    <3> QED BY <1>4, <2>2, <3>1
  <2>8. NoticesAreFew'
    <3> SUFFICES ASSUME NEW t \in DOMAIN actions', IsTransmit(t)',
                        NEW k \in DOMAIN actions', NEW l \in DOMAIN actions',
                        ~IsTransmit(k)', ~IsTransmit(l)'
                 PROVE  l - k < TxWin
      BY <1>1 DEF NoticesAreFew
    <3>1. TxWin >= 2 /\ TxWin \in Nat
      BY <2>2, <2>5, TxAssumption
    <3>2. k \notin DOMAIN actions /\ l \notin DOMAIN actions
      BY <1>4, <2>2 DEF IsTransmit
    <3> QED BY <1>5, <2>2, <3>1, <3>2
  <2> QED BY <1>6, <2>4, <2>6, <2>7, <2>8 DEF QueueInv
<1>9. CASE /\ Awaiting(s) # {} /\ tx_st' = [tx_st EXCEPT ![i] = "PendingTransmit"]
           /\ actions' = Push(actions, <<Transmit(s)>>)
  <2>1. i \in Slots /\ tx_seq[i] = s /\ tx_st[i] = "AwaitingAck"
    BY <1>9, MinOfSlots DEF Awaiting
  <2>2. <<Transmit(s)>> \in Seq(SenderAction) /\ Len(<<Transmit(s)>>) = 1
        /\ <<Transmit(s)>>[1] = Transmit(s)
    BY <1>3 DEF Transmit, SenderAction, ActionTypes
  <2> HIDE DEF i, s
  <2>3. /\ actions' \in Seq(SenderAction) /\ Len(actions') <= MaxActions
        /\ DOMAIN actions' = 1 .. (Len(actions) + 1) /\ actions'[Len(actions) + 1] = Transmit(s)
        /\ \A k \in DOMAIN actions : k \in DOMAIN actions' /\ actions'[k] = actions[k]
    <3> DEFINE new == <<Transmit(s)>>
    <3>0. /\ new \in Seq(SenderAction) /\ Len(new) = 1 /\ new[1] = Transmit(s)
          /\ actions' = Push(actions, new)
      BY <1>9, <2>2
    <3> HIDE DEF new
    <3> DEFINE p == Push(actions, new)
    <3>1. PICK m \in 0 .. Len(new) :
             /\ p \in Seq(SenderAction)
             /\ Len(p) = Len(actions) + m /\ Len(actions) + m <= MaxActions
             /\ \A k \in 1 .. Len(actions) : p[k] = actions[k]
             /\ \A k \in 1 .. m : p[Len(actions) + k] = new[k]
             /\ Len(actions) + Len(new) <= MaxActions => m = Len(new)
             /\ Len(actions) + Len(new) > MaxActions => m = MaxActions - Len(actions)
      BY <1>2, <3>0, PushTakes DEF QueueTypes
    <3>2. p = actions'
      BY <3>0
    <3> HIDE DEF p
    <3>3. m = 1
      BY <2>1, <3>0, <3>1, TimeoutFits
    <3>4. DOMAIN p = 1 .. (Len(actions) + 1) /\ p[Len(actions) + 1] = Transmit(s)
      BY <1>5, <3>0, <3>1, <3>3
    <3>5. \A k \in DOMAIN actions : k \in DOMAIN p /\ p[k] = actions[k]
      BY <1>5, <3>1, <3>4
    <3> QED BY <3>1, <3>2, <3>3, <3>4, <3>5
  <2>4. /\ tx_st' \in [Slots -> SlotState] /\ tx_st'[i] = "PendingTransmit"
        /\ \A j \in Slots : j # i => tx_st'[j] = tx_st[j]
    BY <1>2, <1>9, <2>1 DEF QueueTypes, SlotState
  <2>5. QueueTypes'
    BY <1>1, <1>2, <1>3, <2>3, <2>4 DEF QueueTypes
  <2>6. /\ \A k \in DOMAIN actions : actions[k].seq # s
        /\ \A k \in DOMAIN actions' : k \in DOMAIN actions \/ k = Len(actions) + 1
    BY <1>5, <2>1, <2>3, TimeoutFits
  <2>7. TransmitsOwned'
    <3>1. ASSUME NEW k \in DOMAIN actions'
          PROVE  \E j \in Slots : Matches(j, actions[k].seq)'
      <4>1. CASE k \in DOMAIN actions
        <5>1. PICK j \in Slots : Matches(j, actions[k].seq)
          BY <1>4, <4>1 DEF QueueInv, TransmitsOwned
        <5>2. Matches(j, actions[k].seq)'
          BY <1>1, <2>3, <2>4, <4>1, <5>1 DEF Matches
        <5> QED BY <5>2
      <4>2. CASE k = Len(actions) + 1
        BY <1>1, <2>1, <2>3, <2>4, <4>2, TransmitFields DEF Matches
      <4> QED BY <2>6, <4>1, <4>2
    <3>2. ASSUME NEW k \in DOMAIN actions', NEW l \in DOMAIN actions', actions'[l] = actions'[k]
          PROVE  l = k
      <4>1. CASE k \in DOMAIN actions /\ l \in DOMAIN actions
        BY <1>4, <2>3, <3>2, <4>1 DEF QueueInv, TransmitsOwned
      <4>2. CASE k = Len(actions) + 1 /\ l = Len(actions) + 1
        BY <4>2
      <4> QED BY <2>3, <2>6, <3>2, <4>1, <4>2, TransmitFields
    <3> QED BY <3>1, <3>2 DEF TransmitsOwned
  <2>8. PendingIsQueued'
    <3> SUFFICES ASSUME NEW j \in Slots, tx_st'[j] = "PendingTransmit"
                 PROVE  \E k \in DOMAIN actions' : actions'[k] = Transmit(tx_seq[j])
      BY <1>1 DEF PendingIsQueued, Transmit
    <3>1. CASE j = i
      <4>1. Len(actions) + 1 \in DOMAIN actions'
        BY <1>5, <2>3
      <4> QED BY <2>1, <2>3, <3>1, <4>1
    <3>2. CASE j # i
      BY <1>4, <2>3, <2>4, <3>2
    <3> QED BY <3>1, <3>2
  <2>9. NoticesAreFew'
    BY <1>4, <2>3, <2>6, TransmitFields DEF NoticesAreFew, IsTransmit
  <2> QED BY <1>6, <2>5, <2>7, <2>8, <2>9 DEF QueueInv
<1> QED
  BY <1>7, <1>8, <1>9 DEF HandleTimeout

\* An ACK frees slots and queues a StopTimer for each of them.
AckFrees(freed, new) ==
    /\ freed \subseteq Live
    /\ \A i \in freed : writes[i] > 0
    /\ tx_st' = [i \in Slots |-> IF i \in freed THEN "Empty" ELSE tx_st[i]]
    /\ new \in Seq(SenderAction) /\ Len(new) <= Cardinality(freed) + 1
    /\ \A k \in 1 .. Len(new) :
          /\ new[k].type # "Transmit"
          /\ new[k].type = "StopTimer" => \E j \in freed : new[k] = StopTimer(tx_seq[j])
    /\ \A j \in freed : \E k \in 1 .. Len(new) :
          k <= Cardinality(freed) /\ new[k] = StopTimer(tx_seq[j])
    /\ actions' = Push(actions, new)

\* handle_ack, for an ACK of packets that were put on the link.
LEMMA ReceiveAckFrees ==
    ASSUME QueueTypes, NEW cum \in SeqCounts, NEW bits,
           \A i \in Acked(cum, bits) : writes[i] > 0, ReceiveAck(cum, bits)
    PROVE  \/ UNCHANGED <<tx_st, actions>>
           \/ \E freed, new : AckFrees(freed, new)
<1> DEFINE freed == Acked(cum, bits)
           C == CumAcked(cum)
           B == SelAcked(cum, bits)
           past  == [i \in Slots |-> SeqSub(tx_seq[i], cum)]
           key == [i \in Slots |-> i]
           order == InOrder(C, key) \o InOrder(B, past)
           stops == [k \in DOMAIN order |-> StopTimer(tx_seq[order[k]])]
           space == IF \E i \in freed : tx_len[i] > 0
                    THEN <<Notice("SpaceAvailable", NoSeq)>> ELSE <<>>
           new == stops \o space
<1>1. SUFFICES ASSUME ~UNCHANGED <<tx_st, actions>> PROVE AckFrees(freed, new)
  BY Zenon
<1>2. /\ tx_st' = [i \in Slots |-> IF i \in freed THEN "Empty" ELSE tx_st[i]]
      /\ actions' = Push(actions, new)
  BY <1>1 DEF ReceiveAck, SlotsInOrder
<1>3. /\ C \subseteq Slots /\ B \subseteq Slots /\ freed = C \cup B /\ C \cap B = {}
      /\ freed \subseteq Live
  BY DEF Acked, CumAcked, SelAcked, Live
<1>4. key \in [Slots -> Int] /\ past \in [Slots -> Int]
  BY SeqSpaceAssumption DEF Slots, SeqSub, QueueTypes, SeqCounts
<1> DEFINE a == InOrder(C, key)
           b == InOrder(B, past)
           c == Cardinality(C)
           d == Cardinality(B)
<1> HIDE DEF past, key
<1>5. /\ a \in Seq(C) /\ Len(a) = c /\ \A k \in 1 .. c : a[k] \in C
      /\ \A i \in C : \E k \in 1 .. c : a[k] = i
  BY <1>3, <1>4, InOrderLists
<1>6. /\ b \in Seq(B) /\ Len(b) = d /\ \A k \in 1 .. d : b[k] \in B
      /\ \A i \in B : \E k \in 1 .. d : b[k] = i
  BY <1>3, <1>4, InOrderLists
<1>7. c \in Nat /\ d \in Nat /\ Cardinality(freed) = c + d
  <2>1. IsFiniteSet(C) /\ IsFiniteSet(B) /\ c \in Nat /\ d \in Nat
    BY <1>3, SlotsAreFinite
  <2>2. Cardinality(C \cup B) = c + d - Cardinality(C \cap B)
    BY <2>1, FS_Union
  <2>3. Cardinality(C \cap B) = 0
    BY <1>3, FS_EmptySet
  <2> HIDE DEF freed, C, B
  <2> QED BY <1>3, <2>1, <2>2, <2>3
<1> HIDE DEF C, B, freed, a, b, c, d
<1>8. /\ DOMAIN order = 1 .. (c + d)
      /\ \A k \in 1 .. (c + d) : order[k] \in freed
      /\ \A i \in freed : \E k \in 1 .. (c + d) : order[k] = i
  <2>1. order = a \o b
    BY DEF a, b
  <2> HIDE DEF order
  <2>2. /\ DOMAIN order = 1 .. (c + d)
        /\ \A k \in 1 .. c : order[k] = a[k] /\ k \in 1 .. (c + d)
        /\ \A k \in 1 .. d : order[c + k] = b[k] /\ c + k \in 1 .. (c + d)
        /\ \A k \in 1 .. (c + d) : k \in 1 .. c \/ (k - c \in 1 .. d /\ order[k] = b[k - c])
    <3>1. a \in Seq(Slots) /\ b \in Seq(Slots)
      BY <1>3, <1>5, <1>6
    <3>2. /\ DOMAIN order = 1 .. (c + d)
          /\ \A k \in 1 .. c : order[k] = a[k]
          /\ \A k \in (c + 1) .. (c + d) : order[k] = b[k - c]
      <4>1. /\ order \in Seq(Slots) /\ Len(order) = c + d
            /\ \A k \in 1 .. (c + d) : order[k] = IF k <= c THEN a[k] ELSE b[k - c]
        <5>1. /\ a \o b \in Seq(Slots) /\ Len(a \o b) = Len(a) + Len(b)
              /\ \A k \in 1 .. Len(a) + Len(b) :
                    (a \o b)[k] = IF k <= Len(a) THEN a[k] ELSE b[k - Len(a)]
          BY <3>1, ConcatProperties
        <5>2. a \o b = order /\ Len(a) = c /\ Len(b) = d
          BY <1>5, <1>6, <2>1
        <5> QED BY <5>1, <5>2
      <4>2. \A k \in 1 .. c : k \in 1 .. (c + d) /\ k <= c
        BY <1>7
      <4>3. \A k \in (c + 1) .. (c + d) : k \in 1 .. (c + d) /\ ~(k <= c)
        BY <1>7
      <4> QED BY <4>1, <4>2, <4>3, LenProperties
    <3>3. /\ \A k \in 1 .. c : k \in 1 .. (c + d)
          /\ \A k \in 1 .. d : c + k \in (c + 1) .. (c + d) /\ c + k \in 1 .. (c + d)
                               /\ (c + k) - c = k
          /\ \A k \in 1 .. (c + d) : k \in 1 .. c \/ (k - c \in 1 .. d /\ k \in (c + 1) .. (c + d))
      BY <1>7
    <3> QED BY <3>2, <3>3
  <2>3. \A k \in 1 .. (c + d) : order[k] \in freed
    BY <1>3, <1>5, <1>6, <2>2
  <2>4. \A i \in freed : \E k \in 1 .. (c + d) : order[k] = i
    BY <1>3, <1>5, <1>6, <2>2
  <2> QED BY <2>2, <2>3, <2>4
<1> HIDE DEF order
<1>9. /\ stops \in Seq(SenderAction) /\ Len(stops) = c + d
      /\ \A k \in 1 .. (c + d) : stops[k] = StopTimer(tx_seq[order[k]])
  <2>1. freed \subseteq Slots
    BY <1>3
  <2>2. \A k \in 1 .. (c + d) : StopTimer(tx_seq[order[k]]) \in SenderAction
    BY <1>8, <2>1 DEF QueueTypes, StopTimer, SenderAction, ActionTypes
  <2>3. stops \in [1 .. (c + d) -> SenderAction]
    BY <1>8, <2>2
  <2>4. \A k \in 1 .. (c + d) : stops[k] = StopTimer(tx_seq[order[k]])
    BY <1>8
  <2> HIDE DEF stops
  <2> QED BY <1>7, <2>3, <2>4
<1>10. /\ space \in Seq(SenderAction) /\ Len(space) <= 1 /\ Len(space) \in Nat
       /\ \A k \in 1 .. Len(space) : space[k].type = "SpaceAvailable"
  <2> DEFINE n == Notice("SpaceAvailable", NoSeq)
  <2>1. n \in SenderAction /\ n.type = "SpaceAvailable"
    BY DEF Notice, SenderAction, ActionTypes
  <2>2. space = <<>> \/ space = <<n>>
    OBVIOUS
  <2> HIDE DEF space, n
  <2>3. CASE space = <<>>
    BY <2>3
  <2>4. CASE space = <<n>>
    <3>1. space \in Seq(SenderAction) /\ Len(space) = 1 /\ space[1] = n
      BY <2>1, <2>4
    <3> QED BY <2>1, <3>1
  <2> QED BY <2>2, <2>3, <2>4
<1> HIDE DEF stops, space
<1> DEFINE m == Len(space)
<1>11. /\ new \in Seq(SenderAction) /\ Len(new) = c + d + m
       /\ \A k \in 1 .. (c + d) : new[k] = stops[k] /\ k \in 1 .. Len(new)
       /\ \A k \in 1 .. Len(new) : k \in 1 .. (c + d) \/
             (k - (c + d) \in 1 .. m /\ new[k] = space[k - (c + d)])
  BY <1>7, <1>9, <1>10
<1> HIDE DEF new
<1>12. \A k \in 1 .. Len(new) :
          /\ new[k].type # "Transmit"
          /\ new[k].type = "StopTimer" => \E j \in freed : new[k] = StopTimer(tx_seq[j])
  <2> SUFFICES ASSUME NEW k \in 1 .. Len(new)
               PROVE  /\ new[k].type # "Transmit"
                      /\ new[k].type = "StopTimer" => \E j \in freed : new[k] = StopTimer(tx_seq[j])
    OBVIOUS
  <2>1. CASE k \in 1 .. (c + d)
    <3>1. new[k] = StopTimer(tx_seq[order[k]]) /\ order[k] \in freed
      BY <1>8, <1>9, <1>11, <2>1
    <3>2. new[k].type = "StopTimer"
      BY <3>1 DEF StopTimer
    <3> QED BY <3>1, <3>2
  <2>2. CASE k - (c + d) \in 1 .. m /\ new[k] = space[k - (c + d)]
    BY <1>10, <2>2
  <2> QED BY <1>11, <2>1, <2>2
<1>13. \A j \in freed : \E k \in 1 .. Len(new) :
          k <= Cardinality(freed) /\ new[k] = StopTimer(tx_seq[j])
  <2> SUFFICES ASSUME NEW j \in freed
               PROVE  \E k \in 1 .. Len(new) :
                         k <= Cardinality(freed) /\ new[k] = StopTimer(tx_seq[j])
    OBVIOUS
  <2>1. PICK k \in 1 .. (c + d) : order[k] = j
    BY <1>8
  <2>2. new[k] = StopTimer(tx_seq[j]) /\ k \in 1 .. Len(new) /\ k <= c + d
    BY <1>7, <1>9, <1>11, <2>1
  <2> QED BY <1>7, <2>2
<1>14. Len(new) <= Cardinality(freed) + 1
  BY <1>7, <1>10, <1>11
<1>15. \A i \in freed : writes[i] > 0
  BY DEF freed
<1> QED
  BY <1>2, <1>3, <1>11, <1>12, <1>13, <1>14, <1>15 DEF AckFrees

\* The queue after an ACK: the Transmits that were there, then the new actions.
LEMMA AckAppends ==
    ASSUME QueueInv, tx_pc = "select", NEW freed, NEW new, AckFrees(freed, new)
    PROVE  /\ actions' \in Seq(SenderAction) /\ Len(actions') <= MaxActions
           /\ Len(actions') \in Nat /\ Len(actions) \in Nat
           /\ DOMAIN actions' = 1 .. Len(actions') /\ DOMAIN actions = 1 .. Len(actions)
           /\ Len(actions) <= Len(actions') /\ Len(actions') <= Len(actions) + Len(new)
           /\ \A k \in DOMAIN actions : /\ k \in DOMAIN actions' /\ actions'[k] = actions[k]
                                        /\ IsTransmit(k)' /\ IsTransmit(k)
           /\ \A k \in DOMAIN actions' \ DOMAIN actions :
                 /\ k > Len(actions) /\ k - Len(actions) \in 1 .. Len(new)
                 /\ actions'[k] = new[k - Len(actions)] /\ ~IsTransmit(k)'
           /\ \A k \in 1 .. Len(new) : Len(actions) + k <= MaxActions =>
                 Len(actions) + k \in DOMAIN actions' /\ actions'[Len(actions) + k] = new[k]
           /\ \A i \in freed : i \in Slots /\ tx_st[i] = "AwaitingAck" /\ tx_st'[i] = "Empty"
           /\ \A i \in Slots \ freed : tx_st'[i] = tx_st[i]
<1> DEFINE n == Len(actions)
           p == Push(actions, new)
<1>1. actions \in Seq(SenderAction) /\ new \in Seq(SenderAction) /\ n \in Nat /\ Len(new) \in Nat
      /\ n <= MaxActions /\ MaxActions \in Nat
  BY TxAssumption DEF QueueInv, QueueTypes, AckFrees
<1>2. PICK m \in 0 .. Len(new) :
         /\ p \in Seq(SenderAction)
         /\ Len(p) = Len(actions) + m /\ Len(actions) + m <= MaxActions
         /\ \A k \in 1 .. Len(actions) : p[k] = actions[k]
         /\ \A k \in 1 .. m : p[Len(actions) + k] = new[k]
         /\ Len(actions) + Len(new) <= MaxActions => m = Len(new)
         /\ Len(actions) + Len(new) > MaxActions => m = MaxActions - Len(actions)
  BY <1>1, PushTakes
<1>3. p = actions' /\ \A k \in 1 .. Len(new) : new[k].type # "Transmit"
  BY DEF AckFrees
<1> HIDE DEF p
<1>4. /\ DOMAIN p = 1 .. (n + m) /\ DOMAIN actions = 1 .. n /\ Len(p) = n + m
      /\ n + m <= MaxActions /\ m \in Nat /\ m <= Len(new)
  BY <1>1, <1>2, LenProperties
<1>5. \A k \in DOMAIN actions : IsTransmit(k)
  BY DEF QueueInv, SelectQueue
<1>6. \A k \in DOMAIN actions : k \in DOMAIN p /\ p[k] = actions[k]
  BY <1>1, <1>2, <1>4
<1>7. ASSUME NEW k \in DOMAIN p \ DOMAIN actions
      PROVE  k > n /\ k - n \in 1 .. Len(new) /\ p[k] = new[k - n]
  <2>1. k > n /\ k - n \in 1 .. m /\ n + (k - n) = k /\ k - n \in 1 .. Len(new)
    BY <1>1, <1>4
  <2> QED BY <1>2, <2>1
<1>8. ASSUME NEW k \in 1 .. Len(new), n + k <= MaxActions
      PROVE  n + k \in DOMAIN p /\ p[n + k] = new[k]
  <2>1. k \in 1 .. m /\ n + k \in 1 .. (n + m)
    BY <1>1, <1>2, <1>4, <1>8
  <2> QED BY <1>2, <1>4, <2>1
<1>9. ASSUME NEW i \in freed PROVE i \in Slots /\ tx_st[i] = "AwaitingAck" /\ tx_st'[i] = "Empty"
  <2>1. i \in Slots /\ tx_st[i] # "Empty" /\ writes[i] > 0 /\ tx_st'[i] = "Empty"
    BY DEF AckFrees, Live
  <2>2. tx_st[i] # "PendingTransmit"
    BY <2>1 DEF QueueInv, SelectQueue
  <2> QED BY <2>1, <2>2 DEF QueueInv, QueueTypes, SlotState
<1>10. \A i \in Slots \ freed : tx_st'[i] = tx_st[i]
  BY DEF AckFrees
<1>11. n <= Len(p) /\ Len(p) <= n + Len(new) /\ Len(p) \in Nat /\ Len(p) <= MaxActions
  BY <1>1, <1>4
<1> QED
  BY <1>1, <1>2, <1>3, <1>4, <1>5, <1>6, <1>7, <1>8, <1>9, <1>10, <1>11, SMTT(40) DEF IsTransmit

\* An ACK leaves the queue in order.
LEMMA AckQueue ==
    ASSUME QueueInv, tx_pc = "select", tx_pc' = "drain", NEW freed, NEW new, AckFrees(freed, new),
           UNCHANGED <<tx_seq, next_seq, timers, expired, writing>>
    PROVE  QueueInv'
<1>1. /\ actions' \in Seq(SenderAction) /\ Len(actions') <= MaxActions
      /\ Len(actions') \in Nat /\ Len(actions) \in Nat
      /\ DOMAIN actions' = 1 .. Len(actions') /\ DOMAIN actions = 1 .. Len(actions)
      /\ Len(actions') <= Len(actions) + Len(new)
      /\ \A k \in DOMAIN actions : /\ k \in DOMAIN actions' /\ actions'[k] = actions[k]
                                   /\ IsTransmit(k)' /\ IsTransmit(k)
      /\ \A k \in DOMAIN actions' \ DOMAIN actions : k > Len(actions) /\ ~IsTransmit(k)'
      /\ \A i \in freed : i \in Slots /\ tx_st[i] = "AwaitingAck" /\ tx_st'[i] = "Empty"
      /\ \A i \in Slots \ freed : tx_st'[i] = tx_st[i]
  BY AckAppends
<1>2. QueueTypes'
  <2>1. tx_st' \in [Slots -> SlotState]
    BY DEF AckFrees, QueueInv, QueueTypes, SlotState
  <2> QED BY <1>1, <2>1 DEF QueueInv, QueueTypes
<1>3. ASSUME NEW k \in DOMAIN actions
      PROVE  \E i \in Slots \ freed : tx_st'[i] # "Empty" /\ tx_seq[i] = actions[k].seq
  <2>1. PICK i \in Slots : tx_st[i] # "Empty" /\ tx_seq[i] = actions[k].seq
    BY <1>1 DEF QueueInv, TransmitsOwned, Matches
  <2>2. tx_st[i] = "PendingTransmit"
    BY <2>1 DEF QueueInv, SelectQueue, Live
  <2>3. i \notin freed
    BY <1>1, <2>2
  <2> QED BY <1>1, <2>1, <2>3
<1>4. TransmitsOwned'
  <2>1. ASSUME NEW k \in DOMAIN actions', IsTransmit(k)'
        PROVE  \E i \in Slots : Matches(i, actions[k].seq)'
    <3>1. k \in DOMAIN actions /\ actions'[k] = actions[k]
      BY <1>1, <2>1
    <3> QED BY <1>3, <3>1 DEF Matches
  <2>2. ASSUME NEW k \in DOMAIN actions', NEW l \in DOMAIN actions', IsTransmit(k)',
               actions'[l] = actions'[k]
        PROVE  l = k
    <3>1. k \in DOMAIN actions /\ l \in DOMAIN actions
      BY <1>1, <2>2 DEF IsTransmit
    <3> QED BY <1>1, <2>2, <3>1 DEF QueueInv, TransmitsOwned
  <2> QED BY <2>1, <2>2 DEF TransmitsOwned
<1>5. PendingIsQueued'
  <2> SUFFICES ASSUME NEW i \in Slots, tx_st'[i] = "PendingTransmit"
               PROVE  \E k \in DOMAIN actions' : actions'[k] = Transmit(tx_seq'[i])
    BY DEF PendingIsQueued, Transmit
  <2>1. tx_st[i] = "PendingTransmit"
    BY <1>1
  <2>2. \E k \in DOMAIN actions : actions[k] = Transmit(tx_seq[i])
    BY <2>1 DEF QueueInv, PendingIsQueued
  <2> QED BY <1>1, <2>2
<1>6. SelectQueue' /\ WriteTakesSlot'
  BY DEF SelectQueue, WriteTakesSlot
<1>7. NoticesAreFew'
  <2> SUFFICES ASSUME NEW t \in DOMAIN actions', IsTransmit(t)',
                      NEW k \in DOMAIN actions', NEW l \in DOMAIN actions',
                      ~IsTransmit(k)', ~IsTransmit(l)'
               PROVE  l - k < TxWin
    BY DEF NoticesAreFew
  <2>1. PICK i \in Slots \ freed : TRUE
    BY <1>1, <1>3
  <2>2. Cardinality(Slots \ {i}) = TxWin - 1 /\ IsFiniteSet(Slots \ {i})
    BY SlotsAreFinite, FS_RemoveElement
  <2>3. freed \subseteq Slots \ {i}
    BY <1>1, <2>1
  <2>4. Cardinality(freed) <= TxWin - 1 /\ Cardinality(freed) \in Nat
    BY <2>2, <2>3, FS_Subset, FS_CardinalityType
  <2>5. k > Len(actions) /\ l <= Len(actions) + Len(new) /\ k \in Int /\ l \in Int
    BY <1>1, LenProperties DEF AckFrees
  <2>6. Len(new) <= Cardinality(freed) + 1 /\ Len(new) \in Nat
    BY DEF AckFrees
  <2>7. TxWin \in Nat
    BY TxAssumption
  <2> QED BY <1>1, <2>4, <2>5, <2>6, <2>7
<1> QED
  BY <1>2, <1>4, <1>5, <1>6, <1>7 DEF QueueInv

\* The select ends without an ACK for this sender.
LEMMA LeaveSelectQueue ==
    ASSUME QueueInv, tx_pc = "select", tx_pc' \in {"drain", "expire"},
           UNCHANGED <<tx_st, tx_seq, actions>>, QueueTypes'
    PROVE  QueueInv'
  BY DEF QueueInv, TransmitsOwned, IsTransmit, Matches, PendingIsQueued, SelectQueue, Live,
         NoticesAreFew, WriteTakesSlot

\* handle_timeouts collects numbers that were armed.
LEMMA TimeoutTypes == ASSUME QueueTypes, NEW due \in SUBSET Slots, Timeout(due) PROVE QueueTypes'
<1> DEFINE key == [i \in Slots |-> i]
           order == InOrder(due, key)
           n == Cardinality(due)
<1>1. key \in [Slots -> Int]
  BY DEF Slots
<1>2. DOMAIN order = 1 .. n /\ \A k \in 1 .. n : order[k] \in due
  <2> HIDE DEF key
  <2> QED BY <1>1, InOrderLists
<1>3. n \in Nat
  BY SlotsAreFinite
<1>4. expired' = [k \in DOMAIN order |-> timers[order[k]]] /\ \A e \in due : timers[e] # NoSeq
  BY DEF Timeout, SlotsInOrder
<1>5. \A k \in 1 .. n : timers[order[k]] \in SeqCounts
  BY <1>2, <1>4 DEF QueueTypes
<1> HIDE DEF order, n
<1>6. expired' \in [1 .. n -> SeqCounts]
  BY <1>2, <1>4, <1>5
<1>7. expired' \in Seq(SeqCounts)
  BY <1>3, <1>6
<1>8. timers' \in [Slots -> SeqCounts \cup {NoSeq}]
  BY DEF QueueTypes, Timeout
<1> QED
  BY <1>7, <1>8 DEF QueueTypes, Timeout, tx_machine

\* Initially the queue is empty.
LEMMA QueueInit == TxInit => QueueInv
<1> SUFFICES ASSUME TxInit PROVE QueueInv
  OBVIOUS
<1>1. 0 \in SeqCounts /\ MaxActions \in Nat
  BY SeqSpaceAssumption, TxAssumption DEF SeqCounts
<1>2. QueueTypes
  BY <1>1 DEF TxInit, QueueTypes, SlotState, NoPacket
<1>3. DOMAIN actions = {} /\ tx_pc = "drain" /\ \A i \in Slots : tx_st[i] = "Empty"
  BY DEF TxInit
<1> QED
  BY <1>2, <1>3 DEF QueueInv, TransmitsOwned, PendingIsQueued, SelectQueue, NoticesAreFew,
     WriteTakesSlot

\* Every step keeps the queue in order.
LEMMA QueueStep ==
    ASSUME RoomForActions, Attempts, DistinctSeqs, DistinctSeqs', QueueInv, [TxNext]_tx_vars
    PROVE  QueueInv'
<1>0. QueueTypes /\ SlotTypes /\ DOMAIN writes = Slots
  BY DEF QueueInv, QueueTypes, SlotTypes, Attempts
<1>1. CASE TxApp
  <2>1. CASE \E l \in MsgLens : Send(l)
    <3>1. PICK l \in MsgLens : Send(l)
      BY <2>1
    <3>2. PICK F, new, own : Fills(F, new, own)
      BY <1>0, <3>1, SendFills
    <3> QED BY <3>2, FillQueue
  <2>2. CASE SendEos
    <3>1. PICK F, new, own : Fills(F, new, own)
      BY <1>0, <2>2, SendEosFills
    <3> QED BY <3>1, FillQueue
  <2>3. CASE Drop \/ Bind
    BY <2>3, ResetQueue
  <2> QED BY <1>1, <2>1, <2>2, <2>3 DEF TxApp
<1>2. CASE StartWrite
  BY <1>2, StartWriteQueue
<1>3. CASE PopAction
  BY <1>3, PopActionQueue
<1>4. CASE AwaitEvent
  <2>1. /\ actions = <<>> /\ expired = <<>> /\ tx_pc = "drain" /\ tx_pc' = "select"
        /\ UNCHANGED <<tx_st, tx_seq, next_seq, actions, timers, expired, writing>>
    BY <1>4 DEF AwaitEvent, Draining, tx_machine
  <2>2. DOMAIN actions = {} /\ QueueTypes'
    BY <1>0, <2>1 DEF QueueTypes
  <2>3. \A i \in Slots : tx_st[i] # "PendingTransmit"
    BY <2>1, <2>2 DEF QueueInv, PendingIsQueued
  <2> QED BY <2>1, <2>2, <2>3 DEF QueueInv, TransmitsOwned, PendingIsQueued, SelectQueue,
             NoticesAreFew, WriteTakesSlot
<1>5. CASE HandleTimeout
  BY <1>5, HandleTimeoutQueue
<1>6. CASE FinishWrite
  BY <1>6, FinishWriteQueue
<1>7. CASE LinkFails
  <2>1. /\ tx_pc' = "failed" /\ writing' = NoPacket
        /\ UNCHANGED <<tx_st, tx_seq, next_seq, actions, timers, expired>>
    BY <1>7 DEF LinkFails, tx_machine
  <2>2. QueueTypes'
    BY <1>0, <2>1 DEF QueueTypes, NoPacket
  <2> QED BY <2>1, <2>2 DEF QueueInv, TransmitsOwned, IsTransmit, Matches, PendingIsQueued,
             SelectQueue, NoticesAreFew, WriteTakesSlot
<1>8. CASE TxTimer
  <2>1. PICK due \in SUBSET Slots : Timeout(due)
    BY <1>8 DEF TxTimer
  <2>2. QueueTypes'
    BY <1>0, <2>1, TimeoutTypes
  <2>3. /\ tx_pc = "select" /\ tx_pc' \in {"drain", "expire"}
        /\ UNCHANGED <<tx_st, tx_seq, actions>>
    BY <2>1 DEF Timeout, tx_machine
  <2> QED BY <2>2, <2>3, LeaveSelectQueue
<1>9. CASE \E cum \in SeqCounts, bits \in SUBSET (0 .. SackBits - 1) :
              (\A i \in Acked(cum, bits) : writes[i] > 0) /\ ReceiveAck(cum, bits)
  <2>1. PICK cum \in SeqCounts, bits \in SUBSET (0 .. SackBits - 1) :
           (\A i \in Acked(cum, bits) : writes[i] > 0) /\ ReceiveAck(cum, bits)
    BY <1>9
  <2>2. /\ tx_pc = "select" /\ tx_pc' = "drain"
        /\ UNCHANGED <<tx_seq, next_seq, timers, expired, writing>>
    BY <2>1 DEF ReceiveAck
  <2>3. CASE UNCHANGED <<tx_st, actions>>
    <3>1. QueueTypes'
      BY <1>0, <2>2, <2>3 DEF QueueTypes
    <3> QED BY <2>2, <2>3, <3>1, LeaveSelectQueue
  <2>4. CASE \E freed, new : AckFrees(freed, new)
    BY <2>2, <2>4, AckQueue
  <2> QED BY <1>0, <2>1, <2>3, <2>4, ReceiveAckFrees
<1>10. CASE TxStopped \/ UNCHANGED tx_vars
  BY <1>10, SMTT(40) DEF TxStopped, tx_vars, tx_machine, QueueInv, QueueTypes, TransmitsOwned, IsTransmit,
     Matches, PendingIsQueued, SelectQueue, Live, NoticesAreFew, WriteTakesSlot
<1> QED
  BY <1>1, <1>2, <1>3, <1>4, <1>5, <1>6, <1>7, <1>8, <1>9, <1>10 DEF TxNext, TxLoop

\* No queued packet is forgotten, for every window and every queue of 2 * WIN - 1 places, as long
\* as the packets in the window carry different numbers: SenderActions::push drops nothing that
\* a slot waits for, whatever sends, ACKs, timeouts and rebinds pile up between two drains.
THEOREM PendingStaysQueued ==
    ASSUME RoomForActions PROVE TxSpec /\ []DistinctSeqs => []PendingIsQueued
<1>1. DistinctSeqs /\ DistinctSeqs' /\ Attempts /\ QueueInv /\ [TxNext]_tx_vars => QueueInv'
  BY QueueStep
<1>2. QueueInv => PendingIsQueued
  BY DEF QueueInv
<1> QED
  BY <1>1, <1>2, QueueInit, AttemptsAreCounted, PTL DEF TxSpec

(* The numbers.                                                            *)

\* The numbers are not used up: no send queues more packets than there are slots.
NumbersLast == MaxSends * TxWin <= SeqSpace

\* n packets were queued since the slot was bound; they have the numbers below n
NumberedBelow(n) ==
    /\ n <= Len(sends) * TxWin /\ next_seq = n % SeqSpace
    /\ \A i \in Live : tx_seq[i] < n

NumbersInv ==
    /\ SlotTypes /\ DOMAIN writes = Slots
    /\ sends \in Seq([kind : {"Message", "Eos"}, len : Nat, ok : BOOLEAN]) /\ Len(sends) <= MaxSends
    /\ DistinctSeqs
    /\ \E n \in Nat : NumberedBelow(n)

\* A send uses the next numbers.
LEMMA FillNumbers ==
    ASSUME NumbersLast, NumbersInv, NEW F, NEW new, NEW own, Fills(F, new, own),
           NEW x \in [kind : {"Message", "Eos"}, len : Nat, ok : BOOLEAN],
           sends' = Append(sends, x), Len(sends) < MaxSends, DOMAIN writes' = Slots
    PROVE  NumbersInv'
<1> DEFINE m == Len(new)
           S == Len(sends)
<1>1. /\ SeqSpace \in Nat \ {0} /\ TxWin \in Nat /\ MaxSends \in Nat /\ S \in Nat /\ m \in Nat
      /\ S < MaxSends /\ MaxSends * TxWin <= SeqSpace
  BY SeqSpaceAssumption, TxAssumption DEF NumbersInv, Fills, NumbersLast
<1>2. sends' \in Seq([kind : {"Message", "Eos"}, len : Nat, ok : BOOLEAN]) /\ Len(sends') = S + 1
  BY DEF NumbersInv
<1>3. PICK n \in Nat : n <= S * TxWin /\ next_seq = n % SeqSpace /\ \A i \in Live : tx_seq[i] < n
  BY DEF NumbersInv, NumberedBelow
<1>4. m <= TxWin
  <2>1. own \in Injection(1 .. m, Slots)
    <3>1. own \in [1 .. m -> Slots] /\ \A k, l \in 1 .. m : own[k] = own[l] => k = l
      <4>1. F \subseteq Slots
        BY FillSlots
      <4>2. own \in [1 .. m -> F] /\ \A k, l \in 1 .. m : own[k] = own[l] => k = l
        BY DEF Fills
      <4> QED BY <4>1, <4>2
    <3> HIDE DEF m
    <3> QED BY <3>1 DEF Injection, IsInjective
  <2>2. Cardinality(1 .. m) <= Cardinality(Slots)
    BY <2>1, SlotsAreFinite, FS_Injection
  <2>3. Cardinality(1 .. m) = m
    <3>1. m \in Int /\ 1 \in Int /\ m - 1 + 1 = m /\ (1 > m => m = 0)
      BY <1>1
    <3> HIDE DEF m
    <3> QED BY <3>1, FS_Interval
  <2> QED BY <2>2, <2>3, SlotsAreFinite
<1>5. /\ \A i \in F : \E k \in 1 .. m : own[k] = i
      /\ \A k \in 1 .. m : tx_seq'[own[k]] = SeqAdd(next_seq, k - 1)
      /\ next_seq' = SeqAdd(next_seq, m)
      /\ \A i \in Slots \ F : tx_seq'[i] = tx_seq[i] /\ tx_st'[i] = tx_st[i]
      /\ tx_seq' \in [Slots -> SeqCounts] /\ tx_st' \in [Slots -> SlotState] /\ next_seq' \in SeqCounts
  BY DEF Fills
<1> HIDE DEF m, S
<1>6. n + m <= (S + 1) * TxWin /\ (S + 1) * TxWin <= SeqSpace
  <2>1. (S + 1) * TxWin = S * TxWin + TxWin
    BY <1>1
  <2>2. (S + 1) * TxWin <= MaxSends * TxWin
    <3>1. \A a, b, c \in Nat : a <= b => a * c <= b * c
      BY SMT
    <3> QED BY <1>1, <3>1
  <2>3. S * TxWin \in Nat /\ (S + 1) * TxWin \in Nat /\ MaxSends * TxWin \in Nat
    BY <1>1
  <2> QED BY <1>1, <1>3, <1>4, <2>1, <2>2, <2>3
<1>7. n + m <= SeqSpace
  BY <1>1, <1>3, <1>6
<1>8. ASSUME NEW k \in 1 .. m PROVE tx_seq'[own[k]] = n + k - 1
  <2>1. n < SeqSpace /\ n + k - 1 \in 0 .. (SeqSpace - 1) /\ k \in Int
    BY <1>1, <1>7
  <2>2. next_seq = n
    BY <1>1, <1>3, <2>1
  <2>3. (n + (k - 1)) % SeqSpace = n + (k - 1)
    <3>1. n + (k - 1) \in 0 .. (SeqSpace - 1)
      BY <1>1, <2>1
    <3> QED BY <1>1, <3>1, SMTT(40)
  <2>4. n + (k - 1) = n + k - 1
    BY <2>1
  <2> QED BY <1>5, <2>2, <2>3, <2>4 DEF SeqAdd
<1>9. next_seq' = (n + m) % SeqSpace
  <2>1. CASE m = 0
    <3>1. next_seq + 0 = next_seq /\ next_seq \in 0 .. (SeqSpace - 1) /\ n + 0 = n
      BY <1>1 DEF NumbersInv, SlotTypes, SeqCounts
    <3>2. next_seq % SeqSpace = next_seq
      BY <1>1, <3>1
    <3> QED BY <1>3, <1>5, <2>1, <3>1, <3>2 DEF SeqAdd
  <2>2. CASE m # 0
    <3>1. n < SeqSpace
      BY <1>1, <1>7, <2>2
    <3>2. next_seq = n
      BY <1>1, <1>3, <3>1
    <3> QED BY <1>5, <3>2 DEF SeqAdd
  <2> QED BY <2>1, <2>2
<1>10. ASSUME NEW i \in Live'
       PROVE  \/ i \in Live /\ tx_seq'[i] = tx_seq[i] /\ tx_seq[i] < n /\ tx_seq[i] \in Int
              \/ \E k \in 1 .. m : i = own[k] /\ tx_seq'[i] = n + k - 1
  <2>1. i \in Slots /\ tx_st'[i] # "Empty"
    BY DEF Live
  <2>2. CASE i \in F
    BY <1>5, <1>8, <2>2
  <2>3. CASE i \notin F
    <3>1. i \in Live /\ tx_seq'[i] = tx_seq[i]
      BY <1>5, <2>1, <2>3 DEF Live
    <3>2. tx_seq[i] \in Int
      BY <2>1 DEF NumbersInv, SlotTypes, SeqCounts
    <3> QED BY <1>3, <3>1, <3>2
  <2> QED BY <2>2, <2>3
<1>11. \A i \in Live' : tx_seq'[i] < n + m
  <2> SUFFICES ASSUME NEW i \in Live' PROVE tx_seq'[i] < n + m
    OBVIOUS
  <2> QED BY <1>1, <1>10
<1>12. DistinctSeqs'
  <2> SUFFICES ASSUME NEW i \in Live', NEW j \in Live', tx_seq'[i] = tx_seq'[j] PROVE i = j
    BY DEF DistinctSeqs
  <2>1. CASE i \in Live /\ j \in Live /\ tx_seq'[i] = tx_seq[i] /\ tx_seq'[j] = tx_seq[j]
    BY <2>1 DEF NumbersInv, DistinctSeqs
  <2>2. CASE \E k \in 1 .. m : i = own[k] /\ tx_seq'[i] = n + k - 1
    <3>1. PICK k \in 1 .. m : i = own[k] /\ tx_seq'[i] = n + k - 1
      BY <2>2
    <3>2. CASE \E l \in 1 .. m : j = own[l] /\ tx_seq'[j] = n + l - 1
      <4>1. PICK l \in 1 .. m : j = own[l] /\ tx_seq'[j] = n + l - 1
        BY <3>2
      <4>2. k = l
        BY <3>1, <4>1
      <4> QED BY <3>1, <4>1, <4>2
    <3>3. CASE tx_seq'[j] < n /\ tx_seq'[j] \in Int
      BY <3>1, <3>3
    <3> QED BY <1>10, <3>2, <3>3
  <2>3. CASE \E k \in 1 .. m : j = own[k] /\ tx_seq'[j] = n + k - 1
    <3>1. PICK k \in 1 .. m : j = own[k] /\ tx_seq'[j] = n + k - 1
      BY <2>3
    <3>2. CASE tx_seq'[i] < n /\ tx_seq'[i] \in Int
      BY <3>1, <3>2
    <3> QED BY <1>10, <2>2, <3>2
  <2> QED BY <1>10, <2>1, <2>2, <2>3
<1>13. Len(sends') <= MaxSends /\ n + m <= Len(sends') * TxWin /\ n + m \in Nat
  BY <1>1, <1>2, <1>6
<1>14. NumberedBelow(n + m)'
  BY <1>9, <1>11, <1>13 DEF NumberedBelow
<1> QED
  BY <1>2, <1>5, <1>12, <1>13, <1>14 DEF NumbersInv, SlotTypes

\* Every step keeps the numbers in the window apart.
LEMMA NumbersStep ==
    ASSUME NumbersLast, NumbersInv, [TxNext]_tx_vars PROVE NumbersInv'
<1> DEFINE Sent == [kind : {"Message", "Eos"}, len : Nat, ok : BOOLEAN]
<1>0. SlotTypes /\ DOMAIN writes = Slots
  BY DEF NumbersInv
<1>1. ASSUME UNCHANGED <<tx_seq, next_seq, sends>>, DOMAIN writes' = Slots,
             tx_st' \in [Slots -> SlotState],
             \A i \in Slots : tx_st[i] = "Empty" => tx_st'[i] = "Empty"
      PROVE  NumbersInv'
  <2>1. Live' \subseteq Live
    BY <1>1 DEF Live
  <2>2. PICK n \in Nat : NumberedBelow(n)
    BY DEF NumbersInv
  <2>3. NumberedBelow(n)'
    BY <1>1, <2>1, <2>2 DEF NumberedBelow
  <2>4. DistinctSeqs'
    BY <1>1, <2>1 DEF NumbersInv, DistinctSeqs
  <2> QED BY <1>1, <2>3, <2>4 DEF NumbersInv, SlotTypes
<1>2. CASE \E l \in MsgLens : Send(l)
  <2>1. PICK l \in MsgLens : Send(l)
    BY <1>2
  <2>2. PICK F, new, own : Fills(F, new, own)
    BY <1>0, <2>1, SendFills
  <2>3. PICK b : sends' = Append(sends, [kind |-> "Message", len |-> l, ok |-> b]) /\ b \in BOOLEAN
    BY <2>1 DEF Send, SendRequest
  <2>4. [kind |-> "Message", len |-> l, ok |-> b] \in Sent
    BY <2>3, TxAssumption
  <2>5. Len(sends) < MaxSends /\ DOMAIN writes' = Slots
    BY <2>1 DEF Send, SendRequest
  <2> QED BY <2>2, <2>3, <2>4, <2>5, FillNumbers
<1>3. CASE SendEos
  <2>1. PICK F, new, own : Fills(F, new, own)
    BY <1>0, <1>3, SendEosFills
  <2>2. sends' = Append(sends, [kind |-> "Eos", len |-> 0, ok |-> TRUE])
    BY <1>3 DEF SendEos
  <2>3. [kind |-> "Eos", len |-> 0, ok |-> TRUE] \in Sent
    OBVIOUS
  <2>4. Len(sends) < MaxSends /\ DOMAIN writes' = Slots
    BY <1>0, <1>3 DEF SendEos
  <2> QED BY <2>1, <2>2, <2>3, <2>4, FillNumbers
<1>4. CASE Drop \/ Bind
  <2>1. /\ tx_st' = [i \in Slots |-> "Empty"] /\ tx_seq' = [i \in Slots |-> 0]
        /\ next_seq' = 0 /\ sends' = sends /\ DOMAIN writes' = Slots
    BY <1>4 DEF Drop, Bind, ResetSlot
  <2>2. Live' = {}
    BY <2>1 DEF Live
  <2>3. /\ 0 \in SeqCounts /\ 0 % SeqSpace = 0 /\ TxWin \in Nat /\ Len(sends) \in Nat
        /\ 0 <= Len(sends) * TxWin
    BY SeqSpaceAssumption, TxAssumption DEF SeqCounts, NumbersInv
  <2>4. NumberedBelow(0)'
    BY <2>1, <2>2, <2>3 DEF NumberedBelow
  <2>5. SlotTypes'
    BY <2>1, <2>3 DEF SlotTypes, SlotState
  <2> QED BY <2>1, <2>2, <2>4, <2>5 DEF NumbersInv, DistinctSeqs
<1>5. CASE FinishWrite
  <2> DEFINE pending == {i \in Slots : tx_st[i] = "PendingTransmit" /\ tx_seq[i] = writing.seq}
             first == Min(pending)
  <2>1. /\ tx_st' = [i \in Slots |-> IF pending # {} /\ i = first THEN "AwaitingAck" ELSE tx_st[i]]
        /\ UNCHANGED <<tx_seq, next_seq, sends>> /\ DOMAIN writes' = Slots
    BY <1>5 DEF FinishWrite
  <2>2. pending # {} => tx_st[first] = "PendingTransmit"
    BY MinOfSlots
  <2> HIDE DEF pending, first
  <2>3. /\ tx_st' \in [Slots -> SlotState]
        /\ \A i \in Slots : tx_st[i] = "Empty" => tx_st'[i] = "Empty"
    BY <1>0, <2>1, <2>2 DEF SlotTypes, SlotState
  <2> QED BY <1>1, <2>1, <2>3
<1>6. CASE HandleTimeout
  <2> DEFINE i == Min(Awaiting(Head(expired)))
  <2>1. UNCHANGED <<tx_seq, next_seq, sends, writes>>
    BY <1>6 DEF HandleTimeout
  <2>2. \/ tx_st' = tx_st
        \/ tx_st' = [tx_st EXCEPT ![i] = "Empty"]
        \/ Awaiting(Head(expired)) # {} /\ tx_st' = [tx_st EXCEPT ![i] = "PendingTransmit"]
    BY <1>6 DEF HandleTimeout
  <2>3. Awaiting(Head(expired)) # {} => tx_st[i] = "AwaitingAck"
    BY MinOfSlots DEF Awaiting
  <2> HIDE DEF i
  <2>4. /\ tx_st' \in [Slots -> SlotState]
        /\ \A j \in Slots : tx_st[j] = "Empty" => tx_st'[j] = "Empty"
    BY <1>0, <2>2, <2>3 DEF SlotTypes, SlotState
  <2> QED BY <1>0, <1>1, <2>1, <2>4
<1>7. ASSUME NEW cum, NEW bits, ReceiveAck(cum, bits) PROVE NumbersInv'
  <2>1. /\ \/ tx_st' = tx_st
           \/ tx_st' = [i \in Slots |-> IF i \in Acked(cum, bits) THEN "Empty" ELSE tx_st[i]]
        /\ UNCHANGED <<tx_seq, next_seq, sends, writes>>
    BY <1>7 DEF ReceiveAck
  <2>2. /\ tx_st' \in [Slots -> SlotState]
        /\ \A j \in Slots : tx_st[j] = "Empty" => tx_st'[j] = "Empty"
    BY <1>0, <2>1 DEF SlotTypes, SlotState
  <2> QED BY <1>0, <1>1, <2>1, <2>2
<1>8. ASSUME UNCHANGED <<tx_machine, sends, writes>> PROVE NumbersInv'
  BY <1>0, <1>1, <1>8 DEF tx_machine, SlotTypes
<1> QED
  BY <1>2, <1>3, <1>4, <1>5, <1>6, <1>7, <1>8 DEF TxNext, TxApp, TxLoop, StartWrite, PopAction,
     AwaitEvent, LinkFails, TxTimer, Timeout, TxStopped, tx_vars

\* Initially the window is empty.
LEMMA NumbersInit == TxInit => NumbersInv
<1> SUFFICES ASSUME TxInit PROVE NumbersInv
  OBVIOUS
<1>1. /\ 0 \in SeqCounts /\ 0 % SeqSpace = 0 /\ TxWin \in Nat /\ MaxSends \in Nat
      /\ 0 * TxWin = 0
  BY SeqSpaceAssumption, TxAssumption DEF SeqCounts
<1>2. sends = <<>> /\ Len(sends) = 0 /\ next_seq = 0 /\ Live = {} /\ DOMAIN writes = Slots
  BY DEF TxInit, Live
<1>3. NumberedBelow(0)
  BY <1>1, <1>2 DEF NumberedBelow
<1>4. SlotTypes
  BY <1>1 DEF TxInit, SlotTypes, SlotState
<1> QED
  BY <1>1, <1>2, <1>3, <1>4 DEF NumbersInv, DistinctSeqs

\* The packets in the window carry different numbers, in every run that queues no more packets
\* than there are numbers.
THEOREM NumbersStayApart == ASSUME NumbersLast PROVE TxSpec => []DistinctSeqs
<1>1. NumbersInv => DistinctSeqs
  BY DEF NumbersInv
<1>2. NumbersInv /\ [TxNext]_tx_vars => NumbersInv'
  BY NumbersStep
<1> QED
  BY <1>1, <1>2, NumbersInit, PTL DEF TxSpec

(* The timers.                                                             *)

\* the run goes on, and no sender was dropped while its packet was in link.write
Going == tx_pc # "failed" /\ ~overtaken

\* a Transmit of s stands behind the place k of the queue
After(k, s) == \E l \in DOMAIN actions : l > k /\ actions[l] = Transmit(s)

\* a StopTimer reaches no packet under way: a live slot that has its number again is a new
\* packet, and is transmitted behind it
StopsAreStale ==
    \A k \in DOMAIN actions : actions[k].type = "StopTimer" =>
        \A i \in Slots : Matches(i, actions[k].seq) =>
            tx_st[i] = "PendingTransmit" /\ After(k, tx_seq[i])

\* link.write has the packet of a pending slot, which is queued no second time
WriteIsPending ==
    tx_pc = "write" =>
        /\ \E i \in Slots : tx_st[i] = "PendingTransmit" /\ tx_seq[i] = writing.seq
        /\ \A k \in DOMAIN actions : actions[k] # Transmit(writing.seq)

\* an expired number is that of a slot that awaits its ACK without a timer, and is listed once
ExpiredAwaits ==
    \A k \in DOMAIN expired :
        /\ \E i \in Slots : tx_st[i] = "AwaitingAck" /\ tx_seq[i] = expired[k]
        /\ \A e \in Slots : timers[e] # expired[k]
        /\ \A l \in DOMAIN expired : expired[l] = expired[k] => l = k

\* a Transmit is for a slot that waits to be written
TransmitsPending ==
    \A k \in DOMAIN actions : IsTransmit(k) =>
        \A i \in Slots : Matches(i, actions[k].seq) => tx_st[i] = "PendingTransmit"

\* the armed entry e is charged to the slot i: it times the slot, or it is about to be stopped
\* before the slot is written again
Charged(e, i) ==
    \/ tx_st[i] = "AwaitingAck" /\ tx_seq[i] = timers[e]
    \/ \E k \in DOMAIN actions :
          /\ actions[k] = StopTimer(timers[e])
          /\ tx_st[i] = "Empty" \/ (tx_st[i] = "PendingTransmit" /\ After(k, tx_seq[i]))

\* the armed entries are charged to different slots
TimersOwned(phi) ==
    /\ \A e \in Slots : timers[e] # NoSeq => Charged(e, phi[e])
    /\ \A e, f \in Slots :
          timers[e] # NoSeq /\ timers[f] # NoSeq /\ phi[e] = phi[f] => e = f

TimersInOrder ==
    /\ StopsAreStale /\ AwaitingIsTimed /\ WriteIsPending /\ ExpiredAwaits /\ TransmitsPending
    /\ \E phi \in [Slots -> Slots] : TimersOwned(phi)

TimerInv == (Going => TimersInOrder) /\ (~bound => Live = {})

\* The fields of a StopTimer.
LEMMA StopTimerFields == \A s : StopTimer(s).type = "StopTimer" /\ StopTimer(s).seq = s
  BY DEF StopTimer

\* An action of its type and number is that Transmit.
LEMMA TransmitOf ==
    ASSUME QueueTypes, NEW k \in DOMAIN actions, IsTransmit(k)
    PROVE  actions[k] = Transmit(actions[k].seq)
<1>1. actions[k] \in SenderAction
  BY ElementOfSeq DEF QueueTypes
<1> QED
  BY <1>1 DEF SenderAction, Transmit, IsTransmit

\* Initially nothing is armed.
LEMMA TimersInit == TxInit => TimerInv
<1> SUFFICES ASSUME TxInit PROVE TimerInv
  OBVIOUS
<1>1. /\ DOMAIN actions = {} /\ DOMAIN expired = {} /\ tx_pc = "drain"
      /\ \A i \in Slots : tx_st[i] = "Empty" /\ timers[i] = NoSeq
  BY DEF TxInit
<1>2. [i \in Slots |-> i] \in [Slots -> Slots]
  OBVIOUS
<1>3. \A phi : TimersOwned(phi)
  BY <1>1 DEF TimersOwned
<1> QED
  BY <1>1, <1>2, <1>3 DEF TimerInv, TimersInOrder, StopsAreStale, AwaitingIsTimed, WriteIsPending,
     ExpiredAwaits, TransmitsPending, Live

\* So it is again when the sender is dropped, or bound anew, while the loop awaits an event.
LEMMA ResetTimers ==
    ASSUME QueueInv, tx_pc = "select", ResetSlot, UNCHANGED <<tx_pc, expired>>
    PROVE  TimersInOrder'
<1>1. /\ DOMAIN actions' = {} /\ DOMAIN expired' = {} /\ tx_pc' = "select"
      /\ \A i \in Slots : tx_st'[i] = "Empty" /\ timers'[i] = NoSeq
  BY DEF ResetSlot, QueueInv, SelectQueue
<1>2. [i \in Slots |-> i] \in [Slots -> Slots]
  OBVIOUS
<1>3. \A phi : TimersOwned(phi)'
  BY <1>1 DEF TimersOwned
<1>4. StopsAreStale' /\ AwaitingIsTimed' /\ WriteIsPending' /\ ExpiredAwaits' /\ TransmitsPending'
  BY <1>1 DEF StopsAreStale, AwaitingIsTimed, WriteIsPending, ExpiredAwaits, TransmitsPending
<1> QED
  BY <1>2, <1>3, <1>4 DEF TimersInOrder

\* Filling slots leaves the timers to their packets.
LEMMA FillTimers ==
    ASSUME RoomForActions, QueueInv, DistinctSeqs', TimersInOrder,
           NEW F, NEW new, NEW own, Fills(F, new, own)
    PROVE  TimersInOrder'
<1> DEFINE u == actions \o new
<1>1. /\ Len(actions) \in Nat /\ u \in Seq(SenderAction) /\ Len(u) = Len(actions) + Len(new)
      /\ Len(new) \in Nat
      /\ DOMAIN u = 1 .. Len(u) /\ DOMAIN actions = 1 .. Len(actions)
      /\ \A k \in DOMAIN actions : k \in DOMAIN u /\ u[k] = actions[k]
      /\ \A k \in DOMAIN u \ DOMAIN actions :
            \E i \in F : /\ u[k] = Transmit(tx_seq'[i])
                         /\ i = own[k - Len(actions)]
                         /\ k - Len(actions) \in 1 .. Len(new)
  <2>1. Len(actions) \in Nat /\ Len(new) \in Nat
    BY DEF QueueInv, QueueTypes, Fills
  <2> QED BY <2>1, FillExtends
<1>2. actions' = u
  BY FillFits
<1>3. /\ F \subseteq Slots
      /\ \A i \in F : tx_st[i] = "Empty"
      /\ \A i \in Slots : tx_st[i] # "Empty" =>
            i \notin F /\ tx_st'[i] = tx_st[i] /\ tx_seq'[i] = tx_seq[i]
  BY FillSlots
<1>4. /\ own \in [1 .. Len(new) -> F]
      /\ \A i \in F : \E k \in 1 .. Len(new) : own[k] = i
      /\ \A i \in Slots \ F : tx_seq'[i] = tx_seq[i] /\ tx_st'[i] = tx_st[i]
      /\ \A i \in F : tx_st'[i] = "PendingTransmit"
      /\ UNCHANGED <<timers, tx_pc, expired, writing, overtaken>>
      /\ \A k \in 1 .. Len(new) : new[k] = Transmit(tx_seq'[own[k]])
  BY DEF Fills
<1>5. ASSUME NEW i \in F, NEW k \in DOMAIN actions PROVE After(k, tx_seq[i])'
  <2>1. PICK j \in 1 .. Len(new) : own[j] = i
    BY <1>4
  <2>2. Len(actions) + j \in DOMAIN u /\ u[Len(actions) + j] = new[j] /\ Len(actions) + j > k
    <3>1. actions \in Seq(SenderAction) /\ new \in Seq(SenderAction)
      BY DEF QueueInv, QueueTypes, Fills
    <3>2. \A m \in 1 .. Len(new) : u[Len(actions) + m] = new[m]
      BY <3>1
    <3> HIDE DEF u
    <3> QED BY <1>1, <3>2
  <2>3. u[Len(actions) + j] = Transmit(tx_seq'[i])
    BY <1>4, <2>1, <2>2
  <2> HIDE DEF u
  <2> QED BY <1>2, <2>2, <2>3 DEF After, Transmit
<1> HIDE DEF u
<1>6. ASSUME NEW k, NEW s, After(k, s) PROVE After(k, s)'
  BY <1>1, <1>2, <1>6 DEF After, Transmit
<1>7. \A k \in DOMAIN u : u[k].type = "StopTimer" => k \in DOMAIN actions /\ u[k] = actions[k]
  BY <1>1, TransmitFields
<1>8. \A i \in Slots : i \notin F /\ tx_st'[i] # "Empty" =>
         tx_st[i] # "Empty" /\ tx_st'[i] = tx_st[i] /\ tx_seq'[i] = tx_seq[i]
  BY <1>4
<1>9. StopsAreStale'
  <2> SUFFICES ASSUME NEW k \in DOMAIN u, u[k].type = "StopTimer", NEW i \in Slots,
                      tx_st'[i] # "Empty", tx_seq'[i] = u[k].seq
               PROVE  tx_st'[i] = "PendingTransmit" /\ After(k, tx_seq[i])'
    BY <1>2 DEF StopsAreStale, Matches
  <2>1. k \in DOMAIN actions /\ u[k] = actions[k]
    BY <1>7
  <2>2. CASE i \in F
    BY <1>4, <1>5, <2>1, <2>2
  <2>3. CASE i \notin F
    <3>1. tx_st[i] # "Empty" /\ tx_st'[i] = tx_st[i] /\ tx_seq'[i] = tx_seq[i]
      BY <1>8, <2>3
    <3>2. tx_st[i] = "PendingTransmit" /\ After(k, tx_seq[i])
      BY <2>1, <3>1 DEF TimersInOrder, StopsAreStale, Matches
    <3>3. PICK s : s = tx_seq[i]
      OBVIOUS
    <3>4. After(k, s)'
      BY <1>6, <3>2, <3>3
    <3> QED BY <3>1, <3>2, <3>3, <3>4 DEF After, Transmit
  <2> QED BY <2>2, <2>3
<1>10. AwaitingIsTimed'
  <2> SUFFICES ASSUME Going', NEW i \in Slots, tx_st'[i] = "AwaitingAck"
               PROVE  \/ \E e \in Slots : timers[e] = tx_seq'[i]
                      \/ \E k \in DOMAIN expired : expired[k] = tx_seq'[i]
    BY <1>4 DEF AwaitingIsTimed, Going
  <2>1. i \notin F
    BY <1>4
  <2>2. tx_st[i] = "AwaitingAck" /\ tx_seq'[i] = tx_seq[i]
    BY <1>8, <2>1
  <2>3. Going
    BY <1>4 DEF Going
  <2> QED BY <2>2, <2>3 DEF TimersInOrder, AwaitingIsTimed, Going
<1>11. WriteIsPending'
  <2> SUFFICES ASSUME tx_pc = "write"
               PROVE  /\ \E i \in Slots : tx_st'[i] = "PendingTransmit" /\ tx_seq'[i] = writing.seq
                      /\ \A k \in DOMAIN u : u[k] # Transmit(writing.seq)
    BY <1>2, <1>4 DEF WriteIsPending, Transmit
  <2>1. PICK w \in Slots : tx_st[w] = "PendingTransmit" /\ tx_seq[w] = writing.seq
    BY DEF TimersInOrder, WriteIsPending
  <2>2. w \notin F /\ tx_st'[w] = "PendingTransmit" /\ tx_seq'[w] = writing.seq
    BY <1>3, <2>1
  <2>3. ASSUME NEW k \in DOMAIN u, u[k] = Transmit(writing.seq) PROVE FALSE
    <3>1. k \notin DOMAIN actions
      BY <1>1, <2>3 DEF TimersInOrder, WriteIsPending
    <3>2. PICK j \in F : u[k] = Transmit(tx_seq'[j])
      BY <1>1, <3>1
    <3>3. tx_seq'[j] = tx_seq'[w]
      BY <2>2, <2>3, <3>2, TransmitFields
    <3>4. j = w
      BY <1>3, <1>4, <2>2, <3>3 DEF DistinctSeqs, Live
    <3> QED BY <2>2, <3>4
  <2> QED BY <2>2, <2>3
<1>12. ExpiredAwaits'
  <2> SUFFICES ASSUME NEW k \in DOMAIN expired
               PROVE  \E i \in Slots : tx_st'[i] = "AwaitingAck" /\ tx_seq'[i] = expired[k]
    BY <1>4 DEF TimersInOrder, ExpiredAwaits
  <2>1. PICK i \in Slots : tx_st[i] = "AwaitingAck" /\ tx_seq[i] = expired[k]
    BY DEF TimersInOrder, ExpiredAwaits
  <2> QED BY <1>3, <2>1
<1>13. TransmitsPending'
  <2> SUFFICES ASSUME NEW k \in DOMAIN u, u[k].type = "Transmit", NEW i \in Slots,
                      tx_st'[i] # "Empty", tx_seq'[i] = u[k].seq, i \notin F
               PROVE  tx_st'[i] = "PendingTransmit"
    BY <1>2, <1>4 DEF TransmitsPending, IsTransmit, Matches
  <2>1. tx_st[i] # "Empty" /\ tx_st'[i] = tx_st[i] /\ tx_seq'[i] = tx_seq[i]
    BY <1>8
  <2>2. CASE k \in DOMAIN actions
    BY <1>1, <2>1, <2>2 DEF TimersInOrder, TransmitsPending, IsTransmit, Matches
  <2>3. CASE k \notin DOMAIN actions
    <3>1. PICK j \in F : u[k] = Transmit(tx_seq'[j])
      BY <1>1, <2>3
    <3>2. tx_seq'[j] = tx_seq'[i]
      BY <3>1, TransmitFields
    <3>3. i = j
      BY <1>3, <1>4, <3>2 DEF DistinctSeqs, Live
    <3> QED BY <3>3
  <2> QED BY <2>2, <2>3
<1>14. ASSUME NEW phi \in [Slots -> Slots], TimersOwned(phi) PROVE TimersOwned(phi)'
  <2> SUFFICES ASSUME NEW e \in Slots, timers[e] # NoSeq PROVE Charged(e, phi[e])'
    BY <1>4, <1>14 DEF TimersOwned
  <2>1. PICK i \in Slots : i = phi[e]
    OBVIOUS
  <2>2. Charged(e, i)
    BY <1>14, <2>1 DEF TimersOwned
  <2>3. CASE tx_st[i] = "AwaitingAck" /\ tx_seq[i] = timers[e]
    <3>1. tx_st'[i] = "AwaitingAck" /\ tx_seq'[i] = timers'[e]
      BY <1>3, <1>4, <2>3
    <3> QED BY <2>1, <3>1 DEF Charged
  <2>4. ASSUME NEW k \in DOMAIN actions, actions[k] = StopTimer(timers[e]), tx_st[i] = "Empty"
        PROVE  Charged(e, i)'
    <3>1. k \in DOMAIN actions' /\ actions'[k] = StopTimer(timers[e])
      BY <1>1, <1>2, <2>4
    <3>2. CASE i \in F
      <4>1. tx_st'[i] = "PendingTransmit" /\ After(k, tx_seq[i])'
        BY <1>4, <1>5, <3>2
      <4> QED BY <1>4, <3>1, <4>1 DEF Charged, StopTimer
    <3>3. CASE i \notin F
      <4>1. tx_st'[i] = "Empty"
        BY <1>4, <2>4, <3>3
      <4> QED BY <1>4, <3>1, <4>1 DEF Charged, StopTimer
    <3> QED BY <3>2, <3>3
  <2>5. ASSUME NEW k \in DOMAIN actions, actions[k] = StopTimer(timers[e]),
               tx_st[i] = "PendingTransmit", After(k, tx_seq[i])
        PROVE  Charged(e, i)'
    <3>1. k \in DOMAIN actions' /\ actions'[k] = StopTimer(timers[e])
      BY <1>1, <1>2, <2>5
    <3>2. tx_st'[i] = "PendingTransmit" /\ tx_seq'[i] = tx_seq[i]
      BY <1>3, <2>5
    <3>3. PICK s : s = tx_seq[i]
      OBVIOUS
    <3>4. After(k, s)'
      BY <1>6, <2>5, <3>3
    <3>5. After(k, tx_seq[i])'
      BY <3>2, <3>3, <3>4 DEF After, Transmit
    <3> QED BY <1>4, <3>1, <3>2, <3>5 DEF Charged, StopTimer
  <2> QED BY <2>1, <2>2, <2>3, <2>4, <2>5 DEF Charged
<1> QED
  BY <1>9, <1>10, <1>11, <1>12, <1>13, <1>14 DEF TimersInOrder

\* What stands behind a place stands behind it still when the head is taken.
LEMMA AfterShifts ==
    ASSUME QueueTypes, actions # <<>>, actions' = Tail(actions),
           NEW k \in DOMAIN actions, k # 1, NEW s, After(k, s)
    PROVE  k - 1 \in DOMAIN actions' /\ actions'[k - 1] = actions[k] /\ After(k - 1, s)'
<1>1. /\ Len(actions) \in Nat /\ DOMAIN actions = 1 .. Len(actions)
      /\ DOMAIN actions' = 1 .. (Len(actions) - 1)
      /\ \A l \in DOMAIN actions : l # 1 => l - 1 \in DOMAIN actions' /\ actions'[l - 1] = actions[l]
  BY PopTakesHead
<1>2. PICK l \in DOMAIN actions : l > k /\ actions[l] = Transmit(s)
  BY DEF After
<1>3. l # 1 /\ l - 1 > k - 1
  BY <1>1, <1>2
<1>4. l - 1 \in DOMAIN actions' /\ actions'[l - 1] = Transmit(s)
  BY <1>1, <1>2, <1>3
<1>5. After(k - 1, s)'
  BY <1>3, <1>4 DEF After, Transmit
<1> QED
  BY <1>1, <1>5

\* Taking the head, with the timers that it stops, leaves the timers to their packets.
LEMMA PopTimers ==
    ASSUME QueueInv, TimersInOrder, actions # <<>>, actions' = Tail(actions),
           UNCHANGED <<tx_st, tx_seq, expired, overtaken>>, tx_pc # "failed", WriteIsPending',
           \/ actions[1].type # "StopTimer" /\ timers' = timers
           \/ actions[1].type = "StopTimer" /\ timers' = StopTimers(actions[1].seq)
    PROVE  TimersInOrder'
<1>1. QueueTypes
  BY DEF QueueInv
<1>2. /\ Len(actions) \in Nat /\ Len(actions) >= 1 /\ DOMAIN actions = 1 .. Len(actions)
      /\ DOMAIN actions' = 1 .. (Len(actions) - 1)
      /\ \A k \in DOMAIN actions' : k + 1 \in DOMAIN actions /\ actions'[k] = actions[k + 1]
      /\ 1 \in DOMAIN actions
      /\ \A k \in DOMAIN actions : k # 1 => k - 1 \in DOMAIN actions' /\ actions'[k - 1] = actions[k]
  BY <1>1, PopTakesHead
<1>3. \A k \in DOMAIN actions' : k + 1 # 1 /\ (k + 1) - 1 = k
  BY <1>2
<1>4. \A e \in Slots : timers'[e] # NoSeq =>
         /\ timers'[e] = timers[e]
         /\ actions[1].type = "StopTimer" => timers[e] # actions[1].seq
  BY DEF StopTimers
<1>5. \A e \in Slots : timers'[e] = timers[e] \/ timers'[e] = NoSeq
  BY DEF StopTimers
<1>6. StopsAreStale'
  <2> SUFFICES ASSUME NEW k \in DOMAIN actions', actions'[k].type = "StopTimer", NEW i \in Slots,
                      tx_st[i] # "Empty", tx_seq[i] = actions'[k].seq
               PROVE  tx_st[i] = "PendingTransmit" /\ After(k, tx_seq[i])'
    BY DEF StopsAreStale, Matches
  <2>1. k + 1 \in DOMAIN actions /\ actions'[k] = actions[k + 1]
    BY <1>2
  <2>2. tx_st[i] = "PendingTransmit" /\ After(k + 1, tx_seq[i])
    BY <2>1 DEF TimersInOrder, StopsAreStale, Matches
  <2>3. PICK s : s = tx_seq[i]
    OBVIOUS
  <2>4. PICK n : n = k + 1
    OBVIOUS
  <2>5. After(n - 1, s)'
    BY <1>1, <1>3, <2>1, <2>2, <2>3, <2>4, AfterShifts
  <2> QED BY <1>3, <2>2, <2>3, <2>4, <2>5 DEF After, Transmit
<1>7. AwaitingIsTimed'
  <2> SUFFICES ASSUME Going, NEW i \in Slots, tx_st[i] = "AwaitingAck"
               PROVE  \/ \E e \in Slots : timers'[e] = tx_seq[i]
                      \/ \E k \in DOMAIN expired : expired[k] = tx_seq[i]
    BY DEF AwaitingIsTimed, Going
  <2>1. ASSUME NEW e \in Slots, timers[e] = tx_seq[i] PROVE timers'[e] = tx_seq[i]
    <3>1. actions[1].type = "StopTimer" => tx_seq[i] # actions[1].seq
      BY <1>2 DEF TimersInOrder, StopsAreStale, Matches
    <3> QED BY <2>1, <3>1 DEF StopTimers
  <2> QED BY <2>1 DEF TimersInOrder, AwaitingIsTimed, Going
<1>8. ExpiredAwaits'
  <2>1. \A k \in DOMAIN expired : expired[k] # NoSeq
    BY <1>1, SeqSpaceAssumption DEF QueueTypes, SeqCounts, NoSeq
  <2> QED BY <1>5, <2>1 DEF TimersInOrder, ExpiredAwaits
<1>9. TransmitsPending'
  BY <1>2 DEF TimersInOrder, TransmitsPending, IsTransmit, Matches
<1>10. ASSUME NEW phi \in [Slots -> Slots], TimersOwned(phi) PROVE TimersOwned(phi)'
  <2> SUFFICES ASSUME NEW e \in Slots, timers'[e] # NoSeq PROVE Charged(e, phi[e])'
    BY <1>4, <1>10 DEF TimersOwned
  <2>1. PICK i \in Slots : i = phi[e]
    OBVIOUS
  <2>2. Charged(e, i) /\ timers'[e] = timers[e]
    BY <1>4, <1>10, <2>1 DEF TimersOwned
  <2>3. CASE tx_st[i] = "AwaitingAck" /\ tx_seq[i] = timers[e]
    BY <2>1, <2>2, <2>3 DEF Charged
  <2>4. ASSUME NEW k \in DOMAIN actions, actions[k] = StopTimer(timers[e]),
               tx_st[i] = "Empty" \/ (tx_st[i] = "PendingTransmit" /\ After(k, tx_seq[i]))
        PROVE  Charged(e, i)'
    <3>1. k # 1
      <4>1. CASE k = 1
        BY <1>4, <2>4, <4>1, StopTimerFields
      <4> QED BY <4>1
    <3>2. PICK n : n = k - 1
      OBVIOUS
    <3>3. n \in DOMAIN actions' /\ actions'[n] = StopTimer(timers[e])
      BY <1>2, <2>4, <3>1, <3>2
    <3>4. PICK s : s = tx_seq[i]
      OBVIOUS
    <3>5. ASSUME After(k, tx_seq[i]) PROVE After(n, tx_seq[i])'
      <4>1. After(k - 1, s)'
        BY <1>1, <3>1, <3>4, <3>5, AfterShifts
      <4> QED BY <3>2, <3>4, <4>1 DEF After, Transmit
    <3>6. tx_st'[i] = "Empty" \/ (tx_st'[i] = "PendingTransmit" /\ After(n, tx_seq[i])')
      BY <2>4, <3>5
    <3>7. actions'[n] = StopTimer(timers'[e])
      BY <2>2, <3>3
    <3> QED BY <3>3, <3>6, <3>7 DEF Charged, StopTimer
  <2> QED BY <2>1, <2>2, <2>3, <2>4 DEF Charged
<1> QED
  BY <1>6, <1>7, <1>8, <1>9, <1>10 DEF TimersInOrder

\* transmit() takes a Transmit, of a pending slot, or another action.
LEMMA DrainTimers ==
    ASSUME QueueInv, TimersInOrder, StartWrite \/ PopAction
    PROVE  TimersInOrder'
<1>1. /\ actions # <<>> /\ actions' = Tail(actions) /\ tx_pc = "drain"
      /\ UNCHANGED <<tx_st, tx_seq, expired, overtaken>>
  BY DEF StartWrite, PopAction, Draining, tx_machine
<1>2. Head(actions) = actions[1] /\ 1 \in DOMAIN actions
  BY <1>1, PopTakesHead DEF QueueInv
<1>3. CASE StartWrite
  <2>1. /\ writing'.seq = actions[1].seq /\ IsTransmit(1)
        /\ \A k \in DOMAIN actions' : actions'[k] # Transmit(writing'.seq)
    BY <1>3, StartWriteQueue
  <2>2. PICK i \in Slots : Matches(i, actions[1].seq)
    BY <1>2, <1>3 DEF StartWrite
  <2>3. tx_st[i] = "PendingTransmit"
    BY <1>2, <2>1, <2>2 DEF TimersInOrder, TransmitsPending
  <2>4. WriteIsPending'
    BY <1>1, <2>1, <2>2, <2>3 DEF WriteIsPending, Matches, Transmit
  <2>5. timers' = timers /\ actions[1].type # "StopTimer"
    BY <1>3, <2>1 DEF StartWrite, IsTransmit
  <2> QED BY <1>1, <2>4, <2>5, PopTimers
<1>4. CASE PopAction
  <2>1. WriteIsPending'
    BY <1>1, <1>4 DEF PopAction, WriteIsPending
  <2>2. timers' = IF actions[1].type = "StopTimer" THEN StopTimers(actions[1].seq) ELSE timers
    BY <1>2, <1>4 DEF PopAction
  <2> QED BY <1>1, <2>1, <2>2, PopTimers
<1> QED
  BY <1>3, <1>4

\* While a packet is in link.write, an entry of the TimerSet is free for it: the armed ones are
\* charged to other slots.
LEMMA IdleTimer ==
    ASSUME QueueInv, TimersInOrder, tx_pc = "write", NEW w \in Slots,
           tx_st[w] = "PendingTransmit", tx_seq[w] = writing.seq,
           NEW phi \in [Slots -> Slots], TimersOwned(phi)
    PROVE  /\ \A e \in Slots : timers[e] # NoSeq => phi[e] # w
           /\ \E e \in Slots : timers[e] = NoSeq
<1>1. \A k \in DOMAIN actions : ~After(k, tx_seq[w])
  BY DEF After, TimersInOrder, WriteIsPending
<1>2. \A e \in Slots : timers[e] # NoSeq => phi[e] # w
  BY <1>1 DEF TimersOwned, Charged
<1>3. ASSUME \A e \in Slots : timers[e] # NoSeq PROVE FALSE
  <2>1. phi \in Injection(Slots, Slots \ {w})
    <3>1. phi \in [Slots -> Slots \ {w}]
      BY <1>2, <1>3
    <3>2. \A e, f \in Slots : phi[e] = phi[f] => e = f
      BY <1>3 DEF TimersOwned
    <3> QED BY <3>1, <3>2 DEF Injection, IsInjective
  <2>2. IsFiniteSet(Slots \ {w}) /\ Cardinality(Slots \ {w}) = TxWin - 1
    BY SlotsAreFinite, FS_RemoveElement
  <2>3. Cardinality(Slots) <= Cardinality(Slots \ {w})
    BY <2>1, <2>2, FS_Injection
  <2> QED BY <2>2, <2>3, SlotsAreFinite, TxAssumption
<1> QED
  BY <1>2, <1>3

\* A packet that was written gets its timer.
LEMMA FinishWriteTimers ==
    ASSUME QueueInv, DistinctSeqs, TimersInOrder, FinishWrite
    PROVE  TimersInOrder'
<1> DEFINE pending == {i \in Slots : tx_st[i] = "PendingTransmit" /\ tx_seq[i] = writing.seq}
           idle == {e \in Slots : timers[e] = NoSeq}
<1>1. /\ tx_pc = "write" /\ tx_pc' = "drain"
      /\ tx_st' = [i \in Slots |-> IF pending # {} /\ i = Min(pending)
                                    THEN "AwaitingAck" ELSE tx_st[i]]
      /\ timers' = IF idle = {} THEN timers ELSE [timers EXCEPT ![Min(idle)] = writing.seq]
      /\ UNCHANGED <<tx_seq, actions, expired, overtaken>>
  BY DEF FinishWrite, StartTimer
<1>2. PICK phi \in [Slots -> Slots] : TimersOwned(phi)
  BY DEF TimersInOrder
<1>3. pending # {}
  BY <1>1 DEF TimersInOrder, WriteIsPending
<1>4. PICK w \in Slots : w = Min(pending) /\ tx_st[w] = "PendingTransmit" /\ tx_seq[w] = writing.seq
  <2>1. Min(pending) \in pending
    BY <1>3, MinOfSlots
  <2> QED BY <2>1
<1>5. /\ \A e \in Slots : timers[e] # NoSeq => phi[e] # w
      /\ \E e \in Slots : timers[e] = NoSeq
  BY <1>1, <1>2, <1>4, IdleTimer
<1>6. PICK a \in Slots : a = Min(idle) /\ timers[a] = NoSeq
  <2>1. Min(idle) \in idle
    BY <1>5, MinOfSlots
  <2> QED BY <2>1
<1>7. tx_st' = [tx_st EXCEPT ![w] = "AwaitingAck"] /\ timers' = [timers EXCEPT ![a] = writing.seq]
  <2>1. idle # {}
    BY <1>6
  <2>2. tx_st \in [Slots -> SlotState]
    BY DEF QueueInv, QueueTypes
  <2>3. tx_st' = [i \in Slots |-> IF i = w THEN "AwaitingAck" ELSE tx_st[i]]
    BY <1>1, <1>3, <1>4
  <2> HIDE DEF pending, idle
  <2> QED BY <1>1, <1>6, <2>1, <2>2, <2>3
<1> HIDE DEF pending, idle
<1>8. QueueTypes
  BY DEF QueueInv
<1>9. /\ tx_st'[w] = "AwaitingAck" /\ timers'[a] = writing.seq /\ tx_seq'[w] = writing.seq
      /\ \A i \in Slots : i # w => tx_st'[i] = tx_st[i]
      /\ \A e \in Slots : e # a => timers'[e] = timers[e]
  BY <1>1, <1>4, <1>7, <1>8 DEF QueueTypes
<1>10. writing.seq \in SeqCounts /\ NoSeq \notin SeqCounts
  BY <1>4, <1>8, SeqSpaceAssumption DEF QueueTypes, SeqCounts, NoSeq
<1>11. \A k \in DOMAIN actions : actions[k] # Transmit(writing.seq)
  BY <1>1 DEF TimersInOrder, WriteIsPending
<1>13. StopsAreStale'
  <2> SUFFICES ASSUME NEW k \in DOMAIN actions, actions[k].type = "StopTimer", NEW i \in Slots,
                      tx_st'[i] # "Empty", tx_seq[i] = actions[k].seq
               PROVE  tx_st'[i] = "PendingTransmit" /\ After(k, tx_seq[i])'
    BY <1>1 DEF StopsAreStale, Matches
  <2>1. tx_st[i] # "Empty"
    BY <1>4, <1>9
  <2>2. tx_st[i] = "PendingTransmit" /\ After(k, tx_seq[i])
    BY <2>1 DEF TimersInOrder, StopsAreStale, Matches
  <2>3. i # w
    BY <1>4, <1>11, <2>2 DEF After
  <2>4. After(k, tx_seq[i])'
    BY <1>1, <2>2 DEF After, Transmit
  <2> QED BY <1>9, <2>2, <2>3, <2>4
<1>14. AwaitingIsTimed'
  <2> SUFFICES ASSUME Going, NEW i \in Slots, tx_st'[i] = "AwaitingAck"
               PROVE  \/ \E e \in Slots : timers'[e] = tx_seq[i]
                      \/ \E k \in DOMAIN expired : expired[k] = tx_seq[i]
    BY <1>1 DEF AwaitingIsTimed, Going
  <2>1. CASE i = w
    BY <1>4, <1>9, <2>1
  <2>2. CASE i # w
    <3>1. tx_st[i] = "AwaitingAck" /\ tx_seq[i] \in SeqCounts
      BY <1>8, <1>9, <2>2 DEF QueueTypes
    <3>2. ASSUME NEW e \in Slots, timers[e] = tx_seq[i] PROVE timers'[e] = tx_seq[i]
      BY <1>6, <1>9, <1>10, <3>1, <3>2
    <3> QED BY <3>1, <3>2 DEF TimersInOrder, AwaitingIsTimed, Going
  <2> QED BY <2>1, <2>2
<1>15. WriteIsPending'
  BY <1>1 DEF WriteIsPending
<1>16. ExpiredAwaits'
  <2> SUFFICES ASSUME NEW k \in DOMAIN expired
               PROVE  /\ \E i \in Slots : tx_st'[i] = "AwaitingAck" /\ tx_seq[i] = expired[k]
                      /\ \A e \in Slots : timers'[e] # expired[k]
    BY <1>1 DEF TimersInOrder, ExpiredAwaits
  <2>1. PICK i \in Slots : tx_st[i] = "AwaitingAck" /\ tx_seq[i] = expired[k]
    BY DEF TimersInOrder, ExpiredAwaits
  <2>2. i # w
    BY <1>4, <2>1
  <2>3. tx_seq[i] # tx_seq[w]
    BY <1>4, <2>1, <2>2 DEF DistinctSeqs, Live
  <2>4. \A e \in Slots : timers[e] # expired[k]
    BY DEF TimersInOrder, ExpiredAwaits
  <2> QED BY <1>4, <1>9, <2>1, <2>2, <2>3, <2>4
<1>17. TransmitsPending'
  <2> SUFFICES ASSUME NEW k \in DOMAIN actions, IsTransmit(k), NEW i \in Slots,
                      tx_st'[i] # "Empty", tx_seq[i] = actions[k].seq
               PROVE  tx_st'[i] = "PendingTransmit"
    BY <1>1 DEF TransmitsPending, IsTransmit, Matches
  <2>1. actions[k] = Transmit(tx_seq[i])
    BY <1>8, TransmitOf
  <2>2. i # w
    BY <1>4, <1>11, <2>1
  <2> QED BY <1>9, <2>2 DEF TimersInOrder, TransmitsPending, Matches
<1> DEFINE psi == [phi EXCEPT ![a] = w]
<1>18. psi \in [Slots -> Slots] /\ psi[a] = w /\ \A e \in Slots : e # a => psi[e] = phi[e]
  OBVIOUS
<1> HIDE DEF psi
<1>19. ASSUME NEW e \in Slots, timers'[e] # NoSeq PROVE Charged(e, psi[e])'
  <2>1. CASE e = a
    BY <1>9, <1>18, <2>1 DEF Charged
  <2>2. CASE e # a
    <3>1. PICK i \in Slots : i = phi[e] /\ i = psi[e]
      BY <1>18, <2>2
    <3>2. timers'[e] = timers[e] /\ Charged(e, i) /\ i # w
      BY <1>2, <1>5, <1>9, <1>19, <2>2, <3>1 DEF TimersOwned
    <3>3. tx_st'[i] = tx_st[i] /\ tx_seq'[i] = tx_seq[i]
      BY <1>1, <1>9, <3>2
    <3>4. Charged(e, i)'
      <4>1. CASE tx_st[i] = "AwaitingAck" /\ tx_seq[i] = timers[e]
        BY <3>2, <3>3, <4>1 DEF Charged
      <4>2. ASSUME NEW k \in DOMAIN actions, actions[k] = StopTimer(timers[e]),
                   tx_st[i] = "Empty" \/ (tx_st[i] = "PendingTransmit" /\ After(k, tx_seq[i]))
            PROVE  Charged(e, i)'
        <5>1. After(k, tx_seq[i])' <=> After(k, tx_seq[i])
          BY <1>1 DEF After, Transmit
        <5>2. k \in DOMAIN actions' /\ actions'[k] = StopTimer(timers'[e])
          BY <1>1, <3>2, <4>2
        <5> QED BY <3>3, <4>2, <5>1, <5>2 DEF Charged, StopTimer
      <4> QED BY <3>2, <4>1, <4>2 DEF Charged
    <3> QED BY <3>1, <3>4
  <2> QED BY <2>1, <2>2
<1>20. ASSUME NEW e \in Slots, NEW f \in Slots, timers'[e] # NoSeq, timers'[f] # NoSeq,
              psi[e] = psi[f]
       PROVE  e = f
  BY <1>2, <1>5, <1>9, <1>18, <1>20 DEF TimersOwned
<1>21. TimersOwned(psi)'
  BY <1>19, <1>20 DEF TimersOwned
<1> QED
  BY <1>13, <1>14, <1>15, <1>16, <1>17, <1>18, <1>21 DEF TimersInOrder

\* With no StopTimer in the queue every armed entry times its slot.
LEMMA TimersCurrent ==
    ASSUME NEW phi \in [Slots -> Slots], TimersOwned(phi),
           \A k \in DOMAIN actions : actions[k].type # "StopTimer"
    PROVE  \A e \in Slots : timers[e] # NoSeq =>
              phi[e] \in Slots /\ tx_st[phi[e]] = "AwaitingAck" /\ tx_seq[phi[e]] = timers[e]
  BY StopTimerFields DEF TimersOwned, Charged

\* What handle_timeout leaves behind: one slot empty or pending again.
LEMMA TimeoutActs ==
    ASSUME QueueInv, TimersInOrder, HandleTimeout
    PROVE  \E i \in Slots :
              /\ tx_st[i] = "AwaitingAck" /\ tx_seq[i] = Head(expired)
              /\ tx_st'[i] # "AwaitingAck"
              /\ \A j \in Slots : j # i => tx_st'[j] = tx_st[j]
              /\ \A k \in DOMAIN actions' \ DOMAIN actions :
                    /\ actions'[k].type # "StopTimer"
                    /\ actions'[k].type = "Transmit" =>
                          actions'[k].seq = Head(expired) /\ tx_st'[i] = "PendingTransmit"
              /\ \A k \in DOMAIN actions : actions'[k] = actions[k]
<1> DEFINE s == Head(expired)
           i == Min(Awaiting(s))
           lost == <<Notice("PacketLost", s)>> \o
                   (IF tx_kind[i] \in {"Unsegmented", "Eos"} THEN <<>>
                    ELSE <<Notice("MessageLost", NoSeq)>>)
<1>1. /\ expired # <<>> /\ QueueTypes
      /\ actions \in Seq(SenderAction) /\ Len(actions) \in Nat /\ DOMAIN actions = 1 .. Len(actions)
  BY DEF HandleTimeout, QueueInv, QueueTypes
<1>2. 1 \in DOMAIN expired /\ s = expired[1] /\ s \in SeqCounts
  BY <1>1 DEF QueueTypes
<1>3. Awaiting(s) # {}
  BY <1>2 DEF TimersInOrder, ExpiredAwaits, Awaiting
<1>4. i \in Slots /\ tx_st[i] = "AwaitingAck" /\ tx_seq[i] = s
  BY <1>3, MinOfSlots DEF Awaiting
<1>6. ASSUME NEW new \in Seq(SenderAction), actions' = Push(actions, new)
      PROVE  /\ \A k \in DOMAIN actions' \ DOMAIN actions : \E l \in DOMAIN new : actions'[k] = new[l]
             /\ \A k \in DOMAIN actions : actions'[k] = actions[k]
  <2> DEFINE p == Push(actions, new)
  <2>1. PICK m \in 0 .. Len(new) :
           /\ p \in Seq(SenderAction)
           /\ Len(p) = Len(actions) + m /\ Len(actions) + m <= MaxActions
           /\ \A k \in 1 .. Len(actions) : p[k] = actions[k]
           /\ \A k \in 1 .. m : p[Len(actions) + k] = new[k]
           /\ Len(actions) + Len(new) <= MaxActions => m = Len(new)
           /\ Len(actions) + Len(new) > MaxActions => m = MaxActions - Len(actions)
    BY <1>1, PushTakes DEF QueueTypes
  <2>2. actions' = p
    BY <1>6
  <2> HIDE DEF p
  <2>3. DOMAIN p = 1 .. (Len(actions) + m) /\ m \in Nat /\ DOMAIN new = 1 .. Len(new) /\ Len(new) \in Nat
    BY <1>1, <2>1, LenProperties
  <2>4. ASSUME NEW k \in DOMAIN p \ DOMAIN actions PROVE \E l \in DOMAIN new : p[k] = new[l]
    <3>1. /\ k - Len(actions) \in 1 .. m /\ k - Len(actions) \in DOMAIN new
          /\ Len(actions) + (k - Len(actions)) = k
      BY <1>1, <2>1, <2>3
    <3> QED BY <2>1, <3>1
  <2> QED BY <1>1, <2>1, <2>2, <2>4
<1>7. CASE tx_st' = [tx_st EXCEPT ![i] = "Empty"] /\ actions' = Push(actions, lost)
  <2>1. lost \in Seq(SenderAction)
        /\ \A k \in 1 .. Len(lost) : lost[k].type \in {"PacketLost", "MessageLost"}
    <3> DEFINE a == Notice("PacketLost", s)
               b == Notice("MessageLost", NoSeq)
               e == IF tx_kind[i] \in {"Unsegmented", "Eos"} THEN <<>> ELSE <<b>>
    <3>1. /\ a \in SenderAction /\ b \in SenderAction
          /\ a.type = "PacketLost" /\ b.type = "MessageLost"
      BY <1>2 DEF Notice, SenderAction, ActionTypes
    <3>2. lost = <<a>> \o e /\ (e = <<>> \/ e = <<b>>)
      OBVIOUS
    <3> HIDE DEF a, b, e, lost
    <3>4. <<a>> \in Seq(SenderAction) /\ Len(<<a>>) = 1 /\ <<a>>[1] = a
      BY <3>1
    <3>5. e \in Seq(SenderAction) /\ Len(e) \in Nat /\ \A k \in 1 .. Len(e) : e[k] = b
      <4>1. CASE e = <<>>
        BY <4>1
      <4>2. CASE e = <<b>>
        BY <3>1, <4>2
      <4> QED BY <3>2, <4>1, <4>2
    <3>6. /\ lost \in Seq(SenderAction)
          /\ \A k \in 1 .. Len(lost) : lost[k] = a \/ (k - 1 \in 1 .. Len(e) /\ lost[k] = e[k - 1])
      BY <3>2, <3>4, <3>5
    <3> QED BY <3>1, <3>5, <3>6
  <2> HIDE DEF lost, i, s
  <2>2. /\ \A k \in DOMAIN actions' \ DOMAIN actions : actions'[k].type \in {"PacketLost", "MessageLost"}
        /\ \A k \in DOMAIN actions : actions'[k] = actions[k]
    BY <1>6, <1>7, <2>1, LenProperties
  <2>3. tx_st'[i] = "Empty" /\ \A j \in Slots : j # i => tx_st'[j] = tx_st[j]
    BY <1>1, <1>4, <1>7 DEF QueueTypes
  <2> QED BY <1>4, <2>2, <2>3 DEF s
<1>8. CASE /\ tx_st' = [tx_st EXCEPT ![i] = "PendingTransmit"]
           /\ actions' = Push(actions, <<Transmit(s)>>)
  <2>1. <<Transmit(s)>> \in Seq(SenderAction)
        /\ \A k \in DOMAIN <<Transmit(s)>> : <<Transmit(s)>>[k] = Transmit(s)
    BY <1>2 DEF Transmit, SenderAction, ActionTypes
  <2> HIDE DEF lost, i, s
  <2>2. /\ \A k \in DOMAIN actions' \ DOMAIN actions : actions'[k] = Transmit(s)
        /\ \A k \in DOMAIN actions : actions'[k] = actions[k]
    BY <1>6, <1>8, <2>1
  <2>3. tx_st'[i] = "PendingTransmit" /\ \A j \in Slots : j # i => tx_st'[j] = tx_st[j]
    BY <1>1, <1>4, <1>8 DEF QueueTypes
  <2> QED BY <1>4, <2>2, <2>3, TransmitFields DEF s
<1> QED
  BY <1>3, <1>7, <1>8 DEF HandleTimeout

\* handle_timeout gives a packet up or queues it again; the others keep their timers.
LEMMA HandleTimeoutTimers ==
    ASSUME QueueInv, DistinctSeqs, TimersInOrder, HandleTimeout
    PROVE  TimersInOrder'
<1>1. /\ tx_pc \in {"drain", "expire"} /\ tx_pc' = "drain" /\ expired # <<>>
      /\ expired' = Tail(expired) /\ UNCHANGED <<tx_seq, timers, overtaken>> /\ QueueTypes
      /\ \A k \in DOMAIN actions : IsTransmit(k)
      /\ \A j \in Live, k \in DOMAIN actions :
            tx_seq[j] = actions[k].seq => tx_st[j] = "PendingTransmit"
  BY TimeoutFinds DEF HandleTimeout, QueueInv
<1>2. /\ 1 \in DOMAIN expired /\ Head(expired) = expired[1]
      /\ \A k \in DOMAIN expired' : /\ k + 1 \in DOMAIN expired /\ expired'[k] = expired[k + 1]
                                    /\ k + 1 # 1 /\ k \in Int
      /\ \A k \in DOMAIN expired : k # 1 => k - 1 \in DOMAIN expired' /\ expired'[k - 1] = expired[k]
  <2>1. expired \in Seq(SeqCounts) /\ Len(expired) \in Nat /\ Len(expired) >= 1
    BY <1>1 DEF QueueTypes
  <2>2. /\ expired' \in Seq(SeqCounts) /\ Len(expired') = Len(expired) - 1
        /\ \A k \in 1 .. (Len(expired) - 1) : expired'[k] = expired[k + 1]
        /\ Head(expired) = expired[1]
    BY <1>1, <2>1
  <2>3. DOMAIN expired = 1 .. Len(expired) /\ DOMAIN expired' = 1 .. (Len(expired) - 1)
    BY <2>1, <2>2
  <2>4. \A k \in 1 .. Len(expired) : k # 1 => k - 1 \in 1 .. (Len(expired) - 1) /\ (k - 1) + 1 = k
    BY <2>1
  <2>5. \A k \in 1 .. (Len(expired) - 1) : k + 1 \in 1 .. Len(expired) /\ k + 1 # 1 /\ k \in Int
    BY <2>1
  <2>6. \A k \in 1 .. Len(expired) : k # 1 => expired'[k - 1] = expired[k]
    BY <2>2, <2>4
  <2>7. 1 \in 1 .. Len(expired)
    BY <2>1
  <2> QED BY <2>2, <2>3, <2>4, <2>5, <2>6, <2>7
<1>3. PICK i \in Slots :
         /\ tx_st[i] = "AwaitingAck" /\ tx_seq[i] = expired[1]
         /\ tx_st'[i] # "AwaitingAck"
         /\ \A j \in Slots : j # i => tx_st'[j] = tx_st[j]
         /\ \A k \in DOMAIN actions' \ DOMAIN actions :
               /\ actions'[k].type # "StopTimer"
               /\ actions'[k].type = "Transmit" =>
                     actions'[k].seq = expired[1] /\ tx_st'[i] = "PendingTransmit"
         /\ \A k \in DOMAIN actions : actions'[k] = actions[k]
  BY <1>2, TimeoutActs
<1>4. \A j \in Slots : tx_st[j] # "Empty" /\ tx_seq[j] = expired[1] => j = i
  BY <1>3 DEF DistinctSeqs, Live
<1>5. StopsAreStale'
  BY <1>1, <1>3 DEF StopsAreStale, IsTransmit
<1>6. AwaitingIsTimed'
  <2> SUFFICES ASSUME Going, NEW j \in Slots, tx_st'[j] = "AwaitingAck"
               PROVE  \/ \E e \in Slots : timers[e] = tx_seq[j]
                      \/ \E k \in DOMAIN expired' : expired'[k] = tx_seq[j]
    BY <1>1 DEF AwaitingIsTimed, Going
  <2>1. j # i /\ tx_st[j] = "AwaitingAck"
    BY <1>3
  <2>2. tx_seq[j] # expired[1]
    BY <1>4, <2>1
  <2>3. ASSUME NEW k \in DOMAIN expired, expired[k] = tx_seq[j]
        PROVE  \E l \in DOMAIN expired' : expired'[l] = tx_seq[j]
    BY <1>2, <2>2, <2>3
  <2> QED BY <2>1, <2>3 DEF TimersInOrder, AwaitingIsTimed, Going
<1>7. WriteIsPending'
  BY <1>1 DEF WriteIsPending
<1>8. ExpiredAwaits'
  <2> SUFFICES ASSUME NEW k \in DOMAIN expired'
               PROVE  /\ \E j \in Slots : tx_st'[j] = "AwaitingAck" /\ tx_seq[j] = expired'[k]
                      /\ \A e \in Slots : timers[e] # expired'[k]
                      /\ \A l \in DOMAIN expired' : expired'[l] = expired'[k] => l = k
    BY <1>1 DEF ExpiredAwaits
  <2>1. k + 1 \in DOMAIN expired /\ expired'[k] = expired[k + 1] /\ k + 1 # 1 /\ k \in Int
    BY <1>2
  <2>2. expired[1] # expired[k + 1]
    BY <1>2, <2>1 DEF TimersInOrder, ExpiredAwaits
  <2>3. PICK j \in Slots : tx_st[j] = "AwaitingAck" /\ tx_seq[j] = expired[k + 1]
    BY <2>1 DEF TimersInOrder, ExpiredAwaits
  <2>4. j # i
    BY <1>3, <2>2, <2>3
  <2>5. \A e \in Slots : timers[e] # expired[k + 1]
    BY <2>1 DEF TimersInOrder, ExpiredAwaits
  <2>6. ASSUME NEW l \in DOMAIN expired', expired'[l] = expired'[k] PROVE l = k
    <3>1. l + 1 \in DOMAIN expired /\ expired[l + 1] = expired[k + 1] /\ l \in Int
      BY <1>2, <2>1, <2>6
    <3>2. l + 1 = k + 1
      BY <2>1, <3>1 DEF TimersInOrder, ExpiredAwaits
    <3> QED BY <2>1, <3>1, <3>2
  <2> QED BY <1>3, <2>1, <2>3, <2>4, <2>5, <2>6
<1>9. TransmitsPending'
  <2> SUFFICES ASSUME NEW k \in DOMAIN actions', actions'[k].type = "Transmit", NEW j \in Slots,
                      tx_st'[j] # "Empty", tx_seq[j] = actions'[k].seq
               PROVE  tx_st'[j] = "PendingTransmit"
    BY <1>1 DEF TransmitsPending, IsTransmit, Matches
  <2>1. CASE k \in DOMAIN actions
    <3>1. tx_st[j] # "Empty" /\ tx_seq[j] = actions[k].seq
      BY <1>3, <2>1
    <3>2. tx_st[j] = "PendingTransmit"
      BY <1>1, <2>1, <3>1 DEF Live
    <3> QED BY <1>3, <3>2
  <2>2. CASE k \notin DOMAIN actions
    BY <1>3, <1>4, <2>2
  <2> QED BY <2>1, <2>2
<1>10. ASSUME NEW phi \in [Slots -> Slots], TimersOwned(phi) PROVE TimersOwned(phi)'
  <2>1. \A e \in Slots : timers[e] # NoSeq =>
           phi[e] \in Slots /\ tx_st[phi[e]] = "AwaitingAck" /\ tx_seq[phi[e]] = timers[e]
    <3>1. \A k \in DOMAIN actions : actions[k].type # "StopTimer"
      BY <1>1 DEF IsTransmit
    <3> QED BY <1>10, <3>1, TimersCurrent
  <2>2. ASSUME NEW e \in Slots, timers[e] # NoSeq
        PROVE  tx_st'[phi[e]] = "AwaitingAck" /\ tx_seq'[phi[e]] = timers'[e]
    <3>1. timers[e] # expired[1]
      BY <1>2 DEF TimersInOrder, ExpiredAwaits
    <3>2. phi[e] # i
      BY <1>3, <2>1, <2>2, <3>1
    <3> QED BY <1>1, <1>3, <2>1, <2>2, <3>2
  <2> QED BY <1>1, <1>10, <2>2 DEF TimersOwned, Charged
<1> QED
  BY <1>5, <1>6, <1>7, <1>8, <1>9, <1>10 DEF TimersInOrder

\* handle_timeouts lists the due entries, each once.
LEMMA TimeoutTimers ==
    ASSUME QueueInv, DistinctSeqs, TimersInOrder, NEW due \in SUBSET Slots, Timeout(due)
    PROVE  TimersInOrder'
<1> DEFINE key == [i \in Slots |-> i]
           order == InOrder(due, key)
           n == Cardinality(due)
<1>1. key \in [Slots -> Int]
  BY DEF Slots
<1>2. /\ DOMAIN order = 1 .. n /\ \A k \in 1 .. n : order[k] \in due
      /\ \A e \in due : \E k \in 1 .. n : order[k] = e
      /\ \A k, l \in 1 .. n : order[k] = order[l] => k = l
  <2> HIDE DEF key
  <2> QED BY <1>1, InOrderLists, ZenonT(60)
<1>3. /\ expired' = [k \in DOMAIN order |-> timers[order[k]]] /\ \A e \in due : timers[e] # NoSeq
      /\ timers' = [e \in Slots |-> IF e \in due THEN NoSeq ELSE timers[e]]
      /\ tx_pc = "select" /\ tx_pc' \in {"drain", "expire"}
      /\ UNCHANGED <<tx_st, tx_seq, actions, overtaken>>
  BY DEF Timeout, SlotsInOrder, tx_machine
<1> HIDE DEF order, n
<1>4. DOMAIN expired' = 1 .. n /\ \A k \in 1 .. n : expired'[k] = timers[order[k]]
  BY <1>2, <1>3
<1>5. PICK phi \in [Slots -> Slots] : TimersOwned(phi)
  BY DEF TimersInOrder
<1>6. \A k \in DOMAIN actions : actions[k].type # "StopTimer"
  BY <1>3 DEF QueueInv, SelectQueue, IsTransmit
<1>7. \A e \in Slots : timers[e] # NoSeq =>
         phi[e] \in Slots /\ tx_st[phi[e]] = "AwaitingAck" /\ tx_seq[phi[e]] = timers[e]
  BY <1>5, <1>6, TimersCurrent
<1>8. ASSUME NEW e \in Slots, NEW f \in Slots, timers[e] # NoSeq, timers[f] = timers[e] PROVE f = e
  <2>1. phi[e] = phi[f]
    BY <1>7, <1>8 DEF DistinctSeqs, Live
  <2> QED BY <1>5, <1>8, <2>1 DEF TimersOwned
<1>9. \A e \in Slots : (e \in due => timers'[e] = NoSeq) /\ (e \notin due => timers'[e] = timers[e])
  BY <1>3
<1>10. expired = <<>>
  BY <1>3 DEF QueueInv, SelectQueue
<1>11. AwaitingIsTimed'
  <2> SUFFICES ASSUME Going, NEW i \in Slots, tx_st[i] = "AwaitingAck"
               PROVE  \/ \E e \in Slots : timers'[e] = tx_seq[i]
                      \/ \E k \in DOMAIN expired' : expired'[k] = tx_seq[i]
    BY <1>3 DEF AwaitingIsTimed, Going
  <2>1. PICK e \in Slots : timers[e] = tx_seq[i]
    BY <1>10 DEF TimersInOrder, AwaitingIsTimed, Going
  <2>2. CASE e \in due
    BY <1>2, <1>4, <2>1, <2>2
  <2>3. CASE e \notin due
    BY <1>9, <2>1, <2>3
  <2> QED BY <2>2, <2>3
<1>12. ExpiredAwaits'
  <2> SUFFICES ASSUME NEW k \in 1 .. n
               PROVE  /\ \E i \in Slots : tx_st[i] = "AwaitingAck" /\ tx_seq[i] = expired'[k]
                      /\ \A e \in Slots : timers'[e] # expired'[k]
                      /\ \A l \in 1 .. n : expired'[l] = expired'[k] => l = k
    BY <1>3, <1>4 DEF ExpiredAwaits
  <2>1. order[k] \in due /\ order[k] \in Slots /\ timers[order[k]] # NoSeq
        /\ expired'[k] = timers[order[k]]
    BY <1>2, <1>3, <1>4
  <2>2. ASSUME NEW e \in Slots, timers'[e] = expired'[k] PROVE FALSE
    BY <1>8, <1>9, <2>1, <2>2
  <2>3. ASSUME NEW l \in 1 .. n, expired'[l] = expired'[k] PROVE l = k
    <3>1. order[l] \in Slots /\ timers[order[l]] = timers[order[k]]
      BY <1>2, <1>4, <2>1, <2>3
    <3>2. order[l] = order[k]
      BY <1>8, <2>1, <3>1
    <3> QED BY <1>2, <3>2
  <2> QED BY <1>7, <2>1, <2>2, <2>3
<1>13. StopsAreStale' /\ WriteIsPending'
  BY <1>3, <1>6 DEF StopsAreStale, WriteIsPending
<1>14. TransmitsPending'
  BY <1>3 DEF TimersInOrder, TransmitsPending, IsTransmit, Matches
<1>15. TimersOwned(phi)'
  BY <1>3, <1>5, <1>7, <1>9 DEF TimersOwned, Charged
<1> QED
  BY <1>5, <1>11, <1>12, <1>13, <1>14, <1>15 DEF TimersInOrder

\* An ACK finds room for the StopTimers of the slots that it frees.
LEMMA StopsFit ==
    ASSUME RoomForActions, QueueInv, tx_pc = "select", NEW freed, NEW new, AckFrees(freed, new)
    PROVE  Len(actions) + Cardinality(freed) <= MaxActions /\ Cardinality(freed) \in Nat
<1> DEFINE L == Slots \ freed
<1>1. /\ actions \in Seq(SenderAction) /\ Len(actions) \in Nat /\ MaxActions \in Nat
      /\ TxWin \in Nat /\ TxWin >= 1 /\ MaxActions >= 2 * TxWin - 1
  BY TxAssumption DEF QueueInv, QueueTypes, RoomForActions
<1>2. Transmits(actions) /\ Few(actions) /\ Once(actions)
  BY DEF Transmits, Few, Once, QueueInv, SelectQueue, TransmitsOwned, IsTransmit
<1>3. freed \subseteq Slots /\ \A i \in freed : tx_st[i] = "AwaitingAck"
  BY AckAppends
<1>4. OwnedBy(actions, L, tx_seq)
  <2> SUFFICES ASSUME NEW k \in DOMAIN actions PROVE \E i \in L : tx_seq[i] = actions[k].seq
    BY DEF OwnedBy
  <2>1. PICK i \in Slots : tx_st[i] # "Empty" /\ tx_seq[i] = actions[k].seq
    BY DEF QueueInv, SelectQueue, TransmitsOwned, Matches
  <2>2. tx_st[i] = "PendingTransmit"
    BY <2>1 DEF QueueInv, SelectQueue, Live
  <2> QED BY <1>3, <2>1, <2>2
<1>5. L \subseteq Slots
  OBVIOUS
<1>6. L \cup freed = Slots /\ L \cap freed = {}
  BY <1>3
<1> HIDE DEF L
<1>7. Len(actions) <= Cardinality(L)
  BY <1>1, <1>2, <1>4, <1>5, QueueFits
<1>8. /\ IsFiniteSet(L) /\ IsFiniteSet(freed) /\ Cardinality(Slots) = TxWin
      /\ Cardinality(L) \in Nat /\ Cardinality(freed) \in Nat
  BY <1>3, <1>5, SlotsAreFinite
<1>9. TxWin = Cardinality(L) + Cardinality(freed)
  <2>1. Cardinality(L \cup freed) = Cardinality(L) + Cardinality(freed) - Cardinality(L \cap freed)
    BY <1>8, FS_Union
  <2>2. Cardinality(L \cap freed) = 0
    BY <1>6, FS_EmptySet
  <2>3. Cardinality(L \cup freed) = TxWin
    BY <1>6, <1>8, Zenon
  <2> QED BY <1>1, <1>8, <2>1, <2>2, <2>3
<1> QED
  BY <1>1, <1>7, <1>8, <1>9

\* An ACK leaves each timer to its packet, or to the StopTimer that it queued.
LEMMA AckTimers ==
    ASSUME RoomForActions, QueueInv, DistinctSeqs, TimersInOrder, tx_pc = "select", tx_pc' = "drain",
           NEW freed, NEW new, AckFrees(freed, new), UNCHANGED <<tx_seq, timers, expired, overtaken>>
    PROVE  TimersInOrder'
<1>1. /\ Len(actions) \in Nat /\ DOMAIN actions = 1 .. Len(actions)
      /\ \A k \in DOMAIN actions : /\ k \in DOMAIN actions' /\ actions'[k] = actions[k]
                                   /\ IsTransmit(k)' /\ IsTransmit(k)
      /\ \A k \in DOMAIN actions' \ DOMAIN actions :
            /\ k > Len(actions) /\ k - Len(actions) \in 1 .. Len(new)
            /\ actions'[k] = new[k - Len(actions)] /\ ~IsTransmit(k)'
      /\ \A k \in 1 .. Len(new) : Len(actions) + k <= MaxActions =>
            Len(actions) + k \in DOMAIN actions' /\ actions'[Len(actions) + k] = new[k]
      /\ \A i \in freed : i \in Slots /\ tx_st[i] = "AwaitingAck" /\ tx_st'[i] = "Empty"
      /\ \A i \in Slots \ freed : tx_st'[i] = tx_st[i]
  BY AckAppends
<1>2. \A k \in 1 .. Len(new) :
         new[k].type = "StopTimer" => \E j \in freed : new[k] = StopTimer(tx_seq[j])
  BY DEF AckFrees
<1>3. \A j \in freed : \E k \in 1 .. Len(new) :
         k <= Cardinality(freed) /\ new[k] = StopTimer(tx_seq[j])
  BY DEF AckFrees
<1>4. Len(actions) + Cardinality(freed) <= MaxActions /\ Cardinality(freed) \in Nat
  BY StopsFit
<1>5. \A i \in Slots : tx_st'[i] # "Empty" => i \notin freed /\ tx_st'[i] = tx_st[i]
  BY <1>1
<1>6. StopsAreStale'
  <2> SUFFICES ASSUME NEW k \in DOMAIN actions', actions'[k].type = "StopTimer", NEW i \in Slots,
                      tx_st'[i] # "Empty", tx_seq[i] = actions'[k].seq
               PROVE  FALSE
    BY DEF StopsAreStale, Matches
  <2>1. k \notin DOMAIN actions
    BY <1>1 DEF IsTransmit
  <2>2. PICK j \in freed : actions'[k] = StopTimer(tx_seq[j])
    BY <1>1, <1>2, <2>1
  <2>3. tx_seq[i] = tx_seq[j]
    BY <2>2, StopTimerFields
  <2>4. i = j
    BY <1>1, <1>5, <2>3 DEF DistinctSeqs, Live
  <2> QED BY <1>5, <2>4
<1>7. AwaitingIsTimed'
  BY <1>5 DEF TimersInOrder, AwaitingIsTimed
<1>8. WriteIsPending'
  BY DEF WriteIsPending
<1>9. ExpiredAwaits'
  <2>1. DOMAIN expired' = {}
    BY DEF QueueInv, SelectQueue
  <2> QED BY <2>1 DEF ExpiredAwaits
<1>10. TransmitsPending'
  <2> SUFFICES ASSUME NEW k \in DOMAIN actions', IsTransmit(k)', NEW i \in Slots,
                      tx_st'[i] # "Empty", tx_seq[i] = actions'[k].seq
               PROVE  tx_st'[i] = "PendingTransmit"
    BY DEF TransmitsPending, Matches
  <2>1. k \in DOMAIN actions /\ actions'[k] = actions[k] /\ IsTransmit(k)
    BY <1>1
  <2> QED BY <1>5, <2>1 DEF TimersInOrder, TransmitsPending, Matches
<1>11. ASSUME NEW phi \in [Slots -> Slots], TimersOwned(phi) PROVE TimersOwned(phi)'
  <2>1. \A e \in Slots : timers[e] # NoSeq =>
           phi[e] \in Slots /\ tx_st[phi[e]] = "AwaitingAck" /\ tx_seq[phi[e]] = timers[e]
    <3>1. \A k \in DOMAIN actions : actions[k].type # "StopTimer"
      BY <1>1 DEF IsTransmit
    <3> QED BY <1>11, <3>1, TimersCurrent
  <2> SUFFICES ASSUME NEW e \in Slots, timers[e] # NoSeq PROVE Charged(e, phi[e])'
    BY <1>11 DEF TimersOwned
  <2>2. CASE phi[e] \notin freed
    BY <1>1, <2>1, <2>2 DEF Charged
  <2>3. CASE phi[e] \in freed
    <3>1. PICK k \in 1 .. Len(new) : k <= Cardinality(freed) /\ new[k] = StopTimer(tx_seq[phi[e]])
      BY <1>3, <2>3
    <3>2. Len(actions) + k <= MaxActions
      BY <1>1, <1>4, <3>1, TxAssumption
    <3>3. Len(actions) + k \in DOMAIN actions' /\ actions'[Len(actions) + k] = StopTimer(timers[e])
      BY <1>1, <2>1, <3>1, <3>2
    <3>4. tx_st'[phi[e]] = "Empty"
      BY <1>1, <2>3
    <3> QED BY <3>3, <3>4 DEF Charged, StopTimer
  <2> QED BY <2>2, <2>3
<1> QED
  BY <1>6, <1>7, <1>8, <1>9, <1>10, <1>11 DEF TimersInOrder

\* A sender that is not bound has no packets.
LEMMA UnboundStep ==
    ASSUME QueueTypes, DOMAIN writes = Slots, ~bound => Live = {}, [TxNext]_tx_vars, ~bound'
    PROVE  Live' = {}
<1> SUFFICES ASSUME NEW i \in Slots PROVE tx_st'[i] = "Empty"
  BY DEF Live
<1>1. ~bound => tx_st[i] = "Empty"
  BY DEF Live
<1>2. CASE TxApp
  <2>1. CASE Drop \/ Bind
    BY <2>1 DEF Drop, Bind, ResetSlot
  <2>2. CASE (\E l \in MsgLens : Send(l)) \/ SendEos
    BY <2>2 DEF Send, SendEos
  <2> QED BY <1>2, <2>1, <2>2 DEF TxApp
<1>3. CASE StartWrite \/ PopAction \/ AwaitEvent \/ LinkFails \/ TxTimer
  BY <1>1, <1>3 DEF StartWrite, PopAction, AwaitEvent, LinkFails, TxTimer, Timeout, tx_machine
<1>4. CASE HandleTimeout
  <2>1. Awaiting(Head(expired)) = {}
    BY <1>4 DEF Awaiting, HandleTimeout, Live
  <2> QED BY <1>1, <1>4, <2>1 DEF HandleTimeout
<1>5. CASE FinishWrite
  <2> DEFINE pending == {j \in Slots : tx_st[j] = "PendingTransmit" /\ tx_seq[j] = writing.seq}
  <2>1. bound' = bound /\ tx_st' = [j \in Slots |-> IF pending # {} /\ j = Min(pending)
                                                    THEN "AwaitingAck" ELSE tx_st[j]]
    BY <1>5 DEF FinishWrite
  <2>2. pending = {}
    BY <2>1 DEF Live
  <2> HIDE DEF pending
  <2> QED BY <1>1, <2>1, <2>2
<1>6. CASE \E cum \in SeqCounts, bits \in SUBSET (0 .. SackBits - 1) :
              (\A j \in Acked(cum, bits) : writes[j] > 0) /\ ReceiveAck(cum, bits)
  BY <1>1, <1>6 DEF ReceiveAck
<1>7. CASE TxStopped \/ UNCHANGED tx_vars
  BY <1>1, <1>7 DEF TxStopped, tx_vars, tx_machine
<1> QED
  BY <1>2, <1>3, <1>4, <1>5, <1>6, <1>7 DEF TxNext, TxLoop

\* Every step keeps the timers in order.
LEMMA SenderTimersStep ==
    ASSUME RoomForActions, Attempts, DistinctSeqs, DistinctSeqs', QueueInv, TimerInv,
           [TxNext]_tx_vars
    PROVE  TimerInv'
<1>0. QueueTypes /\ SlotTypes /\ DOMAIN writes = Slots
  BY DEF QueueInv, QueueTypes, SlotTypes, Attempts
<1>1. ~bound' => Live' = {}
  BY <1>0, UnboundStep DEF TimerInv
<1> SUFFICES ASSUME Going' PROVE TimersInOrder'
  BY <1>1 DEF TimerInv
<1>2. CASE TxApp
  <2>1. CASE (\E l \in MsgLens : Send(l)) \/ SendEos
    <3>1. PICK F, new, own : Fills(F, new, own)
      BY <1>0, <2>1, SendFills, SendEosFills
    <3>2. Going
      BY <3>1 DEF Fills, Going
    <3> QED BY <3>1, <3>2, FillTimers DEF TimerInv
  <2>2. CASE Drop \/ Bind
    <3>1. ResetSlot /\ UNCHANGED <<tx_pc, expired>> /\ tx_pc \in {"write", "select"}
      BY <2>2 DEF Drop, Bind, AppMayRun
    <3>2. Going
      <4>1. tx_pc # "failed"
        BY <3>1
      <4>2. ~overtaken'
        BY DEF Going
      <4>3. Drop => ~overtaken
        BY <4>2, Zenon DEF Drop
      <4>4. Bind => ~overtaken
        BY <4>2 DEF Bind
      <4> QED BY <2>2, <4>1, <4>3, <4>4 DEF Going
    <3>3. tx_pc # "write"
      <4>1. CASE Drop
        BY <4>1, Zenon DEF Drop, Going
      <4>2. CASE Bind
        <5>1. Live = {}
          BY <4>2 DEF Bind, TimerInv
        <5> QED BY <3>2, <5>1 DEF TimerInv, TimersInOrder, WriteIsPending, Live
      <4> QED BY <2>2, <4>1, <4>2
    <3> QED BY <3>1, <3>3, ResetTimers
  <2> QED BY <1>2, <2>1, <2>2 DEF TxApp
<1>3. CASE StartWrite \/ PopAction
  <2>1. Going
    BY <1>3 DEF StartWrite, PopAction, Draining, Going
  <2> QED BY <1>3, <2>1, DrainTimers DEF TimerInv
<1>4. CASE AwaitEvent
  <2>1. /\ tx_pc = "drain" /\ tx_pc' = "select"
        /\ UNCHANGED <<tx_st, tx_seq, actions, timers, expired, overtaken>>
    BY <1>4 DEF AwaitEvent, Draining, tx_machine
  <2>2. TimersInOrder
    BY <2>1 DEF Going, TimerInv
  <2>3. /\ StopsAreStale' /\ AwaitingIsTimed' /\ WriteIsPending' /\ ExpiredAwaits'
        /\ TransmitsPending'
    BY <2>1, <2>2 DEF TimersInOrder, StopsAreStale, AwaitingIsTimed, WriteIsPending, ExpiredAwaits,
       TransmitsPending, After, Matches, IsTransmit, Transmit
  <2>4. ASSUME NEW phi \in [Slots -> Slots], TimersOwned(phi) PROVE TimersOwned(phi)'
    BY <2>1, <2>4 DEF TimersOwned, Charged, After, Transmit, StopTimer
  <2> QED BY <2>2, <2>3, <2>4 DEF TimersInOrder
<1>5. CASE HandleTimeout
  <2>1. Going
    BY <1>5 DEF HandleTimeout, Draining, Going
  <2> QED BY <1>5, <2>1, HandleTimeoutTimers DEF TimerInv
<1>6. CASE FinishWrite
  <2>1. Going
    BY <1>6 DEF FinishWrite, Going
  <2> QED BY <1>6, <2>1, FinishWriteTimers DEF TimerInv
<1>7. CASE LinkFails
  BY <1>7 DEF LinkFails, Going
<1>8. CASE TxTimer
  <2>1. PICK due \in SUBSET Slots : Timeout(due)
    BY <1>8 DEF TxTimer
  <2>2. Going
    BY <2>1 DEF Timeout, Going
  <2> QED BY <2>1, <2>2, TimeoutTimers DEF TimerInv
<1>9. CASE \E cum \in SeqCounts, bits \in SUBSET (0 .. SackBits - 1) :
              (\A i \in Acked(cum, bits) : writes[i] > 0) /\ ReceiveAck(cum, bits)
  <2>1. PICK cum \in SeqCounts, bits \in SUBSET (0 .. SackBits - 1) :
           (\A i \in Acked(cum, bits) : writes[i] > 0) /\ ReceiveAck(cum, bits)
    BY <1>9
  <2>2. /\ tx_pc = "select" /\ tx_pc' = "drain"
        /\ UNCHANGED <<tx_seq, timers, expired, overtaken>>
    BY <2>1 DEF ReceiveAck
  <2>3. TimersInOrder
    BY <2>2 DEF Going, TimerInv
  <2>4. CASE UNCHANGED <<tx_st, actions>>
    <3>1. /\ StopsAreStale' /\ AwaitingIsTimed' /\ WriteIsPending' /\ ExpiredAwaits'
          /\ TransmitsPending'
      BY <2>2, <2>3, <2>4 DEF TimersInOrder, StopsAreStale, AwaitingIsTimed, WriteIsPending,
         ExpiredAwaits, TransmitsPending, After, Matches, IsTransmit, Transmit
    <3>2. ASSUME NEW phi \in [Slots -> Slots], TimersOwned(phi) PROVE TimersOwned(phi)'
      BY <2>2, <2>4, <3>2 DEF TimersOwned, Charged, After, Transmit, StopTimer
    <3> QED BY <2>3, <3>1, <3>2 DEF TimersInOrder
  <2>5. CASE \E freed, new : AckFrees(freed, new)
    BY <2>2, <2>3, <2>5, AckTimers
  <2> QED BY <1>0, <2>1, <2>4, <2>5, ReceiveAckFrees
<1>10. CASE TxStopped \/ UNCHANGED tx_vars
  <2>1. UNCHANGED <<tx_st, tx_seq, actions, timers, tx_pc, expired, writing, overtaken>>
    BY <1>10 DEF TxStopped, tx_vars, tx_machine
  <2>2. TimersInOrder
    BY <2>1 DEF Going, TimerInv
  <2>3. /\ StopsAreStale' /\ AwaitingIsTimed' /\ WriteIsPending' /\ ExpiredAwaits'
        /\ TransmitsPending'
    BY <2>1, <2>2 DEF TimersInOrder, StopsAreStale, AwaitingIsTimed, WriteIsPending, ExpiredAwaits,
       TransmitsPending, After, Matches, IsTransmit, Transmit
  <2>4. ASSUME NEW phi \in [Slots -> Slots], TimersOwned(phi) PROVE TimersOwned(phi)'
    BY <2>1, <2>4 DEF TimersOwned, Charged, After, Transmit, StopTimer
  <2> QED BY <2>2, <2>3, <2>4 DEF TimersInOrder
<1> QED
  BY <1>2, <1>3, <1>4, <1>5, <1>6, <1>7, <1>8, <1>9, <1>10 DEF TxNext, TxLoop

\* No transmitted packet loses its clock, under the same conditions: TimerSet::start always finds
\* one of its WIN entries free, for each armed one is charged to a slot of its own that is not the
\* one being written, and TimerSet::stop never reaches the timer of a packet still under way.
THEOREM AwaitingStaysTimed ==
    ASSUME RoomForActions PROVE TxSpec /\ []DistinctSeqs => []AwaitingIsTimed
<1>1. DistinctSeqs /\ DistinctSeqs' /\ Attempts /\ QueueInv /\ [TxNext]_tx_vars => QueueInv'
  BY QueueStep
<1>2. DistinctSeqs /\ DistinctSeqs' /\ Attempts /\ QueueInv /\ TimerInv /\ [TxNext]_tx_vars
      => TimerInv'
  BY SenderTimersStep
<1>3. TimerInv => AwaitingIsTimed
  BY DEF TimerInv, TimersInOrder, AwaitingIsTimed, Going
<1> QED
  BY <1>1, <1>2, <1>3, QueueInit, TimersInit, AttemptsAreCounted, PTL DEF TxSpec

\* Together, for the runs that do not use up the numbers: whatever the application, the link, the
\* ACKs and the timers do, a queued packet is written and a written one is timed.
THEOREM SenderForgetsNothing ==
    ASSUME RoomForActions, NumbersLast PROVE TxSpec => [](PendingIsQueued /\ AwaitingIsTimed)
<1>1. TxSpec => []DistinctSeqs
  BY NumbersStayApart
<1>2. TxSpec /\ []DistinctSeqs => []PendingIsQueued
  BY PendingStaysQueued
<1>3. TxSpec /\ []DistinctSeqs => []AwaitingIsTimed
  BY AwaitingStaysTimed
<1> QED
  BY <1>1, <1>2, <1>3, PTL

(* Sums of lengths.                                                        *)

\* some member of a set that is not empty
Some(s) == CHOOSE x \in s : TRUE

\* g sums up f over every subset of S, taking the members in the order of CHOOSE
SumsUp(g, f, S) ==
    g = [s \in SUBSET S |-> IF s = {} THEN 0 ELSE f[Some(s)] + g[s \ {Some(s)}]]

Total(f, S) == (CHOOSE g : SumsUp(g, f, S))[S]

\* Bytes is such a sum.
LEMMA BytesIs == ASSUME NEW S PROVE Bytes(S) = Total(tx_len, S)
  BY DEF Bytes, Total, SumsUp, Some, MapThenSumSet, MapThenFoldSet

\* A set without one of its members is smaller.
LEMMA Smaller ==
    ASSUME NEW S, IsFiniteSet(S), NEW x \in S
    PROVE  /\ IsFiniteSet(S \ {x}) /\ Cardinality(S) \in Nat
           /\ Cardinality(S \ {x}) \in Nat /\ Cardinality(S \ {x}) < Cardinality(S)
<1>1. IsFiniteSet(S \ {x}) /\ Cardinality(S \ {x}) = Cardinality(S) - 1
  BY FS_RemoveElement
<1>2. Cardinality(S) \in Nat /\ Cardinality(S \ {x}) \in Nat
  BY <1>1, FS_CardinalityType
<1> QED BY <1>1, <1>2

\* What a sum over subsets is.
LEMMA SumsUpTo ==
    ASSUME NEW g, NEW f, NEW S, SumsUp(g, f, S), NEW s, s \subseteq S
    PROVE  /\ s = {} => g[s] = 0
           /\ s # {} => Some(s) \in s /\ g[s] = f[Some(s)] + g[s \ {Some(s)}]
<1>1. s \in SUBSET S
  OBVIOUS
<1>2. g[s] = IF s = {} THEN 0 ELSE f[Some(s)] + g[s \ {Some(s)}]
  BY <1>1, Zenon DEF SumsUp
<1>3. s # {} => Some(s) \in s
  BY DEF Some
<1> QED BY <1>2, <1>3

\* Two sums agree where both are defined.
LEMMA SumsAgree ==
    ASSUME NEW f, NEW g, NEW S, SumsUp(g, f, S), NEW h, NEW T, SumsUp(h, f, T),
           NEW s, s \subseteq S, s \subseteq T, IsFiniteSet(s)
    PROVE  g[s] = h[s]
<1> DEFINE Bad == {n \in Nat : \E u \in SUBSET s : Cardinality(u) = n /\ g[u] # h[u]}
<1> SUFFICES ASSUME g[s] # h[s] PROVE FALSE
  OBVIOUS
<1>1. Cardinality(s) \in Bad
  BY FS_CardinalityType
<1>2. PICK n \in Bad : \A y \in Bad : n <= y
  <2>1. Bad \subseteq Nat /\ Bad # {}
    BY <1>1
  <2> HIDE DEF Bad
  <2> QED BY <2>1, LeastNat
<1>0. n \in Nat
  BY <1>2
<1>3. PICK u \in SUBSET s : Cardinality(u) = n /\ g[u] # h[u]
  BY <1>2
<1>4. /\ IsFiniteSet(u) /\ u \subseteq S /\ u \subseteq T
  BY <1>3, FS_Subset
<1>5. u # {}
  <2> SUFFICES ASSUME u = {} PROVE FALSE
    OBVIOUS
  <2>1. g[u] = 0 /\ h[u] = 0
    BY <1>4, SumsUpTo
  <2> QED BY <1>3, <2>1
<1> DEFINE x == Some(u)
           v == u \ {x}
<1>6. x \in u /\ g[u] = f[x] + g[v] /\ h[u] = f[x] + h[v]
  BY <1>4, <1>5, SumsUpTo
<1>7. Cardinality(v) \in Nat /\ Cardinality(v) < n
  BY <1>3, <1>4, <1>6, Smaller
<1>8. g[v] # h[v]
  BY <1>3, <1>6
<1>9. v \in SUBSET s
  OBVIOUS
<1> HIDE DEF x, v
<1>10. Cardinality(v) \in Bad
  BY <1>7, <1>8, <1>9
<1> HIDE DEF Bad
<1> QED BY <1>0, <1>2, <1>7, <1>10

\* Every finite set has a sum.
LEMMA SumExists ==
    ASSUME NEW f, NEW S, IsFiniteSet(S)
    PROVE  \E g : SumsUp(g, f, S)
<1> DEFINE Bad == {n \in Nat : \E u \in SUBSET S : Cardinality(u) = n /\ ~\E g : SumsUp(g, f, u)}
<1> SUFFICES ASSUME ~\E g : SumsUp(g, f, S) PROVE FALSE
  OBVIOUS
<1>1. Cardinality(S) \in Bad
  BY FS_CardinalityType
<1>2. PICK n \in Bad : \A y \in Bad : n <= y
  <2>1. Bad \subseteq Nat /\ Bad # {}
    BY <1>1
  <2> HIDE DEF Bad
  <2> QED BY <2>1, LeastNat
<1>0. n \in Nat
  BY <1>2
<1>3. PICK u \in SUBSET S : Cardinality(u) = n /\ ~\E g : SumsUp(g, f, u)
  BY <1>2
<1>4. IsFiniteSet(u) /\ \A v \in SUBSET u : IsFiniteSet(v)
  BY <1>3, FS_Subset
<1>5. ASSUME NEW v \in SUBSET u, v # u PROVE SumsUp(CHOOSE g : SumsUp(g, f, v), f, v)
  <2>1. Cardinality(v) \in Nat /\ Cardinality(v) < n
    <3>1. Cardinality(v) <= Cardinality(u) /\ Cardinality(v) # Cardinality(u)
      BY <1>4, <1>5, FS_Subset
    <3>2. Cardinality(v) \in Nat /\ Cardinality(u) \in Nat
      BY <1>4, FS_CardinalityType
    <3> QED BY <1>3, <3>1, <3>2
  <2>2. Cardinality(v) \notin Bad
    <3> HIDE DEF Bad
    <3> QED BY <1>0, <1>2, <2>1
  <2>3. \E g : SumsUp(g, f, v)
    <3>1. v \in SUBSET S
      BY <1>3
    <3> QED BY <2>1, <2>2, <3>1
  <2> QED BY <2>3
<1> DEFINE sum(v) == (CHOOSE g : SumsUp(g, f, v))[v]
           g == [v \in SUBSET u |-> IF v = {} THEN 0 ELSE f[Some(v)] + sum(v \ {Some(v)})]
<1>6. ASSUME NEW v \in SUBSET u, v # u PROVE g[v] = sum(v)
  <2> DEFINE h == CHOOSE h : SumsUp(h, f, v)
  <2>1. SumsUp(h, f, v)
    BY <1>5, <1>6
  <2>2. CASE v = {}
    <3>1. h[v] = 0
      <4>1. v \subseteq v
        OBVIOUS
      <4> HIDE DEF h
      <4> QED BY <2>1, <2>2, <4>1, SumsUpTo
    <3> QED BY <2>2, <3>1
  <2>3. CASE v # {}
    <3> DEFINE x == Some(v)
               w == v \ {x}
               k == CHOOSE k : SumsUp(k, f, w)
    <3>1. x \in v /\ h[v] = f[x] + h[w]
      <4>1. v \subseteq v
        OBVIOUS
      <4> HIDE DEF h
      <4> QED BY <2>1, <2>3, <4>1, SumsUpTo
    <3>2. w \in SUBSET u /\ w # u
      BY <3>1
    <3>3. SumsUp(k, f, w) /\ IsFiniteSet(w)
      BY <1>4, <1>5, <3>2
    <3>4. h[w] = k[w]
      <4>1. w \subseteq v /\ w \subseteq w
        OBVIOUS
      <4> HIDE DEF h, k, w
      <4> QED BY <2>1, <3>3, <4>1, SumsAgree
    <3>5. g[v] = f[x] + k[w]
      BY <2>3
    <3> QED BY <3>1, <3>4, <3>5
  <2> QED BY <2>2, <2>3
<1>7. ASSUME NEW v \in SUBSET u
      PROVE  g[v] = IF v = {} THEN 0 ELSE f[Some(v)] + g[v \ {Some(v)}]
  <2>1. CASE v = {}
    BY <2>1
  <2>2. CASE v # {}
    <3> DEFINE x == Some(v)
               w == v \ {x}
    <3>1. x \in v
      BY <2>2 DEF Some
    <3>2. w \in SUBSET u /\ w # u
      BY <3>1
    <3>3. g[w] = sum(w)
      BY <1>6, <3>2
    <3>4. g[v] = f[x] + sum(w)
      BY <2>2
    <3> QED BY <2>2, <3>3, <3>4
  <2> QED BY <2>1, <2>2
<1>8. g = [v \in SUBSET u |-> IF v = {} THEN 0 ELSE f[Some(v)] + g[v \ {Some(v)}]]
  <2>1. g = [v \in SUBSET u |-> g[v]]
    OBVIOUS
  <2> HIDE DEF g
  <2> QED BY <1>7, <2>1
<1>9. SumsUp(g, f, u)
  BY <1>8, Zenon DEF SumsUp
<1> QED BY <1>3, <1>9

\* The total of a set is the choice of one of its members and the total of the others.
LEMMA TotalChoice ==
    ASSUME NEW f, NEW S, IsFiniteSet(S)
    PROVE  /\ S = {} => Total(f, S) = 0
           /\ S # {} => Some(S) \in S /\ Total(f, S) = f[Some(S)] + Total(f, S \ {Some(S)})
<1> DEFINE g == CHOOSE g : SumsUp(g, f, S)
           x == Some(S)
           T == S \ {x}
           h == CHOOSE h : SumsUp(h, f, T)
<1>1. SumsUp(g, f, S) /\ Total(f, S) = g[S]
  BY SumExists DEF Total
<1>2. IsFiniteSet(T) /\ T \subseteq S
  BY FS_Subset
<1>3. SumsUp(h, f, T) /\ Total(f, T) = h[T]
  BY <1>2, SumExists DEF Total
<1> HIDE DEF g, h
<1>4. g[T] = h[T]
  <2> HIDE DEF T
  <2> QED BY <1>1, <1>2, <1>3, SumsAgree
<1>5. /\ S = {} => g[S] = 0
      /\ S # {} => x \in S /\ g[S] = f[x] + g[T]
  BY <1>1, SumsUpTo
<1> QED BY <1>1, <1>3, <1>4, <1>5

\* f has natural values on S
Counts(f, S) == \A x \in S : f[x] \in Nat

\* The total does not depend on the order: any member can be taken first.
LEMMA TotalSplits ==
    ASSUME NEW f, NEW S, IsFiniteSet(S), Counts(f, S)
    PROVE  Total(f, S) \in Nat /\ \A x \in S : Total(f, S) = f[x] + Total(f, S \ {x})
<1> DEFINE Good(u) == Total(f, u) \in Nat /\ \A x \in u : Total(f, u) = f[x] + Total(f, u \ {x})
           Bad == {n \in Nat : \E u \in SUBSET S : Cardinality(u) = n /\ ~Good(u)}
<1> SUFFICES ASSUME ~Good(S) PROVE FALSE
  OBVIOUS
<1>1. Cardinality(S) \in Bad
  BY FS_CardinalityType
<1>2. PICK n \in Bad : \A y \in Bad : n <= y
  <2>1. Bad \subseteq Nat /\ Bad # {}
    BY <1>1
  <2> HIDE DEF Bad
  <2> QED BY <2>1, LeastNat
<1>0. n \in Nat
  BY <1>2
<1>3. PICK u \in SUBSET S : Cardinality(u) = n /\ ~Good(u)
  BY <1>2
<1>4. IsFiniteSet(u) /\ \A x \in u : f[x] \in Nat
  BY <1>3, FS_Subset DEF Counts
<1>5. ASSUME NEW x \in u PROVE Good(u \ {x})
  <2>1. Cardinality(u \ {x}) \in Nat /\ Cardinality(u \ {x}) < n
    BY <1>3, <1>4, Smaller
  <2>2. u \ {x} \in SUBSET S
    BY <1>3
  <2>3. Cardinality(u \ {x}) \notin Bad
    <3> HIDE DEF Bad
    <3> QED BY <1>0, <1>2, <2>1
  <2> HIDE DEF Good
  <2> QED BY <2>1, <2>2, <2>3
<1>6. CASE u = {}
  <2>1. Total(f, u) = 0
    BY <1>4, <1>6, TotalChoice
  <2> QED BY <1>3, <1>6, <2>1
<1>7. CASE u # {}
  <2> DEFINE c == Some(u)
  <2>1. c \in u /\ Total(f, u) = f[c] + Total(f, u \ {c})
    BY <1>4, <1>7, TotalChoice
  <2> HIDE DEF c
  <2>2. Total(f, u \ {c}) \in Nat /\ f[c] \in Nat
    BY <1>4, <1>5, <2>1
  <2>3. ASSUME NEW x \in u, x # c PROVE Total(f, u) = f[x] + Total(f, u \ {x})
    <3>1. x \in u \ {c} /\ c \in u \ {x} /\ f[x] \in Nat
      BY <1>4, <2>1, <2>3
    <3>2. (u \ {c}) \ {x} = (u \ {x}) \ {c}
      OBVIOUS
    <3>3. Total(f, u \ {c}) = f[x] + Total(f, (u \ {c}) \ {x})
      BY <1>5, <2>1, <3>1
    <3>4. Total(f, u \ {x}) = f[c] + Total(f, (u \ {x}) \ {c})
      BY <1>5, <3>1
    <3>5. Total(f, u \ {x}) \in Nat /\ Total(f, u \ {c}) \in Nat
      BY <1>5, <2>1
    <3>6. (u \ {c}) \ {x} \subseteq S /\ Total(f, (u \ {c}) \ {x}) \in Int
      <4>1. x \in u /\ c \in u /\ (u \ {c}) \in SUBSET S
        BY <1>3, <2>1
      <4>2. IsFiniteSet(u \ {c}) /\ Cardinality(u \ {c}) \in Nat /\ Cardinality(u \ {c}) < n
        BY <1>3, <1>4, <2>1, Smaller
      <4>3. /\ Cardinality((u \ {c}) \ {x}) \in Nat
            /\ Cardinality((u \ {c}) \ {x}) < Cardinality(u \ {c})
        BY <3>1, <4>2, Smaller
      <4>4. Cardinality((u \ {c}) \ {x}) \notin Bad
        <5> HIDE DEF Bad
        <5> QED BY <1>0, <1>2, <4>2, <4>3
      <4>5. (u \ {c}) \ {x} \in SUBSET S
        BY <4>1
      <4>6. Good((u \ {c}) \ {x})
        <5> HIDE DEF Good
        <5> QED BY <4>3, <4>4, <4>5
      <4> QED BY <4>5, <4>6
    <3> DEFINE w == Total(f, (u \ {c}) \ {x})
    <3>7. w \in Int /\ Total(f, u \ {c}) = f[x] + w /\ Total(f, u \ {x}) = f[c] + w
      BY <3>2, <3>3, <3>4, <3>6
    <3> HIDE DEF w
    <3> QED BY <2>1, <2>2, <3>1, <3>7
  <2>4. Good(u)
    BY <2>1, <2>2, <2>3
  <2> QED BY <1>3, <2>4
<1> QED BY <1>6, <1>7

\* A part has no more than the whole.
LEMMA TotalGrows ==
    ASSUME NEW f, NEW S, IsFiniteSet(S), Counts(f, S), NEW T, T \subseteq S
    PROVE  Total(f, T) <= Total(f, S) /\ Total(f, T) \in Nat /\ Total(f, S) \in Nat
<1> DEFINE Good(u) == T \subseteq u => Total(f, T) <= Total(f, u)
           Bad == {n \in Nat : \E u \in SUBSET S : Cardinality(u) = n /\ ~Good(u)}
<1>a. \A u \in SUBSET S : IsFiniteSet(u) /\ Counts(f, u)
  BY FS_Subset DEF Counts
<1>b. \A u \in SUBSET S : Total(f, u) \in Nat
  BY <1>a, TotalSplits
<1> SUFFICES ASSUME ~Good(S) PROVE FALSE
  BY <1>b
<1>1. Cardinality(S) \in Bad
  BY FS_CardinalityType
<1>2. PICK n \in Bad : \A y \in Bad : n <= y
  <2>1. Bad \subseteq Nat /\ Bad # {}
    BY <1>1
  <2> HIDE DEF Bad
  <2> QED BY <2>1, LeastNat
<1>0. n \in Nat
  BY <1>2
<1>3. PICK u \in SUBSET S : Cardinality(u) = n /\ ~Good(u)
  BY <1>2
<1>4. T # u
  BY <1>3, <1>b
<1>5. PICK x \in u : x \notin T
  BY <1>3, <1>4
<1>6. Cardinality(u \ {x}) \in Nat /\ Cardinality(u \ {x}) < n
  BY <1>3, <1>a, <1>5, Smaller
<1>7. u \ {x} \in SUBSET S /\ T \subseteq u \ {x}
  BY <1>3, <1>5
<1>8. Cardinality(u \ {x}) \notin Bad
  <2> HIDE DEF Bad
  <2> QED BY <1>0, <1>2, <1>6
<1>9. Total(f, T) <= Total(f, u \ {x})
  <2>1. Good(u \ {x})
    <3> HIDE DEF Good
    <3> QED BY <1>6, <1>7, <1>8
  <2> QED BY <1>7, <2>1
<1>10. Total(f, u) = f[x] + Total(f, u \ {x}) /\ f[x] \in Nat
  BY <1>5, <1>a, TotalSplits DEF Counts
<1>11. Total(f, T) \in Nat /\ Total(f, u) \in Nat /\ Total(f, u \ {x}) \in Nat
  BY <1>3, <1>7, <1>b
<1> QED BY <1>3, <1>9, <1>10, <1>11

(* Payloads in the send buffer.                                            *)

\* Payloads at off of len bytes do not overlap.
Apart(off, len, S) ==
    \A i, j \in S : i # j /\ len[i] > 0 /\ len[j] > 0 =>
        off[i] + len[i] <= off[j] \/ off[j] + len[j] <= off[i]

\* Payloads that do not overlap and end at o have at most o bytes.
LEMMA TotalApart ==
    ASSUME NEW S, IsFiniteSet(S), NEW len, Counts(len, S), NEW off, Counts(off, S),
           Apart(off, len, S), NEW o \in Nat, \A i \in S : len[i] > 0 => off[i] + len[i] <= o
    PROVE  Total(len, S) <= o
<1> DEFINE Good(u) == \A b \in Nat : (\A i \in u : len[i] > 0 => off[i] + len[i] <= b) => Total(len, u) <= b
           Bad == {n \in Nat : \E u \in SUBSET S : Cardinality(u) = n /\ ~Good(u)}
<1>a. \A u \in SUBSET S : IsFiniteSet(u) /\ Counts(len, u)
  BY FS_Subset DEF Counts
<1>b. \A u \in SUBSET S : Total(len, u) \in Nat
  BY <1>a, TotalSplits
<1> SUFFICES ASSUME ~Good(S) PROVE FALSE
  OBVIOUS
<1>1. Cardinality(S) \in Bad
  BY FS_CardinalityType
<1>2. PICK n \in Bad : \A y \in Bad : n <= y
  <2>1. Bad \subseteq Nat /\ Bad # {}
    BY <1>1
  <2> HIDE DEF Bad
  <2> QED BY <2>1, LeastNat
<1>0. n \in Nat
  BY <1>2
<1>3. PICK u \in SUBSET S : Cardinality(u) = n /\ ~Good(u)
  BY <1>2
<1>4. PICK b \in Nat : (\A i \in u : len[i] > 0 => off[i] + len[i] <= b) /\ ~(Total(len, u) <= b)
  BY <1>3
<1>5. \A i \in u : len[i] \in Nat /\ off[i] \in Nat
  BY <1>3 DEF Counts
<1>6. ASSUME NEW x \in u PROVE Good(u \ {x}) /\ Total(len, u) = len[x] + Total(len, u \ {x})
  <2>1. Cardinality(u \ {x}) \in Nat /\ Cardinality(u \ {x}) < n
    BY <1>3, <1>a, Smaller
  <2>2. u \ {x} \in SUBSET S
    BY <1>3
  <2>3. Cardinality(u \ {x}) \notin Bad
    <3> HIDE DEF Bad
    <3> QED BY <1>0, <1>2, <2>1
  <2>4. Good(u \ {x})
    <3> HIDE DEF Good
    <3> QED BY <2>1, <2>2, <2>3
  <2>5. Total(len, u) = len[x] + Total(len, u \ {x})
    BY <1>a, TotalSplits
  <2> HIDE DEF Good
  <2> QED BY <2>4, <2>5
<1>7. CASE \E x \in u : len[x] = 0
  <2>1. PICK x \in u : len[x] = 0
    BY <1>7
  <2>2. u \ {x} \in SUBSET S /\ Total(len, u \ {x}) \in Nat
    BY <1>3, <1>b
  <2>3. Total(len, u \ {x}) <= b
    BY <1>4, <1>6
  <2> QED BY <1>4, <1>6, <2>1, <2>2, <2>3
<1>8. CASE u = {}
  <2>1. Total(len, u) = 0
    BY <1>8, <1>a, TotalChoice
  <2> QED BY <1>4, <2>1
<1>9. CASE u # {} /\ \A x \in u : len[x] > 0
  <2> DEFINE R == {b - off[x] : x \in u}
  <2>1. \A x \in u : off[x] + len[x] <= b
    BY <1>4, <1>9
  <2>2. \A x \in u : b - off[x] \in Nat
    BY <1>5, <2>1
  <2>3. R \subseteq Nat /\ R # {}
    BY <1>9, <2>2
  <2>4. PICK r \in R : \A y \in R : r <= y
    <3> HIDE DEF R
    <3> QED BY <2>3, LeastNat
  <2>5. PICK x \in u : r = b - off[x]
    BY <2>4
  <2>6. \A y \in u : b - off[x] <= b - off[y]
    BY <2>4, <2>5
  <2>7. \A y \in u : off[y] <= off[x]
    BY <1>5, <2>6
  <2>8. ASSUME NEW y \in u \ {x} PROVE off[y] + len[y] <= off[x]
    <3>1. off[y] + len[y] <= off[x] \/ off[x] + len[x] <= off[y]
      BY <1>3, <1>9 DEF Apart
    <3>2. /\ off[y] \in Nat /\ len[y] \in Nat /\ off[x] \in Nat /\ len[x] \in Nat
          /\ len[x] > 0 /\ off[y] <= off[x]
      BY <1>5, <1>9, <2>7
    <3> QED BY <3>1, <3>2
  <2>9. Total(len, u \ {x}) <= off[x]
    BY <1>5, <1>6, <2>8
  <2>10. u \ {x} \in SUBSET S /\ Total(len, u \ {x}) \in Nat
    BY <1>3, <1>b
  <2>11. /\ Total(len, u) = len[x] + Total(len, u \ {x}) /\ off[x] + len[x] <= b
         /\ off[x] \in Nat /\ len[x] \in Nat
    BY <1>5, <1>6, <2>1
  <2> QED BY <1>4, <2>9, <2>10, <2>11
<1>10. \A x \in u : len[x] = 0 \/ len[x] > 0
  BY <1>5
<1> QED BY <1>7, <1>8, <1>9, <1>10

\* the numbers in a payload follow one another
Intact(data, off, len) ==
    \A k \in 1 .. len - 1 : data[off + k] = <<data[off + k - 1][1], data[off + k - 1][2] + 1>>

\* The live payloads lie in data at off, below top, whole and apart.
Lies(data, off, top) ==
    /\ data \in [Cells -> Nat \X Nat] /\ off \in [Slots -> 0 .. BufSize] /\ top \in 0 .. BufSize
    /\ \A i \in Live : off[i] + tx_len[i] <= top /\ Intact(data, off[i], tx_len[i])
    /\ Apart(off, tx_len, Live)

BufferInv ==
    /\ tx_kind \in [Slots -> Kinds] /\ tx_len \in [Slots -> 0 .. MaxPayload]
    /\ Lies(tx_data, tx_off, write_pos)
    /\ sends \in Seq([kind : {"Message", "Eos"}, len : Nat, ok : BOOLEAN])

\* What the buffer holds is what PayloadIntact says of it.
LEMMA BufferIsIntact == ASSUME BufferInv PROVE PayloadIntact
<1> SUFFICES ASSUME NEW i \in Live, NEW k \in 1 .. tx_len[i] - 1
             PROVE  Payload(i).bytes[k + 1] =
                       <<Payload(i).bytes[k][1], Payload(i).bytes[k][2] + 1>>
  BY DEF PayloadIntact
<1>1. i \in Slots /\ tx_len[i] \in Nat /\ tx_off[i] \in Nat /\ Intact(tx_data, tx_off[i], tx_len[i])
  BY TxAssumption DEF Live, BufferInv, Lies
<1>2. k \in 1 .. tx_len[i] /\ k + 1 \in 1 .. tx_len[i] /\ k \in Nat
  BY <1>1
<1>3. tx_off[i] + (k + 1) - 1 = tx_off[i] + k
  BY <1>1, <1>2
<1>4. Payload(i).bytes = [j \in 1 .. tx_len[i] |-> tx_data[tx_off[i] + j - 1]]
  BY DEF Payload
<1>5. /\ Payload(i).bytes[k] = tx_data[tx_off[i] + k - 1]
      /\ Payload(i).bytes[k + 1] = tx_data[tx_off[i] + k]
  BY <1>2, <1>3, <1>4
<1>6. tx_data[tx_off[i] + k] = <<tx_data[tx_off[i] + k - 1][1], tx_data[tx_off[i] + k - 1][2] + 1>>
  BY <1>1 DEF Intact
<1> QED BY <1>5, <1>6

(* compact                                                                 *)

\* The live slots and their lengths.
LEMMA LiveSlots ==
    ASSUME BufferInv
    PROVE  /\ Live \subseteq Slots /\ IsFiniteSet(Live) /\ Counts(tx_len, Live) /\ Counts(tx_off, Live)
           /\ \A i \in Live : IsFiniteSet(Before(i)) /\ Before(i) \subseteq Live /\ i \notin Before(i)
           /\ Slots \subseteq Nat /\ BufSize \in Nat /\ MaxPayload \in Nat
<1>1. Live \subseteq Slots /\ Slots \subseteq Nat /\ BufSize \in Nat /\ MaxPayload \in Nat
  BY TxAssumption DEF Live, Slots
<1>2. IsFiniteSet(Live)
  BY <1>1, SlotsAreFinite
<1>3. \A i \in Slots : tx_len[i] \in Nat /\ tx_off[i] \in Nat
  BY <1>1 DEF BufferInv, Lies
<1>4. Counts(tx_len, Live) /\ Counts(tx_off, Live)
  BY <1>1, <1>3 DEF Counts
<1>5. ASSUME NEW i \in Live PROVE Before(i) \subseteq Live /\ i \notin Before(i)
  BY <1>1, <1>3 DEF Before
<1>6. \A i \in Live : IsFiniteSet(Before(i))
  BY <1>2, <1>5, FS_Subset
<1> QED BY <1>1, <1>2, <1>4, <1>5, <1>6

\* A payload that comes before another one moves to before it.
LEMMA CompactOrder ==
    ASSUME BufferInv, NEW i \in Live, NEW j \in Live, j \in Before(i)
    PROVE  /\ CompactOff[j] \in Nat /\ CompactOff[i] \in Nat
           /\ CompactOff[j] + tx_len[j] <= CompactOff[i]
<1> DEFINE S == Before(j) \cup {j}
<1>1. /\ CompactOff[i] = Total(tx_len, Before(i)) /\ CompactOff[j] = Total(tx_len, Before(j))
  BY LiveSlots, BytesIs DEF CompactOff
<1>2. S \subseteq Before(i)
  <2> SUFFICES ASSUME NEW k \in Before(j) PROVE k \in Before(i)
    OBVIOUS
  <2>1. /\ i \in Nat /\ j \in Nat /\ k \in Nat /\ k \in Live
        /\ tx_off[i] \in Nat /\ tx_off[j] \in Nat /\ tx_off[k] \in Nat
    BY LiveSlots DEF Counts
  <2>2. tx_off[k] < tx_off[j] \/ (tx_off[k] = tx_off[j] /\ k < j)
    BY DEF Before
  <2>3. tx_off[j] < tx_off[i] \/ (tx_off[j] = tx_off[i] /\ j < i)
    BY DEF Before
  <2>4. tx_off[k] < tx_off[i] \/ (tx_off[k] = tx_off[i] /\ k < i)
    BY <2>1, <2>2, <2>3
  <2> QED BY <2>1, <2>4 DEF Before
<1>3. /\ IsFiniteSet(Before(i)) /\ Counts(tx_len, Before(i)) /\ IsFiniteSet(S) /\ Counts(tx_len, S)
  BY <1>2, LiveSlots, FS_Subset DEF Counts
<1>4. S \ {j} = Before(j) /\ j \in S
  BY LiveSlots
<1>5. Total(tx_len, S) = tx_len[j] + Total(tx_len, Before(j))
  BY <1>3, <1>4, TotalSplits
<1>6. Total(tx_len, S) <= Total(tx_len, Before(i)) /\ Total(tx_len, Before(i)) \in Nat
  BY <1>2, <1>3, TotalGrows
<1>7. Total(tx_len, Before(j)) \in Nat /\ tx_len[j] \in Nat
  <2>1. Counts(tx_len, Before(j)) /\ IsFiniteSet(Before(j))
    BY LiveSlots DEF Counts
  <2> QED BY <2>1, LiveSlots, TotalSplits DEF Counts
<1> QED BY <1>1, <1>5, <1>6, <1>7

\* All live payloads fit below their total, which is no more than before.
LEMMA CompactFits ==
    ASSUME BufferInv
    PROVE  /\ Bytes(Live) \in Nat /\ Bytes(Live) <= write_pos
           /\ \A i \in Live : CompactOff[i] \in Nat /\ CompactOff[i] + tx_len[i] <= Bytes(Live)
<1>1. Bytes(Live) = Total(tx_len, Live)
  BY BytesIs
<1>2. Total(tx_len, Live) \in Nat
  BY LiveSlots, TotalSplits
<1>3. Total(tx_len, Live) <= write_pos
  <2>1. write_pos \in Nat /\ \A i \in Live : tx_len[i] > 0 => tx_off[i] + tx_len[i] <= write_pos
    BY LiveSlots DEF BufferInv, Lies
  <2>2. Apart(tx_off, tx_len, Live)
    BY DEF BufferInv, Lies
  <2> QED BY <2>1, <2>2, LiveSlots, TotalApart
<1>4. ASSUME NEW i \in Live PROVE CompactOff[i] \in Nat /\ CompactOff[i] + tx_len[i] <= Bytes(Live)
  <2> DEFINE S == Before(i) \cup {i}
  <2>1. CompactOff[i] = Total(tx_len, Before(i))
    BY LiveSlots, BytesIs DEF CompactOff
  <2>2. S \subseteq Live /\ IsFiniteSet(S) /\ Counts(tx_len, S) /\ i \in S /\ S \ {i} = Before(i)
    BY LiveSlots, FS_Subset DEF Counts
  <2>3. Total(tx_len, S) = tx_len[i] + Total(tx_len, Before(i))
    <3> HIDE DEF S
    <3> QED BY <2>2, TotalSplits
  <2>4. Total(tx_len, S) <= Total(tx_len, Live)
    <3> HIDE DEF S
    <3> QED BY <2>2, LiveSlots, TotalGrows
  <2>5. Total(tx_len, Before(i)) \in Nat /\ tx_len[i] \in Nat
    <3>1. Counts(tx_len, Before(i)) /\ IsFiniteSet(Before(i))
      BY LiveSlots DEF Counts
    <3> QED BY <3>1, LiveSlots, TotalSplits DEF Counts
  <2> QED BY <1>1, <1>2, <2>1, <2>3, <2>4, <2>5
<1> QED BY <1>1, <1>2, <1>3, <1>4

\* Payloads that have moved do not overlap.
LEMMA CompactApart ==
    ASSUME BufferInv
    PROVE  \A i, j \in Live : i # j =>
              \/ CompactOff[j] + tx_len[j] <= CompactOff[i]
              \/ CompactOff[i] + tx_len[i] <= CompactOff[j]
<1> SUFFICES ASSUME NEW i \in Live, NEW j \in Live, i # j
             PROVE  \/ CompactOff[j] + tx_len[j] <= CompactOff[i]
                    \/ CompactOff[i] + tx_len[i] <= CompactOff[j]
  OBVIOUS
<1>1. i \in Nat /\ j \in Nat /\ tx_off[i] \in Nat /\ tx_off[j] \in Nat
  BY LiveSlots DEF Counts
<1>2. \/ tx_off[j] < tx_off[i] \/ (tx_off[j] = tx_off[i] /\ j < i)
      \/ tx_off[i] < tx_off[j] \/ (tx_off[i] = tx_off[j] /\ i < j)
  BY <1>1
<1>3. j \in Before(i) \/ i \in Before(j)
  BY <1>2 DEF Before
<1> QED BY <1>3, CompactOrder

\* Each cell of a payload that has moved holds the byte it held before.
LEMMA CompactMoves ==
    ASSUME BufferInv
    PROVE  /\ CompactData \in [Cells -> Nat \X Nat]
           /\ \A i \in Live : \A k \in 0 .. tx_len[i] - 1 :
                 CompactData[CompactOff[i] + k] = tx_data[tx_off[i] + k]
<1> DEFINE Owner(c) == {i \in Live : c - CompactOff[i] \in 0 .. (tx_len[i] - 1)}
           moved(c) == IF Owner(c) = {} THEN tx_data[c]
                       ELSE LET i == CHOOSE i \in Owner(c) : TRUE
                            IN  tx_data[tx_off[i] + (c - CompactOff[i])]
<1>1. CompactData = [c \in Cells |-> moved(c)]
  BY DEF CompactData
<1>2. ASSUME NEW i \in Live, NEW k \in 0 .. tx_len[i] - 1
      PROVE  /\ CompactOff[i] + k \in Cells /\ tx_off[i] + k \in Cells
             /\ moved(CompactOff[i] + k) = tx_data[tx_off[i] + k]
  <2>1. /\ tx_len[i] \in Nat /\ tx_off[i] \in Nat /\ CompactOff[i] \in Nat /\ k \in Nat
        /\ tx_off[i] + tx_len[i] <= write_pos /\ CompactOff[i] + tx_len[i] <= write_pos
        /\ write_pos \in Nat /\ write_pos <= BufSize /\ BufSize \in Nat
    <3>1. /\ tx_off[i] + tx_len[i] <= write_pos /\ write_pos \in 0 .. BufSize
      BY DEF BufferInv, Lies
    <3>2. /\ Bytes(Live) \in Nat /\ Bytes(Live) <= write_pos
          /\ CompactOff[i] \in Nat /\ CompactOff[i] + tx_len[i] <= Bytes(Live)
      BY CompactFits
    <3>3. tx_len[i] \in Nat /\ tx_off[i] \in Nat /\ BufSize \in Nat
      BY LiveSlots DEF Counts
    <3> QED BY <3>1, <3>2, <3>3
  <2>2. CompactOff[i] + k \in Cells /\ tx_off[i] + k \in Cells
    BY <2>1 DEF Cells
  <2> DEFINE c == CompactOff[i] + k
  <2>3. c - CompactOff[i] = k
    BY <2>1
  <2>4. i \in Owner(c)
    BY <2>3
  <2>5. ASSUME NEW j \in Owner(c) PROVE j = i
    <3> SUFFICES ASSUME j # i PROVE FALSE
      OBVIOUS
    <3>1. j \in Live /\ c - CompactOff[j] \in 0 .. tx_len[j] - 1
      OBVIOUS
    <3>2. \/ CompactOff[j] + tx_len[j] <= CompactOff[i]
          \/ CompactOff[i] + tx_len[i] <= CompactOff[j]
      BY <3>1, CompactApart
    <3>3. CompactOff[j] \in Nat /\ tx_len[j] \in Nat
      BY <3>1, CompactFits, LiveSlots DEF Counts
    <3> QED BY <2>1, <3>1, <3>2, <3>3
  <2>6. Owner(c) = {i}
    BY <2>4, <2>5
  <2>7. (CHOOSE j \in Owner(c) : TRUE) = i /\ Owner(c) # {}
    BY <2>6
  <2>8. moved(c) = tx_data[tx_off[i] + (c - CompactOff[i])]
    <3> HIDE DEF Owner, c
    <3> QED BY <2>7
  <2> QED BY <2>2, <2>3, <2>8
<1>3. ASSUME NEW c \in Cells PROVE moved(c) \in Nat \X Nat
  <2>1. \A d \in Cells : tx_data[d] \in Nat \X Nat
    BY DEF BufferInv, Lies
  <2>2. CASE Owner(c) = {}
    BY <2>1, <2>2
  <2>3. CASE Owner(c) # {}
    <3> DEFINE i == CHOOSE i \in Owner(c) : TRUE
    <3>1. i \in Live /\ c - CompactOff[i] \in 0 .. (tx_len[i] - 1)
      BY <2>3
    <3>2. moved(c) = tx_data[tx_off[i] + (c - CompactOff[i])]
      BY <2>3
    <3> HIDE DEF i, moved
    <3>3. tx_off[i] + (c - CompactOff[i]) \in Cells
      BY <1>2, <3>1
    <3> QED BY <2>1, <3>2, <3>3
  <2> QED BY <2>2, <2>3
<1> HIDE DEF moved
<1> QED BY <1>1, <1>2, <1>3

\* compact: the live payloads lie at the front of the buffer, as they were.
LEMMA CompactLies ==
    ASSUME BufferInv PROVE Lies(CompactData, CompactOff, Bytes(Live))
<1>1. Bytes(Live) \in 0 .. BufSize /\ BufSize \in Nat
  <2>1. write_pos \in 0 .. BufSize /\ BufSize \in Nat
    BY LiveSlots DEF BufferInv, Lies
  <2> QED BY <2>1, CompactFits
<1>2. CompactOff \in [Slots -> 0 .. BufSize]
  <2>1. ASSUME NEW i \in Live PROVE CompactOff[i] \in 0 .. BufSize
    <3>1. tx_len[i] \in Nat /\ CompactOff[i] \in Nat /\ CompactOff[i] + tx_len[i] <= Bytes(Live)
      BY CompactFits, LiveSlots DEF Counts
    <3> QED BY <1>1, <3>1
  <2>2. \A i \in Slots \ Live : CompactOff[i] = tx_off[i] /\ tx_off[i] \in 0 .. BufSize
    BY DEF CompactOff, BufferInv, Lies
  <2>3. CompactOff = [i \in Slots |-> CompactOff[i]]
    BY DEF CompactOff
  <2> QED BY <2>1, <2>2, <2>3
<1>3. ASSUME NEW i \in Live PROVE Intact(CompactData, CompactOff[i], tx_len[i])
  <2> SUFFICES ASSUME NEW k \in 1 .. tx_len[i] - 1
               PROVE  CompactData[CompactOff[i] + k] =
                        <<CompactData[CompactOff[i] + k - 1][1], CompactData[CompactOff[i] + k - 1][2] + 1>>
    BY DEF Intact
  <2>1. tx_len[i] \in Nat /\ CompactOff[i] \in Nat /\ tx_off[i] \in Nat
    BY CompactFits, LiveSlots DEF Counts
  <2>2. /\ k \in 0 .. tx_len[i] - 1 /\ k - 1 \in 0 .. tx_len[i] - 1
        /\ CompactOff[i] + (k - 1) = CompactOff[i] + k - 1 /\ tx_off[i] + (k - 1) = tx_off[i] + k - 1
    BY <2>1
  <2>3. CompactData[CompactOff[i] + k] = tx_data[tx_off[i] + k]
    BY <2>2, CompactMoves
  <2>4. CompactData[CompactOff[i] + k - 1] = tx_data[tx_off[i] + k - 1]
    BY <2>2, CompactMoves
  <2>5. tx_data[tx_off[i] + k] = <<tx_data[tx_off[i] + k - 1][1], tx_data[tx_off[i] + k - 1][2] + 1>>
    BY DEF BufferInv, Lies, Intact
  <2> QED BY <2>3, <2>4, <2>5
<1>4. Apart(CompactOff, tx_len, Live)
  BY CompactApart DEF Apart
<1> QED BY <1>1, <1>2, <1>3, <1>4, CompactFits, CompactMoves DEF Lies

(* The chunks of a message.                                                *)

\* A product grows with its factor.
LEMMA Multiples ==
    \A m \in Nat : \A a, b \in Nat : a <= b => a * m \in Nat /\ b * m \in Nat /\ a * m <= b * m
<1> SUFFICES ASSUME NEW m \in Nat, NEW a \in Nat, NEW b \in Nat, a <= b
             PROVE  a * m \in Nat /\ b * m \in Nat /\ a * m <= b * m
  OBVIOUS
<1>1. (b - a) \in Nat /\ (b - a) * m \in Nat /\ a * m \in Nat /\ b * m \in Nat
  OBVIOUS
<1>2. (b - a) * m = b * m - a * m
  OBVIOUS
<1> QED BY <1>1, <1>2

\* The chunks before the last one are full, and l lies in the last one.
LEMMA LastChunk ==
    ASSUME NEW l \in Nat
    PROVE  /\ ChunkCount(l) \in Nat \ {0}
           /\ (ChunkCount(l) - 1) * MaxPayload \in Nat /\ (ChunkCount(l) - 1) * MaxPayload <= l
           /\ l <= (ChunkCount(l) - 1) * MaxPayload + MaxPayload
<1>1. MaxPayload \in Nat /\ MaxPayload > 0
  BY TxAssumption
<1>2. CASE l <= MaxPayload
  <2>1. ChunkCount(l) = 1 /\ (1 - 1) * MaxPayload = 0
    BY <1>1, <1>2 DEF ChunkCount
  <2> QED BY <1>1, <1>2, <2>1
<1>3. CASE l > MaxPayload
  <2> DEFINE n == (l + MaxPayload - 1) \div MaxPayload
             r == (l + MaxPayload - 1) % MaxPayload
  <2>1. ChunkCount(l) = n
    BY <1>1, <1>3 DEF ChunkCount
  <2>2. n \in Int /\ r \in 0 .. MaxPayload - 1 /\ l + MaxPayload - 1 = n * MaxPayload + r
    <3>1. l + MaxPayload - 1 \in Int /\ MaxPayload \in Nat \ {0}
      BY <1>1
    <3>2. n \in Int /\ r \in 0 .. MaxPayload - 1 /\ l + MaxPayload - 1 = MaxPayload * n + r
      BY <3>1, DivMod
    <3> HIDE DEF n, r
    <3>3. MaxPayload * n = n * MaxPayload
      BY <1>1, <3>2
    <3> QED BY <3>2, <3>3
  <2> HIDE DEF n, r
  <2>3. (n - 1) * MaxPayload = n * MaxPayload - MaxPayload /\ n * MaxPayload \in Int
    BY <1>1, <2>2
  <2>4. n * MaxPayload = l + MaxPayload - 1 - r /\ n * MaxPayload > MaxPayload - 1
    BY <1>1, <1>3, <2>2, <2>3
  <2>5. n >= 1
    <3> SUFFICES ASSUME n <= 0 PROVE FALSE
      BY <2>2
    <3>1. (0 - n) \in Nat /\ (0 - n) * MaxPayload \in Nat /\ (0 - n) * MaxPayload = 0 - n * MaxPayload
      BY <1>1, <2>2
    <3> QED BY <1>1, <2>3, <2>4, <3>1
  <2>6. (n - 1) * MaxPayload \in Nat
    BY <1>1, <2>2, <2>5
  <2>7. n \in Nat \ {0}
    BY <2>2, <2>5
  <2> DEFINE p == (n - 1) * MaxPayload
  <2>8. p \in Nat /\ p = l - 1 - r
    BY <1>1, <2>2, <2>3, <2>4, <2>6
  <2> HIDE DEF p
  <2>9. p <= l /\ l <= p + MaxPayload
    BY <1>1, <2>2, <2>8
  <2> QED BY <2>1, <2>6, <2>7, <2>9 DEF p
<1> QED BY <1>1, <1>2, <1>3

\* A chunk has up to MaxPayload bytes and begins where the one before it ends.
LEMMA ChunkBounds ==
    ASSUME NEW l \in Nat, NEW j \in 1 .. ChunkCount(l)
    PROVE  /\ ChunkStart(j) \in Nat /\ ChunkEnd(l, j) \in Nat
           /\ ChunkEnd(l, j) - ChunkStart(j) \in 0 .. MaxPayload
           /\ \A k \in 1 .. ChunkCount(l) : k < j => ChunkEnd(l, k) <= ChunkStart(j)
           /\ \A k \in 1 .. ChunkCount(l) : j <= k => ChunkEnd(l, j) <= ChunkEnd(l, k)
<1> DEFINE n == ChunkCount(l)
           M == MaxPayload
<1>1. M \in Nat /\ n \in Nat \ {0} /\ (n - 1) * M \in Nat /\ (n - 1) * M <= l /\ l <= (n - 1) * M + M
  BY LastChunk, TxAssumption
<1>2. \A k \in 1 .. n : ChunkStart(k) = (k - 1) * M /\ ChunkEnd(l, k) = IF k = n THEN l ELSE k * M
  BY DEF ChunkStart, ChunkEnd
<1> HIDE DEF n, M
<1>3. \A k \in 1 .. n : /\ k - 1 \in Nat /\ k \in Nat /\ (k - 1) * M \in Nat /\ k * M \in Nat
                        /\ k * M = (k - 1) * M + M
  BY <1>1
<1>4. \A k \in 1 .. n : k < n => k * M <= (n - 1) * M
  <2> SUFFICES ASSUME NEW k \in 1 .. n, k < n PROVE k * M <= (n - 1) * M
    OBVIOUS
  <2>1. k \in Nat /\ n - 1 \in Nat /\ k <= n - 1
    BY <1>1
  <2> QED BY <1>1, <2>1, Multiples
<1>5. ASSUME NEW k \in 1 .. n
      PROVE  /\ ChunkStart(k) \in Nat /\ ChunkEnd(l, k) \in Nat
             /\ ChunkEnd(l, k) >= ChunkStart(k) /\ ChunkEnd(l, k) <= k * M
             /\ ChunkEnd(l, k) - ChunkStart(k) <= M /\ ChunkEnd(l, k) <= l
  <2>1. CASE k = n
    BY <1>1, <1>2, <1>3, <2>1
  <2>2. CASE k # n
    <3>1. k < n /\ k * M <= (n - 1) * M
      BY <1>1, <1>4, <2>2
    <3> QED BY <1>1, <1>2, <1>3, <2>2, <3>1, SMTT(40)
  <2> QED BY <2>1, <2>2
<1>6. ASSUME NEW k \in 1 .. n, k < j PROVE ChunkEnd(l, k) <= ChunkStart(j)
  <2>1. k * M <= (j - 1) * M
    <3>1. k \in Nat /\ j - 1 \in Nat /\ k <= j - 1
      BY <1>1, <1>6 DEF n
    <3> QED BY <1>1, <3>1, Multiples
  <2>2. j \in 1 .. n
    BY DEF n
  <2>3. k * M \in Nat /\ (j - 1) * M \in Nat
    BY <1>3, <2>2
  <2> QED BY <1>2, <1>5, <2>1, <2>2, <2>3
<1>7. ASSUME NEW k \in 1 .. n, j <= k PROVE ChunkEnd(l, j) <= ChunkEnd(l, k)
  <2>0. j \in 1 .. n
    BY DEF n
  <2>1. CASE k = n
    BY <1>2, <1>5, <2>0, <2>1
  <2>2. CASE k # n
    <3>1. j * M <= k * M /\ j * M \in Nat /\ k * M \in Nat
      <4>1. j \in Nat /\ k \in Nat
        BY <1>3, <2>0
      <4> QED BY <1>1, <1>7, <4>1, Multiples
    <3>2. ChunkEnd(l, k) = k * M
      BY <1>2, <2>2
    <3> QED BY <1>5, <2>0, <3>1, <3>2
  <2> QED BY <2>1, <2>2
<1>8. j \in 1 .. n
  BY DEF n
<1>9. ChunkEnd(l, j) - ChunkStart(j) \in 0 .. M
  BY <1>1, <1>5, <1>8
<1> QED BY <1>5, <1>6, <1>7, <1>8, <1>9 DEF n, M

\* A slot with a chunk of the message.
Holds(q, i) == i \in Free /\ Rank(i) <= q

\* What queue_packet makes of q chunks of l bytes that are put at base, behind the live
\* payloads at off in data.
Puts(l, q, base, off, data) ==
    /\ q \in Nat /\ q <= Cardinality(Free) /\ q <= ChunkCount(l)
    /\ q > 0 => base + ChunkEnd(l, q) <= BufSize
    /\ tx_st'   = [i \in Slots |-> IF Holds(q, i) THEN "PendingTransmit" ELSE tx_st[i]]
    /\ tx_kind' = [i \in Slots |-> IF Holds(q, i) THEN ChunkKind(l, Rank(i)) ELSE tx_kind[i]]
    /\ tx_off'  = [i \in Slots |-> IF Holds(q, i) THEN base + ChunkStart(Rank(i)) ELSE off[i]]
    /\ tx_len'  = [i \in Slots |-> IF Holds(q, i) THEN ChunkEnd(l, Rank(i)) - ChunkStart(Rank(i))
                                                  ELSE tx_len[i]]
    /\ LET total == IF q = 0 THEN 0 ELSE ChunkEnd(l, q)
       IN  /\ tx_data' = [c \in Cells |-> IF c \in base .. (base + total - 1)
                                          THEN <<Len(sends) + 1, c - base + 1>> ELSE data[c]]
           /\ write_pos' = base + total
    /\ sends' = Append(sends, [kind |-> "Message", len |-> l, ok |-> q = ChunkCount(l)])

\* send() puts chunks behind the live payloads, compacted or not.
LEMMA SendPuts ==
    ASSUME BufferInv, NEW l \in MsgLens, Send(l)
    PROVE  \E q, base, off, data : Lies(data, off, base) /\ Puts(l, q, base, off, data)
<1> DEFINE c        == Cardinality(Free)
           reach    == Min({ChunkCount(l), c})
           compacts == reach > 0 /\ ChunkEnd(l, reach) > AvailableBytes
           base     == IF compacts THEN Bytes(Live) ELSE write_pos
           off      == IF compacts THEN CompactOff ELSE tx_off
           data     == IF compacts THEN CompactData ELSE tx_data
           fits(j)  == j = 0 \/ base + ChunkEnd(l, j) <= BufSize
           queued   == Max({j \in 0 .. reach : fits(j)})
           total    == IF queued = 0 THEN 0 ELSE ChunkEnd(l, queued)
<1>1. /\ tx_st'   = [i \in Slots |-> IF Holds(queued, i) THEN "PendingTransmit" ELSE tx_st[i]]
      /\ tx_kind' = [i \in Slots |-> IF Holds(queued, i) THEN ChunkKind(l, Rank(i)) ELSE tx_kind[i]]
      /\ tx_off'  = [i \in Slots |-> IF Holds(queued, i) THEN base + ChunkStart(Rank(i)) ELSE off[i]]
      /\ tx_len'  = [i \in Slots |-> IF Holds(queued, i) THEN ChunkEnd(l, Rank(i)) - ChunkStart(Rank(i))
                                                         ELSE tx_len[i]]
      /\ tx_data' = [x \in Cells |-> IF x \in base .. (base + total - 1)
                                     THEN <<Len(sends) + 1, x - base + 1>> ELSE data[x]]
      /\ write_pos' = base + total
      /\ sends' = Append(sends, [kind |-> "Message", len |-> l, ok |-> queued = ChunkCount(l)])
  BY DEF Send, SendRequest, Holds
<1>2. Lies(data, off, base)
  BY CompactLies DEF BufferInv
<1>3. c \in Nat
  BY SlotsAreFinite DEF Free
<1>4. ChunkCount(l) \in Nat
  <2>1. l \in Nat
    BY TxAssumption
  <2> QED BY <2>1, LastChunk
<1>5. reach \in Nat /\ reach <= c /\ reach <= ChunkCount(l)
  <2>1. \E x \in {ChunkCount(l), c} : \A y \in {ChunkCount(l), c} : x <= y
    BY <1>3, <1>4
  <2> HIDE DEF c
  <2>2. /\ Min({ChunkCount(l), c}) \in {ChunkCount(l), c}
        /\ \A y \in {ChunkCount(l), c} : Min({ChunkCount(l), c}) <= y
    BY <2>1 DEF Min
  <2> QED BY <1>3, <1>4, <2>2
<1> HIDE DEF reach, base, off, data
<1>6. queued \in 0 .. reach /\ fits(queued)
  <2>1. {j \in 0 .. reach : fits(j)} # {} /\ {j \in 0 .. reach : fits(j)} \subseteq 0 .. reach
    BY <1>5
  <2> QED BY <1>5, <2>1, MaxOfBounded
<1> HIDE DEF queued, c
<1>7. queued \in Nat /\ queued <= c /\ queued <= ChunkCount(l)
  BY <1>3, <1>4, <1>5, <1>6
<1>8. queued > 0 => base + ChunkEnd(l, queued) <= BufSize
  BY <1>6, <1>7
<1>9. Puts(l, queued, base, off, data)
  BY <1>1, <1>7, <1>8 DEF Puts, c
<1> QED BY <1>2, <1>9

\* The slots after the chunks were put: the live ones as they were, the others with chunks.
LEMMA PutSlots ==
    ASSUME NEW l \in Nat, NEW q, NEW base \in Nat, NEW off, NEW data, Puts(l, q, base, off, data),
           BufferInv
    PROVE  /\ \A i \in Live' : (i \in Live /\ ~Holds(q, i)) \/ Holds(q, i)
           /\ \A i \in Slots : ~Holds(q, i) =>
                 tx_off'[i] = off[i] /\ tx_len'[i] = tx_len[i] /\ tx_kind'[i] = tx_kind[i]
           /\ \A i \in Slots : Holds(q, i) =>
                 /\ Rank(i) \in 1 .. q /\ q \in 1 .. ChunkCount(l) /\ Rank(i) \in 1 .. ChunkCount(l)
                 /\ tx_off'[i] = base + ChunkStart(Rank(i)) /\ tx_kind'[i] = ChunkKind(l, Rank(i))
                 /\ tx_len'[i] = ChunkEnd(l, Rank(i)) - ChunkStart(Rank(i))
           /\ DOMAIN tx_off' = Slots /\ DOMAIN tx_len' = Slots /\ DOMAIN tx_kind' = Slots
<1>1. \A i \in Live' : i \in Slots /\ ((i \in Live /\ ~Holds(q, i)) \/ Holds(q, i))
  BY DEF Live, Puts, Holds, Free
<1>2. \A i \in Slots : Holds(q, i) => Rank(i) \in 1 .. q /\ q \in 1 .. ChunkCount(l)
  <2> SUFFICES ASSUME NEW i \in Slots, Holds(q, i) PROVE Rank(i) \in 1 .. q /\ q \in 1 .. ChunkCount(l)
    OBVIOUS
  <2>1. Rank(i) \in 1 .. Cardinality(Free) /\ Rank(i) <= q /\ q \in Nat /\ q <= ChunkCount(l)
    BY RanksCount DEF Holds, Puts
  <2>2. ChunkCount(l) \in Nat /\ Rank(i) \in Nat /\ Rank(i) >= 1
    BY <2>1, LastChunk
  <2> QED BY <2>1, <2>2
<1>3. \A i \in Slots : Holds(q, i) => Rank(i) \in 1 .. ChunkCount(l)
  <2>1. ChunkCount(l) \in Nat
    BY LastChunk
  <2> QED BY <1>2, <2>1
<1> QED BY <1>1, <1>2, <1>3, Zenon DEF Puts

\* After a send the payloads lie in the buffer again, those that were there and the chunks.
LEMMA PutLies ==
    ASSUME NEW l \in Nat, NEW q, NEW base, NEW off, NEW data,
           Lies(data, off, base), Puts(l, q, base, off, data), BufferInv
    PROVE  BufferInv'
<1> DEFINE total == IF q = 0 THEN 0 ELSE ChunkEnd(l, q)
           m == Len(sends) + 1
<1>1. /\ base \in Nat /\ base <= BufSize /\ BufSize \in Nat /\ MaxPayload \in Nat /\ q \in Nat
      /\ m \in Nat
  BY LiveSlots DEF Lies, Puts, BufferInv
<1>2. total \in Nat /\ base + total <= BufSize
  <2>1. CASE q = 0
    BY <1>1, <2>1
  <2>2. CASE q # 0
    <3>1. q \in 1 .. ChunkCount(l)
      <4>1. ChunkCount(l) \in Nat /\ q <= ChunkCount(l)
        BY LastChunk DEF Puts
      <4> QED BY <1>1, <2>2, <4>1
    <3>2. ChunkEnd(l, q) \in Nat
      BY <3>1, ChunkBounds
    <3>3. base + ChunkEnd(l, q) <= BufSize
      BY <1>1, <2>2 DEF Puts
    <3> QED BY <2>2, <3>2, <3>3
  <2> QED BY <2>1, <2>2
<1>3. /\ tx_data' = [c \in Cells |-> IF c \in base .. (base + total - 1)
                                     THEN <<m, c - base + 1>> ELSE data[c]]
      /\ write_pos' = base + total
  BY DEF Puts
<1> HIDE DEF m
<1>4. \A c \in Cells : c \in Nat /\ data[c] \in Nat \X Nat
  BY <1>1 DEF Lies, Cells
<1>5. tx_data' \in [Cells -> Nat \X Nat]
  <2>1. ASSUME NEW c \in Cells PROVE tx_data'[c] \in Nat \X Nat
    <3>1. CASE c \in base .. (base + total - 1)
      <4>1. c - base + 1 \in Nat /\ tx_data'[c] = <<m, c - base + 1>>
        BY <1>1, <1>2, <1>3, <1>4, <3>1
      <4> HIDE DEF total
      <4> QED BY <1>1, <4>1
    <3>2. CASE c \notin base .. (base + total - 1)
      BY <1>3, <1>4, <3>2
    <3> QED BY <3>1, <3>2
  <2> QED BY <1>3, <2>1
\* a chunk
<1>6. ASSUME NEW i \in Slots, Holds(q, i)
      PROVE  /\ tx_kind'[i] \in Kinds /\ tx_len'[i] \in 0 .. MaxPayload
             /\ tx_off'[i] \in Nat /\ base <= tx_off'[i]
             /\ tx_off'[i] + tx_len'[i] <= base + total
             /\ tx_off'[i] + tx_len'[i] = base + ChunkEnd(l, Rank(i))
             /\ Intact(tx_data', tx_off'[i], tx_len'[i])
  <2> DEFINE j == Rank(i)
             a == ChunkStart(j)
             b == ChunkEnd(l, j)
  <2>1. /\ j \in 1 .. q /\ q \in 1 .. ChunkCount(l) /\ j \in 1 .. ChunkCount(l)
        /\ tx_off'[i] = base + a /\ tx_kind'[i] = ChunkKind(l, j) /\ tx_len'[i] = b - a
    BY <1>1, <1>6, PutSlots, ZenonT(60)
  <2>2. a \in Nat /\ b \in Nat /\ b - a \in 0 .. MaxPayload
    BY <2>1, ChunkBounds
  <2>3. b <= total
    <3>1. j <= q /\ q # 0
      BY <1>1, <2>1
    <3>2. b <= ChunkEnd(l, q)
      BY <2>1, <3>1, ChunkBounds
    <3> QED BY <3>1, <3>2
  <2>4. tx_kind'[i] \in Kinds
    <3>1. ChunkKind(l, j) \in Kinds
      BY Zenon DEF ChunkKind, Kinds
    <3> QED BY <2>1, <3>1
  <2> HIDE DEF a, b, total
  <2>5. Intact(tx_data', tx_off'[i], tx_len'[i])
    <3> SUFFICES ASSUME NEW k \in 1 .. (b - a) - 1
                 PROVE  tx_data'[base + a + k] =
                           <<tx_data'[base + a + k - 1][1], tx_data'[base + a + k - 1][2] + 1>>
      BY <2>1 DEF Intact
    <3>1. /\ base + a + k \in Cells /\ base + a + k - 1 \in Cells
          /\ base + a + k \in base .. (base + total - 1)
          /\ base + a + k - 1 \in base .. (base + total - 1)
      BY <1>1, <1>2, <2>2, <2>3 DEF Cells
    <3>2. /\ tx_data'[base + a + k] = <<m, (base + a + k) - base + 1>>
          /\ tx_data'[base + a + k - 1] = <<m, (base + a + k - 1) - base + 1>>
      BY <1>3, <3>1
    <3>3. (base + a + k) - base + 1 = ((base + a + k - 1) - base + 1) + 1
      BY <1>1, <2>2
    <3>4. <<m, (base + a + k - 1) - base + 1>>[1] = m
          /\ <<m, (base + a + k - 1) - base + 1>>[2] = (base + a + k - 1) - base + 1
      OBVIOUS
    <3> QED BY <3>2, <3>3, <3>4, Zenon
  <2> QED BY <1>1, <1>2, <2>1, <2>2, <2>3, <2>4, <2>5 DEF b
\* a payload that was there
<1>7. ASSUME NEW i \in Live
      PROVE  /\ i \in Slots /\ off[i] \in Nat /\ tx_len[i] \in Nat /\ off[i] + tx_len[i] <= base
             /\ Intact(tx_data', off[i], tx_len[i])
  <2>1. /\ i \in Slots /\ off[i] \in Nat /\ tx_len[i] \in Nat /\ off[i] + tx_len[i] <= base
        /\ Intact(data, off[i], tx_len[i])
    BY LiveSlots DEF Lies, Counts
  <2> SUFFICES ASSUME NEW k \in 1 .. tx_len[i] - 1
               PROVE  tx_data'[off[i] + k] =
                         <<tx_data'[off[i] + k - 1][1], tx_data'[off[i] + k - 1][2] + 1>>
    BY <2>1 DEF Intact
  <2> HIDE DEF total
  <2>2. /\ off[i] + k \in Cells /\ off[i] + k - 1 \in Cells
        /\ off[i] + k \notin base .. (base + total - 1)
        /\ off[i] + k - 1 \notin base .. (base + total - 1)
    BY <1>1, <1>2, <2>1 DEF Cells
  <2>3. tx_data'[off[i] + k] = data[off[i] + k] /\ tx_data'[off[i] + k - 1] = data[off[i] + k - 1]
    BY <1>3, <2>2
  <2>4. data[off[i] + k] = <<data[off[i] + k - 1][1], data[off[i] + k - 1][2] + 1>>
    BY <2>1 DEF Intact
  <2> QED BY <2>3, <2>4
<1>8. ASSUME NEW i \in Slots, ~Holds(q, i)
      PROVE  /\ tx_off'[i] = off[i] /\ tx_len'[i] = tx_len[i] /\ tx_kind'[i] = tx_kind[i]
             /\ off[i] \in 0 .. BufSize /\ tx_len[i] \in 0 .. MaxPayload /\ tx_kind[i] \in Kinds
  <2>1. /\ tx_off'[i] = off[i] /\ tx_len'[i] = tx_len[i] /\ tx_kind'[i] = tx_kind[i]
    BY <1>1, <1>8, PutSlots
  <2> QED BY <2>1 DEF Lies, BufferInv
<1>9. /\ tx_kind' \in [Slots -> Kinds] /\ tx_len' \in [Slots -> 0 .. MaxPayload]
      /\ tx_off' \in [Slots -> 0 .. BufSize]
  <2>1. ASSUME NEW i \in Slots
        PROVE  tx_kind'[i] \in Kinds /\ tx_len'[i] \in 0 .. MaxPayload /\ tx_off'[i] \in 0 .. BufSize
    <3>1. CASE Holds(q, i)
      <4>1. /\ tx_kind'[i] \in Kinds /\ tx_len'[i] \in 0 .. MaxPayload
            /\ tx_off'[i] \in Nat /\ tx_off'[i] + tx_len'[i] <= base + total
        BY <1>6, <3>1
      <4> HIDE DEF total
      <4> QED BY <1>1, <1>2, <4>1
    <3>2. CASE ~Holds(q, i)
      BY <1>8, <3>2
    <3> QED BY <3>1, <3>2
  <2>2. DOMAIN tx_off' = Slots /\ DOMAIN tx_len' = Slots /\ DOMAIN tx_kind' = Slots
    BY <1>1, PutSlots
  <2>3. /\ tx_kind' = [i \in Slots |-> tx_kind'[i]] /\ tx_len' = [i \in Slots |-> tx_len'[i]]
        /\ tx_off' = [i \in Slots |-> tx_off'[i]]
    BY Zenon DEF Puts
  <2> QED BY <2>1, <2>3
<1>10. ASSUME NEW i \in Live' PROVE i \in Slots /\ (Holds(q, i) \/ (~Holds(q, i) /\ i \in Live))
  <2>1. i \in Slots
    BY DEF Live
  <2> QED BY <1>1, <2>1, PutSlots
<1>11. ASSUME NEW i \in Live'
       PROVE  tx_off'[i] + tx_len'[i] <= write_pos' /\ Intact(tx_data', tx_off'[i], tx_len'[i])
  <2>1. CASE Holds(q, i)
    BY <1>3, <1>6, <1>10, <2>1
  <2>2. CASE ~Holds(q, i)
    <3>1. i \in Slots /\ i \in Live
      BY <1>10, <2>2
    <3>2. tx_off'[i] = off[i] /\ tx_len'[i] = tx_len[i]
      BY <1>8, <2>2, <3>1
    <3>3. off[i] + tx_len[i] <= base /\ Intact(tx_data', off[i], tx_len[i])
          /\ off[i] \in Nat /\ tx_len[i] \in Nat
      BY <1>7, <3>1
    <3> HIDE DEF total
    <3> QED BY <1>1, <1>2, <1>3, <3>2, <3>3
  <2> QED BY <2>1, <2>2
<1>12. ASSUME NEW i \in Live', NEW j \in Live', i # j, tx_len'[i] > 0, tx_len'[j] > 0
       PROVE  tx_off'[i] + tx_len'[i] <= tx_off'[j] \/ tx_off'[j] + tx_len'[j] <= tx_off'[i]
  <2>0. i \in Slots /\ j \in Slots
    BY <1>10
  <2>1. ASSUME NEW x \in Slots, NEW y \in Slots, Holds(q, x), ~Holds(q, y), y \in Live
        PROVE  tx_off'[y] + tx_len'[y] <= tx_off'[x]
    <3>1. tx_off'[y] = off[y] /\ tx_len'[y] = tx_len[y]
      BY <1>8, <2>1
    <3>2. off[y] + tx_len[y] <= base /\ off[y] \in Nat /\ tx_len[y] \in Nat
      BY <1>7, <2>1
    <3>3. tx_off'[x] \in Nat /\ base <= tx_off'[x]
      BY <1>6, <2>1
    <3> QED BY <1>1, <3>1, <3>2, <3>3
  <2>2. CASE Holds(q, i) /\ Holds(q, j)
    <3>1. i \in Free /\ j \in Free
      BY <2>2 DEF Holds
    <3>2. Rank(i) # Rank(j)
      BY <1>12, <3>1, RanksCount
    <3>3. ASSUME NEW x \in Slots, NEW y \in Slots, Holds(q, x), Holds(q, y), Rank(x) < Rank(y)
          PROVE  tx_off'[x] + tx_len'[x] <= tx_off'[y]
      <4>1. /\ Rank(x) \in 1 .. ChunkCount(l) /\ Rank(y) \in 1 .. ChunkCount(l)
            /\ tx_off'[y] = base + ChunkStart(Rank(y))
        BY <1>1, <3>3, PutSlots
      <4>2. tx_off'[x] + tx_len'[x] = base + ChunkEnd(l, Rank(x))
        BY <1>6, <3>3
      <4>3. /\ ChunkEnd(l, Rank(x)) <= ChunkStart(Rank(y)) /\ ChunkStart(Rank(y)) \in Nat
        BY <3>3, <4>1, ChunkBounds
      <4>4. ChunkEnd(l, Rank(x)) \in Nat
        BY <4>1, ChunkBounds
      <4> QED BY <1>1, <4>1, <4>2, <4>3, <4>4
    <3>4. Rank(i) \in Int /\ Rank(j) \in Int
      BY <1>1, <2>0, <2>2, PutSlots
    <3>5. Rank(i) < Rank(j) \/ Rank(j) < Rank(i)
      BY <3>2, <3>4
    <3> QED BY <2>0, <2>2, <3>3, <3>5
  <2>3. CASE Holds(q, i) /\ ~Holds(q, j)
    BY <1>10, <2>0, <2>1, <2>3
  <2>4. CASE ~Holds(q, i) /\ Holds(q, j)
    BY <1>10, <2>0, <2>1, <2>4
  <2>5. CASE ~Holds(q, i) /\ ~Holds(q, j)
    <3>1. /\ tx_off'[i] = off[i] /\ tx_len'[i] = tx_len[i]
          /\ tx_off'[j] = off[j] /\ tx_len'[j] = tx_len[j] /\ i \in Live /\ j \in Live
      BY <1>8, <1>10, <2>0, <2>5
    <3> QED BY <1>12, <3>1 DEF Lies, Apart
  <2> QED BY <2>2, <2>3, <2>4, <2>5
<1>13. Apart(tx_off', tx_len', Live')
  BY <1>12 DEF Apart
<1>14. write_pos' \in 0 .. BufSize
  <2> HIDE DEF total
  <2> QED BY <1>1, <1>2, <1>3
<1>15. sends' \in Seq([kind : {"Message", "Eos"}, len : Nat, ok : BOOLEAN])
  BY DEF Puts, BufferInv
<1> QED BY <1>5, <1>9, <1>11, <1>13, <1>14, <1>15 DEF BufferInv, Lies

\* A step that frees slots or leaves them alone does not touch the buffer.
LEMMA BufferStays ==
    ASSUME BufferInv, Live' \subseteq Live,
           UNCHANGED <<tx_kind, tx_off, tx_len, tx_data, write_pos, sends>>
    PROVE  BufferInv'
<1>1. Lies(tx_data, tx_off, write_pos)'
  BY DEF BufferInv, Lies, Apart
<1> QED BY <1>1 DEF BufferInv

\* send_eos() adds an empty payload.
LEMMA EosBuffer == ASSUME DOMAIN tx_st = Slots, BufferInv, SendEos PROVE BufferInv'
<1> DEFINE i == Min(Free)
<1>1. i \in Free /\ Free \subseteq Slots /\ BufSize \in Nat /\ MaxPayload \in Nat /\ i \in Slots
  BY MinOfSlots, LiveSlots DEF SendEos, Free
<1>2. /\ tx_st' = [tx_st EXCEPT ![i] = "PendingTransmit"]
      /\ tx_kind' = [tx_kind EXCEPT ![i] = "Eos"]
      /\ tx_off' = [tx_off EXCEPT ![i] = write_pos] /\ tx_len' = [tx_len EXCEPT ![i] = 0]
      /\ sends' = Append(sends, [kind |-> "Eos", len |-> 0, ok |-> TRUE])
      /\ UNCHANGED <<tx_data, write_pos>>
  BY DEF SendEos
<1> HIDE DEF i
<1>3. tx_kind' \in [Slots -> Kinds] /\ tx_len' \in [Slots -> 0 .. MaxPayload]
  <2>1. tx_kind \in [Slots -> Kinds] /\ tx_len \in [Slots -> 0 .. MaxPayload] /\ 0 \in 0 .. MaxPayload
    BY <1>1 DEF BufferInv
  <2> QED BY <1>2, <2>1 DEF Kinds
<1>4. tx_off' \in [Slots -> 0 .. BufSize]
  BY <1>2 DEF BufferInv, Lies
<1>5. \A j \in Slots : /\ j # i => tx_off'[j] = tx_off[j] /\ tx_len'[j] = tx_len[j]
                       /\ j = i => tx_off'[j] = write_pos /\ tx_len'[j] = 0
  BY <1>1, <1>2 DEF BufferInv, Lies
<1>6. \A j \in Live' : j \in Slots /\ (j # i => j \in Live)
  BY <1>1, <1>2 DEF Live
<1>7. ASSUME NEW j \in Live'
      PROVE  tx_off'[j] + tx_len'[j] <= write_pos' /\ Intact(tx_data', tx_off'[j], tx_len'[j])
  <2>1. CASE j = i
    <3>1. write_pos \in Nat /\ tx_off'[j] = write_pos /\ tx_len'[j] = 0 /\ write_pos' = write_pos
      BY <1>1, <1>2, <1>5, <2>1 DEF BufferInv, Lies
    <3> QED BY <3>1 DEF Intact
  <2>2. CASE j # i
    <3>1. j \in Live /\ tx_off'[j] = tx_off[j] /\ tx_len'[j] = tx_len[j]
      BY <1>5, <1>6, <2>2
    <3> QED BY <1>2, <3>1 DEF BufferInv, Lies
  <2> QED BY <2>1, <2>2
<1>8. Apart(tx_off', tx_len', Live')
  <2> SUFFICES ASSUME NEW j \in Live', NEW k \in Live', j # k, tx_len'[j] > 0, tx_len'[k] > 0
               PROVE  tx_off'[j] + tx_len'[j] <= tx_off'[k] \/ tx_off'[k] + tx_len'[k] <= tx_off'[j]
    BY DEF Apart
  <2>1. j # i /\ k # i
    BY <1>5, <1>6
  <2>2. /\ j \in Live /\ tx_off'[j] = tx_off[j] /\ tx_len'[j] = tx_len[j]
        /\ k \in Live /\ tx_off'[k] = tx_off[k] /\ tx_len'[k] = tx_len[k]
    BY <1>5, <1>6, <2>1
  <2> QED BY <2>2 DEF BufferInv, Lies, Apart
<1>9. sends' \in Seq([kind : {"Message", "Eos"}, len : Nat, ok : BOOLEAN])
  BY <1>2 DEF BufferInv
<1> QED BY <1>2, <1>3, <1>4, <1>7, <1>8, <1>9 DEF BufferInv, Lies

\* A slot that is dropped or bound has no payloads.
LEMMA ResetBuffer == ASSUME BufferInv, Drop \/ Bind PROVE BufferInv'
<1>1. /\ tx_st' = [i \in Slots |-> "Empty"] /\ tx_kind' = [i \in Slots |-> "Unsegmented"]
      /\ tx_off' = [i \in Slots |-> 0] /\ tx_len' = [i \in Slots |-> 0] /\ write_pos' = 0
      /\ UNCHANGED <<tx_data, sends>>
  BY DEF Drop, Bind, ResetSlot
<1>2. Live' = {}
  BY <1>1 DEF Live
<1>3. BufSize \in Nat /\ MaxPayload \in Nat /\ "Unsegmented" \in Kinds
  BY LiveSlots DEF Kinds
<1> QED BY <1>1, <1>2, <1>3 DEF BufferInv, Lies, Apart

\* An empty buffer.
LEMMA BufferInit == TxInit => BufferInv
<1> SUFFICES ASSUME TxInit PROVE BufferInv
  OBVIOUS
<1>1. Live = {}
  BY DEF TxInit, Live
<1>2. BufSize \in Nat /\ MaxPayload \in Nat /\ "Unsegmented" \in Kinds /\ <<0, 0>> \in Nat \X Nat
  BY TxAssumption DEF Kinds
<1> QED BY <1>1, <1>2 DEF TxInit, BufferInv, Lies, Apart

\* Every step keeps the payloads in the buffer.
LEMMA BufferStep == Attempts /\ BufferInv /\ [TxNext]_tx_vars => BufferInv'
<1> SUFFICES ASSUME Attempts, BufferInv, [TxNext]_tx_vars PROVE BufferInv'
  OBVIOUS
<1>0. DOMAIN tx_st = Slots
  BY DEF Attempts
<1>1. CASE TxApp
  <2>1. CASE \E l \in MsgLens : Send(l)
    <3>1. PICK l \in MsgLens : Send(l)
      BY <2>1
    <3>2. l \in Nat
      BY TxAssumption
    <3>3. PICK q, base, off, data : Lies(data, off, base) /\ Puts(l, q, base, off, data)
      BY <3>1, SendPuts
    <3> QED BY <3>2, <3>3, PutLies
  <2> QED BY <1>0, <1>1, <2>1, EosBuffer, ResetBuffer DEF TxApp
<1>2. CASE TxLoop
  <2>1. CASE HandleTimeout
    <3> DEFINE i == Min(Awaiting(Head(expired)))
    <3>1. /\ UNCHANGED <<tx_kind, tx_off, tx_len, tx_data, write_pos, sends>>
          /\ \/ UNCHANGED tx_st
             \/ Awaiting(Head(expired)) # {} /\ tx_st' = [tx_st EXCEPT ![i] = "Empty"]
             \/ Awaiting(Head(expired)) # {} /\ tx_st' = [tx_st EXCEPT ![i] = "PendingTransmit"]
      BY <2>1 DEF HandleTimeout
    <3>2. Awaiting(Head(expired)) # {} => i \in Live
      BY MinOfSlots DEF Awaiting, Live
    <3> HIDE DEF i
    <3>3. Live' \subseteq Live
      <4> SUFFICES ASSUME NEW j \in Slots, tx_st'[j] # "Empty", tx_st[j] = "Empty" PROVE FALSE
        BY DEF Live
      <4>1. j # i \/ UNCHANGED tx_st
        BY <3>1, <3>2 DEF Live
      <4> QED BY <1>0, <3>1, <4>1
    <3> QED BY <3>1, <3>3, BufferStays
  <2>2. CASE StartWrite \/ PopAction \/ AwaitEvent
    <3>1. UNCHANGED <<tx_st, tx_kind, tx_off, tx_len, tx_data, write_pos, sends>>
      BY <2>2 DEF StartWrite, PopAction, AwaitEvent, tx_machine
    <3>2. Live' = Live
      BY <3>1 DEF Live
    <3> QED BY <3>1, <3>2, BufferStays
  <2> QED BY <1>2, <2>1, <2>2 DEF TxLoop
<1>3. CASE FinishWrite
  <2> DEFINE pending == {i \in Slots : tx_st[i] = "PendingTransmit" /\ tx_seq[i] = writing.seq}
             first == Min(pending)
  <2>1. /\ tx_st' = [i \in Slots |-> IF pending # {} /\ i = first THEN "AwaitingAck" ELSE tx_st[i]]
        /\ UNCHANGED <<tx_kind, tx_off, tx_len, tx_data, write_pos, sends>>
    BY <1>3 DEF FinishWrite
  <2>2. pending # {} => first \in Live
    BY MinOfSlots DEF Live
  <2> HIDE DEF pending, first
  <2>3. Live' \subseteq Live
    BY <2>1, <2>2 DEF Live
  <2> QED BY <2>1, <2>3, BufferStays
<1>4. CASE LinkFails \/ TxTimer \/ TxStopped \/ UNCHANGED tx_vars
  <2>1. UNCHANGED <<tx_st, tx_kind, tx_off, tx_len, tx_data, write_pos, sends>>
    BY <1>4 DEF LinkFails, TxTimer, Timeout, TxStopped, tx_machine, tx_vars
  <2>2. Live' = Live
    BY <2>1 DEF Live
  <2> QED BY <2>1, <2>2, BufferStays
<1>5. ASSUME NEW cum, NEW bits, ReceiveAck(cum, bits) PROVE BufferInv'
  <2>1. /\ \/ tx_st' = tx_st
           \/ tx_st' = [i \in Slots |-> IF i \in Acked(cum, bits) THEN "Empty" ELSE tx_st[i]]
        /\ UNCHANGED <<tx_kind, tx_off, tx_len, tx_data, write_pos, sends>>
    BY <1>5 DEF ReceiveAck
  <2>2. Live' \subseteq Live
    BY <2>1 DEF Live
  <2> QED BY <2>1, <2>2, BufferStays
<1> QED BY <1>1, <1>2, <1>3, <1>4, <1>5 DEF TxNext

\* The send buffer keeps every live payload as it was queued (PayloadIntact), through any
\* number of sends, ACKs and compactions, for every size of the buffer, of a packet and of the
\* window: payloads do not overlap, and compact() moves each of them whole.
THEOREM PayloadsStayIntact == TxSpec => []PayloadIntact
<1>1. BufferInv => PayloadIntact
  BY BufferIsIntact
<1> QED BY <1>1, AttemptsAreCounted, BufferInit, BufferStep, PTL DEF TxSpec

(* Types.                                                                  *)

\* the packet of a live slot
LEMMA PayloadTypes ==
    ASSUME BufferInv, tx_seq \in [Slots -> SeqCounts], NEW i \in Live
    PROVE  Payload(i) \in Packets
<1>1. i \in Slots /\ tx_seq[i] \in SeqCounts /\ tx_kind[i] \in Kinds
  BY DEF Live, BufferInv
<1>2. /\ tx_len[i] \in Nat /\ tx_off[i] \in Nat /\ tx_off[i] + tx_len[i] <= write_pos
      /\ write_pos \in 0 .. BufSize /\ BufSize \in Nat
  BY LiveSlots DEF Counts, BufferInv, Lies
<1>3. ASSUME NEW k \in 1 .. tx_len[i] PROVE tx_data[tx_off[i] + k - 1] \in Nat \X Nat
  <2>1. tx_off[i] + k - 1 \in Cells
    BY <1>2 DEF Cells
  <2> QED BY <2>1 DEF BufferInv, Lies
<1>4. [k \in 1 .. tx_len[i] |-> tx_data[tx_off[i] + k - 1]] \in [1 .. tx_len[i] -> Nat \X Nat]
  BY <1>3
<1>5. [k \in 1 .. tx_len[i] |-> tx_data[tx_off[i] + k - 1]] \in Seq(Nat \X Nat)
  <2> DEFINE b == [k \in 1 .. tx_len[i] |-> tx_data[tx_off[i] + k - 1]]
  <2>1. b \in [1 .. tx_len[i] -> Nat \X Nat]
    BY <1>4
  <2> HIDE DEF b
  <2>2. b \in Seq(Nat \X Nat)
    BY <1>2, <2>1
  <2> QED BY <2>2 DEF b
<1> QED BY <1>1, <1>5 DEF Payload, Packets

SenderTypes ==
    /\ QueueTypes /\ Attempts /\ BufferInv
    /\ tx_count \in [Slots -> 0 .. MaxRetransmits]
    /\ writing \in Packets \cup {NoPacket} /\ bound \in BOOLEAN

\* retransmit_count counts up to the limit.
LEMMA CountTypesStep ==
    ASSUME SenderTypes, Attempts', [TxNext]_tx_vars PROVE tx_count' \in [Slots -> 0 .. MaxRetransmits]
<1>1. tx_count' = [i \in Slots |-> tx_count'[i]]
  <2>0. tx_count \in [Slots -> 0 .. MaxRetransmits]
    BY DEF SenderTypes
  <2>1. CASE TxApp
    <3>1. CASE \E l \in MsgLens : Send(l)
      BY <3>1, Zenon DEF Send, SendRequest
    <3>2. CASE SendEos
      BY <2>0, <3>2 DEF SendEos
    <3>3. CASE Drop \/ Bind
      BY <3>3 DEF Drop, Bind, ResetSlot
    <3> QED BY <2>1, <3>1, <3>2, <3>3 DEF TxApp
  <2>2. CASE HandleTimeout
    <3>1. tx_count' = tx_count \/ \E i : tx_count' = [tx_count EXCEPT ![i] = @ + 1]
      BY <2>2 DEF HandleTimeout
    <3> QED BY <2>0, <3>1
  <2>3. CASE StartWrite \/ PopAction \/ AwaitEvent
    BY <2>0, <2>3 DEF StartWrite, PopAction, AwaitEvent, tx_machine
  <2>4. CASE FinishWrite \/ LinkFails \/ TxTimer \/ TxStopped \/ UNCHANGED tx_vars
    BY <2>0, <2>4 DEF FinishWrite, LinkFails, TxTimer, Timeout, TxStopped, tx_machine, tx_vars
  <2>5. ASSUME NEW cum, NEW bits, ReceiveAck(cum, bits) PROVE tx_count' = [i \in Slots |-> tx_count'[i]]
    BY <2>0, <2>5 DEF ReceiveAck
  <2> QED BY <2>1, <2>2, <2>3, <2>4, <2>5 DEF TxNext, TxLoop
<1>2. \A i \in Slots : tx_count'[i] \in 0 .. MaxRetransmits
  BY DEF Attempts, AttemptsOf
<1> QED BY <1>1, <1>2

\* Every step keeps the types of the queue and the timers.
LEMMA QueueTypesStep == ASSUME SenderTypes, [TxNext]_tx_vars PROVE QueueTypes'
<1>0. QueueTypes /\ SlotTypes /\ DOMAIN writes = Slots /\ MaxActions \in Nat
  BY TxAssumption DEF SenderTypes, QueueTypes, SlotTypes, Attempts
<1>1. ASSUME NEW F, NEW new, NEW own, Fills(F, new, own) PROVE QueueTypes'
  <2>1. /\ new \in Seq(SenderAction) /\ actions' = Push(actions, new)
        /\ tx_seq' \in [Slots -> SeqCounts] /\ next_seq' \in SeqCounts /\ tx_st' \in [Slots -> SlotState]
        /\ UNCHANGED <<timers, tx_pc, expired, writing>>
    BY <1>1 DEF Fills
  <2>2. actions' \in Seq(SenderAction) /\ Len(actions') <= MaxActions
    BY <1>0, <2>1, PushTakes DEF QueueTypes
  <2> QED BY <1>0, <2>1, <2>2 DEF QueueTypes
<1>2. CASE TxApp
  <2>1. CASE \E l \in MsgLens : Send(l)
    BY <1>0, <1>1, <2>1, SendFills
  <2>2. CASE SendEos
    BY <1>0, <1>1, <2>2, SendEosFills
  <2>3. CASE Drop \/ Bind
    <3>1. /\ actions' = <<>> /\ tx_st' = [i \in Slots |-> "Empty"] /\ tx_seq' = [i \in Slots |-> 0]
          /\ next_seq' = 0 /\ timers' = [i \in Slots |-> NoSeq]
          /\ UNCHANGED <<tx_pc, expired, writing>>
      BY <2>3 DEF Drop, Bind, ResetSlot
    <3>2. 0 \in SeqCounts
      BY SeqSpaceAssumption DEF SeqCounts
    <3> QED BY <1>0, <3>1, <3>2 DEF QueueTypes, SlotState
  <2> QED BY <1>2, <2>1, <2>2, <2>3 DEF TxApp
<1>3. CASE StartWrite
  <2> DEFINE i == Min({j \in Slots : Matches(j, Head(actions).seq)})
  <2>1. /\ actions # <<>> /\ actions' = Tail(actions) /\ tx_pc' = "write" /\ writing' = Payload(i)
        /\ {j \in Slots : Matches(j, Head(actions).seq)} # {}
        /\ UNCHANGED <<tx_st, tx_seq, next_seq, timers, expired>>
    BY <1>3 DEF StartWrite, tx_machine
  <2>2. i \in Slots
    BY <2>1, MinOfSlots
  <2> HIDE DEF i
  <2>3. writing'.seq \in SeqCounts
    BY <1>0, <2>1, <2>2 DEF Payload, QueueTypes
  <2>4. actions' \in Seq(SenderAction) /\ Len(actions') <= MaxActions
    BY <1>0, <2>1, PopTakesHead
  <2> QED BY <1>0, <2>1, <2>3, <2>4 DEF QueueTypes
<1>4. CASE PopAction
  <2>1. /\ actions # <<>> /\ actions' = Tail(actions)
        /\ timers' = timers \/ timers' = StopTimers(Head(actions).seq)
        /\ UNCHANGED <<tx_st, tx_seq, next_seq, expired, writing, tx_pc>>
    BY <1>4 DEF PopAction, tx_machine
  <2>2. actions' \in Seq(SenderAction) /\ Len(actions') <= MaxActions
    BY <1>0, <2>1, PopTakesHead
  <2>3. timers' \in [Slots -> SeqCounts \cup {NoSeq}]
    BY <1>0, <2>1 DEF QueueTypes, StopTimers
  <2> QED BY <1>0, <2>1, <2>2, <2>3 DEF QueueTypes
<1>5. CASE AwaitEvent \/ LinkFails
  <2>1. /\ tx_pc' \in {"select", "failed"} /\ (writing' = writing \/ writing' = NoPacket)
        /\ UNCHANGED <<tx_st, tx_seq, next_seq, actions, timers, expired>>
    BY <1>5 DEF AwaitEvent, LinkFails, tx_machine
  <2> QED BY <1>0, <2>1 DEF QueueTypes, NoPacket
<1>6. CASE HandleTimeout
  <2> DEFINE s == Head(expired)
             i == Min(Awaiting(s))
             lost == <<Notice("PacketLost", s)>> \o
                     (IF tx_kind[i] \in {"Unsegmented", "Eos"} THEN <<>>
                      ELSE <<Notice("MessageLost", NoSeq)>>)
  <2>1. /\ expired # <<>> /\ expired' = Tail(expired)
        /\ UNCHANGED <<tx_seq, next_seq, timers, writing>> /\ tx_pc' = "drain"
        /\ \/ UNCHANGED <<tx_st, actions>>
           \/ tx_st' = [tx_st EXCEPT ![i] = "Empty"] /\ actions' = Push(actions, lost)
           \/ tx_st' = [tx_st EXCEPT ![i] = "PendingTransmit"] /\ actions' = Push(actions, <<Transmit(s)>>)
    BY <1>6 DEF HandleTimeout
  <2>2. s \in SeqCounts /\ expired' \in Seq(SeqCounts)
    BY <1>0, <2>1 DEF QueueTypes
  <2>3. lost \in Seq(SenderAction) /\ <<Transmit(s)>> \in Seq(SenderAction)
    <3>1. /\ Notice("PacketLost", s) \in SenderAction /\ Notice("MessageLost", NoSeq) \in SenderAction
          /\ Transmit(s) \in SenderAction
      BY <2>2 DEF Notice, Transmit, SenderAction, ActionTypes
    <3>2. /\ <<Notice("PacketLost", s)>> \in Seq(SenderAction)
          /\ <<Notice("MessageLost", NoSeq)>> \in Seq(SenderAction)
          /\ <<>> \in Seq(SenderAction) /\ <<Transmit(s)>> \in Seq(SenderAction)
      BY <3>1
    <3> DEFINE more == IF tx_kind[i] \in {"Unsegmented", "Eos"} THEN <<>>
                       ELSE <<Notice("MessageLost", NoSeq)>>
    <3>3. more \in Seq(SenderAction)
      BY <3>2, Zenon
    <3> HIDE DEF more
    <3>4. <<Notice("PacketLost", s)>> \o more \in Seq(SenderAction)
      BY <3>2, <3>3
    <3> QED BY <3>2, <3>4 DEF more
  <2> HIDE DEF lost, i, s
  <2>4. actions' \in Seq(SenderAction) /\ Len(actions') <= MaxActions
    <3>1. actions \in Seq(SenderAction) /\ Len(actions) <= MaxActions
      BY <1>0 DEF QueueTypes
    <3>2. \A new \in Seq(SenderAction) :
             Push(actions, new) \in Seq(SenderAction) /\ Len(Push(actions, new)) <= MaxActions
      BY <3>1, PushTakes
    <3> QED BY <2>1, <2>3, <3>1, <3>2
  <2>5. tx_st' \in [Slots -> SlotState]
    BY <1>0, <2>1 DEF QueueTypes, SlotState
  <2> QED BY <1>0, <2>1, <2>2, <2>4, <2>5 DEF QueueTypes
<1>7. CASE FinishWrite
  <2> DEFINE pending == {i \in Slots : tx_st[i] = "PendingTransmit" /\ tx_seq[i] = writing.seq}
             first == Min(pending)
             idle == {e \in Slots : timers[e] = NoSeq}
  <2>1. /\ tx_st' = [i \in Slots |-> IF pending # {} /\ i = first THEN "AwaitingAck" ELSE tx_st[i]]
        /\ timers' = timers \/ timers' = [timers EXCEPT ![Min(idle)] = writing.seq]
        /\ writing' = NoPacket /\ tx_pc' = "drain"
        /\ UNCHANGED <<tx_seq, next_seq, actions, expired>>
    BY <1>7 DEF FinishWrite, StartTimer
  <2> HIDE DEF pending, first, idle
  <2>2. tx_st' \in [Slots -> SlotState]
    BY <1>0, <2>1 DEF QueueTypes, SlotState
  <2>3. timers' \in [Slots -> SeqCounts \cup {NoSeq}]
    BY <1>0, <2>1 DEF QueueTypes
  <2> QED BY <1>0, <2>1, <2>2, <2>3 DEF QueueTypes, NoPacket
<1>8. CASE TxTimer
  BY <1>0, <1>8, TimeoutTypes DEF TxTimer
<1>9. CASE \E cum \in SeqCounts, bits \in SUBSET (0 .. SackBits - 1) :
              (\A i \in Acked(cum, bits) : writes[i] > 0) /\ ReceiveAck(cum, bits)
  <2>1. PICK cum \in SeqCounts, bits \in SUBSET (0 .. SackBits - 1) :
           (\A i \in Acked(cum, bits) : writes[i] > 0) /\ ReceiveAck(cum, bits)
    BY <1>9
  <2>2. tx_pc' = "drain" /\ UNCHANGED <<tx_seq, next_seq, timers, expired, writing>>
    BY <2>1 DEF ReceiveAck
  <2>3. CASE UNCHANGED <<tx_st, actions>>
    BY <1>0, <2>2, <2>3 DEF QueueTypes
  <2>4. ASSUME NEW freed, NEW new, AckFrees(freed, new) PROVE QueueTypes'
    <3>1. /\ new \in Seq(SenderAction) /\ actions' = Push(actions, new)
          /\ tx_st' = [i \in Slots |-> IF i \in freed THEN "Empty" ELSE tx_st[i]]
      BY <2>4 DEF AckFrees
    <3>2. actions' \in Seq(SenderAction) /\ Len(actions') <= MaxActions
      BY <1>0, <3>1, PushTakes DEF QueueTypes
    <3>3. tx_st' \in [Slots -> SlotState]
      BY <1>0, <3>1 DEF QueueTypes, SlotState
    <3> QED BY <1>0, <2>2, <3>2, <3>3 DEF QueueTypes
  <2> QED BY <1>0, <2>1, <2>3, <2>4, ReceiveAckFrees
<1>10. CASE TxStopped \/ UNCHANGED tx_vars
  BY <1>0, <1>10 DEF TxStopped, tx_vars, tx_machine, QueueTypes
<1> QED
  BY <1>2, <1>3, <1>4, <1>5, <1>6, <1>7, <1>8, <1>9, <1>10 DEF TxNext, TxLoop

\* link.write has the packet of a slot or none.
LEMMA WritingTypesStep ==
    ASSUME SenderTypes, [TxNext]_tx_vars PROVE writing' \in Packets \cup {NoPacket} /\ bound' \in BOOLEAN
<1>0. /\ QueueTypes /\ BufferInv /\ writing \in Packets \cup {NoPacket} /\ bound \in BOOLEAN
  BY DEF SenderTypes
<1>1. CASE StartWrite
  <2> DEFINE S == {j \in Slots : Matches(j, Head(actions).seq)}
             i == Min(S)
  <2>1. writing' = Payload(i) /\ S # {} /\ bound' = bound
    BY <1>1 DEF StartWrite
  <2>2. i \in Live
    BY <2>1, MinOfSlots DEF Matches, Live
  <2> HIDE DEF i
  <2>3. Payload(i) \in Packets
    BY <1>0, <2>2, PayloadTypes DEF QueueTypes
  <2> QED BY <1>0, <2>1, <2>3
<1>2. CASE TxApp
  BY <1>0, <1>2 DEF TxApp, Send, SendEos, Drop, Bind
<1>3. CASE PopAction \/ AwaitEvent \/ HandleTimeout
  BY <1>0, <1>3 DEF PopAction, AwaitEvent, HandleTimeout
<1>4. CASE FinishWrite \/ LinkFails
  BY <1>0, <1>4 DEF FinishWrite, LinkFails
<1>5. CASE TxTimer \/ TxStopped \/ UNCHANGED tx_vars
  BY <1>0, <1>5 DEF TxTimer, Timeout, TxStopped, tx_vars
<1>6. ASSUME NEW cum, NEW bits, ReceiveAck(cum, bits)
      PROVE  writing' \in Packets \cup {NoPacket} /\ bound' \in BOOLEAN
  BY <1>0, <1>6 DEF ReceiveAck
<1> QED BY <1>1, <1>2, <1>3, <1>4, <1>5, <1>6 DEF TxNext, TxLoop

\* The variables of the sender keep their types (TxTypeOK): no offset leaves the buffer, no
\* payload is longer than a packet, and the queue and the retransmission counts stay
\* within their limits, for every size of buffer, packet, window and queue.
THEOREM SenderStaysTyped == TxSpec => []TxTypeOK
<1>1. TxInit => SenderTypes
  <2> SUFFICES ASSUME TxInit PROVE SenderTypes
    OBVIOUS
  <2>1. QueueTypes /\ Attempts /\ BufferInv
    BY QueueInit, AttemptsInit, BufferInit DEF QueueInv
  <2>2. writing = NoPacket /\ bound = TRUE /\ tx_count \in [Slots -> 0 .. MaxRetransmits]
    BY TxAssumption DEF TxInit
  <2> QED BY <2>1, <2>2 DEF SenderTypes
<1>2. SenderTypes /\ [TxNext]_tx_vars => SenderTypes'
  <2> SUFFICES ASSUME SenderTypes, [TxNext]_tx_vars PROVE SenderTypes'
    OBVIOUS
  <2>1. Attempts' /\ BufferInv'
    BY AttemptsStep, BufferStep DEF SenderTypes
  <2>2. tx_count' \in [Slots -> 0 .. MaxRetransmits]
    BY <2>1, CountTypesStep
  <2> QED BY <2>1, <2>2, QueueTypesStep, WritingTypesStep DEF SenderTypes
<1>3. SenderTypes => TxTypeOK
  <2> SUFFICES ASSUME SenderTypes PROVE TxTypeOK
    OBVIOUS
  <2> QED BY DEF SenderTypes, QueueTypes, BufferInv, Lies, TxTypeOK, SlotState, SenderAction
<1> QED BY <1>1, <1>2, <1>3, PTL DEF TxSpec
=============================================================================
