---------------------------- MODULE Cop1Proofs ------------------------------
(***************************************************************************)
(* COP-1.                                                                  *)
(*                                                                         *)
(* FARM-1 keeps its types, and the flags of its CLCW agree with its state, *)
(* for every size of the sequence space and of the window: alone, whatever *)
(* frames arrive, and in the composition, whose steps are FARM-1's.        *)
(*                                                                         *)
(* FOP-1 and FARM-1 together: FDUs are delivered in order, T1 runs while a *)
(* sent frame waits, and no FDU is acknowledged that was not delivered.    *)
(***************************************************************************)
EXTENDS Cop1, ModularArithmetic, FiniteSetTheorems, SequenceTheorems, WellFoundedInduction, TLAPS

(* FARM-1 alone.                                                           *)

\* wrapping_add of a u8 stays within the sequence space.
LEMMA UIncType == ASSUME NEW s \in FrameSeqs PROVE UInc(s) \in FrameSeqs
  BY FrameSpaceAssumption DEF UInc, FrameSeqs

\* The initial state of FarmMachine::new has its types.
LEMMA FarmTypeInit == FarmInit => FarmTypeOK
<1>1. FarmInit => FarmFlagsType
  BY Zenon DEF FarmInit, FarmFlagsType
<1>2. FarmInit => FarmCountersType
  BY FrameSpaceAssumption DEF FarmInit, FarmCountersType, FrameSeqs
<1> QED BY <1>1, <1>2 DEF FarmTypeOK

\* No event takes the state or a flag out of its type.
LEMMA FarmFlagsStep == FarmFlagsType /\ [FarmNext]_farm_vars => FarmFlagsType'
<1> SUFFICES ASSUME FarmFlagsType, [FarmNext]_farm_vars
             PROVE  FarmFlagsType'
  OBVIOUS
<1> USE DEF FarmFlagsType
<1>1. ASSUME NEW seq \in FrameSeqs, NEW room \in BOOLEAN, AdFrame(seq, room)
      PROVE  FarmFlagsType'
  <2>1. CASE AdAccept
    BY <2>1, Zenon DEF AdAccept
  <2>2. CASE AdNoRoom
    BY <2>2, Zenon DEF AdNoRoom
  <2>3. CASE AdGap
    BY <2>3, Zenon DEF AdGap
  <2>4. CASE AdLockout
    BY <2>4, Zenon DEF AdLockout
  <2>5. CASE UNCHANGED farm_vars
    BY <2>5, Zenon DEF farm_vars
  <2> QED BY <1>1, <2>1, <2>2, <2>3, <2>4, <2>5, Zenon DEF AdFrame
<1>2. CASE BdFrame
  BY <1>2, Zenon DEF BdFrame
<1>3. CASE BcUnlock
  BY <1>3, Zenon DEF BcUnlock
<1>4. CASE BufferRelease
  BY <1>4, Zenon DEF BufferRelease
<1>5. ASSUME NEW v \in FrameSeqs, BcSetVr(v)
      PROVE  FarmFlagsType'
  BY <1>5, Zenon DEF BcSetVr
<1>6. CASE UNCHANGED farm_vars
  BY <1>6, Zenon DEF farm_vars
<1> QED BY <1>1, <1>2, <1>3, <1>4, <1>5, <1>6, Zenon DEF FarmNext

\* No event takes V(R) or the FARM-B counter out of its range.
LEMMA FarmCountersStep == FarmCountersType /\ [FarmNext]_farm_vars => FarmCountersType'
<1> SUFFICES ASSUME FarmCountersType, [FarmNext]_farm_vars
             PROVE  FarmCountersType'
  OBVIOUS
<1> USE DEF FarmCountersType
<1>1. CountB => farm_b_counter' \in 0 .. 3
  BY DEF CountB
<1>2. ASSUME NEW seq \in FrameSeqs, NEW room \in BOOLEAN, AdFrame(seq, room)
      PROVE  FarmCountersType'
  <2>1. CASE AdAccept
    BY <2>1, UIncType DEF AdAccept
  <2>2. CASE UNCHANGED <<vr, farm_b_counter>>
    BY <2>2
  <2> QED BY <1>2, <2>1, <2>2, Zenon
             DEF AdFrame, AdNoRoom, AdGap, AdLockout, farm_vars
<1>3. CASE BdFrame
  BY <1>1, <1>3 DEF BdFrame
<1>4. CASE BcUnlock
  BY <1>1, <1>4 DEF BcUnlock
<1>5. CASE BufferRelease
  BY <1>5 DEF BufferRelease
<1>6. ASSUME NEW v \in FrameSeqs, BcSetVr(v)
      PROVE  FarmCountersType'
  BY <1>1, <1>6 DEF BcSetVr
<1>7. CASE UNCHANGED farm_vars
  BY <1>7 DEF farm_vars
<1> QED BY <1>2, <1>3, <1>4, <1>5, <1>6, <1>7, Zenon DEF FarmNext

\* FARM-1 keeps its types: V(R) stays a sequence number and the FARM-B counter within two
\* bits, whatever frames arrive.
THEOREM FarmTypeCorrect == FarmSpec => []FarmTypeOK
<1>1. FarmTypeOK /\ [FarmNext]_farm_vars => FarmTypeOK'
  BY FarmFlagsStep, FarmCountersStep DEF FarmTypeOK
<1> QED BY <1>1, FarmTypeInit, PTL DEF FarmSpec
-----------------------------------------------------------------------------
\* Every event of FARM-1 keeps the flags in agreement with the state.
LEMMA FlagsStep ==
  FarmFlagsType /\ FlagsMatchState /\ [FarmNext]_farm_vars => FlagsMatchState'
<1> SUFFICES ASSUME FarmFlagsType, FlagsMatchState, [FarmNext]_farm_vars
             PROVE  FlagsMatchState'
  OBVIOUS
<1> USE DEF FlagsMatchState
<1>1. ASSUME NEW seq \in FrameSeqs, NEW room \in BOOLEAN, AdFrame(seq, room)
      PROVE  FlagsMatchState'
  <2>1. CASE AdAccepted(seq, room) /\ AdAccept
    BY <2>1, Zenon DEF AdAccepted, AdAccept
  <2>2. CASE farm_state = "Open" /\ AdNoRoom
    BY <2>2, Zenon DEF AdNoRoom
  <2>3. CASE farm_state = "Open" /\ AdGap
    BY <2>3, Zenon DEF AdGap
  <2>4. CASE AdLockout
    BY <2>4, Zenon DEF AdLockout
  <2>5. CASE UNCHANGED farm_vars
    BY <2>5, Zenon DEF farm_vars
  <2> QED BY <1>1, <2>1, <2>2, <2>3, <2>4, <2>5, Zenon DEF AdFrame
<1>2. CASE BdFrame
  BY <1>2, Zenon DEF BdFrame
<1>3. CASE BcUnlock
  BY <1>3, Zenon DEF BcUnlock, FarmFlagsType
<1>4. CASE BufferRelease
  BY <1>4, Zenon DEF BufferRelease, FarmFlagsType
<1>5. ASSUME NEW v \in FrameSeqs, BcSetVr(v)
      PROVE  FlagsMatchState'
  BY <1>5, Zenon DEF BcSetVr, FarmFlagsType
<1>6. CASE UNCHANGED farm_vars
  BY <1>6, Zenon DEF farm_vars
<1> QED BY <1>1, <1>2, <1>3, <1>4, <1>5, <1>6, Zenon DEF FarmNext

\* A CLCW never contradicts the state of FARM-1, after any sequence of frames, control
\* commands and buffer releases.
THEOREM FlagsAreConsistent == FarmSpec => []FlagsMatchState
<1>1. FarmInit => FlagsMatchState
  BY Zenon DEF FarmInit, FlagsMatchState
<1>2. FarmTypeOK => FarmFlagsType
  BY DEF FarmTypeOK
<1> QED BY <1>1, <1>2, FlagsStep, FarmTypeCorrect, PTL DEF FarmSpec
-----------------------------------------------------------------------------
(* The composition: types.                                                 *)

Frames == [type : {"Ad", "Bd", "Unlock", "SetVr"}, fdu : Nat, seq : FrameSeqs]
Clcws  == [lockout : BOOLEAN, retransmit : BOOLEAN, nr : FrameSeqs]

QueueType ==
    /\ sq_occupied \subseteq SqSlots
    /\ sq_seq \in [SqSlots -> FrameSeqs]
    /\ sq_count \in [SqSlots -> Nat]
    /\ sq_fdu \in [SqSlots -> Nat]

CountersType ==
    /\ vs \in FrameSeqs /\ nnr \in FrameSeqs /\ set_vr_value \in FrameSeqs
    /\ bc_count \in Nat /\ fop_write_pos \in Nat
    /\ fdus \in 0 .. MaxFdus

LinksType == uplink \in Seq(Frames) /\ downlink \in Seq(Clcws)

\* outside the transfer states the sent queue is empty: whoever leaves them purges it
QueueIsLive == sq_occupied # {} => Transferring

\* while Set V(R) is sent again and again, resynced tells of it
SetVrIsMarked == fop_state = "InitWithSetVr" => resynced = TRUE

Cop1Type ==
    /\ QueueType /\ CountersType /\ LinksType /\ QueueIsLive /\ SetVrIsMarked
    /\ accepted \in Seq(Nat)
    /\ FarmTypeOK
-----------------------------------------------------------------------------
(* The order of FDUs.                                                      *)

\* FDU ff with number fs was taken before FDU gf with number gs, fewer than FrameSpace - 1
\* numbers before, or is the same one
Behind(ff, fs, gf, gs) ==
    /\ ff < gf => fs # gs /\ fs # UInc(gs)
    /\ ff = gf => fs = gs

NoSetVr(from, to) == \A k \in from .. to : uplink[k].type # "SetVr"

Ads == {p \in DOMAIN uplink : uplink[p].type = "Ad"}

LastFdu == IF accepted = <<>> THEN 0 ELSE accepted[Len(accepted)]

KnownFdus ==
    /\ \A p \in Ads : uplink[p].fdu \in 1 .. fdus
    /\ \A i \in sq_occupied : sq_fdu[i] \in 1 .. fdus
    /\ LastFdu \in 0 .. fdus

\* the buffer still holds every FDU taken since the one in slot i
Buffered ==
    /\ fop_write_pos <= FopBuf
    /\ \A i \in sq_occupied : (fdus + 1 - sq_fdu[i]) * FduLen <= fop_write_pos

QueueOrder ==
    \A i \in sq_occupied :
        /\ USub(vs, sq_seq[i]) \in 1 .. (fdus + 1 - sq_fdu[i])
        /\ \A j \in sq_occupied : Behind(sq_fdu[i], sq_seq[i], sq_fdu[j], sq_seq[j])

\* a frame that comes after one of the same or a later FDU is a retransmission, and
\* V(R) is not set in between
LinkOrder ==
    \A q, p \in Ads :
        q < p /\ uplink[p].fdu <= uplink[q].fdu =>
            /\ Behind(uplink[p].fdu, uplink[p].seq, uplink[q].fdu, uplink[q].seq)
            /\ NoSetVr(q, p)

\* the same for the frames still to be retransmitted
ResendOrder ==
    \A i \in sq_occupied : \A q \in Ads :
        sq_fdu[i] <= uplink[q].fdu =>
            /\ Behind(sq_fdu[i], sq_seq[i], uplink[q].fdu, uplink[q].seq)
            /\ NoSetVr(q, Len(uplink))

\* a frame of an FDU up to the last one accepted does not fit V(R), and nothing before it
\* sets V(R)
StaleOrder ==
    /\ \A p \in Ads :
          uplink[p].fdu <= LastFdu => NoSetVr(1, p) /\ uplink[p].seq # vr
    /\ \A i \in sq_occupied :
          sq_fdu[i] <= LastFdu => NoSetVr(1, Len(uplink)) /\ sq_seq[i] # vr

OrderInv ==
    /\ KnownFdus /\ Buffered /\ QueueOrder /\ LinkOrder /\ ResendOrder /\ StaleOrder
    /\ AcceptedInOrder
-----------------------------------------------------------------------------
(* The position of FDUs.                                                   *)

\* FDU f is on the link or in the queue with number s
Sent(f, s) ==
    \/ \E p \in Ads : uplink[p].fdu = f /\ uplink[p].seq = s
    \/ \E i \in sq_occupied : sq_fdu[i] = f /\ sq_seq[i] = s

\* the FDU with number s is the (s + 1)-th that FARM-1 accepts
Positioned(f, s) == s < vs /\ (s < Len(accepted) => accepted[s + 1] = f)

\* without Set V(R) and without V(S) set from a CLCW, numbers are positions
PositionInv ==
    ~resynced =>
        /\ vs <= fdus
        /\ vr = Len(accepted) /\ vr <= vs
        /\ \A p \in DOMAIN uplink : uplink[p].type # "SetVr"
        /\ \A k \in DOMAIN downlink : downlink[k].nr <= vr
        /\ \A f, s : Sent(f, s) => Positioned(f, s)
        /\ \A f, g, s : Sent(f, s) /\ Sent(g, s) => f = g
        /\ acked \subseteq Range(accepted)
-----------------------------------------------------------------------------
(* What the driver does with the actions of an event.                      *)

\* The smaller of two integers.
LEMMA MinOfTwo ==
    ASSUME NEW a \in Int, NEW b \in Int
    PROVE  Min({a, b}) \in {a, b} /\ Min({a, b}) <= a /\ Min({a, b}) <= b
<1>1. \E x \in {a, b} : \A y \in {a, b} : x <= y
  OBVIOUS
<1>2. Min({a, b}) \in {a, b} /\ \A y \in {a, b} : Min({a, b}) <= y
  BY <1>1, Zenon DEF Min
<1> QED BY <1>2

\* FopActions::push keeps a prefix.
LEMMA KeptIsPrefix ==
    ASSUME NEW T, NEW s \in Seq(T), NEW room \in Int
    PROVE  /\ Kept(s, room) \in Seq(T)
           /\ Len(Kept(s, room)) <= Len(s)
           /\ \A k \in DOMAIN Kept(s, room) : k \in DOMAIN s /\ Kept(s, room)[k] = s[k]
<1> DEFINE m == Min({Len(s), room})
<1>1. m \in Int /\ m <= Len(s)
  <2>1. Len(s) \in Int
    OBVIOUS
  <2>2. m \in {Len(s), room} /\ m <= Len(s)
    BY <2>1, MinOfTwo, Zenon
  <2> QED BY <2>1, <2>2
<1> HIDE DEF m
<1>2. Kept(s, room) = SubSeq(s, 1, m)
  BY DEF Kept, m
<1>3. \A k \in 1 .. m : k \in 1 .. Len(s) /\ s[k] \in T
  BY <1>1
<1> QED BY <1>1, <1>2, <1>3

\* The link after an event: a prefix of the frames it transmits is appended.
LEMMA EmitLink ==
    ASSUME NEW acks, Len(acks) \in Nat, NEW fs \in Seq(Frames), NEW timer, NEW armed,
           uplink \in Seq(Frames), Emit(acks, fs, timer, armed)
    PROVE  \E s \in Seq(Frames) :
              /\ uplink' = uplink \o s
              /\ \A k \in DOMAIN s : k \in DOMAIN fs /\ s[k] = fs[k]
<1> DEFINE a == Kept(fs, FopMaxActions - Len(acks))
           s == Kept(a, MaxUplink - Len(uplink))
<1>1. FopMaxActions - Len(acks) \in Int /\ MaxUplink - Len(uplink) \in Int
  BY FopAssumption
<1>2. a \in Seq(Frames) /\ \A k \in DOMAIN a : k \in DOMAIN fs /\ a[k] = fs[k]
  BY <1>1, KeptIsPrefix
<1> HIDE DEF a
<1>3. s \in Seq(Frames) /\ \A k \in DOMAIN s : k \in DOMAIN a /\ s[k] = a[k]
  BY <1>1, <1>2, KeptIsPrefix
<1>4. uplink' = uplink \o s
  BY DEF Emit, a
<1> HIDE DEF s
<1>5. \A k \in DOMAIN s : k \in DOMAIN fs /\ s[k] = fs[k]
  BY <1>2, <1>3
<1> QED BY <1>3, <1>4, <1>5
-----------------------------------------------------------------------------
(* The steps of FOP-1 that take no AD FDU: s is what they put on the link. *)

\* every AD frame sent is that of an occupied slot
Copies(s) ==
    \A k \in DOMAIN s : s[k].type = "Ad" => \E i \in sq_occupied : s[k] = AdFrameOf(i)

\* Set V(R) is sent alone, and leaves an empty queue
SetsVrAlone(s) ==
    (\E k \in DOMAIN s : s[k].type = "SetVr") =>
        /\ \A k \in DOMAIN s : s[k].type # "Ad"
        /\ sq_occupied' = {} /\ resynced' = TRUE

\* V(S) changes only when a CLCW completes an initialisation
KeepsVs ==
    /\ vs' \in FrameSeqs
    /\ vs' = vs \/ (sq_occupied' = {} /\ resynced' = TRUE)

\* an FDU is reported only if the CLCW read acknowledges its slot
Reports ==
    \A f \in acked' :
        \/ f \in acked
        \/ downlink # <<>> /\ \E i \in Acknowledged(Head(downlink).nr) : f = sq_fdu[i]

\* every FDU takes room until the queue is purged
RoomStep ==
    \/ fdus' = fdus /\ fop_write_pos' = fop_write_pos
    \/ fdus' = fdus /\ fop_write_pos' = 0 /\ sq_occupied' = {}
    \/ fdus' = fdus + 1 /\ fop_write_pos' = fop_write_pos + FduLen /\ fop_write_pos' <= FopBuf

QuietStep(s) ==
    /\ s \in Seq(Frames) /\ uplink' = uplink \o s /\ Copies(s) /\ SetsVrAlone(s)
    /\ sq_occupied' \subseteq sq_occupied
    /\ sq_seq' = sq_seq /\ sq_fdu' = sq_fdu /\ sq_count' \in [SqSlots -> Nat]
    /\ sq_occupied' # {} => fop_state' \in {"Active", "Retransmitting"}
    /\ fdus' \in {fdus, fdus + 1} /\ fdus' <= MaxFdus
    /\ fop_write_pos' \in Nat /\ RoomStep
    /\ nnr' \in FrameSeqs /\ set_vr_value' \in FrameSeqs /\ bc_count' \in Nat
    /\ KeepsVs /\ Reports
    /\ resynced' = resynced \/ resynced' = TRUE
    /\ fop_state' = "InitWithSetVr" => resynced' = TRUE

\* An event without an acknowledgment reports none.
LEMMA NothingReported ==
    ASSUME NEW fs, NEW timer, NEW armed, Emit(<<>>, fs, timer, armed)
    PROVE  acked' = acked
<1>1. Kept(<<>>, FopMaxActions) = <<>>
  <2>1. FopMaxActions \in Int /\ <<>> \in Seq(Frames)
    BY FopAssumption
  <2>2. Kept(<<>>, FopMaxActions) \in Seq(Frames) /\ Len(Kept(<<>>, FopMaxActions)) <= Len(<<>>)
    BY <2>1, KeptIsPrefix, Zenon
  <2> QED BY <2>2
<1> QED BY <1>1 DEF Emit, Range

\* Nothing is sent but what the driver is told.
LEMMA EmitSilent ==
    ASSUME NEW timer, NEW armed, uplink \in Seq(Frames), Emit(<<>>, <<>>, timer, armed)
    PROVE  uplink' = uplink \o <<>> /\ acked' = acked /\ <<>> \in Seq(Frames)
<1>2. acked' = acked
  BY NothingReported, Zenon
<1>3. PICK s \in Seq(Frames) :
         /\ uplink' = uplink \o s
         /\ \A k \in DOMAIN s : k \in DOMAIN <<>> /\ s[k] = <<>>[k]
  <2>1. Len(<<>>) \in Nat /\ <<>> \in Seq(Frames)
    OBVIOUS
  <2> QED BY <2>1, EmitLink, Zenon
<1>4. s = <<>>
  BY <1>3
<1> QED BY <1>2, <1>3, <1>4

\* One frame that is not an AD frame is sent, or lost at once.
LEMMA EmitOne ==
    ASSUME NEW timer, NEW armed, uplink \in Seq(Frames),
           NEW f \in Frames, f.type # "Ad", Emit(<<>>, <<f>>, timer, armed)
    PROVE  /\ acked' = acked
           /\ \E s \in Seq(Frames) :
                 /\ uplink' = uplink \o s /\ Copies(s)
                 /\ \A k \in DOMAIN s : s[k] = f
<1>2. acked' = acked
  BY NothingReported, Zenon
<1>3. PICK s \in Seq(Frames) :
         /\ uplink' = uplink \o s
         /\ \A k \in DOMAIN s : k \in DOMAIN <<f>> /\ s[k] = <<f>>[k]
  <2>1. Len(<<>>) \in Nat /\ <<f>> \in Seq(Frames)
    OBVIOUS
  <2> QED BY <2>1, EmitLink, Zenon
<1>4. \A k \in DOMAIN s : s[k] = f
  BY <1>3
<1>5. Copies(s)
  BY <1>4, Zenon DEF Copies
<1> QED BY <1>2, <1>3, <1>4, <1>5

\* An event that sends nothing and reports nothing.
Silent ==
    /\ uplink' = uplink \o <<>> /\ acked' = acked
    /\ \/ sq_occupied' = {} /\ fop_write_pos' = 0
       \/ /\ sq_occupied' = sq_occupied /\ fop_write_pos' = fop_write_pos
          /\ fop_state' \in {"Active", fop_state}
    /\ sq_seq' = sq_seq /\ sq_fdu' = sq_fdu /\ sq_count' = sq_count
    /\ nnr' \in FrameSeqs /\ set_vr_value' = set_vr_value /\ bc_count' \in Nat
    /\ fdus' = fdus
    /\ KeepsVs
    /\ resynced' = resynced \/ resynced' = TRUE
    /\ fop_state' = "InitWithSetVr" => fop_state = "InitWithSetVr"

\* Such an event is quiet.
LEMMA SilentIsQuiet == Cop1Type /\ Silent => QuietStep(<<>>)
<1> SUFFICES ASSUME Cop1Type, Silent PROVE QuietStep(<<>>)
  OBVIOUS
<1> USE DEF Silent
<1>1. QueueType /\ CountersType /\ QueueIsLive /\ SetVrIsMarked
  BY DEF Cop1Type
<1>2. <<>> \in Seq(Frames) /\ Copies(<<>>) /\ SetsVrAlone(<<>>)
  <2>1. DOMAIN <<>> = {}
    OBVIOUS
  <2> QED BY <2>1 DEF Copies, SetsVrAlone
<1>3. /\ sq_occupied' \subseteq sq_occupied /\ sq_count' \in [SqSlots -> Nat]
      /\ sq_occupied' # {} => fop_state' \in {"Active", "Retransmitting"}
  BY <1>1 DEF QueueType, QueueIsLive, Transferring
<1>4. /\ fdus' \in {fdus, fdus + 1} /\ fdus' <= MaxFdus /\ fop_write_pos' \in Nat /\ RoomStep
      /\ nnr' \in FrameSeqs /\ set_vr_value' \in FrameSeqs /\ bc_count' \in Nat
  BY <1>1, FopAssumption DEF CountersType, RoomStep
<1>5. Reports
  BY DEF Reports
<1>6. fop_state' = "InitWithSetVr" => resynced' = TRUE
  BY <1>1 DEF SetVrIsMarked
<1> QED BY <1>2, <1>3, <1>4, <1>5, <1>6 DEF QuietStep

\* The alerts, the end of an initialisation, and the directives that send no frame.
LEMMA SilentSteps ==
    ASSUME Cop1Type,
           \/ \E c \in Clcws : ClcwLockout(c) \/ ClcwInitDone(c) \/ ClcwIgnored(c)
           \/ TimerAlert \/ TimerIgnored
           \/ InitAdNoClcw \/ InitAdWithClcw \/ Terminate \/ Resume
    PROVE  Silent
<1>1. /\ vs \in FrameSeqs /\ nnr \in FrameSeqs /\ bc_count \in Nat
      /\ uplink \in Seq(Frames) /\ bc_count + 1 \in Nat
  BY DEF Cop1Type, CountersType, LinksType
<1>2. uplink \o <<>> = uplink
  BY <1>1
<1> USE DEF Silent, KeepsVs, Purge, fop_init, fop_hist, fop_queue
<1>3. ASSUME NEW c \in Clcws, ClcwLockout(c) PROVE Silent
  <2>1. Emit(<<>>, <<>>, "StopTimer", t1)
    BY <1>3 DEF ClcwLockout, Alert
  <2>2. uplink' = uplink \o <<>> /\ acked' = acked
    BY <1>1, <2>1, EmitSilent, Zenon
  <2> QED BY <1>1, <1>3, <2>2 DEF ClcwLockout, Alert
<1>4. ASSUME NEW c \in Clcws, ClcwInitDone(c) PROVE Silent
  <2>1. Emit(<<>>, <<>>, "StopTimer", t1)
    BY <1>4 DEF ClcwInitDone
  <2>2. uplink' = uplink \o <<>> /\ acked' = acked
    BY <1>1, <2>1, EmitSilent, Zenon
  <2>3. c.nr \in FrameSeqs
    BY DEF Clcws
  <2> QED BY <1>1, <1>4, <2>2, <2>3 DEF ClcwInitDone
<1>5. ASSUME NEW c \in Clcws, ClcwIgnored(c) PROVE Silent
  BY <1>1, <1>2, <1>5 DEF ClcwIgnored, fop_vars
<1>6. CASE TimerAlert
  <2>1. Emit(<<>>, <<>>, "StopTimer", FALSE)
    BY <1>6 DEF TimerAlert, Alert
  <2>2. uplink' = uplink \o <<>> /\ acked' = acked
    BY <1>1, <2>1, EmitSilent, Zenon
  <2> QED BY <1>1, <1>6, <2>2 DEF TimerAlert, Alert
<1>7. CASE TimerIgnored
  BY <1>1, <1>2, <1>7 DEF TimerIgnored
<1>8. CASE InitAdNoClcw
  <2>1. Emit(<<>>, <<>>, "none", t1)
    BY <1>8 DEF InitAdNoClcw
  <2>2. uplink' = uplink \o <<>> /\ acked' = acked
    BY <1>1, <2>1, EmitSilent, Zenon
  <2> QED BY <1>1, <1>8, <2>2 DEF InitAdNoClcw, Directive
<1>9. CASE InitAdWithClcw
  <2>1. Emit(<<>>, <<>>, "StartTimer", t1)
    BY <1>9 DEF InitAdWithClcw
  <2>2. uplink' = uplink \o <<>> /\ acked' = acked
    BY <1>1, <2>1, EmitSilent, Zenon
  <2> QED BY <1>1, <1>9, <2>2 DEF InitAdWithClcw, Directive
<1>10. CASE Terminate
  <2>1. Emit(<<>>, <<>>, "StopTimer", t1)
    BY <1>10 DEF Terminate
  <2>2. uplink' = uplink \o <<>> /\ acked' = acked
    BY <1>1, <2>1, EmitSilent, Zenon
  <2> QED BY <1>1, <1>10, <2>2 DEF Terminate, Directive
<1>11. CASE Resume
  <2>1. Emit(<<>>, <<>>, "none", t1)
    BY <1>11 DEF Resume
  <2>2. uplink' = uplink \o <<>> /\ acked' = acked
    BY <1>1, <2>1, EmitSilent, Zenon
  <2> QED BY <1>1, <1>11, <2>2 DEF Resume, Directive
<1> QED BY <1>3, <1>4, <1>5, <1>6, <1>7, <1>8, <1>9, <1>10, <1>11

\* A BD frame is quiet: it takes room in the buffer and no slot.
LEMMA SendBdIsQuiet == Cop1Type /\ SendBd => \E s : QuietStep(s)
<1> SUFFICES ASSUME Cop1Type, SendBd PROVE \E s : QuietStep(s)
  OBVIOUS
<1>1. QueueType /\ CountersType /\ LinksType /\ QueueIsLive /\ SetVrIsMarked
  BY DEF Cop1Type
<1> DEFINE f == [type |-> "Bd", fdu |-> fdus + 1, seq |-> 0]
<1>2. f \in Frames /\ f.type = "Bd"
  BY <1>1, FrameSpaceAssumption DEF Frames, CountersType, FrameSeqs
<1>3. Emit(<<>>, <<f>>, "none", t1) /\ uplink \in Seq(Frames)
  BY <1>1 DEF SendBd, LinksType
<1> HIDE DEF f
<1>4. /\ acked' = acked
      /\ \E s \in Seq(Frames) :
            /\ uplink' = uplink \o s /\ Copies(s)
            /\ \A k \in DOMAIN s : s[k] = f
  <2>1. f.type # "Ad"
    BY <1>2
  <2> QED BY <1>2, <1>3, <2>1, EmitOne, Zenon
<1>5. PICK s \in Seq(Frames) :
         uplink' = uplink \o s /\ Copies(s) /\ \A k \in DOMAIN s : s[k] = f
  BY <1>4
<1>6. SetsVrAlone(s)
  BY <1>2, <1>5 DEF SetsVrAlone
<1>7. Reports
  BY <1>4 DEF Reports
<1>8. KeepsVs
  BY <1>1 DEF SendBd, KeepsVs, CountersType
<1>9. /\ sq_occupied' = sq_occupied /\ sq_seq' = sq_seq /\ sq_fdu' = sq_fdu
      /\ sq_count' \in [SqSlots -> Nat] /\ resynced' = resynced
      /\ sq_occupied' # {} => fop_state' \in {"Active", "Retransmitting"}
      /\ fop_state' = "InitWithSetVr" => resynced' = TRUE
  BY <1>1 DEF SendBd, QueueType, QueueIsLive, SetVrIsMarked, Transferring
<1>10. /\ fdus' \in {fdus, fdus + 1} /\ fdus' <= MaxFdus /\ fop_write_pos' \in Nat /\ RoomStep
       /\ nnr' \in FrameSeqs /\ set_vr_value' \in FrameSeqs /\ bc_count' \in Nat
  BY <1>1, FopAssumption DEF SendBd, CountersType, fop_init, RoomStep, BufferHasRoom
<1> QED BY <1>5, <1>6, <1>7, <1>8, <1>9, <1>10 DEF QuietStep

\* So is a BC frame: Unlock and Set V(R) are sent with an empty queue.
LEMMA BcIsQuiet ==
    ASSUME Cop1Type,
           InitAdUnlock \/ TimerResendsBc \/ \E v \in SetVrValues : InitAdSetVr(v)
    PROVE  \E s : QuietStep(s)
<1>1. QueueType /\ CountersType /\ LinksType /\ QueueIsLive /\ SetVrIsMarked
  BY DEF Cop1Type
<1>2. PICK f \in Frames :
         /\ f.type \in {"Unlock", "SetVr"} /\ \E armed : Emit(<<>>, <<f>>, "StartTimer", armed)
         /\ f.type = "SetVr" => resynced' = TRUE
  <2>1. CASE InitAdUnlock
    <3>1. Frame("Unlock") \in Frames /\ Frame("Unlock").type = "Unlock"
      BY FrameSpaceAssumption DEF Frames, Frame, FrameSeqs
    <3> QED BY <2>1, <3>1 DEF InitAdUnlock
  <2>2. CASE TimerResendsBc
    <3>1. Frame("Unlock") \in Frames /\ Frame("Unlock").type = "Unlock"
      BY FrameSpaceAssumption DEF Frames, Frame, FrameSeqs
    <3>2. SetVrFrame(set_vr_value) \in Frames /\ SetVrFrame(set_vr_value).type = "SetVr"
      BY <1>1 DEF Frames, SetVrFrame, CountersType
    <3>3. fop_state = "InitWithSetVr" => resynced' = TRUE
      BY <1>1, <2>2 DEF TimerResendsBc, fop_hist, SetVrIsMarked
    <3> QED BY <2>2, <3>1, <3>2, <3>3 DEF TimerResendsBc
  <2>3. ASSUME NEW v \in SetVrValues, InitAdSetVr(v)
        PROVE  /\ SetVrFrame(v) \in Frames /\ SetVrFrame(v).type = "SetVr" /\ resynced' = TRUE
               /\ Emit(<<>>, <<SetVrFrame(v)>>, "StartTimer", t1)
    BY <2>3, Cop1Assumption DEF Frames, SetVrFrame, InitAdSetVr
  <2> QED BY <2>1, <2>2, <2>3
<1>3. PICK armed : Emit(<<>>, <<f>>, "StartTimer", armed)
  BY <1>2
<1>4. /\ acked' = acked
      /\ \E s \in Seq(Frames) :
            /\ uplink' = uplink \o s /\ Copies(s)
            /\ \A k \in DOMAIN s : s[k] = f
  <2>1. f.type # "Ad" /\ uplink \in Seq(Frames)
    BY <1>1, <1>2 DEF LinksType
  <2> QED BY <1>3, <2>1, EmitOne, Zenon
<1>5. PICK s \in Seq(Frames) :
         uplink' = uplink \o s /\ Copies(s) /\ \A k \in DOMAIN s : s[k] = f
  BY <1>4
<1>6. sq_occupied' = {} /\ sq_seq' = sq_seq /\ sq_fdu' = sq_fdu /\ sq_count' = sq_count
  BY <1>1 DEF InitAdUnlock, TimerResendsBc, InitAdSetVr, Purge, fop_queue, QueueIsLive, Transferring
<1>7. SetsVrAlone(s)
  BY <1>2, <1>5, <1>6 DEF SetsVrAlone
<1>8. Reports
  BY <1>4 DEF Reports
<1>9. /\ vs' = vs /\ nnr' = nnr /\ fdus' = fdus /\ set_vr_value' \in FrameSeqs
      /\ bc_count' \in Nat /\ fop_write_pos' \in {0, fop_write_pos}
      /\ resynced' = resynced \/ resynced' = TRUE
      /\ fop_state' = "InitWithSetVr" => resynced' = TRUE
  <2>1. CASE InitAdUnlock
    BY <1>1, <2>1 DEF InitAdUnlock, Directive, Purge, CountersType
  <2>2. CASE TimerResendsBc
    BY <1>1, <2>2 DEF TimerResendsBc, fop_hist, fop_queue, CountersType, SetVrIsMarked
  <2>3. ASSUME NEW v \in SetVrValues, InitAdSetVr(v)
        PROVE  /\ vs' = vs /\ nnr' = nnr /\ fdus' = fdus /\ set_vr_value' \in FrameSeqs
               /\ bc_count' \in Nat /\ fop_write_pos' = 0 /\ resynced' = TRUE
    BY <1>1, <2>3, Cop1Assumption DEF InitAdSetVr, Directive, Purge, CountersType
  <2> QED BY <2>1, <2>2, <2>3
<1>10. KeepsVs
  BY <1>1, <1>9 DEF KeepsVs, CountersType
<1>11. /\ fdus' \in {fdus, fdus + 1} /\ fdus' <= MaxFdus /\ nnr' \in FrameSeqs
       /\ fop_write_pos' \in Nat /\ RoomStep
  BY <1>1, <1>6, <1>9, FopAssumption DEF CountersType, RoomStep
<1> QED BY <1>1, <1>5, <1>6, <1>7, <1>8, <1>9, <1>10, <1>11 DEF QuietStep, QueueType

\* A set of slots is finite.
LEMMA SlotsAreFinite ==
    ASSUME NEW S \in SUBSET SqSlots
    PROVE  IsFiniteSet(S) /\ Cardinality(S) \in Nat /\ Cardinality(S) <= FopWin
<1>1. IsFiniteSet(SqSlots) /\ Cardinality(SqSlots) = FopWin
  <2>1. FopWin \in Nat
    BY FopAssumption
  <2>2. IsFiniteSet(1 .. FopWin) /\ Cardinality(1 .. FopWin) = FopWin - 1 + 1
    BY <2>1, FS_Interval
  <2> QED BY <2>1, <2>2 DEF SqSlots
<1> QED BY <1>1, FS_Subset, FS_CardinalityType

\* A list of slots.
LEMMA OrderType ==
    ASSUME NEW S \in SUBSET SqSlots, NEW o \in [1 .. Cardinality(S) -> S], QueueType
    PROVE  /\ o \in Seq(S) /\ DOMAIN o = 1 .. Cardinality(S)
           /\ Reported(o) \in Seq(Nat) /\ Len(Reported(o)) = Cardinality(S)
           /\ \A k \in DOMAIN Reported(o) : \E i \in S : Reported(o)[k] = sq_fdu[i]
           /\ Resent(o) \in Seq(Frames) /\ Len(Resent(o)) = Cardinality(S)
           /\ \A k \in DOMAIN Resent(o) : \E i \in S : Resent(o)[k] = AdFrameOf(i)
<1> DEFINE n == Cardinality(S)
<1>1. n \in Nat
  BY SlotsAreFinite
<1>2. \A i \in S : sq_fdu[i] \in Nat /\ AdFrameOf(i) \in Frames
  BY DEF QueueType, AdFrameOf, Frames
<1> HIDE DEF n
<1>3. o \in [1 .. n -> S] /\ DOMAIN o = 1 .. n
  BY DEF n
<1>4. o \in Seq(S)
  BY <1>1, <1>3
<1>5. Reported(o) \in [1 .. n -> Nat] /\ \A k \in 1 .. n : Reported(o)[k] = sq_fdu[o[k]]
  BY <1>2, <1>3 DEF Reported
<1>6. Resent(o) \in [1 .. n -> Frames] /\ \A k \in 1 .. n : Resent(o)[k] = AdFrameOf(o[k])
  BY <1>2, <1>3 DEF Resent
<1>7. Reported(o) \in Seq(Nat) /\ Len(Reported(o)) = n /\ DOMAIN Reported(o) = 1 .. n
  BY <1>1, <1>5
<1>8. Resent(o) \in Seq(Frames) /\ Len(Resent(o)) = n /\ DOMAIN Resent(o) = 1 .. n
  BY <1>1, <1>6
<1> QED BY <1>3, <1>4, <1>5, <1>6, <1>7, <1>8 DEF n

\* Frames that go out again.
LEMMA EmitCopies ==
    ASSUME NEW acks, Len(acks) \in Nat, NEW fs \in Seq(Frames), NEW timer, NEW armed,
           uplink \in Seq(Frames), Emit(acks, fs, timer, armed),
           \A k \in DOMAIN fs : \E i \in sq_occupied : fs[k] = AdFrameOf(i)
    PROVE  \E s \in Seq(Frames) : uplink' = uplink \o s /\ Copies(s) /\ SetsVrAlone(s)
<1>1. PICK s \in Seq(Frames) :
         /\ uplink' = uplink \o s
         /\ \A k \in DOMAIN s : k \in DOMAIN fs /\ s[k] = fs[k]
  BY EmitLink, Zenon
<1>2. Copies(s)
  BY <1>1, Zenon DEF Copies
<1>3. \A i \in sq_occupied : AdFrameOf(i).type = "Ad"
  BY DEF AdFrameOf
<1>4. SetsVrAlone(s)
  BY <1>1, <1>3 DEF SetsVrAlone
<1> QED BY <1>1, <1>2, <1>4

\* The transmission counts stay numbers.
LEMMA RecountType ==
    ASSUME QueueType, NEW S
    PROVE  Recount(S) \in [SqSlots -> Nat]
<1>1. \A n \in Nat : Count(n + 1) \in Nat
  <2> TAKE n \in Nat
  <2>1. n + 1 \in Int /\ n + 1 \in Nat /\ TransmissionLimit \in Int /\ TransmissionLimit \in Nat
    BY FopAssumption
  <2>2. Min({n + 1, TransmissionLimit}) \in {n + 1, TransmissionLimit}
    BY <2>1, MinOfTwo, Zenon
  <2> QED BY <2>1, <2>2 DEF Count
<1>2. \A i \in SqSlots : sq_count[i] \in Nat
  BY DEF QueueType
<1>3. \A i \in SqSlots : (IF i \in S THEN Count(sq_count[i] + 1) ELSE sq_count[i]) \in Nat
  BY <1>1, <1>2
<1> QED BY <1>3, Zenon DEF Recount

\* T1 expires and the queue is sent again.
LEMMA GoBackIsQuiet == Cop1Type /\ TimerGoBack => \E s : QuietStep(s)
<1> SUFFICES ASSUME Cop1Type, TimerGoBack PROVE \E s : QuietStep(s)
  OBVIOUS
<1>1. QueueType /\ CountersType /\ LinksType /\ QueueIsLive /\ SetVrIsMarked
  BY DEF Cop1Type
<1>2. PICK again \in SendOrders(sq_occupied, nnr) :
         Emit(<<>>, Resent(again), ResentTimer(sq_occupied), FALSE)
  BY DEF TimerGoBack
<1>3. /\ Resent(again) \in Seq(Frames)
      /\ \A k \in DOMAIN Resent(again) : \E i \in sq_occupied : Resent(again)[k] = AdFrameOf(i)
  <2>1. sq_occupied \in SUBSET SqSlots /\ again \in [1 .. Cardinality(sq_occupied) -> sq_occupied]
    BY <1>1 DEF QueueType, SendOrders
  <2> QED BY <1>1, <2>1, OrderType, Zenon
<1>4. PICK s \in Seq(Frames) : uplink' = uplink \o s /\ Copies(s) /\ SetsVrAlone(s)
  <2>1. Len(<<>>) \in Nat /\ uplink \in Seq(Frames)
    BY <1>1 DEF LinksType
  <2> QED BY <1>2, <1>3, <2>1, EmitCopies, Zenon
<1>5. acked' = acked
  BY <1>2, NothingReported, Zenon
<1>6. /\ sq_occupied' = sq_occupied /\ sq_seq' = sq_seq /\ sq_fdu' = sq_fdu
      /\ sq_count' \in [SqSlots -> Nat] /\ resynced' = resynced
      /\ fop_state' = "Retransmitting"
  BY <1>1, RecountType DEF TimerGoBack, fop_hist
<1>7. /\ fdus' \in {fdus, fdus + 1} /\ fdus' <= MaxFdus /\ fop_write_pos' \in Nat /\ RoomStep
      /\ nnr' \in FrameSeqs /\ set_vr_value' \in FrameSeqs /\ bc_count' \in Nat /\ KeepsVs
  BY <1>1, FopAssumption DEF TimerGoBack, CountersType, fop_init, fop_hist, KeepsVs, RoomStep
<1>8. Reports
  BY <1>5 DEF Reports
<1> QED BY <1>4, <1>6, <1>7, <1>8 DEF QuietStep

\* A CLCW is read: slots are freed and reported, and the rest goes out again if asked for.
LEMMA ClcwIsQuiet ==
    ASSUME Cop1Type, downlink # <<>>, ClcwTransferring(Head(downlink))
    PROVE  \E s : QuietStep(s)
<1> DEFINE c == Head(downlink)
           gone == Acknowledged(c.nr)
           left == sq_occupied \ gone
           goback == fop_state = "Active" /\ c.retransmit
<1>1. QueueType /\ CountersType /\ LinksType /\ QueueIsLive /\ SetVrIsMarked
  BY DEF Cop1Type
<1>2. c \in Clcws /\ c.nr \in FrameSeqs
  <2>1. c \in Clcws
    BY <1>1 DEF LinksType
  <2> QED BY <2>1 DEF Clcws
<1>3. PICK acks \in AckOrders(gone), again \in SendOrders(left, c.nr) :
         \E timer : Emit(Reported(acks), IF goback THEN Resent(again) ELSE <<>>, timer, t1)
  BY DEF ClcwTransferring
<1>4. PICK timer : Emit(Reported(acks), IF goback THEN Resent(again) ELSE <<>>, timer, t1)
  BY <1>3
<1>5. /\ sq_occupied' = left /\ sq_seq' = sq_seq /\ sq_fdu' = sq_fdu
      /\ sq_count' = (IF goback THEN Recount(left) ELSE sq_count)
      /\ fop_state' \in {"Active", "Retransmitting"}
      /\ nnr' = c.nr /\ vs' = vs /\ fop_write_pos' = fop_write_pos
      /\ set_vr_value' = set_vr_value /\ bc_count' = bc_count
      /\ fdus' = fdus /\ resynced' = resynced
  BY DEF ClcwTransferring, fop_init, fop_hist
<1>6. gone \in SUBSET SqSlots /\ left \in SUBSET SqSlots /\ left \subseteq sq_occupied
  BY <1>1 DEF Acknowledged, QueueType
<1> HIDE DEF c, gone, left, goback
<1>7. /\ Reported(acks) \in Seq(Nat) /\ Len(Reported(acks)) \in Nat
      /\ \A k \in DOMAIN Reported(acks) : \E i \in gone : Reported(acks)[k] = sq_fdu[i]
  <2>1. acks \in [1 .. Cardinality(gone) -> gone]
    BY DEF AckOrders
  <2>2. /\ Reported(acks) \in Seq(Nat)
        /\ \A k \in DOMAIN Reported(acks) : \E i \in gone : Reported(acks)[k] = sq_fdu[i]
    BY <1>1, <1>6, <2>1, OrderType, Zenon
  <2> QED BY <2>2
<1> DEFINE fs == IF goback THEN Resent(again) ELSE <<>>
<1>8. fs \in Seq(Frames) /\ \A k \in DOMAIN fs : \E i \in sq_occupied : fs[k] = AdFrameOf(i)
  <2>1. again \in [1 .. Cardinality(left) -> left]
    BY DEF SendOrders
  <2>2. /\ Resent(again) \in Seq(Frames)
        /\ \A k \in DOMAIN Resent(again) : \E i \in left : Resent(again)[k] = AdFrameOf(i)
    BY <1>1, <1>6, <2>1, OrderType, Zenon
  <2>3. CASE goback
    BY <1>6, <2>2, <2>3
  <2>4. CASE ~goback
    BY <2>4
  <2> QED BY <2>3, <2>4
<1> HIDE DEF fs
<1>9. PICK s \in Seq(Frames) : uplink' = uplink \o s /\ Copies(s) /\ SetsVrAlone(s)
  <2>1. Emit(Reported(acks), fs, timer, t1) /\ uplink \in Seq(Frames)
    BY <1>1, <1>4 DEF LinksType, fs
  <2> QED BY <1>7, <1>8, <2>1, EmitCopies, Zenon
<1>10. Reports
  <2>1. acked' = acked \cup Range(Kept(Reported(acks), FopMaxActions))
    BY <1>4 DEF Emit
  <2>2. \A k \in DOMAIN Kept(Reported(acks), FopMaxActions) :
           /\ k \in DOMAIN Reported(acks)
           /\ Kept(Reported(acks), FopMaxActions)[k] = Reported(acks)[k]
    <3>1. FopMaxActions \in Int
      BY FopAssumption
    <3>2. \A r \in Seq(Nat) : \A k \in DOMAIN Kept(r, FopMaxActions) :
             k \in DOMAIN r /\ Kept(r, FopMaxActions)[k] = r[k]
      BY <3>1, KeptIsPrefix
    <3> QED BY <1>7, <3>2, Zenon
  <2>3. \A f \in Range(Kept(Reported(acks), FopMaxActions)) : \E i \in gone : f = sq_fdu[i]
    BY <1>7, <2>2, Zenon DEF Range
  <2> QED BY <2>1, <2>3, Zenon DEF Reports, gone, c
<1>11. sq_count' \in [SqSlots -> Nat]
  BY <1>1, <1>5, RecountType DEF QueueType
<1>12. /\ fdus' \in {fdus, fdus + 1} /\ fdus' <= MaxFdus /\ fop_write_pos' \in Nat /\ RoomStep
       /\ nnr' \in FrameSeqs /\ set_vr_value' \in FrameSeqs /\ bc_count' \in Nat /\ KeepsVs
  BY <1>1, <1>2, <1>5, FopAssumption DEF CountersType, KeepsVs, RoomStep
<1> QED BY <1>5, <1>6, <1>9, <1>10, <1>11, <1>12 DEF QuietStep
-----------------------------------------------------------------------------
(* The step that takes an AD FDU into slot i.                              *)

TakeStep(i, s) ==
    /\ i \in SqSlots \ sq_occupied
    /\ fdus < MaxFdus /\ fdus' = fdus + 1
    /\ s \in Seq(Frames) /\ Len(s) <= 1 /\ uplink' = uplink \o s
    /\ \A k \in DOMAIN s : s[k] = [type |-> "Ad", fdu |-> fdus + 1, seq |-> vs]
    /\ sq_occupied' = sq_occupied \cup {i}
    /\ sq_seq' = [sq_seq EXCEPT ![i] = vs]
    /\ sq_fdu' = [sq_fdu EXCEPT ![i] = fdus + 1]
    /\ sq_count' \in [SqSlots -> Nat]
    /\ vs' = UInc(vs)
    /\ Transferring /\ fop_state' = fop_state
    /\ fop_write_pos' \in Nat
    /\ fop_write_pos' = fop_write_pos + FduLen /\ fop_write_pos' <= FopBuf
    /\ UNCHANGED <<nnr, set_vr_value, bc_count, resynced, acked>>

\* A set of slots that is not empty has a first one.
LEMMA FirstSlot ==
    ASSUME NEW S \in SUBSET SqSlots, S # {}
    PROVE  Min(S) \in S
<1>1. S \subseteq Nat
  BY DEF SqSlots
<1>2. PICK x \in S : \A y \in S : ~(<<y, x>> \in OpToRel(<, Nat))
  BY <1>1, NatLessThanWellFounded, WFMin
<1>3. ASSUME NEW y \in S PROVE x <= y
  <2>1. <<y, x>> \in Nat \X Nat /\ <<y, x>>[1] = y /\ <<y, x>>[2] = x
    BY <1>1
  <2>2. <<y, x>>[1] < <<y, x>>[2] => <<y, x>> \in OpToRel(<, Nat)
    BY <2>1, Zenon DEF OpToRel
  <2>3. ~(<<y, x>>[1] < <<y, x>>[2])
    BY <1>2, <2>2, Zenon
  <2> QED BY <1>1, <2>1, <2>3
<1> QED BY <1>3, Zenon DEF Min

\* handle_send_ad takes the first free slot, and sends at once in Active.
LEMMA SendAdTakes == Cop1Type /\ SendAd => \E i, s : TakeStep(i, s)
<1> SUFFICES ASSUME Cop1Type, SendAd PROVE \E i, s : TakeStep(i, s)
  OBVIOUS
<1>1. QueueType /\ CountersType /\ LinksType
  BY DEF Cop1Type
<1> DEFINE i == Min(SqSlots \ sq_occupied)
           f == [type |-> "Ad", fdu |-> fdus + 1, seq |-> vs]
           fs == IF fop_state = "Active" THEN <<f>> ELSE <<>>
<1>2. i \in SqSlots \ sq_occupied
  <2>1. SqSlots \ sq_occupied # {} /\ SqSlots \ sq_occupied \in SUBSET SqSlots
    BY <1>1 DEF SendAd, CanTakeAd, QueueType
  <2> QED BY <2>1, FirstSlot, Zenon
<1>3. PICK timer : Emit(<<>>, fs, timer, t1)
  BY DEF SendAd
<1>4. /\ sq_occupied' = sq_occupied \cup {i}
      /\ sq_seq' = [sq_seq EXCEPT ![i] = vs]
      /\ sq_fdu' = [sq_fdu EXCEPT ![i] = fdus + 1]
      /\ sq_count' = [sq_count EXCEPT ![i] = IF fop_state = "Active" THEN Count(1) ELSE 0]
  BY DEF SendAd
<1> HIDE DEF i
<1>5. f \in Frames
  BY <1>1 DEF Frames, CountersType
<1> HIDE DEF f
<1>6. fs \in Seq(Frames) /\ Len(fs) <= 1 /\ \A k \in DOMAIN fs : fs[k] = f
  BY <1>5
<1> HIDE DEF fs
<1>7. PICK s \in Seq(Frames) :
         /\ uplink' = uplink \o s
         /\ \A k \in DOMAIN s : k \in DOMAIN fs /\ s[k] = fs[k]
  <2>1. Len(<<>>) \in Nat /\ uplink \in Seq(Frames)
    BY <1>1 DEF LinksType
  <2> QED BY <1>3, <1>6, <2>1, EmitLink, Zenon
<1>8. Len(s) <= 1 /\ \A k \in DOMAIN s : s[k] = f
  BY <1>6, <1>7
<1>9. sq_count' \in [SqSlots -> Nat]
  <2>1. Count(1) \in Nat
    <3>1. 1 \in Int /\ TransmissionLimit \in Int /\ TransmissionLimit \in Nat
      BY FopAssumption
    <3>2. Min({1, TransmissionLimit}) \in {1, TransmissionLimit}
      BY <3>1, MinOfTwo, Zenon
    <3> QED BY <3>1, <3>2 DEF Count
  <2> QED BY <1>1, <1>4, <2>1 DEF QueueType
<1>10. acked' = acked
  BY <1>3, NothingReported, Zenon
<1>11. /\ fdus < MaxFdus /\ fdus' = fdus + 1 /\ vs' = UInc(vs)
       /\ Transferring /\ fop_state' = fop_state /\ fop_write_pos' \in Nat
       /\ fop_write_pos' = fop_write_pos + FduLen /\ fop_write_pos' <= FopBuf
       /\ UNCHANGED <<nnr, set_vr_value, bc_count, resynced>>
  BY <1>1, FopAssumption DEF SendAd, CanTakeAd, CountersType, fop_init, BufferHasRoom
<1>12. TakeStep(i, s)
  BY <1>2, <1>4, <1>7, <1>8, <1>9, <1>10, <1>11 DEF TakeStep, f
<1> QED BY <1>12
-----------------------------------------------------------------------------
(* The steps of FARM-1 and of the links.                                   *)

\* the head of the uplink is lost, or read: it is accepted, sets V(R), or does neither
ReadStep ==
    /\ uplink # <<>> /\ uplink' = Tail(uplink)
    /\ \/ vr' = vr /\ accepted' = accepted
       \/ /\ Head(uplink).type = "Ad" /\ Head(uplink).seq = vr /\ vr' = UInc(vr)
          /\ accepted' = Append(accepted, Head(uplink).fdu)
       \/ Head(uplink).type = "SetVr" /\ accepted' = accepted
    /\ UNCHANGED <<fop_state, vs, nnr, fop_queue, fop_init, t1, acked, fop_hist, downlink>>

\* the CLCWs on the return link are old ones, or report V(R)
DownlinkStep ==
    /\ downlink' \in Seq(Clcws)
    /\ \A k \in DOMAIN downlink' :
          \/ downlink'[k].nr = vr
          \/ \E l \in DOMAIN downlink : downlink'[k].nr = downlink[l].nr

FopOnly == UNCHANGED <<farm_vars, accepted>> /\ DownlinkStep

\* Frames reach FARM-1 as it handles them.
LEMMA ArrivalReads ==
    ASSUME Cop1Type, FrameArrives \/ FrameLost
    PROVE  ReadStep /\ [FarmNext]_farm_vars
<1>1. LinksType /\ uplink # <<>>
  BY DEF Cop1Type, FrameArrives, FrameLost
<1> DEFINE f == Head(uplink)
<1>2. f \in Frames /\ f.seq \in FrameSeqs
  <2>1. f \in Frames
    BY <1>1 DEF LinksType
  <2> QED BY <2>1 DEF Frames
<1>3. CASE FrameLost
  BY <1>1, <1>3 DEF FrameLost, ReadStep, farm_vars
<1>4. CASE FrameArrives
  <2> HIDE DEF f
  <2>1. CASE f.type = "Ad" /\ \E room \in BOOLEAN :
                    /\ AdFrame(f.seq, room)
                    /\ accepted' = IF AdAccepted(f.seq, room) THEN Append(accepted, f.fdu)
                                                              ELSE accepted
    <3>1. PICK room \in BOOLEAN :
             /\ AdFrame(f.seq, room)
             /\ accepted' = IF AdAccepted(f.seq, room) THEN Append(accepted, f.fdu)
                                                       ELSE accepted
      BY <2>1
    <3>2. [FarmNext]_farm_vars
      BY <1>2, <3>1, Zenon DEF FarmNext
    <3>3. CASE AdAccepted(f.seq, room)
      <4>1. f.seq = vr
        BY <3>3 DEF AdAccepted, Zone
      <4>2. vr' = UInc(vr)
        <5>1. Zone(f.seq) = "Expected" /\ farm_state = "Open" /\ room
          BY <3>3 DEF AdAccepted
        <5>2. AdAccept
          BY <3>1, <5>1, Zenon DEF AdFrame
        <5> QED BY <5>2 DEF AdAccept
      <4> QED BY <1>1, <1>4, <2>1, <3>1, <3>2, <3>3, <4>1, <4>2 DEF FrameArrives, ReadStep, f
    <3>4. CASE ~AdAccepted(f.seq, room)
      <4>1. vr' = vr
        BY <3>1, <3>4, Zenon DEF AdFrame, AdNoRoom, AdGap, AdLockout, farm_vars
      <4> QED BY <1>1, <1>4, <3>1, <3>2, <3>4, <4>1 DEF FrameArrives, ReadStep
    <3> QED BY <3>3, <3>4
  <2>2. CASE f.type = "Bd" /\ BdFrame /\ UNCHANGED accepted
    BY <1>1, <1>4, <2>2 DEF FrameArrives, ReadStep, BdFrame, FarmNext
  <2>3. CASE f.type = "Unlock" /\ BcUnlock /\ UNCHANGED accepted
    BY <1>1, <1>4, <2>3 DEF FrameArrives, ReadStep, BcUnlock, FarmNext
  <2>4. CASE f.type = "SetVr" /\ BcSetVr(f.seq) /\ UNCHANGED accepted
    <3>1. [FarmNext]_farm_vars
      BY <1>2, <2>4, Zenon DEF FarmNext
    <3> QED BY <1>1, <1>4, <2>4, <3>1 DEF FrameArrives, ReadStep, f
  <2> QED BY <1>4, <2>1, <2>2, <2>3, <2>4 DEF FrameArrives, f
<1> QED BY <1>3, <1>4

StillStep == UNCHANGED <<fop_vars, vr, accepted>> /\ DownlinkStep

\* What is on the return link stays what it was.
LEMMA DownlinkKept ==
    ASSUME Cop1Type, downlink' = downlink \/ (downlink # <<>> /\ downlink' = Tail(downlink))
    PROVE  DownlinkStep
<1>1. downlink \in Seq(Clcws)
  BY DEF Cop1Type, LinksType
<1>2. CASE downlink' = downlink
  BY <1>1, <1>2, Zenon DEF DownlinkStep
<1>3. CASE downlink # <<>> /\ downlink' = Tail(downlink)
  <2>1. Tail(downlink) \in Seq(Clcws) /\ Len(downlink) \in Nat \ {0}
    BY <1>1, <1>3
  <2>2. \A k \in DOMAIN Tail(downlink) :
           k + 1 \in DOMAIN downlink /\ Tail(downlink)[k] = downlink[k + 1]
    BY <1>1, <1>3, <2>1
  <2> QED BY <1>3, <2>1, <2>2, Zenon DEF DownlinkStep
<1> QED BY <1>2, <1>3

\* Every step of the composition is one of four kinds, and one of FARM-1 or none.
LEMMA Cop1Cases ==
    ASSUME Cop1Type, [Cop1Next]_cop1_vars
    PROVE  /\ \/ (\E s : QuietStep(s)) /\ FopOnly
              \/ (\E i, s : TakeStep(i, s)) /\ FopOnly
              \/ ReadStep
              \/ StillStep
           /\ [FarmNext]_farm_vars
<1>1. CASE FopSteps
  <2>1. UNCHANGED farm_vars /\ downlink' = downlink /\ accepted' = accepted
    BY <1>1 DEF FopSteps
  <2>2. FopOnly
    BY <2>1, DownlinkKept, Zenon DEF FopOnly
  <2>3. CASE SendAd
    BY <2>1, <2>2, <2>3, SendAdTakes
  <2>4. CASE SendBd
    BY <2>1, <2>2, <2>4, SendBdIsQuiet
  <2>5. CASE TimerGoBack
    BY <2>1, <2>2, <2>5, GoBackIsQuiet
  <2>6. CASE TimerAlert \/ TimerIgnored \/ InitAdNoClcw \/ InitAdWithClcw \/ Terminate \/ Resume
    BY <2>1, <2>2, <2>6, SilentSteps, SilentIsQuiet
  <2>7. CASE InitAdUnlock \/ TimerResendsBc \/ \E v \in SetVrValues : InitAdSetVr(v)
    BY <2>1, <2>2, <2>7, BcIsQuiet
  <2> QED BY <1>1, <2>3, <2>4, <2>5, <2>6, <2>7 DEF FopSteps, TimerExpired
<1>2. CASE FrameArrives \/ FrameLost
  BY <1>2, ArrivalReads
<1>3. CASE FarmReleases
  <2>1. downlink' = downlink /\ UNCHANGED fop_vars /\ accepted' = accepted /\ vr' = vr
    BY <1>3 DEF FarmReleases, BufferRelease
  <2>2. DownlinkStep
    BY <2>1, DownlinkKept, Zenon
  <2> QED BY <1>3, <2>1, <2>2 DEF FarmReleases, FarmNext, StillStep
<1>4. CASE ClcwReport
  <2>1. UNCHANGED <<fop_vars, farm_vars, accepted>> /\ downlink' = Append(downlink, ClcwNow)
    BY <1>4 DEF ClcwReport
  <2>2. downlink \in Seq(Clcws) /\ ClcwNow \in Clcws /\ ClcwNow.nr = vr
    BY DEF Cop1Type, LinksType, ClcwNow, Clcws, FarmTypeOK, FarmFlagsType, FarmCountersType
  <2>3. downlink' \in Seq(Clcws)
    BY <2>1, <2>2
  <2>4. \A k \in DOMAIN downlink' :
           downlink'[k] = ClcwNow \/ (k \in DOMAIN downlink /\ downlink'[k] = downlink[k])
    BY <2>1, <2>2
  <2>5. DownlinkStep
    BY <2>2, <2>3, <2>4, Zenon DEF DownlinkStep
  <2> QED BY <2>1, <2>5 DEF StillStep, farm_vars
<1>5. CASE ClcwLost
  <2>1. /\ downlink # <<>> /\ downlink' = Tail(downlink)
        /\ UNCHANGED <<fop_vars, farm_vars, accepted>>
    BY <1>5 DEF ClcwLost
  <2>2. DownlinkStep
    BY <2>1, DownlinkKept, Zenon
  <2> QED BY <2>1, <2>2 DEF StillStep, farm_vars
<1>6. CASE ClcwArrives
  <2>1. /\ downlink # <<>> /\ downlink' = Tail(downlink)
        /\ UNCHANGED farm_vars /\ accepted' = accepted
        /\ ClcwReceived(Head(downlink))
    BY <1>6 DEF ClcwArrives
  <2>2. FopOnly
    BY <2>1, DownlinkKept, Zenon DEF FopOnly
  <2>3. Head(downlink) \in Clcws
    BY <2>1 DEF Cop1Type, LinksType
  <2>4. CASE ClcwTransferring(Head(downlink))
    BY <2>1, <2>2, <2>4, ClcwIsQuiet
  <2>5. CASE \/ ClcwLockout(Head(downlink)) \/ ClcwInitDone(Head(downlink))
             \/ ClcwIgnored(Head(downlink))
    BY <2>1, <2>2, <2>3, <2>5, SilentSteps, SilentIsQuiet
  <2> QED BY <2>1, <2>4, <2>5 DEF ClcwReceived
<1>7. CASE UNCHANGED cop1_vars
  <2>1. UNCHANGED <<fop_vars, farm_vars, accepted>> /\ downlink' = downlink
    BY <1>7 DEF cop1_vars
  <2>2. DownlinkStep
    BY <2>1, DownlinkKept, Zenon
  <2> QED BY <2>1, <2>2 DEF StillStep, farm_vars
<1> QED BY <1>1, <1>2, <1>3, <1>4, <1>5, <1>6, <1>7 DEF Cop1Next
-----------------------------------------------------------------------------
(* Types.                                                                  *)

\* The types hold before the first event.
LEMMA Cop1TypeInit == Cop1Init => Cop1Type
<1> SUFFICES ASSUME Cop1Init PROVE Cop1Type
  OBVIOUS
<1>1. 0 \in FrameSeqs /\ 0 \in 0 .. MaxFdus
  BY FrameSpaceAssumption, FopAssumption DEF FrameSeqs
<1>2. QueueType /\ QueueIsLive /\ SetVrIsMarked /\ CountersType
  BY <1>1 DEF Cop1Init, FopInit, QueueType, QueueIsLive, SetVrIsMarked, CountersType
<1>3. LinksType /\ accepted \in Seq(Nat)
  BY DEF Cop1Init, FopInit, LinksType
<1>4. FarmTypeOK
  BY FarmTypeInit DEF Cop1Init
<1> QED BY <1>2, <1>3, <1>4 DEF Cop1Type

\* Every step of the composition keeps the types.
LEMMA Cop1TypeStep == Cop1Type /\ [Cop1Next]_cop1_vars => Cop1Type'
<1> SUFFICES ASSUME Cop1Type, [Cop1Next]_cop1_vars PROVE Cop1Type'
  OBVIOUS
<1>1. /\ QueueType /\ CountersType /\ LinksType /\ QueueIsLive /\ SetVrIsMarked
      /\ accepted \in Seq(Nat) /\ FarmTypeOK /\ fdus \in Nat /\ MaxFdus \in Nat
  BY FopAssumption DEF Cop1Type, CountersType
<1>2. FarmTypeOK'
  BY <1>1, Cop1Cases, FarmFlagsStep, FarmCountersStep DEF FarmTypeOK
<1>3. CASE (\E s : QuietStep(s)) /\ FopOnly
  <2>1. PICK s : QuietStep(s)
    BY <1>3
  <2>2. QueueType' /\ CountersType' /\ QueueIsLive' /\ SetVrIsMarked'
    BY <1>1, <2>1 DEF QuietStep, QueueType, CountersType, QueueIsLive, SetVrIsMarked,
                      Transferring, KeepsVs
  <2>3. LinksType'
    BY <1>1, <1>3, <2>1 DEF QuietStep, LinksType, FopOnly, DownlinkStep
  <2> QED BY <1>1, <1>2, <1>3, <2>2, <2>3 DEF Cop1Type, FopOnly
<1>4. CASE (\E i, s : TakeStep(i, s)) /\ FopOnly
  <2>1. PICK i, s : TakeStep(i, s)
    BY <1>4
  <2>2. UInc(vs) \in FrameSeqs
    BY <1>1, UIncType DEF CountersType
  <2>3. QueueType' /\ CountersType' /\ QueueIsLive' /\ SetVrIsMarked'
    BY <1>1, <2>1, <2>2 DEF TakeStep, QueueType, CountersType, QueueIsLive, SetVrIsMarked,
                      Transferring
  <2>4. LinksType'
    BY <1>1, <1>4, <2>1 DEF TakeStep, LinksType, FopOnly, DownlinkStep
  <2> QED BY <1>1, <1>2, <1>4, <2>3, <2>4 DEF Cop1Type, FopOnly
<1>5. CASE ReadStep
  <2>1. QueueType' /\ CountersType' /\ QueueIsLive' /\ SetVrIsMarked'
    BY <1>1, <1>5 DEF ReadStep, QueueType, CountersType, QueueIsLive, SetVrIsMarked,
                      Transferring, fop_queue, fop_init, fop_hist
  <2>2. LinksType'
    BY <1>1, <1>5 DEF ReadStep, LinksType
  <2>3. accepted' \in Seq(Nat)
    <3>1. Head(uplink) \in Frames
      BY <1>1, <1>5 DEF ReadStep, LinksType
    <3>2. Head(uplink).fdu \in Nat
      BY <3>1 DEF Frames
    <3>3. accepted' = accepted \/ accepted' = Append(accepted, Head(uplink).fdu)
      BY <1>5 DEF ReadStep
    <3>4. \A h \in Nat : Append(accepted, h) \in Seq(Nat)
      BY <1>1
    <3> QED BY <1>1, <3>2, <3>3, <3>4, Zenon
  <2> QED BY <1>2, <2>1, <2>2, <2>3 DEF Cop1Type
<1>6. CASE StillStep
  BY <1>1, <1>2, <1>6 DEF StillStep, DownlinkStep, Cop1Type, QueueType, CountersType, LinksType,
                          QueueIsLive, SetVrIsMarked, Transferring,
                          fop_vars, fop_queue, fop_init, fop_hist
<1> QED BY <1>3, <1>4, <1>5, <1>6, Cop1Cases

\* The composition keeps its types: numbers stay on their circle, only a transfer has a
\* queue, and both links carry frames and CLCWs.
THEOREM Cop1TypeCorrect == Cop1Spec => []Cop1Type
BY Cop1TypeInit, Cop1TypeStep, PTL DEF Cop1Spec

\* Composed with FOP-1 and the links, FARM-1 behaves as it does alone: every step of the
\* composition is one of its events or leaves it as it is.
THEOREM Cop1ImplementsFarm == Cop1Spec => FarmSpec
<1>1. Cop1Init => FarmInit
  BY DEF Cop1Init
<1>2. Cop1Type /\ [Cop1Next]_cop1_vars => [FarmNext]_farm_vars
  BY Cop1Cases
<1> QED BY <1>1, <1>2, Cop1TypeCorrect, PTL DEF Cop1Spec, FarmSpec

\* In the composition too a CLCW never contradicts the state of FARM-1.
THEOREM Cop1FlagsAreConsistent == Cop1Spec => [](FarmTypeOK /\ FlagsMatchState)
BY Cop1ImplementsFarm, FarmTypeCorrect, FlagsAreConsistent, PTL
-----------------------------------------------------------------------------
(* T1.                                                                     *)

\* MAX_ACTIONS is 16 and WIN is 8 in every configuration of the repository: all slots and
\* a StartTimer fit into the action list.
ActionsFit == FopWin < FopMaxActions

\* An event that leaves T1 and the queue alone, or leaves the queue empty.
LEMMA T1Kept ==
    ASSUME T1CoversSentFrames,
           \/ sq_occupied' = {}
           \/ t1' = t1 /\ sq_occupied' = sq_occupied /\ sq_count' = sq_count
    PROVE  T1CoversSentFrames'
  BY DEF T1CoversSentFrames

\* A new AD FDU is sent with a StartTimer, or waits in the queue with no transmission.
LEMMA T1SendAd == ActionsFit /\ Cop1Type /\ T1CoversSentFrames /\ SendAd => T1CoversSentFrames'
<1> SUFFICES ASSUME ActionsFit, Cop1Type, T1CoversSentFrames, SendAd PROVE T1CoversSentFrames'
  OBVIOUS
<1>1. QueueType
  BY DEF Cop1Type
<1> DEFINE i == Min(SqSlots \ sq_occupied)
           f == [type |-> "Ad", fdu |-> fdus + 1, seq |-> vs]
<1>2. i \in SqSlots \ sq_occupied
  <2>1. SqSlots \ sq_occupied # {} /\ SqSlots \ sq_occupied \in SUBSET SqSlots
    BY <1>1 DEF SendAd, CanTakeAd, QueueType
  <2> QED BY <2>1, FirstSlot, Zenon
<1>3. /\ sq_occupied' = sq_occupied \cup {i}
      /\ sq_count' = [sq_count EXCEPT ![i] = IF fop_state = "Active" THEN Count(1) ELSE 0]
  BY DEF SendAd
<1>4. CASE fop_state = "Active"
  <2>1. Emit(<<>>, <<f>>, "StartTimer", t1)
    BY <1>4 DEF SendAd
  <2> HIDE DEF f
  <2>2. ~(Len(<<>>) + Len(<<f>>) >= FopMaxActions)
    BY FopAssumption DEF ActionsFit
  <2>3. t1' = TRUE
    BY <2>1, <2>2 DEF Emit
  <2> QED BY <2>3 DEF T1CoversSentFrames
<1>5. CASE fop_state # "Active"
  <2>1. Emit(<<>>, <<>>, "none", t1)
    BY <1>5 DEF SendAd
  <2>2. t1' = t1
    BY <2>1 DEF Emit
  <2> HIDE DEF i
  <2>3. sq_count'[i] = 0 /\ \A j \in sq_occupied : sq_count'[j] = sq_count[j]
    BY <1>1, <1>2, <1>3, <1>5 DEF QueueType
  <2> QED BY <1>3, <2>2, <2>3 DEF T1CoversSentFrames
<1> QED BY <1>4, <1>5

\* T1 starts again whenever the queue is sent again.
LEMMA T1GoBack == ActionsFit /\ Cop1Type /\ TimerGoBack => T1CoversSentFrames'
<1> SUFFICES ASSUME ActionsFit, Cop1Type, TimerGoBack PROVE T1CoversSentFrames'
  OBVIOUS
<1>1. QueueType /\ sq_occupied \in SUBSET SqSlots
  BY DEF Cop1Type, QueueType
<1>2. PICK again \in SendOrders(sq_occupied, nnr) :
         Emit(<<>>, Resent(again), ResentTimer(sq_occupied), FALSE)
  BY DEF TimerGoBack
<1>3. Len(Resent(again)) = Cardinality(sq_occupied)
  <2>1. again \in [1 .. Cardinality(sq_occupied) -> sq_occupied]
    BY DEF SendOrders
  <2> QED BY <1>1, <2>1, OrderType, Zenon
<1>4. Cardinality(sq_occupied) \in Nat /\ Cardinality(sq_occupied) <= FopWin
  BY <1>1, SlotsAreFinite
<1>5. ~(Len(<<>>) + Len(Resent(again)) >= FopMaxActions)
  BY <1>3, <1>4, FopAssumption DEF ActionsFit
<1>6. sq_occupied # {} => t1' = TRUE
  BY <1>2, <1>5 DEF Emit, ResentTimer
<1>7. sq_occupied' = sq_occupied
  BY DEF TimerGoBack
<1> QED BY <1>6, <1>7 DEF T1CoversSentFrames

\* A CLCW stops T1 only with nothing left, and starts it again with what is sent again.
LEMMA T1Clcw ==
    ASSUME ActionsFit, Cop1Type, T1CoversSentFrames, NEW c, ClcwTransferring(c)
    PROVE  T1CoversSentFrames'
<1> DEFINE gone == Acknowledged(c.nr)
           left == sq_occupied \ gone
           goback == fop_state = "Active" /\ c.retransmit
           timer == CASE goback -> ResentTimer(left)
                      [] ~c.retransmit /\ left = {} -> "StopTimer"
                      [] OTHER -> "none"
<1>1. QueueType
  BY DEF Cop1Type
<1>2. PICK acks \in AckOrders(gone), again \in SendOrders(left, c.nr) :
         Emit(Reported(acks), IF goback THEN Resent(again) ELSE <<>>, timer, t1)
  BY DEF ClcwTransferring
<1>3. sq_occupied' = left /\ sq_count' = (IF goback THEN Recount(left) ELSE sq_count)
  BY DEF ClcwTransferring
<1>4. gone \in SUBSET SqSlots /\ left \in SUBSET SqSlots /\ gone \cup left \in SUBSET SqSlots
      /\ gone \cap left = {} /\ left \subseteq sq_occupied
  BY <1>1 DEF Acknowledged, QueueType
<1> HIDE DEF gone, left
<1>5. CASE goback
  <2>1. /\ acks \in [1 .. Cardinality(gone) -> gone]
        /\ again \in [1 .. Cardinality(left) -> left]
    BY DEF AckOrders, SendOrders
  <2>2. Len(Reported(acks)) = Cardinality(gone)
    BY <1>1, <1>4, <2>1, OrderType, Zenon
  <2>3. Len(Resent(again)) = Cardinality(left)
    BY <1>1, <1>4, <2>1, OrderType, Zenon
  <2>4. /\ Cardinality(gone) \in Nat /\ Cardinality(left) \in Nat
        /\ IsFiniteSet(gone) /\ IsFiniteSet(left) /\ Cardinality(gone \cup left) <= FopWin
    BY <1>4, SlotsAreFinite
  <2>5. Cardinality(gone \cup left) = Cardinality(gone) + Cardinality(left)
    <3>1. Cardinality(gone \cup left)
             = Cardinality(gone) + Cardinality(left) - Cardinality(gone \cap left)
      BY <2>4, FS_Union
    <3>2. Cardinality(gone \cap left) = 0
      BY <1>4, FS_EmptySet
    <3> QED BY <2>4, <3>1, <3>2
  <2>6. ~(Len(Reported(acks)) + Len(Resent(again)) >= FopMaxActions)
    BY <2>2, <2>3, <2>4, <2>5, FopAssumption DEF ActionsFit
  <2>7. Emit(Reported(acks), Resent(again), ResentTimer(left), t1)
    BY <1>2, <1>5
  <2>8. left # {} => t1' = TRUE
    BY <2>6, <2>7 DEF Emit, ResentTimer
  <2> QED BY <1>3, <2>8 DEF T1CoversSentFrames
<1>6. CASE ~goback
  <2>1. CASE left = {}
    BY <1>3, <2>1 DEF T1CoversSentFrames
  <2>2. CASE left # {}
    <3>1. timer = "none"
      BY <1>6, <2>2
    <3>2. t1' = t1
      BY <1>2, <3>1 DEF Emit
    <3> QED BY <1>3, <1>4, <1>6, <3>2 DEF T1CoversSentFrames
  <2> QED BY <2>1, <2>2
<1> QED BY <1>5, <1>6

\* Every event keeps T1 running for what is sent.
LEMMA T1Step ==
    ASSUME ActionsFit, Cop1Type, T1CoversSentFrames, [Cop1Next]_cop1_vars
    PROVE  T1CoversSentFrames'
<1>1. QueueIsLive
  BY DEF Cop1Type
<1>2. CASE FopSteps
  <2>1. CASE SendAd
    BY <2>1, T1SendAd
  <2>2. CASE SendBd
    <3>1. t1' = t1 /\ sq_occupied' = sq_occupied /\ sq_count' = sq_count
      BY <2>2 DEF SendBd, Emit
    <3> QED BY <3>1, T1Kept
  <2>3. CASE TimerGoBack
    BY <2>3, T1GoBack
  <2>4. CASE TimerAlert \/ InitAdNoClcw \/ InitAdWithClcw \/ InitAdUnlock \/ Terminate
    <3>1. sq_occupied' = {}
      BY <2>4 DEF TimerAlert, Alert, InitAdNoClcw, InitAdWithClcw, InitAdUnlock, Terminate, Purge
    <3> QED BY <3>1, T1Kept
  <2>5. CASE TimerIgnored \/ TimerResendsBc \/ Resume
    <3>1. sq_occupied' = {}
      BY <1>1, <2>5 DEF TimerIgnored, TimerResendsBc, Resume, QueueIsLive, Transferring, fop_queue
    <3> QED BY <3>1, T1Kept
  <2>6. ASSUME NEW v \in SetVrValues, InitAdSetVr(v) PROVE T1CoversSentFrames'
    <3>1. sq_occupied' = {}
      BY <2>6 DEF InitAdSetVr, Purge
    <3> QED BY <3>1, T1Kept
  <2> QED BY <1>2, <2>1, <2>2, <2>3, <2>4, <2>5, <2>6 DEF FopSteps, TimerExpired
<1>3. CASE ClcwArrives
  <2> DEFINE c == Head(downlink)
  <2>1. ClcwReceived(c)
    BY <1>3 DEF ClcwArrives
  <2> HIDE DEF c
  <2>2. CASE ClcwTransferring(c)
    BY <2>2, T1Clcw
  <2>3. CASE ClcwLockout(c) \/ ClcwInitDone(c)
    <3>1. sq_occupied' = {}
      BY <2>3 DEF ClcwLockout, Alert, ClcwInitDone, Purge
    <3> QED BY <3>1, T1Kept
  <2>4. CASE ClcwIgnored(c)
    <3>1. t1' = t1 /\ sq_occupied' = sq_occupied /\ sq_count' = sq_count
      BY <2>4 DEF ClcwIgnored, fop_vars, fop_queue
    <3> QED BY <3>1, T1Kept
  <2> QED BY <2>1, <2>2, <2>3, <2>4 DEF ClcwReceived
<1>4. CASE \/ FrameArrives \/ FrameLost \/ FarmReleases \/ ClcwReport \/ ClcwLost
           \/ UNCHANGED cop1_vars
  <2>1. t1' = t1 /\ sq_occupied' = sq_occupied /\ sq_count' = sq_count
    BY <1>4 DEF FrameArrives, FrameLost, FarmReleases, ClcwReport, ClcwLost, cop1_vars,
                fop_vars, fop_queue
  <2> QED BY <2>1, T1Kept
<1> QED BY <1>2, <1>3, <1>4 DEF Cop1Next

\* T1 runs while a sent frame waits: no event stops it, and none has its StartTimer
\* pushed out of the action list, for every window smaller than the list.
THEOREM T1IsRunning ==
    ASSUME ActionsFit
    PROVE  Cop1Spec => []T1CoversSentFrames
<1>1. Cop1Init => T1CoversSentFrames
  BY DEF Cop1Init, FopInit, T1CoversSentFrames
<1>2. Cop1Type /\ T1CoversSentFrames /\ [Cop1Next]_cop1_vars => T1CoversSentFrames'
  BY T1Step
<1> QED BY <1>1, <1>2, Cop1TypeCorrect, PTL DEF Cop1Spec
-----------------------------------------------------------------------------
(* FDUs stay in order.                                                     *)

\* The FDU buffer holds fewer FDUs than there are frame numbers: BUF is 1024 in every
\* configuration of the repository, there are 256 numbers, and an FDU has more than four
\* bytes.
BufferIsShort == FrameSpace > 1 /\ FopBuf < FrameSpace * FduLen

\* Where the frames are after s was appended to the link.
LEMMA LinkGrown ==
    ASSUME NEW s \in Seq(Frames), uplink \in Seq(Frames), uplink' = uplink \o s
    PROVE  /\ Len(uplink) \in Nat /\ Len(uplink') = Len(uplink) + Len(s) /\ Len(s) \in Nat
           /\ DOMAIN uplink = 1 .. Len(uplink) /\ DOMAIN uplink' = 1 .. Len(uplink')
           /\ \A p \in 1 .. Len(uplink) : uplink'[p] = uplink[p]
           /\ \A p \in 1 .. Len(uplink') : p > Len(uplink) =>
                 p - Len(uplink) \in DOMAIN s /\ uplink'[p] = s[p - Len(uplink)]
  OBVIOUS

\* The AD frames after a quiet step: old ones, and copies of occupied slots, with which no
\* Set V(R) goes out.
LEMMA QuietAds ==
    ASSUME Cop1Type, NEW s, QuietStep(s)
    PROVE  /\ Len(uplink) \in Nat /\ Len(uplink') \in Nat /\ Len(uplink) <= Len(uplink')
           /\ \A p \in 1 .. Len(uplink) : uplink'[p] = uplink[p]
           /\ \A p \in Ads : p \in 1 .. Len(uplink)
           /\ \A p \in Ads' : p \in Nat /\ p <= Len(uplink')
           /\ \A p \in Ads' :
                 \/ p \in Ads /\ p <= Len(uplink) /\ uplink'[p] = uplink[p]
                 \/ /\ p > Len(uplink)
                    /\ \E i \in sq_occupied :
                          uplink'[p].fdu = sq_fdu[i] /\ uplink'[p].seq = sq_seq[i]
           /\ \A p \in Ads' : p > Len(uplink) =>
                 \A k \in (Len(uplink) + 1) .. Len(uplink') : uplink'[k].type # "SetVr"
           /\ sq_occupied' # {} =>
                 \A k \in (Len(uplink) + 1) .. Len(uplink') : uplink'[k].type # "SetVr"
<1>1. uplink \in Seq(Frames) /\ s \in Seq(Frames) /\ uplink' = uplink \o s /\ Copies(s)
      /\ SetsVrAlone(s)
  BY DEF Cop1Type, LinksType, QuietStep
<1>2. /\ Len(uplink) \in Nat /\ Len(uplink') = Len(uplink) + Len(s) /\ Len(s) \in Nat
      /\ DOMAIN uplink = 1 .. Len(uplink) /\ DOMAIN uplink' = 1 .. Len(uplink')
      /\ \A p \in 1 .. Len(uplink) : uplink'[p] = uplink[p]
      /\ \A p \in 1 .. Len(uplink') : p > Len(uplink) =>
            p - Len(uplink) \in DOMAIN s /\ uplink'[p] = s[p - Len(uplink)]
  BY <1>1, LinkGrown
<1>3. \A k \in (Len(uplink) + 1) .. Len(uplink') : k \in 1 .. Len(uplink') /\ k > Len(uplink)
  BY <1>2
<1>4. \A i \in sq_occupied : /\ AdFrameOf(i).fdu = sq_fdu[i] /\ AdFrameOf(i).seq = sq_seq[i]
  BY DEF AdFrameOf
<1>5. ASSUME NEW p \in Ads', p > Len(uplink)
      PROVE  /\ \E i \in sq_occupied :
                   uplink'[p].fdu = sq_fdu[i] /\ uplink'[p].seq = sq_seq[i]
             /\ \A k \in (Len(uplink) + 1) .. Len(uplink') : uplink'[k].type # "SetVr"
  <2>1. p \in 1 .. Len(uplink') /\ uplink'[p].type = "Ad"
    BY <1>2 DEF Ads
  <2>2. p - Len(uplink) \in DOMAIN s /\ uplink'[p] = s[p - Len(uplink)]
    BY <1>2, <1>5, <2>1
  <2>3. s[p - Len(uplink)].type = "Ad"
    BY <2>1, <2>2
  <2>4. \A k \in DOMAIN s : s[k].type # "SetVr"
    BY <1>1, <2>2, <2>3, Zenon DEF SetsVrAlone
  <2>5. PICK i \in sq_occupied : s[p - Len(uplink)] = AdFrameOf(i)
    BY <1>1, <2>2, <2>3, Zenon DEF Copies
  <2> QED BY <1>2, <1>3, <1>4, <2>2, <2>4, <2>5, ZenonT(60)
<1>6. ASSUME sq_occupied' # {}
      PROVE  \A k \in (Len(uplink) + 1) .. Len(uplink') : uplink'[k].type # "SetVr"
  <2>1. \A k \in DOMAIN s : s[k].type # "SetVr"
    BY <1>1, <1>6, Zenon DEF SetsVrAlone
  <2> QED BY <1>2, <1>3, <2>1, Zenon
<1>7. \A p \in Ads' : p \in Nat /\ p <= Len(uplink') /\ p \in 1 .. Len(uplink')
  BY <1>2 DEF Ads
<1>8. ASSUME NEW p \in Ads', p <= Len(uplink)
      PROVE  p \in Ads /\ uplink'[p] = uplink[p]
  <2>1. p \in 1 .. Len(uplink)
    BY <1>2, <1>7, <1>8
  <2> QED BY <1>2, <2>1 DEF Ads
<1>9. Len(uplink') \in Nat /\ Len(uplink) <= Len(uplink')
  BY <1>2
<1>10. \A p \in Ads : p \in 1 .. Len(uplink)
  BY <1>2 DEF Ads
<1>11. \A p \in Ads' : p <= Len(uplink) \/ p > Len(uplink)
  BY <1>2, <1>7
<1>12. \A p \in Ads' :
          \/ p \in Ads /\ p <= Len(uplink) /\ uplink'[p] = uplink[p]
          \/ /\ p > Len(uplink)
             /\ \E i \in sq_occupied :
                   uplink'[p].fdu = sq_fdu[i] /\ uplink'[p].seq = sq_seq[i]
  BY <1>5, <1>8, <1>11, Zenon
<1> QED BY <1>2, <1>5, <1>6, <1>7, <1>9, <1>10, <1>12, Zenon

\* A quiet step keeps the order: what goes out again was in the queue, and came after
\* everything on the link.
LEMMA OrderQuiet ==
    ASSUME Cop1Type, OrderInv, NEW s, QuietStep(s), vr' = vr, accepted' = accepted
    PROVE  OrderInv'
<1>1. KnownFdus /\ Buffered /\ QueueOrder /\ LinkOrder /\ ResendOrder /\ StaleOrder /\ AcceptedInOrder
  BY DEF OrderInv
<1>2. /\ Len(uplink) \in Nat /\ Len(uplink') \in Nat /\ Len(uplink) <= Len(uplink')
      /\ \A p \in 1 .. Len(uplink) : uplink'[p] = uplink[p]
      /\ \A p \in Ads : p \in 1 .. Len(uplink)
      /\ \A p \in Ads' : p \in Nat /\ p <= Len(uplink')
  BY QuietAds
<1>3. \A p \in Ads' :
         \/ p \in Ads /\ p <= Len(uplink) /\ uplink'[p] = uplink[p]
         \/ /\ p > Len(uplink)
            /\ \E i \in sq_occupied : uplink'[p].fdu = sq_fdu[i] /\ uplink'[p].seq = sq_seq[i]
  BY QuietAds
<1>4. /\ \A p \in Ads' : p > Len(uplink) =>
            \A k \in (Len(uplink) + 1) .. Len(uplink') : uplink'[k].type # "SetVr"
      /\ sq_occupied' # {} =>
            \A k \in (Len(uplink) + 1) .. Len(uplink') : uplink'[k].type # "SetVr"
  BY QuietAds
<1>5. /\ sq_occupied' \subseteq sq_occupied /\ sq_seq' = sq_seq /\ sq_fdu' = sq_fdu
      /\ fdus' \in {fdus, fdus + 1} /\ (vs' = vs \/ sq_occupied' = {})
      /\ fdus \in Nat /\ fdus' \in Nat /\ \A i \in sq_occupied : sq_fdu[i] \in Nat
  BY FopAssumption DEF QuietStep, KeepsVs, Cop1Type, CountersType, QueueType
<1>6. LastFdu' = LastFdu
  BY DEF LastFdu
<1>7. ASSUME NEW q \in Nat, NEW p \in Nat, q >= 1, p <= Len(uplink'), NoSetVr(q, Len(uplink)),
             \A k \in (Len(uplink) + 1) .. Len(uplink') : uplink'[k].type # "SetVr"
      PROVE  NoSetVr(q, p)'
  <2> SUFFICES ASSUME NEW k \in q .. p PROVE uplink'[k].type # "SetVr"
    BY DEF NoSetVr
  <2>1. CASE k <= Len(uplink)
    BY <1>2, <1>7, <2>1 DEF NoSetVr
  <2>2. CASE k > Len(uplink)
    BY <1>2, <1>7, <2>2
  <2> QED BY <1>2, <2>1, <2>2
<1>8. ASSUME NEW q \in Nat, NEW p \in Nat, q >= 1, p <= Len(uplink), NoSetVr(q, p)
      PROVE  NoSetVr(q, p)'
  BY <1>2, <1>8 DEF NoSetVr
<1>9. KnownFdus'
  <2>4. 1 .. fdus \subseteq 1 .. fdus' /\ 0 .. fdus \subseteq 0 .. fdus'
    <3>1. fdus \in Nat /\ (fdus' = fdus \/ fdus' = fdus + 1)
      BY <1>5
    <3>2. \A n \in Nat : 1 .. n \subseteq 1 .. (n + 1) /\ 0 .. n \subseteq 0 .. (n + 1)
      OBVIOUS
    <3> QED BY <3>1, <3>2, Zenon
  <2>1. \A p \in Ads' : uplink'[p].fdu \in 1 .. fdus'
    <3>1. \A p \in Ads : uplink[p].fdu \in 1 .. fdus
      BY <1>1 DEF KnownFdus
    <3>2. \A i \in sq_occupied : sq_fdu[i] \in 1 .. fdus
      BY <1>1 DEF KnownFdus
    <3>3. \A p \in Ads' : uplink'[p].fdu \in 1 .. fdus
      BY <1>3, <3>1, <3>2, Zenon
    <3> QED BY <2>4, <3>3, Zenon
  <2>2. \A i \in sq_occupied' : sq_fdu'[i] \in 1 .. fdus'
    BY <1>1, <1>5 DEF KnownFdus
  <2>3. LastFdu' \in 0 .. fdus'
    <3>1. LastFdu \in 0 .. fdus
      BY <1>1 DEF KnownFdus
    <3> QED BY <1>6, <2>4, <3>1, Zenon
  <2> QED BY <2>1, <2>2, <2>3 DEF KnownFdus
<1>10. QueueOrder'
  BY <1>1, <1>5 DEF QueueOrder, KnownFdus
<1>11. LinkOrder'
  <2> SUFFICES ASSUME NEW q \in Ads', NEW p \in Ads', q < p, uplink'[p].fdu <= uplink'[q].fdu
               PROVE  /\ Behind(uplink'[p].fdu, uplink'[p].seq, uplink'[q].fdu, uplink'[q].seq)
                      /\ NoSetVr(q, p)'
    BY DEF LinkOrder
  <2>1. CASE p <= Len(uplink)
    <3>1. q \in Ads /\ p \in Ads /\ uplink'[q] = uplink[q] /\ uplink'[p] = uplink[p]
          /\ q \in Nat /\ p \in Nat /\ q >= 1
      BY <1>2, <1>3, <2>1
    <3>2. /\ Behind(uplink[p].fdu, uplink[p].seq, uplink[q].fdu, uplink[q].seq)
          /\ NoSetVr(q, p)
      BY <1>1, <3>1 DEF LinkOrder
    <3> QED BY <1>8, <2>1, <3>1, <3>2
  <2>2. CASE p > Len(uplink)
    <3>1. PICK i \in sq_occupied : uplink'[p].fdu = sq_fdu[i] /\ uplink'[p].seq = sq_seq[i]
      BY <1>2, <1>3, <2>2
    <3>2. \A k \in (Len(uplink) + 1) .. Len(uplink') : uplink'[k].type # "SetVr"
      BY <1>4, <2>2
    <3>3. CASE q <= Len(uplink)
      <4>1. q \in Ads /\ uplink'[q] = uplink[q] /\ q \in Nat /\ p \in Nat /\ q >= 1 /\ p <= Len(uplink')
        BY <1>2, <1>3, <3>3
      <4>2. /\ Behind(sq_fdu[i], sq_seq[i], uplink[q].fdu, uplink[q].seq)
            /\ NoSetVr(q, Len(uplink))
        BY <1>1, <3>1, <4>1 DEF ResendOrder
      <4> QED BY <1>7, <3>1, <3>2, <4>1, <4>2
    <3>4. CASE q > Len(uplink)
      <4>1. PICK j \in sq_occupied : uplink'[q].fdu = sq_fdu[j] /\ uplink'[q].seq = sq_seq[j]
        BY <1>2, <1>3, <3>4
      <4>2. Behind(sq_fdu[i], sq_seq[i], sq_fdu[j], sq_seq[j])
        BY <1>1 DEF QueueOrder
      <4>3. NoSetVr(q, p)'
        BY <1>2, <3>2, <3>4 DEF NoSetVr
      <4> QED BY <3>1, <4>1, <4>2, <4>3
    <3> QED BY <1>2, <3>3, <3>4
  <2> QED BY <1>2, <2>1, <2>2
<1>12. ResendOrder'
  <2> SUFFICES ASSUME NEW i \in sq_occupied', NEW q \in Ads', sq_fdu'[i] <= uplink'[q].fdu
               PROVE  /\ Behind(sq_fdu'[i], sq_seq'[i], uplink'[q].fdu, uplink'[q].seq)
                      /\ NoSetVr(q, Len(uplink))'
    BY DEF ResendOrder
  <2>1. i \in sq_occupied /\ sq_fdu'[i] = sq_fdu[i] /\ sq_seq'[i] = sq_seq[i]
    BY <1>5
  <2>2. \A k \in (Len(uplink) + 1) .. Len(uplink') : uplink'[k].type # "SetVr"
    BY <1>4
  <2>3. CASE q <= Len(uplink)
    <3>1. q \in Ads /\ uplink'[q] = uplink[q] /\ q \in Nat /\ q >= 1
      BY <1>2, <1>3, <2>3
    <3>2. /\ Behind(sq_fdu[i], sq_seq[i], uplink[q].fdu, uplink[q].seq)
          /\ NoSetVr(q, Len(uplink))
      BY <1>1, <2>1, <3>1 DEF ResendOrder
    <3>3. NoSetVr(q, Len(uplink))'
      <4> SUFFICES ASSUME NEW k \in q .. Len(uplink') PROVE uplink'[k].type # "SetVr"
        BY DEF NoSetVr
      <4>1. CASE k <= Len(uplink)
        BY <1>2, <3>1, <3>2, <4>1 DEF NoSetVr
      <4>2. CASE k > Len(uplink)
        BY <1>2, <2>2, <3>1, <4>2
      <4> QED BY <1>2, <3>1, <4>1, <4>2
    <3> QED BY <2>1, <3>1, <3>2, <3>3
  <2>4. CASE q > Len(uplink)
    <3>1. PICK j \in sq_occupied : uplink'[q].fdu = sq_fdu[j] /\ uplink'[q].seq = sq_seq[j]
      BY <1>2, <1>3, <2>4
    <3>2. Behind(sq_fdu[i], sq_seq[i], sq_fdu[j], sq_seq[j])
      BY <1>1, <2>1 DEF QueueOrder
    <3>3. NoSetVr(q, Len(uplink))'
      BY <1>2, <2>2, <2>4 DEF NoSetVr
    <3> QED BY <2>1, <3>1, <3>2, <3>3
  <2> QED BY <1>2, <2>3, <2>4
<1>13. StaleOrder'
  <2>1. ASSUME NEW p \in Ads', uplink'[p].fdu <= LastFdu'
        PROVE  NoSetVr(1, p)' /\ uplink'[p].seq # vr'
    <3>1. CASE p <= Len(uplink)
      <4>1. p \in Ads /\ uplink'[p] = uplink[p] /\ p \in Nat
        BY <1>2, <1>3, <3>1
      <4>2. NoSetVr(1, p) /\ uplink[p].seq # vr
        BY <1>1, <1>6, <2>1, <4>1 DEF StaleOrder
      <4> QED BY <1>8, <3>1, <4>1, <4>2
    <3>2. CASE p > Len(uplink)
      <4>1. PICK i \in sq_occupied : uplink'[p].fdu = sq_fdu[i] /\ uplink'[p].seq = sq_seq[i]
        BY <1>2, <1>3, <3>2
      <4>2. NoSetVr(1, Len(uplink)) /\ sq_seq[i] # vr
        BY <1>1, <1>6, <2>1, <4>1 DEF StaleOrder
      <4>3. \A k \in (Len(uplink) + 1) .. Len(uplink') : uplink'[k].type # "SetVr"
        BY <1>4, <3>2
      <4> QED BY <1>2, <1>7, <4>1, <4>2, <4>3
    <3> QED BY <1>2, <3>1, <3>2
  <2>2. ASSUME NEW i \in sq_occupied', sq_fdu'[i] <= LastFdu'
        PROVE  NoSetVr(1, Len(uplink))' /\ sq_seq'[i] # vr'
    <3>1. i \in sq_occupied /\ sq_fdu'[i] = sq_fdu[i] /\ sq_seq'[i] = sq_seq[i]
      BY <1>5
    <3>2. NoSetVr(1, Len(uplink)) /\ sq_seq[i] # vr
      BY <1>1, <1>6, <2>2, <3>1 DEF StaleOrder
    <3>3. \A k \in (Len(uplink) + 1) .. Len(uplink') : uplink'[k].type # "SetVr"
      BY <1>4
    <3>4. NoSetVr(1, Len(uplink))'
      <4> SUFFICES ASSUME NEW k \in 1 .. Len(uplink') PROVE uplink'[k].type # "SetVr"
        BY DEF NoSetVr
      <4>1. CASE k <= Len(uplink)
        BY <1>2, <3>2, <4>1 DEF NoSetVr
      <4>2. CASE k > Len(uplink)
        BY <1>2, <3>3, <4>2
      <4> QED BY <1>2, <4>1, <4>2
    <3> QED BY <3>1, <3>2, <3>4
  <2> QED BY <2>1, <2>2 DEF StaleOrder
<1>14. Buffered'
  <2>1. FduLen \in Nat /\ FopBuf \in Nat /\ fop_write_pos \in Nat /\ fop_write_pos <= FopBuf
    BY <1>1, FopAssumption DEF Cop1Type, CountersType, Buffered
  <2>2. CASE fdus' = fdus /\ fop_write_pos' = fop_write_pos
    BY <1>1, <1>5, <2>2 DEF Buffered
  <2>3. CASE fop_write_pos' = 0 /\ sq_occupied' = {}
    BY <2>1, <2>3 DEF Buffered
  <2>4. CASE /\ fdus' = fdus + 1 /\ fop_write_pos' = fop_write_pos + FduLen
             /\ fop_write_pos' <= FopBuf
    <3>1. ASSUME NEW i \in sq_occupied'
          PROVE  (fdus' + 1 - sq_fdu'[i]) * FduLen <= fop_write_pos'
      <4> DEFINE d == fdus + 1 - sq_fdu[i]
      <4>1. d \in Int /\ d * FduLen <= fop_write_pos /\ fdus' + 1 - sq_fdu'[i] = d + 1
        BY <1>1, <1>5, <2>4 DEF Buffered
      <4> HIDE DEF d
      <4>2. (d + 1) * FduLen = d * FduLen + FduLen /\ d * FduLen \in Int
        BY <2>1, <4>1
      <4> DEFINE e == d * FduLen
      <4> HIDE DEF e
      <4>3. e \in Int /\ e <= fop_write_pos /\ (d + 1) * FduLen = e + FduLen
        BY <4>1, <4>2 DEF e
      <4>4. e + FduLen <= fop_write_pos'
        BY <2>1, <2>4, <4>3
      <4> QED BY <4>1, <4>3, <4>4
    <3> QED BY <2>4, <3>1 DEF Buffered
  <2> QED BY <2>2, <2>3, <2>4 DEF QuietStep, RoomStep
<1>15. AcceptedInOrder'
  BY <1>1 DEF AcceptedInOrder
<1> QED BY <1>9, <1>10, <1>11, <1>12, <1>13, <1>14, <1>15 DEF OrderInv

\* wrapping_add without the remainder.
LEMMA IncWraps ==
    ASSUME NEW a \in FrameSeqs
    PROVE  UInc(a) = (IF a + 1 < FrameSpace THEN a + 1 ELSE 0)
<1>1. FrameSpace \in Nat \ {0} /\ a \in 0 .. FrameSpace - 1
  BY FrameSpaceAssumption DEF FrameSeqs
<1>2. \A q \in Int, r \in 0 .. FrameSpace - 1 : (FrameSpace * q + r) % FrameSpace = r
  BY <1>1, ModUnique
<1>3. CASE a + 1 < FrameSpace
  <2>1. a + 1 \in 0 .. FrameSpace - 1 /\ FrameSpace * 0 + (a + 1) = a + 1
    BY <1>1, <1>3
  <2>2. (a + 1) % FrameSpace = a + 1
    BY <1>2, <2>1
  <2> QED BY <1>3, <2>2 DEF UInc
<1>4. CASE ~(a + 1 < FrameSpace)
  <2>1. 0 \in 0 .. FrameSpace - 1 /\ FrameSpace * 1 + 0 = a + 1
    BY <1>1, <1>4
  <2>2. (a + 1) % FrameSpace = 0
    BY <1>2, <2>1
  <2> QED BY <1>4, <2>2 DEF UInc
<1> QED BY <1>3, <1>4

\* wrapping_sub without the remainder.
LEMMA CircleFacts ==
    ASSUME NEW a \in FrameSeqs, NEW b \in FrameSeqs
    PROVE  /\ USub(a, b) = (IF a >= b THEN a - b ELSE a - b + FrameSpace)
           /\ UInc(a) = (IF a + 1 < FrameSpace THEN a + 1 ELSE 0)
<1>1. FrameSpace \in Nat \ {0} /\ a \in 0 .. FrameSpace - 1 /\ b \in 0 .. FrameSpace - 1
  BY FrameSpaceAssumption DEF FrameSeqs
<1>2. \A q \in Int, r \in 0 .. FrameSpace - 1 : (FrameSpace * q + r) % FrameSpace = r
  BY <1>1, ModUnique
<1>3. FrameSpace * 0 = 0 /\ FrameSpace * (-1) = -FrameSpace /\ FrameSpace * 1 = FrameSpace
  BY <1>1
<1>4. CASE a >= b
  <2>1. a - b \in 0 .. FrameSpace - 1 /\ FrameSpace * 0 + (a - b) = a - b
    BY <1>1, <1>3, <1>4
  <2>2. (a - b) % FrameSpace = a - b
    BY <1>2, <2>1
  <2> QED BY <1>4, <2>2, IncWraps DEF USub
<1>5. CASE ~(a >= b)
  <2>1. a - b + FrameSpace \in 0 .. FrameSpace - 1
        /\ FrameSpace * (-1) + (a - b + FrameSpace) = a - b
    BY <1>1, <1>3, <1>5
  <2>2. (a - b) % FrameSpace = a - b + FrameSpace
    BY <1>2, <2>1
  <2> QED BY <1>5, <2>2, IncWraps DEF USub
<1> QED BY <1>4, <1>5

\* One more number is taken: those less than a turn behind stay so.
LEMMA NextNumber ==
    ASSUME NEW v \in FrameSeqs, NEW s \in FrameSeqs,
           USub(v, s) \in 1 .. (FrameSpace - 2)
    PROVE  s # v /\ s # UInc(v) /\ USub(UInc(v), s) = USub(v, s) + 1
<1>1. /\ USub(v, s) = (IF v >= s THEN v - s ELSE v - s + FrameSpace)
      /\ UInc(v) = (IF v + 1 < FrameSpace THEN v + 1 ELSE 0)
  BY CircleFacts
<1>2. UInc(v) \in FrameSeqs
  BY UIncType
<1>3. USub(UInc(v), s) = (IF UInc(v) >= s THEN UInc(v) - s ELSE UInc(v) - s + FrameSpace)
  BY <1>2, CircleFacts
<1> DEFINE w == UInc(v)
<1>4. w = (IF v + 1 < FrameSpace THEN v + 1 ELSE 0)
  BY <1>1
<1> HIDE DEF w
<1>5. /\ s # v /\ s # w
      /\ (IF w >= s THEN w - s ELSE w - s + FrameSpace)
            = (IF v >= s THEN v - s ELSE v - s + FrameSpace) + 1
  BY <1>1, <1>4, FrameSpaceAssumption DEF FrameSeqs
<1> QED BY <1>1, <1>3, <1>5 DEF w

\* The next number is another one.
LEMMA NextDiffers ==
    ASSUME NEW v \in FrameSeqs, FrameSpace > 1
    PROVE  UInc(v) # v /\ USub(UInc(v), v) = 1
<1>1. UInc(v) \in FrameSeqs /\ UInc(v) = (IF v + 1 < FrameSpace THEN v + 1 ELSE 0)
  BY UIncType, CircleFacts
<1>2. USub(UInc(v), v) = (IF UInc(v) >= v THEN UInc(v) - v ELSE UInc(v) - v + FrameSpace)
  BY <1>1, CircleFacts
<1> DEFINE w == UInc(v)
<1>3. w = (IF v + 1 < FrameSpace THEN v + 1 ELSE 0)
  BY <1>1
<1> HIDE DEF w
<1>4. w # v /\ (IF w >= v THEN w - v ELSE w - v + FrameSpace) = 1
  BY <1>3, FrameSpaceAssumption DEF FrameSeqs
<1> QED BY <1>2, <1>4 DEF w

\* The buffer bounds how many FDUs were taken since one that is still in the queue.
LEMMA BufferBounds ==
    ASSUME BufferIsShort, NEW d \in Int, d * FduLen <= FopBuf
    PROVE  d <= FrameSpace - 1
<1>1. FduLen \in Nat /\ FopBuf \in Nat /\ FrameSpace \in Nat
  BY FopAssumption, FrameSpaceAssumption
<1>2. ASSUME d >= FrameSpace PROVE FALSE
  <2> DEFINE e == d - FrameSpace
  <2>1. e \in Nat /\ d = FrameSpace + e
    BY <1>1, <1>2
  <2> HIDE DEF e
  <2>2. d * FduLen = FrameSpace * FduLen + e * FduLen
    BY <1>1, <2>1
  <2>3. e * FduLen \in Nat /\ FrameSpace * FduLen \in Nat
    BY <1>1, <2>1
  <2> QED BY <1>1, <2>2, <2>3 DEF BufferIsShort
<1> QED BY <1>1, <1>2

\* A new FDU comes after everything that is queued or on the link.
LEMMA OrderTake ==
    ASSUME BufferIsShort, Cop1Type, OrderInv, NEW i, NEW s, TakeStep(i, s),
           vr' = vr, accepted' = accepted
    PROVE  OrderInv'
<1>1. KnownFdus /\ Buffered /\ QueueOrder /\ LinkOrder /\ ResendOrder /\ StaleOrder /\ AcceptedInOrder
  BY DEF OrderInv
<1>2. /\ QueueType /\ vs \in FrameSeqs /\ fdus \in Nat /\ FduLen \in Nat /\ FopBuf \in Nat
      /\ fop_write_pos \in Nat /\ FrameSpace \in Nat /\ uplink \in Seq(Frames)
  BY FopAssumption, FrameSpaceAssumption DEF Cop1Type, CountersType, LinksType
<1>3. /\ i \in SqSlots \ sq_occupied /\ fdus' = fdus + 1 /\ vs' = UInc(vs)
      /\ sq_occupied' = sq_occupied \cup {i}
      /\ fop_write_pos' = fop_write_pos + FduLen /\ fop_write_pos' <= FopBuf
      /\ s \in Seq(Frames) /\ Len(s) <= 1 /\ uplink' = uplink \o s
  BY DEF TakeStep
<1>4. /\ sq_seq'[i] = vs /\ sq_fdu'[i] = fdus + 1
      /\ \A j \in sq_occupied : sq_seq'[j] = sq_seq[j] /\ sq_fdu'[j] = sq_fdu[j] /\ j # i
  BY <1>2, <1>3 DEF TakeStep, QueueType
<1>5. /\ Len(uplink) \in Nat /\ Len(uplink') = Len(uplink) + Len(s) /\ Len(s) \in Nat
      /\ DOMAIN uplink = 1 .. Len(uplink) /\ DOMAIN uplink' = 1 .. Len(uplink')
      /\ \A p \in 1 .. Len(uplink) : uplink'[p] = uplink[p]
      /\ \A p \in 1 .. Len(uplink') : p > Len(uplink) =>
            p - Len(uplink) \in DOMAIN s /\ uplink'[p] = s[p - Len(uplink)]
  BY <1>2, <1>3, LinkGrown
<1> DEFINE f == [type |-> "Ad", fdu |-> fdus + 1, seq |-> vs]
<1>6. f.type = "Ad" /\ f.fdu = fdus + 1 /\ f.seq = vs
  OBVIOUS
<1>7. \A k \in DOMAIN s : s[k] = f
  BY DEF TakeStep
<1> HIDE DEF f
<1>8. \A k \in 1 .. Len(uplink') :
         k > Len(uplink) => k = Len(uplink') /\ uplink'[k] = f /\ uplink'[k].type # "SetVr"
  BY <1>3, <1>5, <1>6, <1>7
<1>9. \A p \in Ads' :
         /\ p \in 1 .. Len(uplink')
         /\ \/ p \in Ads /\ p \in 1 .. Len(uplink) /\ uplink'[p] = uplink[p]
            \/ p = Len(uplink') /\ p > Len(uplink) /\ uplink'[p] = f
  <2> SUFFICES ASSUME NEW p \in Ads'
               PROVE  /\ p \in 1 .. Len(uplink')
                      /\ \/ p \in Ads /\ p \in 1 .. Len(uplink) /\ uplink'[p] = uplink[p]
                         \/ p = Len(uplink') /\ p > Len(uplink) /\ uplink'[p] = f
    OBVIOUS
  <2>1. p \in 1 .. Len(uplink') /\ uplink'[p].type = "Ad"
    BY <1>5 DEF Ads
  <2>2. CASE p > Len(uplink)
    BY <1>8, <2>1, <2>2
  <2>3. CASE ~(p > Len(uplink))
    <3>1. p \in 1 .. Len(uplink)
      BY <1>5, <2>1, <2>3
    <3> QED BY <1>5, <2>1, <3>1 DEF Ads
  <2> QED BY <2>2, <2>3
<1>10. \A q \in Nat, p \in 1 .. Len(uplink) : q >= 1 /\ NoSetVr(q, p) => NoSetVr(q, p)'
  BY <1>5 DEF NoSetVr
<1>11. \A q \in Nat : q >= 1 /\ NoSetVr(q, Len(uplink)) => NoSetVr(q, Len(uplink))'
  <2> SUFFICES ASSUME NEW q \in Nat, q >= 1, NoSetVr(q, Len(uplink)), NEW k \in q .. Len(uplink')
               PROVE  uplink'[k].type # "SetVr"
    BY DEF NoSetVr
  <2>1. CASE k > Len(uplink)
    BY <1>5, <1>8, <2>1
  <2>2. CASE ~(k > Len(uplink))
    BY <1>5, <2>2 DEF NoSetVr
  <2> QED BY <2>1, <2>2
<1>12. LastFdu' = LastFdu
  BY DEF LastFdu
<1>13. \A j \in sq_occupied : sq_fdu[j] \in 1 .. fdus /\ sq_seq[j] \in FrameSeqs
  BY <1>1, <1>2 DEF KnownFdus, QueueType
<1>14. /\ \A p \in Ads : uplink[p].fdu \in 1 .. fdus
       /\ LastFdu \in 0 .. fdus
  BY <1>1 DEF KnownFdus
<1>15. KnownFdus'
  <2>1. \A p \in Ads' : uplink'[p].fdu \in 1 .. fdus'
    BY <1>2, <1>3, <1>6, <1>9, <1>14
  <2>2. \A j \in sq_occupied' : sq_fdu'[j] \in 1 .. fdus'
    <3>1. 1 .. fdus \subseteq 1 .. fdus' /\ fdus + 1 \in 1 .. fdus'
      BY <1>2, <1>3
    <3>2. sq_fdu'[i] \in 1 .. fdus'
      BY <1>4, <3>1
    <3>3. \A j \in sq_occupied : sq_fdu'[j] \in 1 .. fdus'
      BY <1>4, <1>13, <3>1, Zenon
    <3> QED BY <1>3, <3>2, <3>3, Zenon
  <2>3. LastFdu' \in 0 .. fdus'
    BY <1>2, <1>3, <1>12, <1>14
  <2> QED BY <2>1, <2>2, <2>3 DEF KnownFdus
<1>16. ASSUME NEW j \in sq_occupied
       PROVE  /\ (fdus + 2 - sq_fdu[j]) * FduLen <= fop_write_pos'
              /\ sq_seq[j] # vs /\ sq_seq[j] # UInc(vs)
              /\ USub(UInc(vs), sq_seq[j]) \in 1 .. (fdus + 2 - sq_fdu[j])
  <2> DEFINE d == fdus + 1 - sq_fdu[j]
  <2>1. d \in Int /\ d * FduLen <= fop_write_pos /\ fdus + 2 - sq_fdu[j] = d + 1
    BY <1>1, <1>2, <1>13 DEF Buffered
  <2>2. USub(vs, sq_seq[j]) \in 1 .. d
    BY <1>1 DEF QueueOrder
  <2> HIDE DEF d
  <2>3. (d + 1) * FduLen = d * FduLen + FduLen /\ d * FduLen \in Int
    BY <1>2, <2>1
  <2> DEFINE e == d * FduLen
  <2> HIDE DEF e
  <2>4. e \in Int /\ e <= fop_write_pos /\ (d + 1) * FduLen = e + FduLen
    BY <2>1, <2>3 DEF e
  <2>5. (d + 1) * FduLen <= fop_write_pos' /\ (d + 1) * FduLen <= FopBuf
    BY <1>2, <1>3, <2>4
  <2>6. d + 1 <= FrameSpace - 1
    BY <2>1, <2>5, BufferBounds
  <2>7. USub(vs, sq_seq[j]) \in 1 .. (FrameSpace - 2)
    BY <1>2, <2>1, <2>2, <2>6
  <2>8. /\ sq_seq[j] # vs /\ sq_seq[j] # UInc(vs)
        /\ USub(UInc(vs), sq_seq[j]) = USub(vs, sq_seq[j]) + 1
    BY <1>2, <1>13, <2>7, NextNumber
  <2> QED BY <2>1, <2>2, <2>5, <2>8
<1>17. UInc(vs) # vs /\ USub(UInc(vs), vs) = 1
  BY <1>2, NextDiffers DEF BufferIsShort
<1>18. Buffered'
  <2>1. (fdus' + 1 - sq_fdu'[i]) * FduLen <= fop_write_pos'
    <3>1. fdus' + 1 - sq_fdu'[i] = 1
      BY <1>2, <1>3, <1>4
    <3>2. 1 * FduLen = FduLen
      BY <1>2
    <3> QED BY <1>2, <1>3, <3>1, <3>2
  <2>2. ASSUME NEW j \in sq_occupied
        PROVE  (fdus' + 1 - sq_fdu'[j]) * FduLen <= fop_write_pos'
    <3>1. fdus' + 1 - sq_fdu'[j] = fdus + 2 - sq_fdu[j]
      BY <1>2, <1>3, <1>4, <1>13
    <3> QED BY <1>16, <3>1
  <2> QED BY <1>3, <2>1, <2>2 DEF Buffered
<1>19. QueueOrder'
  <2>1. \A j \in sq_occupied' : USub(vs', sq_seq'[j]) \in 1 .. (fdus' + 1 - sq_fdu'[j])
    <3>1. USub(vs', sq_seq'[i]) \in 1 .. (fdus' + 1 - sq_fdu'[i])
      BY <1>2, <1>3, <1>4, <1>17
    <3>2. ASSUME NEW j \in sq_occupied
          PROVE  USub(vs', sq_seq'[j]) \in 1 .. (fdus' + 1 - sq_fdu'[j])
      <4>1. fdus' + 1 - sq_fdu'[j] = fdus + 2 - sq_fdu[j]
        BY <1>2, <1>3, <1>4, <1>13
      <4> QED BY <1>3, <1>4, <1>16, <4>1
    <3> QED BY <1>3, <3>1, <3>2
  <2>2. \A j, k \in sq_occupied' : Behind(sq_fdu'[j], sq_seq'[j], sq_fdu'[k], sq_seq'[k])
    <3>1. \A j, k \in sq_occupied : Behind(sq_fdu[j], sq_seq[j], sq_fdu[k], sq_seq[k])
      BY <1>1 DEF QueueOrder
    <3>2. Behind(fdus + 1, vs, fdus + 1, vs)
      BY <1>2 DEF Behind
    <3>3. \A j \in sq_occupied : Behind(sq_fdu[j], sq_seq[j], fdus + 1, vs)
      BY <1>2, <1>13, <1>16 DEF Behind
    <3>4. \A j \in sq_occupied : Behind(fdus + 1, vs, sq_fdu[j], sq_seq[j])
      BY <1>2, <1>13 DEF Behind
    <3> QED BY <1>3, <1>4, <3>1, <3>2, <3>3, <3>4
  <2> QED BY <2>1, <2>2 DEF QueueOrder
<1>20. LinkOrder'
  <2> SUFFICES ASSUME NEW q \in Ads', NEW p \in Ads', q < p, uplink'[p].fdu <= uplink'[q].fdu
               PROVE  /\ Behind(uplink'[p].fdu, uplink'[p].seq, uplink'[q].fdu, uplink'[q].seq)
                      /\ NoSetVr(q, p)'
    BY DEF LinkOrder
  <2>1. q \in Ads /\ q \in 1 .. Len(uplink) /\ uplink'[q] = uplink[q]
    BY <1>5, <1>9
  <2>2. p \in Ads /\ p \in 1 .. Len(uplink) /\ uplink'[p] = uplink[p]
    BY <1>2, <1>6, <1>9, <1>14, <2>1
  <2>3. /\ Behind(uplink[p].fdu, uplink[p].seq, uplink[q].fdu, uplink[q].seq)
        /\ NoSetVr(q, p)
    BY <1>1, <2>1, <2>2 DEF LinkOrder
  <2> QED BY <1>10, <2>1, <2>2, <2>3
<1>21. ResendOrder'
  <2> SUFFICES ASSUME NEW j \in sq_occupied', NEW q \in Ads', sq_fdu'[j] <= uplink'[q].fdu
               PROVE  /\ Behind(sq_fdu'[j], sq_seq'[j], uplink'[q].fdu, uplink'[q].seq)
                      /\ NoSetVr(q, Len(uplink))'
    BY DEF ResendOrder
  <2>1. CASE q \in Ads /\ q \in 1 .. Len(uplink) /\ uplink'[q] = uplink[q]
    <3>1. j \in sq_occupied /\ sq_fdu'[j] = sq_fdu[j] /\ sq_seq'[j] = sq_seq[j]
      BY <1>2, <1>3, <1>4, <1>14, <2>1
    <3>2. /\ Behind(sq_fdu[j], sq_seq[j], uplink[q].fdu, uplink[q].seq)
          /\ NoSetVr(q, Len(uplink))
      BY <1>1, <2>1, <3>1 DEF ResendOrder
    <3> QED BY <1>11, <2>1, <3>1, <3>2
  <2>2. CASE q = Len(uplink') /\ q > Len(uplink) /\ uplink'[q] = f
    <3>1. Behind(sq_fdu'[j], sq_seq'[j], fdus + 1, vs)
      <4>1. CASE j = i
        BY <1>2, <1>4, <4>1 DEF Behind
      <4>2. CASE j \in sq_occupied
        BY <1>2, <1>4, <1>13, <1>16, <4>2 DEF Behind
      <4> QED BY <1>3, <4>1, <4>2
    <3>2. NoSetVr(q, Len(uplink))'
      <4> SUFFICES ASSUME NEW k \in q .. Len(uplink') PROVE uplink'[k].type # "SetVr"
        BY DEF NoSetVr
      <4>1. k = q
        BY <1>5, <2>2
      <4> QED BY <1>6, <2>2, <4>1
    <3> QED BY <1>6, <2>2, <3>1, <3>2
  <2> QED BY <1>9, <2>1, <2>2
<1>22. StaleOrder'
  <2>1. ASSUME NEW p \in Ads', uplink'[p].fdu <= LastFdu'
        PROVE  NoSetVr(1, p)' /\ uplink'[p].seq # vr'
    <3>1. p \in Ads /\ p \in 1 .. Len(uplink) /\ uplink'[p] = uplink[p]
      BY <1>2, <1>6, <1>9, <1>12, <1>14, <2>1
    <3>2. NoSetVr(1, p) /\ uplink[p].seq # vr
      BY <1>1, <1>12, <2>1, <3>1 DEF StaleOrder
    <3> QED BY <1>10, <3>1, <3>2
  <2>2. ASSUME NEW j \in sq_occupied', sq_fdu'[j] <= LastFdu'
        PROVE  NoSetVr(1, Len(uplink))' /\ sq_seq'[j] # vr'
    <3>1. j \in sq_occupied /\ sq_fdu'[j] = sq_fdu[j] /\ sq_seq'[j] = sq_seq[j]
      BY <1>2, <1>3, <1>4, <1>12, <1>14, <2>2
    <3>2. NoSetVr(1, Len(uplink)) /\ sq_seq[j] # vr
      BY <1>1, <1>12, <2>2, <3>1 DEF StaleOrder
    <3> QED BY <1>11, <3>1, <3>2
  <2> QED BY <2>1, <2>2 DEF StaleOrder
<1>23. AcceptedInOrder'
  BY <1>1 DEF AcceptedInOrder
<1> QED BY <1>15, <1>18, <1>19, <1>20, <1>21, <1>22, <1>23 DEF OrderInv

\* Where the frames are after the head of the link is gone.
LEMMA LinkShift ==
    ASSUME uplink \in Seq(Frames), uplink # <<>>, uplink' = Tail(uplink)
    PROVE  /\ Len(uplink) \in Nat \ {0} /\ Len(uplink') = Len(uplink) - 1
           /\ uplink[1] = Head(uplink) /\ 1 \in 1 .. Len(uplink)
           /\ DOMAIN uplink = 1 .. Len(uplink) /\ DOMAIN uplink' = 1 .. Len(uplink')
           /\ \A p \in 1 .. Len(uplink') : uplink'[p] = uplink[p + 1]
           /\ \A p \in Ads' :
                 p \in 1 .. Len(uplink') /\ p + 1 \in Ads /\ uplink'[p] = uplink[p + 1]
           /\ \A q, p \in Nat : q >= 1 /\ p <= Len(uplink') /\ NoSetVr(q + 1, p + 1) => NoSetVr(q, p)'
<1>1. /\ Len(uplink) \in Nat \ {0} /\ Len(uplink') = Len(uplink) - 1
      /\ uplink[1] = Head(uplink) /\ 1 \in 1 .. Len(uplink)
      /\ DOMAIN uplink = 1 .. Len(uplink) /\ DOMAIN uplink' = 1 .. Len(uplink')
  OBVIOUS
<1>2. \A p \in 1 .. Len(uplink') : uplink'[p] = uplink[p + 1] /\ p + 1 \in 1 .. Len(uplink)
  OBVIOUS
<1>3. \A p \in Ads' : p \in 1 .. Len(uplink') /\ p + 1 \in Ads /\ uplink'[p] = uplink[p + 1]
  BY <1>1, <1>2 DEF Ads
<1>4. ASSUME NEW q \in Nat, NEW p \in Nat, q >= 1, p <= Len(uplink'), NoSetVr(q + 1, p + 1)
      PROVE  NoSetVr(q, p)'
  <2> SUFFICES ASSUME NEW k \in q .. p PROVE uplink'[k].type # "SetVr"
    BY DEF NoSetVr
  <2>1. k \in 1 .. Len(uplink') /\ k + 1 \in (q + 1) .. (p + 1)
    BY <1>1, <1>4
  <2> QED BY <1>2, <1>4, <2>1 DEF NoSetVr
<1> QED BY <1>1, <1>2, <1>3, <1>4

\* What FARM-1 accepts comes after all it accepted before, and what is left of the same or
\* an earlier FDU no longer fits V(R).
LEMMA OrderRead ==
    ASSUME BufferIsShort, Cop1Type, OrderInv, ReadStep
    PROVE  OrderInv'
<1>1. KnownFdus /\ Buffered /\ QueueOrder /\ LinkOrder /\ ResendOrder /\ StaleOrder /\ AcceptedInOrder
  BY DEF OrderInv
<1>2. /\ uplink \in Seq(Frames) /\ uplink # <<>> /\ uplink' = Tail(uplink)
      /\ accepted \in Seq(Nat) /\ vr \in FrameSeqs /\ fdus \in Nat
  BY FopAssumption DEF Cop1Type, LinksType, CountersType, FarmTypeOK, FarmCountersType, ReadStep
<1>3. /\ Len(uplink) \in Nat \ {0} /\ Len(uplink') = Len(uplink) - 1
      /\ uplink[1] = Head(uplink) /\ 1 \in 1 .. Len(uplink) /\ DOMAIN uplink = 1 .. Len(uplink)
      /\ \A p \in Ads' :
            p \in 1 .. Len(uplink') /\ p + 1 \in Ads /\ uplink'[p] = uplink[p + 1]
  BY <1>2, LinkShift
<1>4. \A q, p \in Nat : q >= 1 /\ p <= Len(uplink') /\ NoSetVr(q + 1, p + 1) => NoSetVr(q, p)'
  BY <1>2, LinkShift
<1>5. /\ sq_occupied' = sq_occupied /\ sq_seq' = sq_seq /\ sq_fdu' = sq_fdu /\ vs' = vs
      /\ fop_write_pos' = fop_write_pos /\ fdus' = fdus
  BY DEF ReadStep, fop_queue, fop_hist
<1>6. Buffered' /\ QueueOrder'
  BY <1>1, <1>5 DEF Buffered, QueueOrder
<1>7. LinkOrder'
  <2> SUFFICES ASSUME NEW q \in Ads', NEW p \in Ads', q < p, uplink'[p].fdu <= uplink'[q].fdu
               PROVE  /\ Behind(uplink'[p].fdu, uplink'[p].seq, uplink'[q].fdu, uplink'[q].seq)
                      /\ NoSetVr(q, p)'
    BY DEF LinkOrder
  <2>1. /\ q + 1 \in Ads /\ p + 1 \in Ads /\ q \in Nat /\ p \in Nat /\ q >= 1
        /\ p <= Len(uplink') /\ q + 1 < p + 1
        /\ uplink'[q] = uplink[q + 1] /\ uplink'[p] = uplink[p + 1]
    BY <1>3
  <2>2. /\ Behind(uplink[p + 1].fdu, uplink[p + 1].seq, uplink[q + 1].fdu, uplink[q + 1].seq)
        /\ NoSetVr(q + 1, p + 1)
    BY <1>1, <2>1 DEF LinkOrder
  <2> QED BY <1>4, <2>1, <2>2
<1>8. ResendOrder'
  <2> SUFFICES ASSUME NEW i \in sq_occupied, NEW q \in Ads', sq_fdu[i] <= uplink'[q].fdu
               PROVE  /\ Behind(sq_fdu[i], sq_seq[i], uplink'[q].fdu, uplink'[q].seq)
                      /\ NoSetVr(q, Len(uplink))'
    BY <1>5 DEF ResendOrder
  <2>1. /\ q + 1 \in Ads /\ q \in Nat /\ q >= 1 /\ uplink'[q] = uplink[q + 1]
        /\ Len(uplink') \in Nat /\ Len(uplink') <= Len(uplink') /\ Len(uplink') + 1 = Len(uplink)
    BY <1>3
  <2>2. /\ Behind(sq_fdu[i], sq_seq[i], uplink[q + 1].fdu, uplink[q + 1].seq)
        /\ NoSetVr(q + 1, Len(uplink') + 1)
    BY <1>1, <2>1 DEF ResendOrder
  <2> QED BY <1>4, <2>1, <2>2
<1>9. /\ \A p \in Nat : p <= Len(uplink') /\ NoSetVr(1, p + 1) => NoSetVr(1, p)'
      /\ NoSetVr(1, Len(uplink)) => NoSetVr(1, Len(uplink))'
  <2>1. \A p \in Nat : NoSetVr(1, p + 1) => NoSetVr(1 + 1, p + 1)
    BY DEF NoSetVr
  <2>2. Len(uplink') \in Nat /\ Len(uplink') + 1 = Len(uplink)
    BY <1>3
  <2> QED BY <1>4, <2>1, <2>2
<1>10. \A p \in Ads : uplink[p].fdu \in 1 .. fdus
  BY <1>1 DEF KnownFdus
<1>11. (LastFdu' \in 0 .. fdus) => KnownFdus'
  <2>1. \A p \in Ads' : uplink'[p].fdu \in 1 .. fdus
    BY <1>3, <1>10, Zenon
  <2>2. \A i \in sq_occupied : sq_fdu[i] \in 1 .. fdus
    BY <1>1 DEF KnownFdus
  <2> QED BY <1>5, <2>1, <2>2 DEF KnownFdus
<1>12. CASE accepted' = accepted /\ (vr' = vr \/ Head(uplink).type = "SetVr")
  <2>1. LastFdu' = LastFdu /\ LastFdu \in 0 .. fdus
    BY <1>1, <1>12 DEF LastFdu, KnownFdus
  <2>2. \A p \in Nat : p >= 1 /\ NoSetVr(1, p) => vr' = vr
    BY <1>3, <1>12 DEF NoSetVr
  <2>3. ASSUME NEW p \in Ads', uplink'[p].fdu <= LastFdu'
        PROVE  NoSetVr(1, p)' /\ uplink'[p].seq # vr'
    <3>1. p + 1 \in Ads /\ uplink'[p] = uplink[p + 1] /\ p \in Nat /\ p <= Len(uplink')
          /\ p + 1 \in Nat /\ p + 1 >= 1
      BY <1>3
    <3>2. NoSetVr(1, p + 1) /\ uplink[p + 1].seq # vr
      BY <1>1, <2>1, <2>3, <3>1 DEF StaleOrder
    <3> QED BY <1>9, <2>2, <3>1, <3>2
  <2>4. ASSUME NEW i \in sq_occupied', sq_fdu'[i] <= LastFdu'
        PROVE  NoSetVr(1, Len(uplink))' /\ sq_seq'[i] # vr'
    <3>1. NoSetVr(1, Len(uplink)) /\ sq_seq[i] # vr
      BY <1>1, <1>5, <2>1, <2>4 DEF StaleOrder
    <3> QED BY <1>3, <1>5, <1>9, <2>2, <3>1
  <2>5. StaleOrder'
    BY <2>3, <2>4 DEF StaleOrder
  <2>6. AcceptedInOrder'
    BY <1>1, <1>12 DEF AcceptedInOrder
  <2> QED BY <1>6, <1>7, <1>8, <1>11, <2>1, <2>5, <2>6 DEF OrderInv
<1>13. CASE /\ Head(uplink).type = "Ad" /\ Head(uplink).seq = vr /\ vr' = UInc(vr)
            /\ accepted' = Append(accepted, Head(uplink).fdu)
  <2> DEFINE g == uplink[1]
  <2>1. g.type = "Ad" /\ g.seq = vr /\ 1 \in Ads /\ accepted' = Append(accepted, g.fdu)
    BY <1>3, <1>13 DEF Ads
  <2>2. g.fdu \in 1 .. fdus
    BY <1>10, <2>1
  <2>3. ~(g.fdu <= LastFdu) /\ LastFdu \in 0 .. fdus
    BY <1>1, <2>1 DEF StaleOrder, KnownFdus
  <2>4. vr' # vr
    BY <1>2, <1>13, NextDiffers DEF BufferIsShort
  <2>5. \A p \in Ads : 1 < p /\ uplink[p].fdu <= g.fdu =>
           /\ Behind(uplink[p].fdu, uplink[p].seq, g.fdu, vr) /\ NoSetVr(1, p)
    BY <1>1, <2>1 DEF LinkOrder
  <2>6. \A i \in sq_occupied : sq_fdu[i] <= g.fdu =>
           /\ Behind(sq_fdu[i], sq_seq[i], g.fdu, vr) /\ NoSetVr(1, Len(uplink))
    BY <1>1, <2>1 DEF ResendOrder
  <2> HIDE DEF g
  <2>7. /\ Len(accepted) \in Nat /\ Len(accepted') = Len(accepted) + 1
        /\ DOMAIN accepted = 1 .. Len(accepted) /\ DOMAIN accepted' = 1 .. Len(accepted')
        /\ accepted'[Len(accepted')] = g.fdu /\ accepted' # <<>>
        /\ \A k \in 1 .. Len(accepted) : accepted'[k] = accepted[k] /\ accepted[k] \in Nat
        /\ accepted = <<>> <=> Len(accepted) = 0
    <3> DEFINE x == g.fdu
    <3>1. x \in Nat /\ accepted' = Append(accepted, x)
      BY <1>2, <2>1, <2>2
    <3> HIDE DEF x
    <3>2. accepted = <<>> <=> Len(accepted) = 0
      BY <1>2
    <3>3. /\ Len(accepted) \in Nat /\ Len(accepted') = Len(accepted) + 1
          /\ DOMAIN accepted = 1 .. Len(accepted) /\ DOMAIN accepted' = 1 .. Len(accepted')
      BY <1>2, <3>1
    <3>4. accepted'[Len(accepted')] = x /\ accepted' # <<>>
      BY <1>2, <3>1
    <3>5. \A k \in 1 .. Len(accepted) : accepted'[k] = accepted[k] /\ accepted[k] \in Nat
      BY <1>2, <3>1
    <3> QED BY <3>2, <3>3, <3>4, <3>5 DEF x
  <2>8. LastFdu' = g.fdu /\ g.fdu \in 0 .. fdus /\ g.fdu \in Nat
    BY <2>2, <2>7 DEF LastFdu
  <2>9. \A f, s : Behind(f, s, g.fdu, vr) /\ f \in Nat /\ f <= g.fdu => s # vr'
    BY <1>13, <2>4, <2>8 DEF Behind
  <2>10. ASSUME NEW p \in Ads', uplink'[p].fdu <= LastFdu'
         PROVE  NoSetVr(1, p)' /\ uplink'[p].seq # vr'
    <3>1. /\ p + 1 \in Ads /\ uplink'[p] = uplink[p + 1] /\ p \in Nat /\ p <= Len(uplink')
          /\ 1 < p + 1
      BY <1>3
    <3>2. uplink[p + 1].fdu \in Nat /\ uplink[p + 1].fdu <= g.fdu
      BY <1>10, <2>8, <2>10, <3>1
    <3>3. Behind(uplink[p + 1].fdu, uplink[p + 1].seq, g.fdu, vr) /\ NoSetVr(1, p + 1)
      BY <2>5, <3>1, <3>2
    <3> QED BY <1>9, <2>9, <3>1, <3>2, <3>3
  <2>11. ASSUME NEW i \in sq_occupied', sq_fdu'[i] <= LastFdu'
         PROVE  NoSetVr(1, Len(uplink))' /\ sq_seq'[i] # vr'
    <3>1. i \in sq_occupied /\ sq_fdu'[i] = sq_fdu[i] /\ sq_seq'[i] = sq_seq[i]
      BY <1>5
    <3>2. sq_fdu[i] \in Nat /\ sq_fdu[i] <= g.fdu
      BY <1>1, <2>8, <2>11, <3>1 DEF KnownFdus
    <3>3. Behind(sq_fdu[i], sq_seq[i], g.fdu, vr) /\ NoSetVr(1, Len(uplink))
      BY <2>6, <3>1, <3>2
    <3> QED BY <1>9, <2>9, <3>1, <3>2, <3>3
  <2>12. AcceptedInOrder'
    <3> SUFFICES ASSUME NEW i \in 1 .. Len(accepted'), NEW j \in 1 .. Len(accepted'), i < j
                 PROVE  accepted'[i] < accepted'[j]
      BY <2>7 DEF AcceptedInOrder
    <3>1. i \in 1 .. Len(accepted) /\ accepted'[i] = accepted[i] /\ accepted[i] \in Nat
      BY <2>7
    <3>2. CASE j \in 1 .. Len(accepted)
      BY <1>1, <2>7, <3>1, <3>2 DEF AcceptedInOrder
    <3>3. CASE j = Len(accepted')
      <4>1. LastFdu = accepted[Len(accepted)] /\ Len(accepted) \in 1 .. Len(accepted)
        BY <2>7, <3>1 DEF LastFdu
      <4>2. accepted[i] <= LastFdu
        <5>1. CASE i = Len(accepted)
          BY <3>1, <4>1, <5>1
        <5>2. CASE i < Len(accepted)
          <6>1. accepted[i] < accepted[Len(accepted)]
            BY <1>1, <2>7, <3>1, <4>1, <5>2 DEF AcceptedInOrder
          <6>2. LastFdu \in Nat /\ accepted[i] < LastFdu
            BY <2>3, <4>1, <6>1
          <6> QED BY <3>1, <6>2
        <5>3. i = Len(accepted) \/ i < Len(accepted)
          <6>1. Len(accepted) \in Nat /\ i \in 1 .. Len(accepted)
            BY <2>7, <3>1
          <6>2. \A n \in Nat : \A k \in 1 .. n : k = n \/ k < n
            OBVIOUS
          <6> QED BY <6>1, <6>2, Zenon
        <5> QED BY <5>1, <5>2, <5>3
      <4> QED BY <2>3, <2>7, <2>8, <3>1, <3>3, <4>2
    <3> QED BY <2>7, <3>2, <3>3
  <2>13. StaleOrder'
    BY <2>10, <2>11 DEF StaleOrder
  <2> QED BY <1>6, <1>7, <1>8, <1>11, <2>8, <2>12, <2>13 DEF OrderInv
<1> QED BY <1>12, <1>13 DEF ReadStep

\* Every step keeps the order.
LEMMA OrderStep ==
    ASSUME BufferIsShort, Cop1Type, OrderInv, [Cop1Next]_cop1_vars
    PROVE  OrderInv'
<1>1. CASE (\E s : QuietStep(s)) /\ FopOnly
  <2>1. PICK s : QuietStep(s)
    BY <1>1
  <2>2. vr' = vr /\ accepted' = accepted
    BY <1>1 DEF FopOnly, farm_vars
  <2> QED BY <2>1, <2>2, OrderQuiet
<1>2. CASE (\E i, s : TakeStep(i, s)) /\ FopOnly
  <2>1. PICK i, s : TakeStep(i, s)
    BY <1>2
  <2>2. vr' = vr /\ accepted' = accepted
    BY <1>2 DEF FopOnly, farm_vars
  <2> QED BY <2>1, <2>2, OrderTake
<1>3. CASE ReadStep
  BY <1>3, OrderRead
<1>4. CASE StillStep
  <2>1. /\ UNCHANGED <<uplink, sq_occupied, sq_seq, sq_fdu, vs, fdus, fop_write_pos, vr, accepted>>
        /\ Ads' = Ads /\ LastFdu' = LastFdu
    BY <1>4 DEF StillStep, fop_vars, fop_queue, fop_hist, Ads, LastFdu
  <2>2. KnownFdus' /\ Buffered' /\ QueueOrder' /\ AcceptedInOrder'
    BY <2>1 DEF OrderInv, KnownFdus, Buffered, QueueOrder, AcceptedInOrder
  <2>3. LinkOrder' /\ ResendOrder' /\ StaleOrder'
    BY <2>1 DEF OrderInv, LinkOrder, ResendOrder, StaleOrder, NoSetVr
  <2> QED BY <2>2, <2>3 DEF OrderInv
<1> QED BY <1>1, <1>2, <1>3, <1>4, Cop1Cases

\* FARM-1 delivers the FDUs in the order in which FOP-1 took them, and none twice, through
\* every loss, retransmission and directive: a number comes round again only after more
\* FDUs than the buffer holds.
THEOREM FdusStayInOrder ==
    ASSUME BufferIsShort
    PROVE  Cop1Spec => []AcceptedInOrder
<1>1. Cop1Init => OrderInv
  <2> SUFFICES ASSUME Cop1Init PROVE OrderInv
    OBVIOUS
  <2>1. Ads = {} /\ sq_occupied = {} /\ accepted = <<>> /\ fdus = 0 /\ fop_write_pos = 0
    BY DEF Cop1Init, FopInit, Ads
  <2> QED BY <2>1, FopAssumption DEF OrderInv, KnownFdus, Buffered, QueueOrder, LinkOrder,
                ResendOrder, StaleOrder, AcceptedInOrder, LastFdu
<1>2. Cop1Type /\ OrderInv /\ [Cop1Next]_cop1_vars => OrderInv'
  BY OrderStep
<1>3. OrderInv => AcceptedInOrder
  BY DEF OrderInv
<1> QED BY <1>1, <1>2, <1>3, Cop1TypeCorrect, PTL DEF Cop1Spec
-----------------------------------------------------------------------------
(* Acknowledged FDUs were accepted.                                        *)

\* FOP-1 takes an FDU for at most half of the numbers: remove_acknowledged compares on the
\* circle of numbers, where a CLCW that lags by more than half a turn looks like a new one
HalfCircle == 2 * MaxFdus <= FrameSpace

\* The numbers of frames, slots and CLCWs have their type.
LEMMA SentType ==
    ASSUME Cop1Type, NEW f, NEW s, Sent(f, s)
    PROVE  s \in FrameSeqs /\ f \in Nat
<1>1. ASSUME NEW p \in Ads PROVE uplink[p].seq \in FrameSeqs /\ uplink[p].fdu \in Nat
  <2>1. uplink \in Seq(Frames) /\ p \in DOMAIN uplink
    BY DEF Cop1Type, LinksType, Ads
  <2>2. uplink[p] \in Frames
    BY <2>1
  <2> QED BY <2>2 DEF Frames
<1>2. \A i \in sq_occupied : sq_seq[i] \in FrameSeqs /\ sq_fdu[i] \in Nat
  BY DEF Cop1Type, QueueType
<1> QED BY <1>1, <1>2 DEF Sent

\* A CLCW that lags behind V(R) by less than half of the numbers acknowledges only what
\* lies before its N(R).
LEMMA AckedLiesBefore ==
    ASSUME HalfCircle, NEW n \in FrameSeqs, NEW s \in FrameSeqs, s < MaxFdus,
           USub(n, s) \in 1 .. (FrameSpace \div 2 - 1)
    PROVE  s < n
<1>1. USub(n, s) = (IF n >= s THEN n - s ELSE n - s + FrameSpace)
  BY CircleFacts
<1>2. FrameSpace \in Nat /\ MaxFdus \in Nat /\ n \in Nat /\ s \in Nat
  BY FrameSpaceAssumption, FopAssumption DEF FrameSeqs
<1>3. 2 * (FrameSpace \div 2) <= FrameSpace /\ FrameSpace \div 2 \in Nat
  BY <1>2
<1> DEFINE h == FrameSpace \div 2
           u == USub(n, s)
<1>4. h \in Nat /\ 2 * h <= FrameSpace /\ u \in 1 .. (h - 1)
      /\ u = (IF n >= s THEN n - s ELSE n - s + FrameSpace)
  BY <1>1, <1>3
<1> HIDE DEF h, u
<1> QED BY <1>2, <1>4 DEF HalfCircle

\* A quiet step puts on the link only what is in the queue.
LEMMA PositionQuiet ==
    ASSUME HalfCircle, Cop1Type, PositionInv, NEW x, QuietStep(x), DownlinkStep,
           vr' = vr, accepted' = accepted
    PROVE  PositionInv'
<1> SUFFICES ASSUME ~resynced' PROVE PositionInv'
  BY DEF PositionInv
<1>1. ~resynced /\ vs' = vs /\ fdus' \in {fdus, fdus + 1}
  BY DEF QuietStep, KeepsVs
<1>2. /\ vs <= fdus /\ vr = Len(accepted) /\ vr <= vs
      /\ \A p \in DOMAIN uplink : uplink[p].type # "SetVr"
      /\ \A k \in DOMAIN downlink : downlink[k].nr <= vr
      /\ \A f, s : Sent(f, s) => Positioned(f, s)
      /\ \A f, g, s : Sent(f, s) /\ Sent(g, s) => f = g
      /\ acked \subseteq Range(accepted)
  BY <1>1 DEF PositionInv
<1>3. /\ fdus \in Nat /\ vs \in FrameSeqs /\ vs \in Nat /\ vr \in Nat /\ fdus <= MaxFdus
      /\ MaxFdus \in Nat /\ accepted \in Seq(Nat) /\ downlink \in Seq(Clcws) /\ vr \in FrameSeqs
  BY FrameSpaceAssumption, FopAssumption
     DEF Cop1Type, CountersType, LinksType, FarmTypeOK, FarmCountersType, FrameSeqs
<1>4. \A f, s : Sent(f, s)' => Sent(f, s)
  <2>1. \A p \in Ads' :
           \/ p \in Ads /\ uplink'[p] = uplink[p]
           \/ \E i \in sq_occupied : uplink'[p].fdu = sq_fdu[i] /\ uplink'[p].seq = sq_seq[i]
    BY QuietAds
  <2>2. \A i \in sq_occupied' : i \in sq_occupied /\ sq_fdu'[i] = sq_fdu[i] /\ sq_seq'[i] = sq_seq[i]
    BY DEF QuietStep
  <2> QED BY <2>1, <2>2, ZenonT(60) DEF Sent
<1>5. \A f, s : Positioned(f, s)' <=> Positioned(f, s)
  BY <1>1 DEF Positioned
<1>6. \A p \in DOMAIN uplink' : uplink'[p].type # "SetVr"
  <2>1. x \in Seq(Frames) /\ uplink \in Seq(Frames) /\ uplink' = uplink \o x
        /\ \A k \in DOMAIN x : x[k].type # "SetVr"
    BY DEF QuietStep, SetsVrAlone, Cop1Type, LinksType
  <2>2. \A p \in 1 .. Len(uplink') :
           \/ p \in DOMAIN uplink /\ uplink'[p] = uplink[p]
           \/ p - Len(uplink) \in DOMAIN x /\ uplink'[p] = x[p - Len(uplink)]
    BY <2>1, LinkGrown
  <2>3. DOMAIN uplink' = 1 .. Len(uplink')
    BY <2>1, LinkGrown
  <2> QED BY <1>2, <2>1, <2>2, <2>3, Zenon
<1>7. \A k \in DOMAIN downlink' : downlink'[k].nr <= vr
  BY <1>2, <1>3 DEF DownlinkStep
<1>8. acked' \subseteq Range(accepted)
  <2> SUFFICES ASSUME NEW f \in acked', f \notin acked PROVE f \in Range(accepted)
    BY <1>2
  <2>1. PICK i \in Acknowledged(Head(downlink).nr) : f = sq_fdu[i] /\ downlink # <<>>
    BY DEF QuietStep, Reports
  <2> DEFINE n == Head(downlink).nr
             s == sq_seq[i]
  <2>2. n \in FrameSeqs /\ n <= vr
    <3>1. 1 \in DOMAIN downlink /\ Head(downlink) = downlink[1] /\ Head(downlink) \in Clcws
      BY <1>3, <2>1
    <3> QED BY <1>2, <3>1 DEF Clcws
  <2>3. i \in sq_occupied /\ USub(n, s) \in 1 .. (FrameSpace \div 2 - 1)
    BY <2>1 DEF Acknowledged
  <2>4. Sent(f, s)
    BY <2>1, <2>3 DEF Sent
  <2>5. s \in FrameSeqs /\ Positioned(f, s)
    BY <1>2, <2>4, SentType
  <2> HIDE DEF n, s
  <2>6. s \in Nat /\ n \in Nat /\ s < MaxFdus
    BY <1>2, <1>3, <2>2, <2>5, FrameSpaceAssumption DEF Positioned, FrameSeqs
  <2>7. s < n
    BY <2>2, <2>3, <2>5, <2>6, AckedLiesBefore
  <2>8. s + 1 \in DOMAIN accepted /\ accepted[s + 1] = f
    BY <1>2, <1>3, <2>2, <2>5, <2>6, <2>7 DEF Positioned
  <2> QED BY <2>8, Zenon DEF Range
<1>9. vs' <= fdus'
  BY <1>1, <1>2, <1>3
<1>10. /\ \A f, s : Sent(f, s)' => Positioned(f, s)'
       /\ \A f, g, s : Sent(f, s)' /\ Sent(g, s)' => f = g
  BY <1>2, <1>4, <1>5, Zenon
<1> QED BY <1>1, <1>2, <1>6, <1>7, <1>8, <1>9, <1>10 DEF PositionInv

\* A new FDU gets the next position, which no other has.
LEMMA PositionTake ==
    ASSUME HalfCircle, Cop1Type, PositionInv, NEW i, NEW x, TakeStep(i, x), DownlinkStep,
           vr' = vr, accepted' = accepted
    PROVE  PositionInv'
<1> SUFFICES ASSUME ~resynced' PROVE PositionInv'
  BY DEF PositionInv
<1>1. ~resynced /\ fdus' = fdus + 1 /\ fdus < MaxFdus /\ vs' = UInc(vs) /\ acked' = acked
  BY DEF TakeStep
<1>2. /\ vs <= fdus /\ vr = Len(accepted) /\ vr <= vs
      /\ \A p \in DOMAIN uplink : uplink[p].type # "SetVr"
      /\ \A k \in DOMAIN downlink : downlink[k].nr <= vr
      /\ \A f, s : Sent(f, s) => Positioned(f, s)
      /\ \A f, g, s : Sent(f, s) /\ Sent(g, s) => f = g
      /\ acked \subseteq Range(accepted)
  BY <1>1 DEF PositionInv
<1>3. /\ fdus \in Nat /\ vs \in FrameSeqs /\ vs \in Nat /\ vr \in Nat /\ MaxFdus \in Nat
      /\ FrameSpace \in Nat /\ vr \in FrameSeqs
  BY FrameSpaceAssumption, FopAssumption
     DEF Cop1Type, CountersType, FarmTypeOK, FarmCountersType, FrameSeqs
<1>4. vs' = vs + 1
  BY <1>1, <1>2, <1>3, IncWraps DEF HalfCircle
<1>5. x \in Seq(Frames) /\ uplink \in Seq(Frames) /\ uplink' = uplink \o x
      /\ \A k \in DOMAIN x : x[k].type = "Ad" /\ x[k].fdu = fdus + 1 /\ x[k].seq = vs
  BY DEF TakeStep, Cop1Type, LinksType
<1>6. DOMAIN uplink' = 1 .. Len(uplink')
      /\ \A p \in 1 .. Len(uplink') :
           \/ p \in DOMAIN uplink /\ uplink'[p] = uplink[p]
           \/ p - Len(uplink) \in DOMAIN x /\ uplink'[p] = x[p - Len(uplink)]
  BY <1>5, LinkGrown
<1>7. \A p \in DOMAIN uplink' : uplink'[p].type # "SetVr"
  BY <1>2, <1>5, <1>6
<1>8. \A f, s : Sent(f, s)' => Sent(f, s) \/ (f = fdus + 1 /\ s = vs)
  <2>1. \A p \in Ads' :
           \/ p \in Ads /\ uplink'[p] = uplink[p]
           \/ uplink'[p].fdu = fdus + 1 /\ uplink'[p].seq = vs
    BY <1>5, <1>6 DEF Ads
  <2>2. \A j \in sq_occupied' :
           \/ j \in sq_occupied /\ sq_fdu'[j] = sq_fdu[j] /\ sq_seq'[j] = sq_seq[j]
           \/ sq_fdu'[j] = fdus + 1 /\ sq_seq'[j] = vs
    BY DEF TakeStep, Cop1Type, QueueType
  <2> QED BY <2>1, <2>2, Zenon DEF Sent
<1>9. \A f, s : Sent(f, s) => s \in Nat /\ s < vs /\ s # vs
  BY <1>2, <1>3, SentType DEF Positioned, FrameSeqs
<1>10. \A f, s : Sent(f, s)' => Positioned(f, s)'
  <2> SUFFICES ASSUME NEW f, NEW s, Sent(f, s)' PROVE Positioned(f, s)'
    OBVIOUS
  <2>1. CASE Sent(f, s)
    BY <1>2, <1>3, <1>4, <1>9, <2>1 DEF Positioned
  <2>2. CASE f = fdus + 1 /\ s = vs
    BY <1>2, <1>3, <1>4, <2>2 DEF Positioned
  <2> QED BY <1>8, <2>1, <2>2
<1>11. \A f, g, s : Sent(f, s)' /\ Sent(g, s)' => f = g
  <2> SUFFICES ASSUME NEW f, NEW g, NEW s, Sent(f, s)', Sent(g, s)' PROVE f = g
    OBVIOUS
  <2>1. (Sent(f, s) \/ (f = fdus + 1 /\ s = vs)) /\ (Sent(g, s) \/ (g = fdus + 1 /\ s = vs))
    BY <1>8, Zenon
  <2>2. (Sent(f, s) \/ Sent(g, s)) => s # vs
    BY <1>9, Zenon
  <2>3. Sent(f, s) /\ Sent(g, s) => f = g
    BY <1>2, Zenon
  <2> QED BY <2>1, <2>2, <2>3
<1>12. \A k \in DOMAIN downlink' : downlink'[k].nr <= vr
  BY <1>2, <1>3 DEF DownlinkStep
<1>13. vs' <= fdus' /\ vr <= vs'
  BY <1>1, <1>2, <1>3, <1>4
<1> QED BY <1>1, <1>2, <1>7, <1>10, <1>11, <1>12, <1>13 DEF PositionInv

\* FARM-1 accepts the frame whose position is next.
LEMMA PositionRead ==
    ASSUME HalfCircle, Cop1Type, PositionInv, ReadStep
    PROVE  PositionInv'
<1> SUFFICES ASSUME ~resynced' PROVE PositionInv'
  BY DEF PositionInv
<1>1. /\ ~resynced /\ fdus' = fdus /\ vs' = vs /\ acked' = acked /\ downlink' = downlink
      /\ sq_occupied' = sq_occupied /\ sq_seq' = sq_seq /\ sq_fdu' = sq_fdu
  BY DEF ReadStep, fop_queue, fop_hist
<1>2. /\ vs <= fdus /\ vr = Len(accepted) /\ vr <= vs
      /\ \A p \in DOMAIN uplink : uplink[p].type # "SetVr"
      /\ \A k \in DOMAIN downlink : downlink[k].nr <= vr
      /\ \A f, s : Sent(f, s) => Positioned(f, s)
      /\ \A f, g, s : Sent(f, s) /\ Sent(g, s) => f = g
      /\ acked \subseteq Range(accepted)
  BY <1>1 DEF PositionInv
<1>3. /\ fdus \in Nat /\ vs \in FrameSeqs /\ vs \in Nat /\ vr \in Nat /\ fdus <= MaxFdus
      /\ MaxFdus \in Nat /\ FrameSpace \in Nat /\ vr \in FrameSeqs /\ accepted \in Seq(Nat)
      /\ downlink \in Seq(Clcws)
  BY FrameSpaceAssumption, FopAssumption
     DEF Cop1Type, CountersType, LinksType, FarmTypeOK, FarmCountersType, FrameSeqs
<1>4. uplink \in Seq(Frames) /\ uplink # <<>> /\ uplink' = Tail(uplink)
  BY DEF Cop1Type, LinksType, ReadStep
<1>5. /\ uplink[1] = Head(uplink) /\ 1 \in DOMAIN uplink
      /\ DOMAIN uplink' = 1 .. Len(uplink')
      /\ \A p \in 1 .. Len(uplink') : p + 1 \in DOMAIN uplink /\ uplink'[p] = uplink[p + 1]
      /\ \A p \in Ads' : p + 1 \in Ads /\ uplink'[p] = uplink[p + 1]
  BY <1>4, LinkShift
<1>6. \A p \in DOMAIN uplink' : uplink'[p].type # "SetVr"
  BY <1>2, <1>5, Zenon
<1>7. \A f, s : Sent(f, s)' => Sent(f, s)
  BY <1>1, <1>5, Zenon DEF Sent
<1>8. Head(uplink).type # "SetVr"
  BY <1>2, <1>5
<1>9. CASE vr' = vr /\ accepted' = accepted
  <2>1. \A f, s : Positioned(f, s)' <=> Positioned(f, s)
    BY <1>1, <1>9 DEF Positioned
  <2>2. /\ \A f, s : Sent(f, s)' => Positioned(f, s)'
        /\ \A f, g, s : Sent(f, s)' /\ Sent(g, s)' => f = g
    BY <1>2, <1>7, <2>1, Zenon
  <2> QED BY <1>1, <1>2, <1>6, <1>9, <2>2 DEF PositionInv
<1>10. CASE /\ Head(uplink).type = "Ad" /\ Head(uplink).seq = vr /\ vr' = UInc(vr)
            /\ accepted' = Append(accepted, Head(uplink).fdu)
  <2> DEFINE x == Head(uplink).fdu
  <2>1. Sent(x, vr)
    BY <1>5, <1>10 DEF Sent, Ads
  <2>2. x \in Nat /\ vr < vs
    BY <1>2, <2>1, SentType DEF Positioned
  <2>3. accepted' = Append(accepted, x)
    BY <1>10
  <2> HIDE DEF x
  <2>4. vr' = vr + 1
    BY <1>2, <1>3, <1>10, <2>2, IncWraps DEF HalfCircle
  <2>5. /\ Len(accepted') = Len(accepted) + 1 /\ accepted'[Len(accepted) + 1] = x
        /\ DOMAIN accepted = 1 .. Len(accepted) /\ DOMAIN accepted' = 1 .. Len(accepted')
        /\ Len(accepted) \in Nat
    BY <1>3, <2>2, <2>3
  <2>6. \A k \in 1 .. Len(accepted) : accepted'[k] = accepted[k]
    BY <1>3, <2>2, <2>3
  <2>7. ASSUME NEW f, NEW s, Sent(f, s)' PROVE Positioned(f, s)'
    <3>1. Sent(f, s) /\ Positioned(f, s) /\ s \in FrameSeqs /\ s \in Nat
      BY <1>2, <1>7, <2>7, SentType, FrameSpaceAssumption DEF FrameSeqs
    <3>2. CASE s = vr
      <4>1. f = x
        BY <1>2, <2>1, <3>1, <3>2
      <4> QED BY <1>1, <1>2, <2>2, <2>5, <3>2, <4>1 DEF Positioned
    <3>3. CASE s < vr
      <4>1. s + 1 \in 1 .. Len(accepted) /\ s < Len(accepted)
        BY <1>2, <1>3, <3>1, <3>3
      <4> QED BY <1>1, <2>6, <3>1, <4>1 DEF Positioned
    <3>4. CASE s > vr
      BY <1>1, <1>2, <1>3, <2>5, <3>1, <3>4 DEF Positioned
    <3> QED BY <1>3, <3>1, <3>2, <3>3, <3>4
  <2>8. acked \subseteq Range(accepted')
    <3>1. \A k \in DOMAIN accepted : k \in DOMAIN accepted' /\ accepted'[k] = accepted[k]
      BY <2>5, <2>6
    <3> QED BY <1>2, <3>1, Zenon DEF Range
  <2>9. \A k \in DOMAIN downlink : downlink[k].nr <= vr'
    <3>1. \A k \in DOMAIN downlink : downlink[k].nr \in Nat
      <4>1. \A c \in Clcws : c.nr \in FrameSeqs
        BY DEF Clcws
      <4>2. \A k \in DOMAIN downlink : downlink[k] \in Clcws
        BY <1>3
      <4>3. FrameSeqs \subseteq Nat
        BY FrameSpaceAssumption DEF FrameSeqs
      <4> QED BY <4>1, <4>2, <4>3, Zenon
    <3> QED BY <1>2, <1>3, <2>4, <3>1
  <2>10. vr' = Len(accepted') /\ vr' <= vs
    BY <1>2, <1>3, <2>2, <2>4, <2>5
  <2>11. \A f, g, s : Sent(f, s)' /\ Sent(g, s)' => f = g
    BY <1>2, <1>7, Zenon
  <2> QED BY <1>1, <1>2, <1>6, <2>7, <2>8, <2>9, <2>10, <2>11 DEF PositionInv
<1> QED BY <1>8, <1>9, <1>10 DEF ReadStep

\* Every step keeps the positions.
LEMMA PositionStep ==
    ASSUME HalfCircle, Cop1Type, PositionInv, [Cop1Next]_cop1_vars
    PROVE  PositionInv'
<1>1. CASE (\E s : QuietStep(s)) /\ FopOnly
  <2>1. PICK s : QuietStep(s)
    BY <1>1
  <2>2. vr' = vr /\ accepted' = accepted /\ DownlinkStep
    BY <1>1 DEF FopOnly, farm_vars
  <2> QED BY <2>1, <2>2, PositionQuiet
<1>2. CASE (\E i, s : TakeStep(i, s)) /\ FopOnly
  <2>1. PICK i, s : TakeStep(i, s)
    BY <1>2
  <2>2. vr' = vr /\ accepted' = accepted /\ DownlinkStep
    BY <1>2 DEF FopOnly, farm_vars
  <2> QED BY <2>1, <2>2, PositionTake
<1>3. CASE ReadStep
  BY <1>3, PositionRead
<1>4. CASE StillStep
  <2>1. /\ UNCHANGED <<uplink, sq_occupied, sq_seq, sq_fdu, vs, fdus, vr, accepted, acked, resynced>>
        /\ Ads' = Ads /\ DownlinkStep
    BY <1>4 DEF StillStep, fop_vars, fop_queue, fop_hist, Ads
  <2>2. \A f, s : (Sent(f, s)' <=> Sent(f, s)) /\ (Positioned(f, s)' <=> Positioned(f, s))
    BY <2>1 DEF Sent, Positioned
  <2>3. vr \in Int
    BY FrameSpaceAssumption DEF Cop1Type, FarmTypeOK, FarmCountersType, FrameSeqs
  <2>4. ~resynced => \A k \in DOMAIN downlink' : downlink'[k].nr <= vr
    BY <2>1, <2>3 DEF PositionInv, DownlinkStep
  <2> QED BY <2>1, <2>2, <2>4 DEF PositionInv
<1> QED BY <1>1, <1>2, <1>3, <1>4, Cop1Cases

\* What FOP-1 reports as acknowledged was delivered, for every window, buffer, limit and
\* loss: while FOP-1 and FARM-1 both count from the start, a number is a position in the
\* order of delivery, and no CLCW runs ahead of it.
THEOREM AcknowledgedWasDelivered ==
    ASSUME HalfCircle
    PROVE  Cop1Spec => []AckedIsAccepted
<1>1. Cop1Init => PositionInv
  <2> SUFFICES ASSUME Cop1Init PROVE PositionInv
    OBVIOUS
  <2>1. /\ uplink = <<>> /\ downlink = <<>> /\ sq_occupied = {} /\ acked = {} /\ accepted = <<>>
        /\ Ads = {} /\ vs = 0 /\ vr = 0 /\ fdus = 0
    BY DEF Cop1Init, FopInit, FarmInit, Ads
  <2>2. \A f, s : ~Sent(f, s)
    BY <2>1 DEF Sent
  <2> QED BY <2>1, <2>2 DEF PositionInv
<1>2. Cop1Type /\ PositionInv /\ [Cop1Next]_cop1_vars => PositionInv'
  BY PositionStep
<1>3. PositionInv => AckedIsAccepted
  BY DEF PositionInv, AckedIsAccepted
<1> QED BY <1>1, <1>2, <1>3, Cop1TypeCorrect, PTL DEF Cop1Spec
=============================================================================
