-------------------------------- MODULE Fop ---------------------------------
(***************************************************************************)
(* FOP-1, the sending side of COP-1: FopMachine and the driver that        *)
(* executes the actions of each event before it passes the next one        *)
(* (the driver is external: Cop1Writer only hands the actions out).        *)
(*                                                                         *)
(* An FDU is a number, counted from 1 in the order in which FOP-1 took     *)
(* them.  Its bytes are never overwritten while its slot is occupied:      *)
(* write_pos only grows until a purge, which frees every slot.             *)
(***************************************************************************)
EXTENDS Cop1Seq, Sequences, SequencesExt, FiniteSets, FiniteSetsExt

CONSTANTS
    FopWin,              \* WIN: slots of the sent queue
    FopBuf,              \* BUF: bytes of the FDU buffer
    FduLen,              \* bytes of an FDU
    FopMaxActions,       \* capacity of FopActions (MAX_ACTIONS)
    TransmissionLimit,   \* FopConfig::transmission_limit
    MaxUplink,           \* bound: frames on the uplink, what exceeds it is lost
    MaxFdus,             \* bound: FDUs handed to FOP-1
    MaxDirectives        \* bound: management directives given

ASSUME FopAssumption ==
    /\ FopWin \in Nat \ {0}
    /\ FopBuf \in Nat /\ FduLen \in Nat
    /\ FopMaxActions \in Nat /\ TransmissionLimit \in Nat
    /\ MaxUplink \in Nat /\ MaxFdus \in Nat /\ MaxDirectives \in Nat

VARIABLES
    fop_state,
    vs,              \* V(S)
    nnr,             \* NN(R)
    sq_occupied,     \* the occupied slots of sent_queue
    sq_seq,          \* slot -> sequence number
    sq_count,        \* slot -> transmission_count, capped at the limit
    sq_fdu,          \* slot -> FDU
    fop_write_pos,
    bc_count,        \* bc_transmission_count
    set_vr_value,
    t1,              \* the driver's timer T1 runs
    uplink,          \* frames on the link, in order
    fdus,            \* history: number of FDUs taken for AD or BD transfer
    acked,           \* history: FDUs reported as Acknowledged
    directives,      \* history: number of directives given
    resynced         \* history: Set V(R) was sent, or V(S) was set from a CLCW

fop_queue == <<sq_occupied, sq_seq, sq_count, sq_fdu, fop_write_pos>>
fop_init  == <<bc_count, set_vr_value>>
fop_hist  == <<fdus, directives, resynced>>
fop_vars  == <<fop_state, vs, nnr, fop_queue, fop_init, t1, uplink, acked, fop_hist>>

SqSlots == 1 .. FopWin

FopInit ==
    /\ fop_state = "Initial" /\ vs = 0 /\ nnr = 0
    /\ sq_occupied = {} /\ fop_write_pos = 0
    /\ sq_seq = [i \in SqSlots |-> 0] /\ sq_count = [i \in SqSlots |-> 0]
    /\ sq_fdu = [i \in SqSlots |-> 0]
    /\ bc_count = 0 /\ set_vr_value = 0
    /\ t1 = FALSE /\ uplink = <<>>
    /\ fdus = 0 /\ acked = {} /\ directives = 0 /\ resynced = FALSE
-----------------------------------------------------------------------------
(* The actions of an event, and what the driver does with them.  Every     *)
(* handler pushes acknowledgments first, then frames, then what it does    *)
(* to T1 (Accept, Alert and Terminated only inform the user).              *)

Frame(type)    == [type |-> type, fdu |-> 0, seq |-> 0]
AdFrameOf(i)   == [type |-> "Ad", fdu |-> sq_fdu[i], seq |-> sq_seq[i]]
SetVrFrame(v)  == [type |-> "SetVr", fdu |-> 0, seq |-> v]

\* FopActions::push: what does not fit is dropped
Kept(s, room) == SubSeq(s, 1, Min({Len(s), room}))

\* the driver reports the FDUs of acks, transmits the frames and runs T1, which was
\* armed or not before the event
Emit(acks, frames, timer, armed) ==
    /\ acked' = acked \cup Range(Kept(acks, FopMaxActions))
    /\ uplink' = uplink \o Kept(Kept(frames, FopMaxActions - Len(acks)), MaxUplink - Len(uplink))
    /\ t1' = (IF timer = "none" \/ Len(acks) + Len(frames) >= FopMaxActions
              THEN armed ELSE timer = "StartTimer")

Transferring == fop_state \in {"Active", "Retransmitting"}
Count(n) == Min({n, TransmissionLimit})

\* purge_sent_queue
Purge == sq_occupied' = {} /\ fop_write_pos' = 0 /\ UNCHANGED <<sq_seq, sq_count, sq_fdu>>

\* alert
Alert(armed) ==
    /\ Emit(<<>>, <<>>, "StopTimer", armed)
    /\ Purge
    /\ fop_state' = "Initial"

\* mutant of Acknowledged: N(R) itself counts as acknowledged
AcknowledgedNr(nr) == {i \in sq_occupied : USub(nr, sq_seq[i]) \in 0 .. (FrameSpace \div 2 - 1)}

\* remove_acknowledged: the slots whose number lies before nr
Acknowledged(nr) == {i \in sq_occupied : USub(nr, sq_seq[i]) \in 1 .. (FrameSpace \div 2 - 1)}

\* the order in which it reports them: that of the slots
AckOrders(S) == {o \in [1 .. Cardinality(S) -> S] : \A j, k \in DOMAIN o : j < k => o[j] < o[k]}
Reported(order) == [k \in DOMAIN order |-> sq_fdu[order[k]]]

\* initiate_retransmission of the slots S: in the order of their distance from from_nr
SendOrders(S, from_nr) ==
    {o \in [1 .. Cardinality(S) -> S] :
        \A j, k \in DOMAIN o :
            j < k => o[j] # o[k] /\ USub(sq_seq[o[j]], from_nr) <= USub(sq_seq[o[k]], from_nr)}
Resent(order) == [k \in DOMAIN order |-> AdFrameOf(order[k])]

\* mutant of ResentTimer: T1 is not started again
ResentTimerOff(S) == "none"

ResentTimer(S) == IF S = {} THEN "none" ELSE "StartTimer"
Recount(S) == [i \in SqSlots |-> IF i \in S THEN Count(sq_count[i] + 1) ELSE sq_count[i]]
-----------------------------------------------------------------------------
(* Requests for transfer.                                                  *)

BufferHasRoom == fop_write_pos + FduLen <= FopBuf
CanTakeAd == Transferring /\ sq_occupied # SqSlots /\ BufferHasRoom

\* handle_send_ad; a request that is rejected changes nothing
SendAd ==
    /\ fdus < MaxFdus /\ CanTakeAd
    /\ LET i == Min(SqSlots \ sq_occupied)
           active == fop_state = "Active"
       IN  /\ sq_occupied' = sq_occupied \cup {i}
           /\ sq_seq' = [sq_seq EXCEPT ![i] = vs]
           /\ sq_fdu' = [sq_fdu EXCEPT ![i] = fdus + 1]
           /\ sq_count' = [sq_count EXCEPT ![i] = IF active THEN Count(1) ELSE 0]
           /\ Emit(<<>>,
                   IF active THEN <<[type |-> "Ad", fdu |-> fdus + 1, seq |-> vs]>> ELSE <<>>,
                   IF active THEN "StartTimer" ELSE "none", t1)
    /\ fop_write_pos' = fop_write_pos + FduLen
    /\ vs' = UInc(vs)
    /\ fdus' = fdus + 1
    /\ UNCHANGED <<fop_state, nnr, fop_init, directives, resynced>>

\* handle_send_bd, in any state
SendBd ==
    /\ fdus < MaxFdus /\ BufferHasRoom
    /\ fop_write_pos' = fop_write_pos + FduLen
    /\ Emit(<<>>, <<[type |-> "Bd", fdu |-> fdus + 1, seq |-> 0]>>, "none", t1)
    /\ fdus' = fdus + 1
    /\ UNCHANGED <<fop_state, vs, nnr, sq_occupied, sq_seq, sq_count, sq_fdu, fop_init,
                   directives, resynced>>
-----------------------------------------------------------------------------
(* handle_clcw                                                             *)

ClcwLockout(c) ==
    /\ Transferring /\ c.lockout
    /\ Alert(t1)
    /\ UNCHANGED <<vs, nnr, fop_init, fop_hist>>

ClcwTransferring(c) ==
    /\ Transferring /\ ~c.lockout
    /\ LET gone == Acknowledged(c.nr)
           left == sq_occupied \ gone
           goback == fop_state = "Active" /\ c.retransmit
       IN  /\ sq_occupied' = left
           /\ sq_count' = (IF goback THEN Recount(left) ELSE sq_count)
           /\ \E acks \in AckOrders(gone), again \in SendOrders(left, c.nr) :
                 Emit(Reported(acks),
                      IF goback THEN Resent(again) ELSE <<>>,
                      CASE goback -> ResentTimer(left)
                        [] ~c.retransmit /\ left = {} -> "StopTimer"
                        [] OTHER -> "none",
                      t1)
    /\ fop_state' = (IF c.retransmit THEN "Retransmitting" ELSE "Active")
    /\ nnr' = c.nr
    /\ UNCHANGED <<vs, sq_seq, sq_fdu, fop_write_pos, fop_init, fop_hist>>

\* the initialisation with Set V(R) or with Unlock is over
ClcwInitDone(c) ==
    /\ \/ fop_state = "InitWithSetVr" /\ c.nr = set_vr_value
       \/ fop_state = "InitWithUnlock"
    /\ ~c.lockout /\ ~c.retransmit
    /\ vs' = c.nr /\ nnr' = c.nr
    /\ Purge
    /\ fop_state' = "Active"
    /\ Emit(<<>>, <<>>, "StopTimer", t1)
    /\ resynced' = TRUE
    /\ UNCHANGED <<fop_init, fdus, directives>>

ClcwIgnored(c) ==
    /\ \/ fop_state \in {"InitNoBC", "Initial"}
       \/ fop_state = "InitWithSetVr" /\ (c.nr # set_vr_value \/ c.lockout \/ c.retransmit)
       \/ fop_state = "InitWithUnlock" /\ (c.lockout \/ c.retransmit)
    /\ UNCHANGED fop_vars

ClcwReceived(c) ==
    ClcwLockout(c) \/ ClcwTransferring(c) \/ ClcwInitDone(c) \/ ClcwIgnored(c)
-----------------------------------------------------------------------------
(* handle_timer_expired: T1 ran out, and runs no longer                    *)

TimerAlert ==
    /\ t1
    /\ \/ Transferring /\ \E i \in sq_occupied : sq_count[i] >= TransmissionLimit
       \/ fop_state \in {"InitWithSetVr", "InitWithUnlock"} /\ bc_count + 1 >= TransmissionLimit
    /\ Alert(FALSE)
    /\ bc_count' = (IF Transferring THEN bc_count ELSE bc_count + 1)
    /\ UNCHANGED <<vs, nnr, set_vr_value, fop_hist>>

TimerGoBack ==
    /\ t1 /\ Transferring
    /\ \A i \in sq_occupied : sq_count[i] < TransmissionLimit
    /\ \E again \in SendOrders(sq_occupied, nnr) :
          Emit(<<>>, Resent(again), ResentTimer(sq_occupied), FALSE)
    /\ sq_count' = Recount(sq_occupied)
    /\ fop_state' = "Retransmitting"
    /\ UNCHANGED <<vs, nnr, sq_occupied, sq_seq, sq_fdu, fop_write_pos, fop_init, fop_hist>>

TimerResendsBc ==
    /\ t1 /\ fop_state \in {"InitWithSetVr", "InitWithUnlock"}
    /\ bc_count + 1 < TransmissionLimit
    /\ bc_count' = bc_count + 1
    /\ Emit(<<>>, <<IF fop_state = "InitWithSetVr" THEN SetVrFrame(set_vr_value)
                                                   ELSE Frame("Unlock")>>, "StartTimer", FALSE)
    /\ UNCHANGED <<fop_state, vs, nnr, fop_queue, set_vr_value, fop_hist>>

TimerIgnored ==
    /\ t1 /\ fop_state \in {"InitNoBC", "Initial"}
    /\ t1' = FALSE
    /\ UNCHANGED <<fop_state, vs, nnr, fop_queue, fop_init, uplink, acked, fop_hist>>

TimerExpired == TimerAlert \/ TimerGoBack \/ TimerResendsBc \/ TimerIgnored
-----------------------------------------------------------------------------
(* Management directives.  All but Terminate are rejected, without effect, *)
(* in every state but Initial.                                             *)

Directive ==
    /\ directives < MaxDirectives
    /\ directives' = directives + 1
    /\ UNCHANGED <<vs, nnr, fdus>>

InitAdNoClcw ==
    /\ Directive /\ fop_state = "Initial"
    /\ Purge
    /\ fop_state' = "Active"
    /\ Emit(<<>>, <<>>, "none", t1)
    /\ UNCHANGED <<fop_init, resynced>>

InitAdWithClcw ==
    /\ Directive /\ fop_state = "Initial"
    /\ Purge
    /\ fop_state' = "InitNoBC"
    /\ Emit(<<>>, <<>>, "StartTimer", t1)
    /\ UNCHANGED <<fop_init, resynced>>

InitAdSetVr(v) ==
    /\ Directive /\ fop_state = "Initial"
    /\ set_vr_value' = v /\ bc_count' = 1
    /\ Purge
    /\ fop_state' = "InitWithSetVr"
    /\ Emit(<<>>, <<SetVrFrame(v)>>, "StartTimer", t1)
    /\ resynced' = TRUE

InitAdUnlock ==
    /\ Directive /\ fop_state = "Initial"
    /\ bc_count' = 1
    /\ Purge
    /\ fop_state' = "InitWithUnlock"
    /\ Emit(<<>>, <<Frame("Unlock")>>, "StartTimer", t1)
    /\ UNCHANGED <<set_vr_value, resynced>>

Terminate ==
    /\ Directive
    /\ Purge
    /\ fop_state' = "Initial"
    /\ Emit(<<>>, <<>>, "StopTimer", t1)
    /\ UNCHANGED <<fop_init, resynced>>

Resume ==
    /\ Directive /\ fop_state = "Initial"
    /\ fop_state' = "Active"
    /\ Emit(<<>>, <<>>, "none", t1)
    /\ UNCHANGED <<fop_queue, fop_init, resynced>>
=============================================================================
