-------------------------------- MODULE Farm --------------------------------
(***************************************************************************)
(* FARM-1, the receiving side of COP-1: FarmMachine.  Each action is one   *)
(* FarmEvent; the machine is synchronous, so an event is one step.         *)
(***************************************************************************)
EXTENDS Cop1Seq

CONSTANT FarmWindow      \* FarmConfig::window_width

ASSUME FarmAssumption == FarmWindow \in Nat

VARIABLES farm_state, vr, lockout_flag, wait_flag, retransmit_flag, farm_b_counter

farm_vars == <<farm_state, vr, lockout_flag, wait_flag, retransmit_flag, farm_b_counter>>

PW == FarmWindow \div 2
NW == FarmWindow \div 2

FarmInit ==
    /\ farm_state = "Open" /\ vr = 0
    /\ lockout_flag = FALSE /\ wait_flag = FALSE /\ retransmit_flag = FALSE
    /\ farm_b_counter = 0

\* classify_seq
Zone(seq) ==
    CASE seq = vr -> "Expected"
      [] seq # vr /\ USub(seq, vr) < PW -> "Positive"
      [] seq # vr /\ USub(seq, vr) >= PW /\ USub(vr, seq) <= NW -> "Negative"
      [] OTHER -> "Lockout"

\* the CLCW the machine generates; the fields no one reads are left out
ClcwNow == [lockout |-> lockout_flag, retransmit |-> retransmit_flag, nr |-> vr]
-----------------------------------------------------------------------------
(* A Type-AD frame (E1-E5).                                                *)

\* the frame is taken, and its FDU delivered
AdAccepted(seq, room) == farm_state = "Open" /\ Zone(seq) = "Expected" /\ room

\* mutant of AdAccept: V(R) stays
AdAcceptKeepsVr ==
    /\ retransmit_flag' = FALSE
    /\ UNCHANGED <<farm_state, vr, lockout_flag, wait_flag, farm_b_counter>>

AdAccept ==
    /\ vr' = UInc(vr)
    /\ retransmit_flag' = FALSE
    /\ UNCHANGED <<farm_state, lockout_flag, wait_flag, farm_b_counter>>

AdNoRoom ==
    /\ retransmit_flag' = TRUE /\ wait_flag' = TRUE
    /\ farm_state' = "Wait"
    /\ UNCHANGED <<vr, lockout_flag, farm_b_counter>>

AdGap ==
    /\ retransmit_flag' = TRUE
    /\ UNCHANGED <<farm_state, vr, lockout_flag, wait_flag, farm_b_counter>>

AdLockout ==
    /\ lockout_flag' = TRUE
    /\ farm_state' = "Lockout"
    /\ UNCHANGED <<vr, wait_flag, retransmit_flag, farm_b_counter>>

\* handle_ad_frame
AdFrame(seq, room) ==
    \/ AdAccepted(seq, room) /\ AdAccept
    \/ farm_state = "Open" /\ Zone(seq) = "Expected" /\ ~room /\ AdNoRoom
    \/ farm_state = "Open" /\ Zone(seq) = "Positive" /\ AdGap
    \/ farm_state \in {"Open", "Wait"} /\ Zone(seq) = "Lockout" /\ AdLockout
    \/ /\ \/ farm_state = "Open" /\ Zone(seq) = "Negative"
          \/ farm_state = "Wait" /\ Zone(seq) # "Lockout"
          \/ farm_state = "Lockout"
       /\ UNCHANGED farm_vars
-----------------------------------------------------------------------------
\* mutant of CountB: the counter outgrows its two bits
CountBPlain == farm_b_counter' = farm_b_counter + 1

CountB == farm_b_counter' = (farm_b_counter + 1) % 4

\* a Type-BD frame (E6): its FDU is delivered in every state
BdFrame ==
    /\ CountB
    /\ UNCHANGED <<farm_state, vr, lockout_flag, wait_flag, retransmit_flag>>

\* Type-BC Unlock (E7): Open again; in Open itself there is no flag but one to clear
BcUnlock ==
    /\ CountB
    /\ retransmit_flag' = FALSE
    /\ farm_state' = "Open"
    /\ wait_flag' = (IF farm_state = "Open" THEN wait_flag ELSE FALSE)
    /\ lockout_flag' = (IF farm_state = "Lockout" THEN FALSE ELSE lockout_flag)
    /\ UNCHANGED vr

\* Type-BC Set V(R) (E8): not executed in Lockout
BcSetVr(new_vr) ==
    /\ CountB
    /\ retransmit_flag' = FALSE
    /\ vr' = (IF farm_state = "Lockout" THEN vr ELSE new_vr)
    /\ farm_state' = (IF farm_state = "Wait" THEN "Open" ELSE farm_state)
    /\ wait_flag' = (IF farm_state = "Wait" THEN FALSE ELSE wait_flag)
    /\ UNCHANGED lockout_flag

\* mutant of BufferRelease: the wait flag stays up
BufferReleaseKeepsFlag ==
    /\ farm_state' = (IF farm_state = "Wait" THEN "Open" ELSE farm_state)
    /\ UNCHANGED <<vr, lockout_flag, wait_flag, retransmit_flag, farm_b_counter>>

\* handle_buffer_release (E10)
BufferRelease ==
    /\ farm_state' = (IF farm_state = "Wait" THEN "Open" ELSE farm_state)
    /\ wait_flag' = (IF farm_state = "Open" THEN wait_flag ELSE FALSE)
    /\ UNCHANGED <<vr, lockout_flag, retransmit_flag, farm_b_counter>>

\* a FARM-1 alone: any frame may arrive in any state
FarmNext ==
    \/ \E seq \in FrameSeqs, room \in BOOLEAN : AdFrame(seq, room)
    \/ BdFrame \/ BcUnlock \/ BufferRelease
    \/ \E v \in FrameSeqs : BcSetVr(v)

FarmSpec == FarmInit /\ [][FarmNext]_farm_vars
-----------------------------------------------------------------------------
(* Properties.                                                             *)

FarmFlagsType ==
    /\ farm_state \in {"Open", "Wait", "Lockout"}
    /\ lockout_flag \in BOOLEAN /\ wait_flag \in BOOLEAN /\ retransmit_flag \in BOOLEAN
FarmCountersType == vr \in FrameSeqs /\ farm_b_counter \in 0 .. 3

\* Every variable of FARM-1 has its type: V(R) stays within the sequence space and the
\* FARM-B counter within its two bits.
FarmTypeOK == FarmFlagsType /\ FarmCountersType

\* The flags a CLCW reports never contradict the state that decides what is accepted: the
\* lockout flag is up exactly in Lockout, the wait flag is up throughout Wait (where a
\* retransmission is always asked for) and never in Open, whatever path leads there.
FlagsMatchState ==
    /\ lockout_flag <=> farm_state = "Lockout"
    /\ farm_state = "Wait" => wait_flag /\ retransmit_flag
    /\ farm_state = "Open" => ~wait_flag
=============================================================================
