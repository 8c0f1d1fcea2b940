-------------------------------- MODULE Cop1 --------------------------------
(***************************************************************************)
(* COP-1 over one link: FOP-1 on the ground, FARM-1 on the spacecraft, the *)
(* TC uplink and the return link that carries CLCWs.  Both links keep the  *)
(* order of what they carry and may lose any of it.                        *)
(***************************************************************************)
EXTENDS Fop, Farm

CONSTANTS
    MaxDownlink,     \* bound: CLCWs on the return link
    SetVrValues      \* the values management may give to Set V(R)

ASSUME Cop1Assumption == MaxDownlink \in Nat /\ SetVrValues \subseteq FrameSeqs

VARIABLES
    downlink,        \* CLCWs on the return link, in order
    accepted         \* history: FDUs FARM-1 delivered from AD frames, in order

cop1_vars == <<fop_vars, farm_vars, downlink, accepted>>

Cop1Init == FopInit /\ FarmInit /\ downlink = <<>> /\ accepted = <<>>
-----------------------------------------------------------------------------
FopSteps ==
    /\ \/ SendAd \/ SendBd \/ TimerExpired
       \/ InitAdNoClcw \/ InitAdWithClcw \/ InitAdUnlock \/ Terminate \/ Resume
       \/ \E v \in SetVrValues : InitAdSetVr(v)
    /\ UNCHANGED <<farm_vars, downlink, accepted>>

\* a frame arrives: FARM-1 handles it according to its type
FrameArrives ==
    /\ uplink # <<>>
    /\ uplink' = Tail(uplink)
    /\ LET f == Head(uplink)
       IN  \/ /\ f.type = "Ad"
              /\ \E room \in BOOLEAN :
                    /\ AdFrame(f.seq, room)
                    /\ accepted' = IF AdAccepted(f.seq, room) THEN Append(accepted, f.fdu)
                                                              ELSE accepted
           \/ f.type = "Bd" /\ BdFrame /\ UNCHANGED accepted
           \/ f.type = "Unlock" /\ BcUnlock /\ UNCHANGED accepted
           \/ f.type = "SetVr" /\ BcSetVr(f.seq) /\ UNCHANGED accepted
    /\ UNCHANGED <<fop_state, vs, nnr, fop_queue, fop_init, t1, acked, fop_hist, downlink>>

FrameLost ==
    /\ uplink # <<>>
    /\ uplink' = Tail(uplink)
    /\ UNCHANGED <<fop_state, vs, nnr, fop_queue, fop_init, t1, acked, fop_hist,
                   farm_vars, downlink, accepted>>

FarmReleases ==
    /\ BufferRelease
    /\ UNCHANGED <<fop_vars, downlink, accepted>>

\* FarmEvent::ClcwReport
ClcwReport ==
    /\ Len(downlink) < MaxDownlink
    /\ downlink' = Append(downlink, ClcwNow)
    /\ UNCHANGED <<fop_vars, farm_vars, accepted>>

ClcwArrives ==
    /\ downlink # <<>>
    /\ ClcwReceived(Head(downlink))
    /\ downlink' = Tail(downlink)
    /\ UNCHANGED <<farm_vars, accepted>>

ClcwLost ==
    /\ downlink # <<>>
    /\ downlink' = Tail(downlink)
    /\ UNCHANGED <<fop_vars, farm_vars, accepted>>

Cop1Next ==
    \/ FopSteps \/ FrameArrives \/ FrameLost
    \/ FarmReleases \/ ClcwReport \/ ClcwArrives \/ ClcwLost

Cop1Spec == Cop1Init /\ [][Cop1Next]_cop1_vars
-----------------------------------------------------------------------------
(* Properties.                                                             *)

\* FARM-1 delivers AD FDUs in the order in which FOP-1 took them, and none twice, through
\* retransmissions, alerts, and every sequence of directives.
AcceptedInOrder ==
    \A i, j \in DOMAIN accepted : i < j => accepted[i] < accepted[j]

\* FOP-1 reports an FDU as acknowledged only when FARM-1 delivered it, as long as no Set
\* V(R) was sent and V(S) was not set from a CLCW: an old report never acknowledges a frame
\* still on its way.
AckedIsAccepted ==
    ~resynced => acked \subseteq Range(accepted)

\* T1 runs while a transmitted frame waits for its acknowledgment, so that a lost frame is
\* noticed: no event of FOP-1 stops the timer, or has its StartTimer pushed out of the
\* action list, with such a frame left.
T1CoversSentFrames ==
    \A i \in sq_occupied : sq_count[i] > 0 => t1
=============================================================================
