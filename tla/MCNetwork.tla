------------------------------ MODULE MCNetwork ------------------------------
(***************************************************************************)
(* The network layer and frame security, each part in an instance of its   *)
(* own: a behaviour chooses one part and runs it, the others stay in their *)
(* initial states.                                                         *)
(***************************************************************************)
EXTENDS IslRouting, Gossip, Sdls, SdlsKeys, RingBuffer, Bridge

VARIABLE part

\* two ways that differ, two of the same length, a station with a satellite to fall back
\* to and one without
MCGrid     == [orbs |-> 3, sats |-> 4]
MCGateways == {[orb |-> 0, sat |-> 0], [orb |-> 1, sat |-> 1]}
MCFar      == [kind |-> "Satellite", point |-> [orb |-> 2, sat |-> 3]]
MCFlows    == {<<[orb |-> 0, sat |-> 0], MCFar>>, <<[orb |-> 2, sat |-> 1], MCFar>>,
               <<[orb |-> 1, sat |-> 2], [kind |-> "Ground", station |-> 1]>>,
               <<[orb |-> 0, sat |-> 0], [kind |-> "Ground", station |-> 5]>>}

MCMesh        == [orbs |-> 2, sats |-> 2]
MCOriginators == {[orb |-> 0, sat |-> 0], [orb |-> 1, sat |-> 1]}

NetworkInit ==
    /\ part \in {"routing", "gossip", "sdls", "keys", "ring", "bridge"}
    /\ part # "routing" => algorithm = "Manhattan" /\ gateway = [s \in Stations |-> NoGateway]
    /\ part # "sdls" => service = "Authentication" /\ sn_mod = 1 /\ window = 0
    /\ part # "ring" => front_drop = FALSE
    /\ RoutingInit /\ GossipInit /\ SdlsInit /\ KeysInit /\ RingInit /\ BridgeInit
    /\ gateway[5] = NoGateway /\ gateway[1] # [orb |-> 1, sat |-> 1]

RunRouting ==
    /\ part = "routing" /\ RoutingNext
    /\ UNCHANGED <<part, gossip_vars, sdls_vars, keys_vars, ring_vars, bridge_vars>>

RunGossip ==
    /\ part = "gossip" /\ GossipNext
    /\ UNCHANGED <<part, routing_vars, sdls_vars, keys_vars, ring_vars, bridge_vars>>

RunSdls ==
    /\ part = "sdls" /\ SdlsNext
    /\ UNCHANGED <<part, routing_vars, gossip_vars, keys_vars, ring_vars, bridge_vars>>

RunKeys ==
    /\ part = "keys" /\ KeysNext
    /\ UNCHANGED <<part, routing_vars, gossip_vars, sdls_vars, ring_vars, bridge_vars>>

RunRing ==
    /\ part = "ring" /\ RingNext
    /\ UNCHANGED <<part, routing_vars, gossip_vars, sdls_vars, keys_vars, bridge_vars>>

RunBridge ==
    /\ part = "bridge" /\ BridgeNext
    /\ UNCHANGED <<part, routing_vars, gossip_vars, sdls_vars, keys_vars, ring_vars>>

NetworkNext == RunRouting \/ RunGossip \/ RunSdls \/ RunKeys \/ RunRing \/ RunBridge

network_vars ==
    <<part, routing_vars, gossip_vars, sdls_vars, keys_vars, ring_vars, bridge_vars>>

NetworkSpec ==
    /\ NetworkInit /\ [][NetworkNext]_network_vars
    /\ \A i \in Packets : WF_routing_vars(part = "routing" /\ RouterStep(i))
    /\ WF_routing_vars(part = "routing" /\ ClocksAgree)
    /\ WF_gossip_vars(part = "gossip" /\ GossipStep)
    /\ WF_bridge_vars(part = "bridge" /\ BridgeStep)
    /\ WF_bridge_vars(part = "bridge" /\ AppStep)
=============================================================================
