----------------------------- MODULE IslRouting -----------------------------
(***************************************************************************)
(* The routers of all satellites and the links between them.  A packet is  *)
(* handed to the router application over the software bus or comes up on a *)
(* ground link; every router reads it, asks the routing algorithm for one  *)
(* hop, and queues it on a port.                                           *)
(*                                                                         *)
(* A packet is in one place: in the output ring of a port ("out"), on the  *)
(* link of a port ("wire"), on an uplink ("up"), delivered ("done": on the *)
(* software bus of a satellite or at a ground station) or "lost".  The     *)
(* order within a ring is left open; nothing below depends on it.  Links   *)
(* are datagram sockets: they lose.                                        *)
(*                                                                         *)
(* Each router asks for the gateway of a station at the time of its own    *)
(* clock.  When it changes, some clocks still show the old one and some    *)
(* the new one, until all have passed the change: a router may use any     *)
(* that is shown.                                                          *)
(***************************************************************************)
EXTENDS Torus, FiniteSets

CONSTANTS
    Grid,           \* the torus of the shell
    Packets,        \* packets of a behaviour
    Flows,          \* pairs: the satellite a packet enters at, the address it is sent to
    Gateways,       \* satellites that come in sight of a station
    Stations,       \* ids of ground stations
    NoGateway,      \* no satellite is in sight of the station
    OutCap,         \* packets that fit the output ring of a port
    MaxMoves        \* bound: changes of the gateways

Address == [kind : {"Satellite"}, point : Points(Grid)] \cup [kind : {"Ground"}, station : Stations]

ASSUME RoutingAssumption ==
    /\ Grid \in TorusType
    /\ Flows \subseteq Points(Grid) \X Address /\ Flows # {} /\ Gateways \subseteq Points(Grid)
    /\ Stations \subseteq 0..(IndexMod - 1)
    /\ NoGateway \notin Points(Grid)
    /\ OutCap \in Nat /\ MaxMoves \in Nat

VARIABLES
    algorithm,      \* the RoutingAlgorithm of the constellation
    place,          \* where each packet is
    pkt,            \* its RawAddress; history: where it started, hops so far
    gateway,        \* GatewayTable::gateway by station, after its last change
    shown,          \* by station, the gateways that the clock of some router shows
    moves           \* changes of gateway so far

routing_vars == <<algorithm, place, pkt, gateway, shown, moves>>
-----------------------------------------------------------------------------
\* the two bytes of a RawAddress, and back
RawAddress(a) ==
    IF a.kind = "Ground" THEN <<0, a.station>> ELSE <<a.point.orb + 1, a.point.sat>>

ParseAddress(raw) ==
    IF raw[1] = 0 THEN [kind |-> "Ground", station |-> raw[2]]
    ELSE [kind |-> "Satellite", point |-> [orb |-> raw[1] - 1, sat |-> raw[2]]]

\* Manhattan crosses planes first; DistanceMinimizing compares the lengths of
\* cross-plane links, which depend on the time, so either way is possible
RouteToPoint(p, q) ==
    IF p.orb = q.orb THEN {DirectionToSat(Grid, p, q)}
    ELSE IF algorithm = "Manhattan" \/ p.sat = q.sat THEN {DirectionToOrb(Grid, p, q)}
    ELSE {DirectionToOrb(Grid, p, q), DirectionToSat(Grid, p, q)}

\* the point a station stands for without a gateway need not be on the torus
GatewayOf(g, station) == IF g = NoGateway THEN [orb |-> 0, sat |-> station] ELSE g

TargetPoints(a) ==
    IF a.kind = "Satellite" THEN {a.point} ELSE {GatewayOf(g, a.station) : g \in shown[a.station]}

\* mutant of Route: packets for the ground head for the fallback satellite
RouteFallback(p, a) ==
    UNION {IF p = q THEN {IF a.kind = "Satellite" THEN "Local" ELSE "Downlink"}
           ELSE IF a.kind = "Ground" THEN RouteToPoint(p, [orb |-> 0, sat |-> a.station])
           ELSE RouteToPoint(p, q) : q \in TargetPoints(a)}

Route(p, a) ==
    UNION {IF p = q THEN {IF a.kind = "Satellite" THEN "Local" ELSE "Downlink"}
           ELSE RouteToPoint(p, q) : q \in TargetPoints(a)}
-----------------------------------------------------------------------------
In(k, p, d) == [k |-> k, p |-> p, d |-> d]

Nowhere == [k |-> "none"]
Lost    == [k |-> "lost"]
Done(p) == [k |-> "done", p |-> p]

RoutingInit ==
    /\ algorithm \in {"Manhattan", "DistanceMinimizing"}
    /\ place = [i \in Packets |-> Nowhere]
    /\ pkt = [i \in Packets |-> [raw |-> <<0, 0>>, src |-> CHOOSE p \in Points(Grid) : TRUE, hops |-> 0]]
    /\ gateway \in [Stations -> Gateways \cup {NoGateway}]
    /\ shown = [s \in Stations |-> {gateway[s]}]
    /\ moves = 0

\* the history of hops to a satellite is kept up to a bound no shortest way reaches
MaxHops == Grid.orbs + Grid.sats

\* what is written to a link is on the wire, or lost with its error ignored
Transmit(i, p, h, packet) ==
    \/ /\ place' = [place EXCEPT ![i] = IF h = "Downlink" THEN Done(p) ELSE In("wire", p, h)]
       /\ pkt' = [pkt EXCEPT ![i] =
                     [packet EXCEPT !.hops = IF packet.raw[1] = 0 \/ @ = MaxHops THEN @ ELSE @ + 1]]
    \/ /\ place' = [place EXCEPT ![i] = Lost]
       /\ pkt' = [pkt EXCEPT ![i] = packet]

\* Event::Sb of the router application: to itself, or Router::write
SendFromBus(i, p, a) ==
    /\ place[i] = Nowhere
    /\ LET new == [raw |-> RawAddress(a), src |-> p, hops |-> 0]
       IN  IF a = [kind |-> "Satellite", point |-> p]
           THEN /\ place' = [place EXCEPT ![i] = Done(p)]
                /\ pkt' = [pkt EXCEPT ![i] = new]
           ELSE \E h \in Route(p, ParseAddress(new.raw)) : Transmit(i, p, h, new)
    /\ UNCHANGED <<algorithm, gateway, shown, moves>>

\* a ground station sends a packet up to the satellite it sees
Uplink(i, p, a) ==
    /\ place[i] = Nowhere
    /\ place' = [place EXCEPT ![i] = In("up", p, "Downlink")]
    /\ pkt' = [pkt EXCEPT ![i] = [raw |-> RawAddress(a), src |-> p, hops |-> 0]]
    /\ UNCHANGED <<algorithm, gateway, shown, moves>>

\* the satellite that reads packet i next: the ports of isl_link face each other
Reader(i) == IF place[i].k = "up" THEN place[i].p ELSE Neighbor(Grid, place[i].p, place[i].d)

HasRoom(p, h) == Cardinality({j \in Packets : place[j] = In("out", p, h)}) < OutCap

\* Event::IslRead and Event::GroundRead: route_packet
ReadPort(i) ==
    /\ place[i].k \in {"wire", "up"}
    /\ \E h \in Route(Reader(i), ParseAddress(pkt[i].raw)) :
          place' = [place EXCEPT ![i] =
              IF h = "Local" THEN Done(Reader(i))
              ELSE IF HasRoom(Reader(i), h) THEN In("out", Reader(i), h)
              ELSE Lost]
    /\ UNCHANGED <<algorithm, pkt, gateway, shown, moves>>

\* Event::IslWrite and Event::GroundWrite
WritePort(i) ==
    /\ place[i].k = "out"
    /\ Transmit(i, place[i].p, place[i].d, pkt[i])
    /\ UNCHANGED <<algorithm, gateway, shown, moves>>

Drop(i) ==
    /\ place[i].k \in {"wire", "up"}
    /\ place' = [place EXCEPT ![i] = Lost]
    /\ UNCHANGED <<algorithm, pkt, gateway, shown, moves>>

\* the satellites move on: another one, or none, is in sight of the station
MoveGateway ==
    /\ moves < MaxMoves
    /\ moves' = moves + 1
    /\ \E s \in Stations : \E g \in Gateways \cup {NoGateway} :
          /\ gateway' = [gateway EXCEPT ![s] = g]
          /\ shown' = [shown EXCEPT ![s] = @ \cup {g}]
    /\ UNCHANGED <<algorithm, place, pkt>>

\* the slowest clock has passed the last change
ClocksAgree ==
    /\ \E s \in Stations : shown[s] # {gateway[s]}
    /\ shown' = [s \in Stations |-> {gateway[s]}]
    /\ UNCHANGED <<algorithm, place, pkt, gateway, moves>>

\* the router that has packet i reads it or writes it
RouterStep(i) == ReadPort(i) \/ WritePort(i)

RoutingNext ==
    \/ \E i \in Packets, f \in Flows : SendFromBus(i, f[1], f[2]) \/ Uplink(i, f[1], f[2])
    \/ \E i \in Packets : RouterStep(i) \/ Drop(i)
    \/ MoveGateway \/ ClocksAgree

\* every router is a process of its own, and clocks run
RoutingSpec ==
    /\ RoutingInit /\ [][RoutingNext]_routing_vars
    /\ \A i \in Packets : WF_routing_vars(RouterStep(i))
    /\ WF_routing_vars(ClocksAgree)
-----------------------------------------------------------------------------
\* A packet for a satellite takes a shortest way, whatever the algorithm and
\* its choices on the way: hops made and hops left add up to the distance it
\* started with, and only its target delivers it (route, direction_to_sat).
ShortestWay ==
    \A i \in Packets :
        LET a == ParseAddress(pkt[i].raw)
            left(p) == Hops(Grid, p, a.point)
        IN  place[i] # Nowhere /\ place[i] # Lost /\ a.kind = "Satellite" =>
                /\ place[i].k \in {"out", "wire"} => place[i].d \in Direction
                /\ place[i].k = "done" => place[i].p = a.point
                /\ Hops(Grid, pkt[i].src, a.point) =
                     pkt[i].hops + left(IF place[i].k = "wire" THEN Reader(i) ELSE place[i].p)

\* the point of the station is not on the torus, and no gateway stands in for it
OffTorus(a) == a.kind = "Ground" /\ a.station >= Grid.sats /\ NoGateway \in shown[a.station]

\* No packet travels for ever: each one is delivered or lost, also when the gateway of
\* its station changes while it is on the way and routers disagree on it for a time.
\* The exception is a station without a gateway whose id is no index of a satellite:
\* its packets turn round and round (README).
PacketsSettle ==
    \A i \in Packets :
        place[i].k \in {"out", "wire", "up"} ~>
            place[i].k \in {"done", "lost"} \/ OffTorus(ParseAddress(pkt[i].raw))
=============================================================================
