--------------------------- MODULE NetworkProofs ----------------------------
(***************************************************************************)
(* The network layer.                                                      *)
(*                                                                         *)
(* Routing: on a torus of any size, with any number of packets, rings and  *)
(* moving gateways, and whatever the clocks of the routers show, packets   *)
(* for satellites take shortest ways.                                      *)
(*                                                                         *)
(* Bridge: it loses, duplicates and reorders nothing, for every length of  *)
(* the queues of the channel and every number of packets.                  *)
(*                                                                         *)
(* Gossip: no satellite delivers a message twice, on a torus of any size   *)
(* and any length of history, as long as the circle of epochs tells the    *)
(* messages apart, and a flood that ends with nothing lost reaches         *)
(* everyone.                                                               *)
(*                                                                         *)
(* Output ring: it is the queue of its packets, for every size of the      *)
(* buffer and all packets, as long as it is not tight.  The packets lie    *)
(* one behind the other, from the tail to the head.                        *)
(***************************************************************************)
EXTENDS IslRouting, Bridge, Gossip, RingBuffer, ModularArithmetic, SequenceTheorems,
        FiniteSetTheorems, TLAPS

(* Routing.                                                                *)

\* The places of a packet.
Places ==
    [k : {"wire"}, p : Points(Grid), d : Direction]
    \cup [k : {"out"}, p : Points(Grid), d : Direction \cup {"Downlink"}]
    \cup [k : {"up"}, p : Points(Grid), d : {"Downlink"}]
    \cup [k : {"done"}, p : Points(Grid)]
    \cup {Nowhere, Lost}

\* What the model keeps of a packet.
PacketType == [raw : Nat \X Nat, src : Points(Grid), hops : Nat]

\* The satellite that has a packet, or reads it next.
At(pl) == IF pl.k = "wire" THEN Neighbor(Grid, pl.p, pl.d) ELSE pl.p

\* A packet on its way keeps the address it was sent to.
Addressed(pl, pk) == pl.k # "none" => \E a \in Address : pk.raw = RawAddress(a)

\* The link from p in direction d is on a shortest way to q.
LeadsOn(p, d, q) ==
    d \in Direction /\ Hops(Grid, Neighbor(Grid, p, d), q) = Hops(Grid, p, q) - 1

\* A packet for a satellite is on a shortest way; one that waits in a ring waits
\* for a hop that leads on.
OnItsWay(pl, pk) ==
    LET a == ParseAddress(pk.raw)
    IN  pl.k \notin {"none", "lost"} /\ a.kind = "Satellite" =>
            /\ pl.k = "out" => LeadsOn(pl.p, pl.d, a.point)
            /\ pl.k = "done" => pl.p = a.point
            /\ Hops(Grid, pk.src, a.point) = pk.hops + Hops(Grid, At(pl), a.point)

\* The inductive invariant: ShortestWay and the hop each ring entry waits for.
RoutingInv ==
    /\ place \in [Packets -> Places]
    /\ pkt \in [Packets -> PacketType]
    /\ \A i \in Packets : Addressed(place[i], pkt[i]) /\ OnItsWay(place[i], pkt[i])
-----------------------------------------------------------------------------
\* On the torus the arithmetic of bytes does not wrap.
LEMMA DistanceIs ==
    ASSUME NEW n \in 1 .. 255, NEW i \in 0 .. (n - 1), NEW j \in 0 .. (n - 1)
    PROVE  /\ Distance(i, j, n) = IF j >= i THEN j - i ELSE n - i + j
           /\ RingDistance(i, j, n) \in Nat /\ RingDistance(i, j, n) < n
<1>1. ASSUME NEW x \in 0 .. (n - 1), NEW y \in 0 .. (n - 1)
      PROVE  /\ Distance(x, y, n) = IF y >= x THEN y - x ELSE n - x + y
             /\ Distance(x, y, n) \in 0 .. (n - 1)
  BY DEF Distance, IndexMod
<1>2. Distance(i, j, n) \in 0 .. (n - 1) /\ Distance(j, i, n) \in 0 .. (n - 1)
  BY <1>1
<1>3. RingDistance(i, j, n) \in Nat /\ RingDistance(i, j, n) < n
  BY <1>2 DEF RingDistance, Shorter
<1> QED
  BY <1>1, <1>3

\* A neighbour is on the torus, and the distance on it is below MaxHops.
LEMMA NeighborOnTorus ==
    ASSUME NEW p \in Points(Grid), NEW q \in Points(Grid), NEW d \in Direction
    PROVE  Neighbor(Grid, p, d) \in Points(Grid) /\ Hops(Grid, p, q) \in 0 .. (MaxHops - 2)
<1>1. Grid \in [orbs : 1 .. 255, sats : 1 .. 255]
  BY RoutingAssumption DEF TorusType, IndexMod
<1>2. Neighbor(Grid, p, d) \in Points(Grid)
  BY <1>1 DEF Points, Direction, Neighbor, NextIndex, PrevIndex
<1>3. Hops(Grid, p, q) \in 0 .. (MaxHops - 2)
  <2>1. /\ Grid.orbs \in 1 .. 255 /\ p.orb \in 0 .. (Grid.orbs - 1) /\ q.orb \in 0 .. (Grid.orbs - 1)
        /\ Grid.sats \in 1 .. 255 /\ p.sat \in 0 .. (Grid.sats - 1) /\ q.sat \in 0 .. (Grid.sats - 1)
    BY <1>1 DEF Points
  <2>2. /\ RingDistance(p.orb, q.orb, Grid.orbs) \in Nat
        /\ RingDistance(p.orb, q.orb, Grid.orbs) < Grid.orbs
        /\ RingDistance(p.sat, q.sat, Grid.sats) \in Nat
        /\ RingDistance(p.sat, q.sat, Grid.sats) < Grid.sats
    BY <2>1, DistanceIs
  <2>3. Grid.orbs \in Nat /\ Grid.sats \in Nat
    BY <2>1
  <2>4. ASSUME NEW a \in Nat, NEW b \in Nat, NEW c \in Nat, NEW e \in Nat, a < c, b < e
        PROVE  a + b \in 0 .. (c + e - 2)
    BY <2>4
  <2> QED BY <2>2, <2>3, <2>4 DEF Hops, MaxHops
<1> QED
  BY <1>2, <1>3

\* On a ring, one step in the direction of the shorter way makes it shorter by one,
\* also where both ways are equally long.
LEMMA RingStep ==
    ASSUME NEW n \in 1 .. 255, NEW i \in 0 .. (n - 1), NEW j \in 0 .. (n - 1), i # j
    PROVE  /\ Distance(j, i, n) < Distance(i, j, n) =>
                  RingDistance(PrevIndex(i, n), j, n) = RingDistance(i, j, n) - 1
           /\ ~(Distance(j, i, n) < Distance(i, j, n)) =>
                  RingDistance(NextIndex(i, n), j, n) = RingDistance(i, j, n) - 1
<1>1. PrevIndex(i, n) \in 0 .. (n - 1) /\ NextIndex(i, n) \in 0 .. (n - 1)
  BY DEF PrevIndex, NextIndex
<1>2. ASSUME NEW x \in 0 .. (n - 1)
      PROVE  RingDistance(x, j, n) = Shorter(IF j >= x THEN j - x ELSE n - x + j,
                                             IF x >= j THEN x - j ELSE n - j + x)
  BY DistanceIs DEF RingDistance
<1>3. /\ Distance(i, j, n) = IF j >= i THEN j - i ELSE n - i + j
      /\ Distance(j, i, n) = IF i >= j THEN i - j ELSE n - j + i
  BY DistanceIs
<1>4. Distance(j, i, n) < Distance(i, j, n) =>
          RingDistance(PrevIndex(i, n), j, n) = RingDistance(i, j, n) - 1
  BY <1>1, <1>2, <1>3 DEF PrevIndex, Shorter
<1>5. ~(Distance(j, i, n) < Distance(i, j, n)) =>
          RingDistance(NextIndex(i, n), j, n) = RingDistance(i, j, n) - 1
  BY <1>1, <1>2, <1>3 DEF NextIndex, Shorter
<1> QED
  BY <1>4, <1>5

\* Every hop either algorithm chooses is a link and shortens the way by one.
LEMMA HopShortens ==
    ASSUME NEW p \in Points(Grid), NEW q \in Points(Grid), p # q, NEW h \in RouteToPoint(p, q)
    PROVE  LeadsOn(p, h, q)
<1> USE DEF LeadsOn
<1> DEFINE n == Grid.sats
           m == Grid.orbs
<1>1. /\ n \in 1 .. 255 /\ m \in 1 .. 255
      /\ p.sat \in 0 .. (n - 1) /\ q.sat \in 0 .. (n - 1)
      /\ p.orb \in 0 .. (m - 1) /\ q.orb \in 0 .. (m - 1)
      /\ p = [orb |-> p.orb, sat |-> p.sat] /\ q = [orb |-> q.orb, sat |-> q.sat]
  BY RoutingAssumption DEF TorusType, IndexMod, Points
<1>2. p.orb # q.orb \/ p.sat # q.sat
  BY <1>1
<1>3. /\ RingDistance(p.sat, q.sat, n) \in Int
      /\ RingDistance(p.orb, q.orb, m) \in Int
  <2> HIDE DEF n, m
  <2>1. RingDistance(p.sat, q.sat, n) \in Nat /\ RingDistance(p.orb, q.orb, m) \in Nat
    BY <1>1, DistanceIs
  <2> QED BY <2>1
<1>4. CASE h = DirectionToSat(Grid, p, q) /\ p.sat # q.sat
  <2>1. CASE Distance(q.sat, p.sat, n) < Distance(p.sat, q.sat, n)
    <3>1. h = "North"
      BY <1>4, <2>1 DEF DirectionToSat
    <3>2. Neighbor(Grid, p, h) = [orb |-> p.orb, sat |-> PrevIndex(p.sat, n)]
      BY <1>1, <3>1 DEF Neighbor
    <3>3. RingDistance(PrevIndex(p.sat, n), q.sat, n) = RingDistance(p.sat, q.sat, n) - 1
      BY <1>1, <1>4, <2>1, RingStep
    <3> QED
      BY <1>3, <3>1, <3>2, <3>3 DEF Hops, Direction
  <2>2. CASE ~(Distance(q.sat, p.sat, n) < Distance(p.sat, q.sat, n))
    <3>1. h = "South"
      BY <1>4, <2>2 DEF DirectionToSat
    <3>2. Neighbor(Grid, p, h) = [orb |-> p.orb, sat |-> NextIndex(p.sat, n)]
      BY <1>1, <3>1 DEF Neighbor
    <3>3. RingDistance(NextIndex(p.sat, n), q.sat, n) = RingDistance(p.sat, q.sat, n) - 1
      BY <1>1, <1>4, <2>2, RingStep
    <3> QED
      BY <1>3, <3>1, <3>2, <3>3 DEF Hops, Direction
  <2> QED
    BY <2>1, <2>2
<1>5. CASE h = DirectionToOrb(Grid, p, q) /\ p.orb # q.orb
  <2>1. CASE Distance(q.orb, p.orb, m) < Distance(p.orb, q.orb, m)
    <3>1. h = "West"
      BY <1>5, <2>1 DEF DirectionToOrb
    <3>2. Neighbor(Grid, p, h) = [orb |-> PrevIndex(p.orb, m), sat |-> p.sat]
      BY <1>1, <3>1 DEF Neighbor
    <3>3. RingDistance(PrevIndex(p.orb, m), q.orb, m) = RingDistance(p.orb, q.orb, m) - 1
      BY <1>1, <1>5, <2>1, RingStep
    <3> QED
      BY <1>3, <3>1, <3>2, <3>3 DEF Hops, Direction
  <2>2. CASE ~(Distance(q.orb, p.orb, m) < Distance(p.orb, q.orb, m))
    <3>1. h = "East"
      BY <1>5, <2>2 DEF DirectionToOrb
    <3>2. Neighbor(Grid, p, h) = [orb |-> NextIndex(p.orb, m), sat |-> p.sat]
      BY <1>1, <3>1 DEF Neighbor
    <3>3. RingDistance(NextIndex(p.orb, m), q.orb, m) = RingDistance(p.orb, q.orb, m) - 1
      BY <1>1, <1>5, <2>2, RingStep
    <3> QED
      BY <1>3, <3>1, <3>2, <3>3 DEF Hops, Direction
  <2> QED
    BY <2>1, <2>2
<1> QED
  BY <1>2, <1>4, <1>5 DEF RouteToPoint

\* The two bytes of an address stand for it: a satellite of plane 0 is not taken for
\* a ground station.
LEMMA AddressRoundTrip ==
    ASSUME NEW a \in Address
    PROVE  ParseAddress(RawAddress(a)) = a /\ RawAddress(a) \in Nat \X Nat
<1>1. CASE a.kind = "Ground"
  <2>1. a \in [kind : {"Ground"}, station : Stations]
    BY <1>1 DEF Address
  <2>2. a = [kind |-> "Ground", station |-> a.station]
    BY <2>1
  <2>3. a.station \in Nat
    <3>1. Stations \subseteq Nat
      BY RoutingAssumption DEF IndexMod
    <3>2. a.station \in Stations
      BY <2>1
    <3> QED
      BY <3>1, <3>2
  <2> QED
    BY <1>1, <2>2, <2>3 DEF RawAddress, ParseAddress
<1>2. CASE a.kind = "Satellite"
  <2>1. a \in [kind : {"Satellite"}, point : Points(Grid)]
    BY <1>2 DEF Address
  <2>2. a = [kind |-> "Satellite", point |-> a.point] /\ a.point \in Points(Grid)
    BY <2>1
  <2>3. /\ a.point = [orb |-> a.point.orb, sat |-> a.point.sat]
        /\ a.point.orb \in Nat /\ a.point.sat \in Nat
    BY <2>2, RoutingAssumption DEF Points, TorusType, IndexMod
  <2> QED
    BY <1>2, <2>2, <2>3 DEF RawAddress, ParseAddress
<1> QED
  BY <1>1, <1>2 DEF Address

\* route() answers with a link, or with the end of the way at the target only.
LEMMA RouteFacts ==
    ASSUME NEW p \in Points(Grid), NEW a \in Address, NEW h \in Route(p, a)
    PROVE  /\ h \in Direction \cup {"Local", "Downlink"}
           /\ h = "Local" => a.kind = "Satellite" /\ a.point = p
           /\ h = "Downlink" => a.kind = "Ground"
           /\ a.kind = "Satellite" /\ h # "Local" =>
                  a.point \in Points(Grid) /\ LeadsOn(p, h, a.point)
<1>1. \A q : RouteToPoint(p, q) \subseteq Direction
  BY DEF RouteToPoint, DirectionToSat, DirectionToOrb, Direction
<1>2. a.kind = "Satellite" => a.point \in Points(Grid)
  BY DEF Address
<1>3. a.kind \in {"Satellite", "Ground"}
  BY DEF Address
<1>4. a.kind = "Satellite" /\ h # "Local" => p # a.point /\ h \in RouteToPoint(p, a.point)
  <2> SUFFICES ASSUME a.kind = "Satellite", h # "Local" PROVE p # a.point /\ h \in RouteToPoint(p, a.point)
    OBVIOUS
  <2>1. TargetPoints(a) = {a.point}
    BY DEF TargetPoints
  <2>2. h \in IF p = a.point THEN {"Local"} ELSE RouteToPoint(p, a.point)
    BY <2>1 DEF Route
  <2> QED BY <2>2
<1>5. a.kind = "Satellite" /\ h # "Local" => LeadsOn(p, h, a.point)
  BY <1>2, <1>4, HopShortens
<1>6. PICK q \in TargetPoints(a) :
          h \in IF p = q THEN {IF a.kind = "Satellite" THEN "Local" ELSE "Downlink"}
               ELSE RouteToPoint(p, q)
  BY DEF Route
<1>7. a.kind = "Satellite" => q = a.point
  BY DEF TargetPoints
<1> QED
  BY <1>1, <1>2, <1>3, <1>5, <1>6, <1>7 DEF Direction

\* A packet on the wire has one hop more behind it and one less ahead.
LEMMA HopCounted ==
    ASSUME NEW src \in Points(Grid), NEW p \in Points(Grid), NEW q \in Points(Grid),
           NEW h, LeadsOn(p, h, q), NEW hops \in Nat,
           Hops(Grid, src, q) = hops + Hops(Grid, p, q)
    PROVE  /\ hops # MaxHops
           /\ Hops(Grid, src, q) = hops + 1 + Hops(Grid, Neighbor(Grid, p, h), q)
<1>1. h \in Direction /\ Hops(Grid, Neighbor(Grid, p, h), q) = Hops(Grid, p, q) - 1
  BY DEF LeadsOn
<1>2. Hops(Grid, src, q) \in 0 .. (MaxHops - 2) /\ Hops(Grid, p, q) \in 0 .. (MaxHops - 2)
  BY <1>1, NeighborOnTorus
<1>3. MaxHops \in Nat
  <2>1. Grid.orbs \in 1 .. 255 /\ Grid.sats \in 1 .. 255
    BY RoutingAssumption DEF TorusType, IndexMod
  <2>2. Grid.orbs \in Nat /\ Grid.sats \in Nat
    BY <2>1
  <2> QED BY <2>2 DEF MaxHops
<1> QED
  BY <1>1, <1>2, <1>3
-----------------------------------------------------------------------------
\* The invariant holds when no packet was sent yet.
LEMMA RoutingInvInit == RoutingInit => RoutingInv
<1> SUFFICES ASSUME RoutingInit PROVE RoutingInv
  OBVIOUS
<1>1. (CHOOSE p \in Points(Grid) : TRUE) \in Points(Grid)
  <2>1. [orb |-> 0, sat |-> 0] \in Points(Grid)
    BY RoutingAssumption DEF TorusType, IndexMod, Points
  <2> QED
    BY <2>1
<1> QED
  BY <1>1 DEF RoutingInit, RoutingInv, Places, PacketType, Addressed, OnItsWay, Nowhere

\* A step that moves one packet to a good place keeps the invariant.
LEMMA MoveOne ==
    ASSUME RoutingInv, NEW i \in Packets, NEW pl \in Places, NEW pk \in PacketType,
           Addressed(pl, pk), OnItsWay(pl, pk),
           place' = [place EXCEPT ![i] = pl], pkt' = [pkt EXCEPT ![i] = pk]
    PROVE  RoutingInv'
<1>1. place' \in [Packets -> Places] /\ pkt' \in [Packets -> PacketType]
  BY DEF RoutingInv
<1>2. ASSUME NEW j \in Packets
      PROVE  Addressed(place'[j], pkt'[j]) /\ OnItsWay(place'[j], pkt'[j])
  <2>1. CASE j = i
    <3>1. place'[j] = pl /\ pkt'[j] = pk
      BY <2>1 DEF RoutingInv
    <3> QED
      BY <3>1
  <2>2. CASE j # i
    <3>1. place'[j] = place[j] /\ pkt'[j] = pkt[j]
      BY <2>2 DEF RoutingInv
    <3> QED
      BY <3>1 DEF RoutingInv
  <2> QED
    BY <2>1, <2>2
<1> QED
  BY <1>1, <1>2 DEF RoutingInv

\* Losing a packet is always such a step.
LEMMA LoseOne ==
    ASSUME RoutingInv, NEW i \in Packets, NEW pk \in PacketType,
           \E a \in Address : pk.raw = RawAddress(a),
           place' = [place EXCEPT ![i] = Lost], pkt' = [pkt EXCEPT ![i] = pk]
    PROVE  RoutingInv'
<1>1. Lost \in Places /\ Addressed(Lost, pk) /\ OnItsWay(Lost, pk)
  BY DEF Places, Lost, Addressed, OnItsWay
<1> QED
  BY <1>1, MoveOne

\* Writing a packet to the link of the hop that route() chose.
LEMMA TransmitKeepsInv ==
    ASSUME RoutingInv, NEW i \in Packets, NEW p \in Points(Grid),
           NEW a \in Address, NEW h \in Direction \cup {"Downlink"},
           NEW pk \in PacketType, pk.raw = RawAddress(a),
           h = "Downlink" => a.kind = "Ground",
           a.kind = "Satellite" =>
               /\ LeadsOn(p, h, a.point)
               /\ Hops(Grid, pk.src, a.point) = pk.hops + Hops(Grid, p, a.point),
           Transmit(i, p, h, pk)
    PROVE  RoutingInv'
<1> DEFINE pl == IF h = "Downlink" THEN Done(p) ELSE In("wire", p, h)
           new == [pk EXCEPT !.hops = IF pk.raw[1] = 0 \/ @ = MaxHops THEN @ ELSE @ + 1]
<1>1. a \in Address /\ ParseAddress(RawAddress(a)) = a
  BY RoutingAssumption, AddressRoundTrip
<1>2. CASE place' = [place EXCEPT ![i] = pl] /\ pkt' = [pkt EXCEPT ![i] = new]
  <2>1. pl \in Places
    BY DEF Places, Done, In
  <2>2. /\ new \in PacketType
        /\ new.raw = RawAddress(a) /\ new.src = pk.src
        /\ pk.raw[1] # 0 /\ pk.hops # MaxHops => new.hops = pk.hops + 1
    BY DEF PacketType
  <2>3. Addressed(pl, new)
    BY <2>2 DEF Addressed
  <2>4. ASSUME a.kind = "Satellite"
        PROVE  /\ pl.k = "wire" /\ At(pl) = Neighbor(Grid, p, h)
               /\ Hops(Grid, new.src, a.point) = new.hops + Hops(Grid, At(pl), a.point)
    <3>1. h # "Downlink" /\ a.point \in Points(Grid)
      BY <1>1, <2>4 DEF Address
    <3>2. pk.raw[1] # 0
      BY <2>4, <3>1, RoutingAssumption DEF RawAddress, Points, TorusType, IndexMod
    <3>3. pl.k = "wire" /\ At(pl) = Neighbor(Grid, p, h)
      BY <3>1 DEF In, At
    <3>4. /\ pk.hops # MaxHops
          /\ Hops(Grid, pk.src, a.point) = pk.hops + 1 + Hops(Grid, Neighbor(Grid, p, h), a.point)
      BY <2>4, <3>1, HopCounted DEF PacketType
    <3> QED
      BY <2>2, <3>2, <3>1, <3>3, <3>4 DEF PacketType
  <2>5. OnItsWay(pl, new)
    BY <1>1, <2>2, <2>4 DEF OnItsWay
  <2> QED
    BY <1>2, <2>1, <2>2, <2>3, <2>5, MoveOne
<1>3. CASE place' = [place EXCEPT ![i] = Lost] /\ pkt' = [pkt EXCEPT ![i] = pk]
  BY <1>3, LoseOne
<1> QED
  BY <1>2, <1>3 DEF Transmit

\* Facts about a packet that is somewhere: its address and the types of its record.
LEMMA PacketFacts ==
    ASSUME RoutingInv, NEW i \in Packets, place[i].k # "none"
    PROVE  /\ place[i] \in Places
           /\ pkt[i] \in PacketType
           /\ \E a \in Address : /\ pkt[i].raw = RawAddress(a)
                                 /\ ParseAddress(pkt[i].raw) = a
<1>1. PICK a \in Address : pkt[i].raw = RawAddress(a)
  BY DEF RoutingInv, Addressed
<1>2. a \in Address /\ ParseAddress(pkt[i].raw) = a
  BY <1>1, RoutingAssumption, AddressRoundTrip
<1> QED
  BY <1>1, <1>2 DEF RoutingInv, Addressed

\* The software bus hands a packet to the router.
LEMMA SendKeepsInv ==
    ASSUME RoutingInv, NEW i \in Packets, NEW p \in Points(Grid), NEW a \in Address,
           SendFromBus(i, p, a)
    PROVE  RoutingInv'
<1> DEFINE new == [raw |-> RawAddress(a), src |-> p, hops |-> 0]
<1>1. p \in Points(Grid) /\ a \in Address /\ ParseAddress(new.raw) = a
  BY RoutingAssumption, AddressRoundTrip
<1>2. new \in PacketType /\ new.raw = RawAddress(a)
  BY <1>1, AddressRoundTrip DEF PacketType
<1>3. CASE a = [kind |-> "Satellite", point |-> p]
  <2>1. place' = [place EXCEPT ![i] = Done(p)] /\ pkt' = [pkt EXCEPT ![i] = new]
    BY <1>3 DEF SendFromBus
  <2>2. Done(p) \in Places /\ Addressed(Done(p), new)
    BY <1>1 DEF Places, Done, Addressed
  <2>3. At(Done(p)) = p /\ a.point = p
    BY <1>3 DEF At, Done
  <2>4. Hops(Grid, p, p) \in 0 .. (MaxHops - 2)
    BY <1>1, NeighborOnTorus DEF Direction
  <2>5. OnItsWay(Done(p), new)
    BY <1>1, <2>3, <2>4 DEF OnItsWay, Done
  <2> QED
    BY <1>2, <2>1, <2>2, <2>5, MoveOne
<1>4. CASE a # [kind |-> "Satellite", point |-> p]
  <2>1. PICK h \in Route(p, a) : Transmit(i, p, h, new)
    BY <1>1, <1>4 DEF SendFromBus
  <2>2. a.kind = "Satellite" => a = [kind |-> "Satellite", point |-> a.point]
    BY <1>1 DEF Address
  <2>3. h # "Local"
    BY <1>1, <1>4, <2>2, RouteFacts
  <2>4. /\ h \in Direction \cup {"Downlink"}
        /\ h = "Downlink" => a.kind = "Ground"
        /\ a.kind = "Satellite" => a.point \in Points(Grid) /\ LeadsOn(p, h, a.point)
    BY <1>1, <2>3, RouteFacts
  <2>5. a.kind = "Satellite" =>
            Hops(Grid, new.src, a.point) = new.hops + Hops(Grid, p, a.point)
    <3>1. a.kind = "Satellite" => Hops(Grid, p, a.point) \in 0 .. (MaxHops - 2)
      BY <1>1, <2>4, NeighborOnTorus DEF Direction
    <3> QED
      BY <3>1
  <2> HIDE DEF new
  <2> QED
    BY <1>1, <1>2, <2>1, <2>4, <2>5, TransmitKeepsInv
<1> QED
  BY <1>3, <1>4

\* A ground station sends a packet up.
LEMMA UplinkKeepsInv ==
    ASSUME RoutingInv, NEW i \in Packets, NEW p \in Points(Grid), NEW a \in Address, Uplink(i, p, a)
    PROVE  RoutingInv'
<1> DEFINE new == [raw |-> RawAddress(a), src |-> p, hops |-> 0]
           pl  == In("up", p, "Downlink")
<1>1. p \in Points(Grid) /\ a \in Address /\ ParseAddress(new.raw) = a
  BY RoutingAssumption, AddressRoundTrip
<1>2. pl \in Places /\ new \in PacketType /\ Addressed(pl, new)
  BY <1>1, AddressRoundTrip DEF Places, PacketType, In, Addressed
<1>3. a.kind = "Satellite" => Hops(Grid, p, a.point) \in 0 .. (MaxHops - 2)
  <2>1. a.kind = "Satellite" => a.point \in Points(Grid)
    BY <1>1 DEF Address
  <2> QED
    BY <1>1, <2>1, NeighborOnTorus DEF Direction
<1>4. At(pl) = p
  BY DEF At, In
<1>5. OnItsWay(pl, new)
  BY <1>1, <1>3, <1>4 DEF OnItsWay, In
<1>6. place' = [place EXCEPT ![i] = pl] /\ pkt' = [pkt EXCEPT ![i] = new]
  BY DEF Uplink
<1> QED
  BY <1>2, <1>5, <1>6, MoveOne

\* The next router reads a packet and queues it, delivers it, or drops it.
LEMMA ReadKeepsInv ==
    ASSUME RoutingInv, NEW i \in Packets, ReadPort(i)
    PROVE  RoutingInv'
<1> DEFINE r == Reader(i)
<1>1. place[i].k \in {"wire", "up"} /\ pkt' = pkt
  BY DEF ReadPort
<1>2. PICK a \in Address : pkt[i].raw = RawAddress(a) /\ ParseAddress(pkt[i].raw) = a
  BY <1>1, PacketFacts
<1>3. /\ place[i] \in Places
      /\ pkt[i] \in PacketType
  BY <1>1, PacketFacts
<1>4. /\ place[i].p \in Points(Grid)
      /\ place[i].k = "wire" => place[i].d \in Direction
  BY <1>1, <1>3 DEF Places, Nowhere, Lost
<1>5. r \in Points(Grid) /\ r = At(place[i])
  BY <1>1, <1>4, NeighborOnTorus DEF Reader, At
<1>6. a.kind = "Satellite" => Hops(Grid, pkt[i].src, a.point) = pkt[i].hops + Hops(Grid, r, a.point)
  BY <1>1, <1>2, <1>5 DEF RoutingInv, OnItsWay
<1>7. pkt' = [pkt EXCEPT ![i] = pkt[i]]
  BY <1>1 DEF RoutingInv
<1> HIDE DEF r
<1>8. PICK h \in Route(r, a) :
          place' = [place EXCEPT ![i] = IF h = "Local" THEN Done(r)
                                        ELSE IF HasRoom(r, h) THEN In("out", r, h) ELSE Lost]
  BY <1>2 DEF ReadPort, r
<1>9. /\ h \in Direction \cup {"Local", "Downlink"}
      /\ h = "Local" => a.kind = "Satellite" /\ a.point = r
      /\ a.kind = "Satellite" /\ h # "Local" => LeadsOn(r, h, a.point)
  BY <1>2, <1>5, RouteFacts
<1>10. CASE h = "Local"
  <2>1. Done(r) \in Places /\ Addressed(Done(r), pkt[i])
    BY <1>2, <1>3, <1>5 DEF Places, Done, Addressed
  <2>2. OnItsWay(Done(r), pkt[i])
    BY <1>2, <1>6, <1>9, <1>10 DEF OnItsWay, Done, At
  <2> QED
    BY <1>3, <1>7, <1>8, <1>10, <2>1, <2>2, MoveOne
<1>11. CASE h # "Local" /\ HasRoom(r, h)
  <2>1. In("out", r, h) \in Places /\ Addressed(In("out", r, h), pkt[i])
    BY <1>2, <1>3, <1>5, <1>9, <1>11 DEF Places, In, Addressed
  <2>2. OnItsWay(In("out", r, h), pkt[i])
    BY <1>2, <1>6, <1>9, <1>11 DEF OnItsWay, In, At
  <2> QED
    BY <1>3, <1>7, <1>8, <1>11, <2>1, <2>2, MoveOne
<1>12. CASE h # "Local" /\ ~HasRoom(r, h)
  BY <1>2, <1>3, <1>7, <1>8, <1>12, LoseOne
<1> QED
  BY <1>10, <1>11, <1>12

\* The oldest packet of a ring is written to its link.
LEMMA WriteKeepsInv ==
    ASSUME RoutingInv, NEW i \in Packets, WritePort(i)
    PROVE  RoutingInv'
<1>1. place[i].k = "out" /\ Transmit(i, place[i].p, place[i].d, pkt[i])
  BY DEF WritePort
<1>2. PICK a \in Address : pkt[i].raw = RawAddress(a) /\ ParseAddress(pkt[i].raw) = a
  BY <1>1, PacketFacts
<1>3. place[i].p \in Points(Grid) /\ place[i].d \in Direction \cup {"Downlink"}
  BY <1>1, PacketFacts DEF Places, Nowhere, Lost
<1>4. a.kind = "Satellite" =>
          /\ LeadsOn(place[i].p, place[i].d, a.point)
          /\ Hops(Grid, pkt[i].src, a.point) = pkt[i].hops + Hops(Grid, place[i].p, a.point)
  BY <1>1, <1>2 DEF RoutingInv, OnItsWay, At
<1>5. place[i].d = "Downlink" => a.kind = "Ground"
  <2>1. a.kind \in {"Ground", "Satellite"}
    BY <1>2 DEF Address
  <2> QED
    BY <1>4, <2>1 DEF LeadsOn, Direction
<1>6. pkt[i] \in PacketType
  BY <1>1, PacketFacts
<1> QED
  BY <1>1, <1>2, <1>3, <1>4, <1>5, <1>6, TransmitKeepsInv

\* A link loses a packet.
LEMMA DropKeepsInv ==
    ASSUME RoutingInv, NEW i \in Packets, Drop(i)
    PROVE  RoutingInv'
<1>1. place[i].k # "none" /\ place' = [place EXCEPT ![i] = Lost] /\ pkt' = pkt
  BY DEF Drop
<1>2. pkt' = [pkt EXCEPT ![i] = pkt[i]]
  BY <1>1 DEF RoutingInv
<1> QED
  BY <1>1, <1>2, PacketFacts, LoseOne

\* Every step keeps the invariant.
LEMMA RoutingInvStep == RoutingInv /\ [RoutingNext]_routing_vars => RoutingInv'
<1> SUFFICES ASSUME RoutingInv, [RoutingNext]_routing_vars PROVE RoutingInv'
  OBVIOUS
<1>1. ASSUME NEW i \in Packets, NEW f \in Flows,
             SendFromBus(i, f[1], f[2]) \/ Uplink(i, f[1], f[2])
      PROVE  RoutingInv'
  <2>1. f[1] \in Points(Grid) /\ f[2] \in Address
    BY RoutingAssumption
  <2> QED
    BY <1>1, <2>1, SendKeepsInv, UplinkKeepsInv
<1>2. ASSUME NEW i \in Packets, ReadPort(i) \/ WritePort(i) \/ Drop(i)
      PROVE  RoutingInv'
  BY <1>2, ReadKeepsInv, WriteKeepsInv, DropKeepsInv
<1>3. CASE UNCHANGED <<place, pkt>>
  BY <1>3 DEF RoutingInv
<1> QED
  BY <1>1, <1>2, <1>3 DEF RoutingNext, RouterStep, MoveGateway, ClocksAgree, routing_vars

\* The invariant says what ShortestWay says, and more.
LEMMA RoutingInvImplies == RoutingInv => ShortestWay
<1> SUFFICES ASSUME RoutingInv, NEW i \in Packets, place[i] # Nowhere, place[i] # Lost,
                    ParseAddress(pkt[i].raw).kind = "Satellite"
             PROVE  LET a == ParseAddress(pkt[i].raw)
                    IN  /\ place[i].k \in {"out", "wire"} => place[i].d \in Direction
                        /\ place[i].k = "done" => place[i].p = a.point
                        /\ Hops(Grid, pkt[i].src, a.point) =
                             pkt[i].hops + Hops(Grid, IF place[i].k = "wire" THEN Reader(i)
                                                      ELSE place[i].p, a.point)
  BY DEF ShortestWay
<1>1. place[i] \in Places /\ place[i].k \notin {"none", "lost"}
  BY DEF RoutingInv, Places
<1>2. place[i].k = "wire" => place[i].d \in Direction
  BY <1>1 DEF Places, Nowhere, Lost
<1>3. At(place[i]) = IF place[i].k = "wire" THEN Reader(i) ELSE place[i].p
  BY DEF At, Reader
<1> QED
  BY <1>1, <1>2, <1>3 DEF RoutingInv, OnItsWay, LeadsOn

\* Packets for satellites take shortest ways, on a torus of any size a byte can index,
\* under both algorithms, however the gateways move and whatever the clocks show.
THEOREM RoutingShortestWay == RoutingSpec => []ShortestWay
<1>1. RoutingInit /\ [][RoutingNext]_routing_vars => []RoutingInv
  BY RoutingInvInit, RoutingInvStep, PTL
<1> QED
  BY <1>1, RoutingInvImplies, PTL DEF RoutingSpec
-----------------------------------------------------------------------------
(* The bridge.                                                             *)

\* the queues and the histories hold packet numbers, and the bridge holds a packet only
\* between select and the end of the write it awaits
BridgeTyped ==
    /\ to_router \in Seq(Nat) /\ from_router \in Seq(Nat) /\ holding \in Seq(Nat)
    /\ net_in \in Seq(Nat) /\ net_out \in Seq(Nat) /\ app_read \in Seq(Nat)
    /\ arrivals \in Nat /\ app_written \in Nat
    /\ bridge_pc \in {"select", "spin", "link", "network"}
    /\ bridge_pc \in {"select", "spin"} => holding = <<>>

Inward == app_read \o from_router \o HeldFor("link") \o net_in
Outward == net_out \o HeldFor("network") \o to_router

BridgeInv ==
    /\ BridgeTyped
    /\ ~closed => Inward = Upto(arrivals)
    /\ ~net_errors => Outward = Upto(app_written)
-----------------------------------------------------------------------------
(* Queues.                                                                 *)

\* One more packet enters at the end of what is queued.
LEMMA Enter ==
    ASSUME NEW s \in Seq(Nat), NEW q \in Seq(Nat), NEW n \in Nat, s \o q = Upto(n)
    PROVE  s \o Append(q, n + 1) = Upto(n + 1)
<1>1. /\ Append(q, n + 1) \in Seq(Nat) /\ Len(Append(q, n + 1)) = Len(q) + 1
      /\ \A i \in 1 .. Len(q) : Append(q, n + 1)[i] = q[i]
      /\ Append(q, n + 1)[Len(q) + 1] = n + 1
  BY AppendProperties
<1>2. /\ s \o q \in Seq(Nat) /\ Len(s \o q) = Len(s) + Len(q)
      /\ \A i \in 1 .. Len(s) + Len(q) : (s \o q)[i] = IF i <= Len(s) THEN s[i] ELSE q[i - Len(s)]
  BY ConcatProperties
<1> DEFINE a == Append(q, n + 1)
<1>3. /\ s \o a \in Seq(Nat) /\ Len(s \o a) = Len(s) + Len(a)
      /\ \A i \in 1 .. Len(s) + Len(a) : (s \o a)[i] = IF i <= Len(s) THEN s[i] ELSE a[i - Len(s)]
  BY <1>1, ConcatProperties
<1>4. \A k \in Nat : /\ Upto(k) \in Seq(Nat) /\ Len(Upto(k)) = k
                     /\ \A i \in 1 .. k : Upto(k)[i] = i
  BY DEF Upto
<1>5. Len(s) \in Nat /\ Len(q) \in Nat /\ Len(s) + Len(q) = n
  BY <1>2, <1>4, LenProperties
<1>6. \A i \in 1 .. n + 1 : (s \o a)[i] = i
  <2> TAKE i \in 1 .. n + 1
  <2>1. CASE i = n + 1
    <3>1. i \in 1 .. Len(s) + Len(a) /\ ~(i <= Len(s)) /\ i - Len(s) = Len(q) + 1
      BY <1>1, <1>5, <2>1
    <3>2. (s \o a)[i] = a[i - Len(s)]
      BY <1>3, <3>1
    <3> QED BY <1>1, <2>1, <3>1, <3>2
  <2>2. CASE i # n + 1
    <3>1. i \in 1 .. n /\ (s \o q)[i] = i
      BY <1>4, <2>2
    <3>2. CASE i <= Len(s)
      BY <1>1, <1>2, <1>3, <1>5, <3>1, <3>2
    <3>3. CASE ~(i <= Len(s))
      <4>1. i - Len(s) \in 1 .. Len(q)
        BY <1>5, <3>1, <3>3
      <4>2. (s \o q)[i] = q[i - Len(s)]
        BY <1>2, <1>5, <3>1, <3>3
      <4>3. (s \o a)[i] = a[i - Len(s)]
        BY <1>1, <1>3, <1>5, <3>1, <3>3
      <4> QED BY <1>1, <3>1, <4>1, <4>2, <4>3
    <3> QED BY <3>2, <3>3
  <2> QED BY <2>1, <2>2
<1>7. Len(s \o a) = n + 1
  <2>1. Len(a) = Len(q) + 1 /\ Len(s \o a) = Len(s) + Len(a)
    BY <1>1, <1>3, Zenon
  <2> HIDE DEF a
  <2>2. Len(s \o a) = Len(s) + (Len(q) + 1)
    BY <2>1
  <2> QED BY <1>5, <2>2
<1> HIDE DEF a
<1>8. s \o a = Upto(n + 1)
  <2>1. Upto(n + 1) \in Seq(Nat) /\ Len(Upto(n + 1)) = n + 1 /\ \A i \in 1 .. n + 1 : Upto(n + 1)[i] = i
    BY <1>4
  <2> QED BY <1>3, <1>6, <1>7, <2>1, SeqEqual
<1> QED BY <1>8 DEF a

\* The packet at the head of a queue moves to the end of what precedes it.
LEMMA Move ==
    ASSUME NEW s \in Seq(Nat), NEW q \in Seq(Nat), q # <<>>
    PROVE  /\ Head(q) \in Nat /\ <<Head(q)>> \in Seq(Nat) /\ Tail(q) \in Seq(Nat)
           /\ Append(s, Head(q)) \in Seq(Nat)
           /\ Append(s, Head(q)) = s \o <<Head(q)>>
           /\ (s \o <<Head(q)>>) \o Tail(q) = s \o q
<1>1. Head(q) \in Nat /\ Tail(q) \in Seq(Nat) /\ Head(q) = q[1] /\ Len(q) \in Nat \ {0}
  BY HeadTailProperties, EmptySeq
<1>2. <<Head(q)>> \in Seq(Nat)
  BY <1>1
<1>3. Append(s, Head(q)) \in Seq(Nat) /\ Append(s, Head(q)) = s \o <<Head(q)>>
  BY <1>1, AppendProperties, AppendIsConcat
<1>4. <<Head(q)>> \o Tail(q) = q
  <2>1. 1 \in 1 .. Len(q) /\ Len(q) \in 1 .. Len(q)
    BY <1>1
  <2>2. SubSeq(q, 1, Len(q)) = <<q[1]>> \o SubSeq(q, 1 + 1, Len(q))
    BY <2>1, SubSeqRecursiveFirst
  <2>3. SubSeq(q, 1, Len(q)) = q /\ Tail(q) = SubSeq(q, 2, Len(q))
    BY SubSeqFull, TailIsSubSeq
  <2>4. 1 + 1 = 2
    OBVIOUS
  <2> QED BY <1>1, <2>2, <2>3, <2>4
<1>5. (s \o <<Head(q)>>) \o Tail(q) = s \o (<<Head(q)>> \o Tail(q))
  BY <1>1, <1>2, ConcatAssociative
<1> QED BY <1>1, <1>2, <1>3, <1>4, <1>5

\* Concatenation of queues is associative, empty ones vanish.
LEMMA Queues ==
    /\ \A s, t \in Seq(Nat) : s \o t \in Seq(Nat)
    /\ \A s, t, u \in Seq(Nat) : (s \o t) \o u = s \o (t \o u)
    /\ \A s \in Seq(Nat) : s \o <<>> = s /\ <<>> \o s = s
    /\ <<>> \in Seq(Nat)
  BY ConcatProperties, ConcatAssociative, ConcatEmptySeq, EmptySeq, SMTT(40)
-----------------------------------------------------------------------------
(* The steps.                                                              *)

\* A fresh channel and a bridge at its first select.
LEMMA BridgeInvInit == BridgeInit => BridgeInv
<1> SUFFICES ASSUME BridgeInit PROVE BridgeInv
  OBVIOUS
<1>1. BridgeTyped
  BY DEF BridgeInit, BridgeTyped
<1>2. Upto(0) = <<>>
  BY DEF Upto
<1>3. Inward = <<>> /\ Outward = <<>>
  BY Queues DEF BridgeInit, Inward, Outward, HeldFor
<1> QED BY <1>1, <1>2, <1>3 DEF BridgeInv, BridgeInit

\* A packet comes from the network.
LEMMA ArrivalStep == BridgeInv /\ NetworkArrival => BridgeInv'
<1> SUFFICES ASSUME BridgeInv, NetworkArrival PROVE BridgeInv'
  OBVIOUS
<1>1. BridgeTyped'
  BY AppendProperties DEF BridgeInv, BridgeTyped, NetworkArrival, channel_vars
<1> DEFINE s == app_read \o from_router \o HeldFor("link")
<1>2. HeldFor("link") \in Seq(Nat) /\ HeldFor("link")' = HeldFor("link")
      /\ HeldFor("network")' = HeldFor("network")
  BY Queues DEF BridgeInv, BridgeTyped, NetworkArrival, HeldFor
<1>3. s \in Seq(Nat) /\ s' = s
  BY <1>2, Queues DEF BridgeInv, BridgeTyped, NetworkArrival, channel_vars
<1>4. Outward' = Outward /\ closed' = closed /\ net_errors' = net_errors
      /\ app_written' = app_written
  BY <1>2 DEF NetworkArrival, channel_vars, Outward
<1>5. net_in \in Seq(Nat) /\ arrivals \in Nat /\ arrivals' = arrivals + 1
      /\ net_in' = Append(net_in, arrivals + 1)
  BY DEF BridgeInv, BridgeTyped, NetworkArrival
<1>6. Inward = s \o net_in /\ Inward' = s \o net_in'
  BY <1>3 DEF Inward
<1> HIDE DEF s
<1>7. ~closed => Inward' = Upto(arrivals')
  BY <1>3, <1>5, <1>6, Enter DEF BridgeInv
<1> QED BY <1>1, <1>4, <1>7 DEF BridgeInv

\* A step that moves packets within a direction, or only out of what is promised.
LEMMA MovesKeep ==
    ASSUME BridgeInv, BridgeTyped', arrivals' = arrivals, app_written' = app_written,
           ~closed' => ~closed /\ Inward' = Inward,
           ~net_errors' => ~net_errors /\ Outward' = Outward
    PROVE  BridgeInv'
  BY DEF BridgeInv

\* A step that leaves every packet where it is.
LEMMA StandsStill ==
    ASSUME BridgeInv, UNCHANGED <<channel_vars, bridge_pc, holding, net_in, arrivals, net_out,
                                  net_errors, app_read, app_written>>
    PROVE  BridgeInv'
<1>1. BridgeTyped'
  BY DEF BridgeInv, BridgeTyped, channel_vars
<1>2. Outward' = Outward /\ Inward' = Inward
  BY DEF channel_vars, Outward, Inward, HeldFor
<1> QED BY <1>1, <1>2, MovesKeep DEF channel_vars

\* The application writes into the channel.
LEMMA AppWriteStep == BridgeInv /\ AppWrite => BridgeInv'
<1> SUFFICES ASSUME BridgeInv, AppWrite PROVE BridgeInv'
  OBVIOUS
<1>0. CASE closed
  <2>1. UNCHANGED <<channel_vars, bridge_pc, holding, net_in, arrivals, net_out, net_errors,
                    app_read, app_written>>
    BY <1>0 DEF AppWrite, channel_vars
  <2> QED BY <2>1, StandsStill
<1> SUFFICES ASSUME ~closed PROVE BridgeInv'
  BY <1>0
<1>1. BridgeTyped'
  <2>1. /\ app_written' = app_written + 1 /\ to_router' = Append(to_router, app_written + 1)
        /\ UNCHANGED <<from_router, bridge_pc, holding, net_in, arrivals, net_out, app_read>>
    BY DEF AppWrite
  <2>2. app_written' \in Nat /\ to_router' \in Seq(Nat)
    BY <2>1, AppendProperties DEF BridgeInv, BridgeTyped
  <2> QED BY <2>1, <2>2 DEF BridgeInv, BridgeTyped
<1> DEFINE s == net_out \o HeldFor("network")
<1>2. HeldFor("network") \in Seq(Nat) /\ HeldFor("link")' = HeldFor("link")
      /\ HeldFor("network")' = HeldFor("network")
  BY Queues DEF BridgeInv, BridgeTyped, AppWrite, HeldFor
<1>3. s \in Seq(Nat) /\ s' = s
  BY <1>2, Queues DEF BridgeInv, BridgeTyped, AppWrite
<1>4. Inward' = Inward /\ closed' = closed /\ net_errors' = net_errors /\ arrivals' = arrivals
  BY <1>2 DEF AppWrite, Inward
<1>5. to_router \in Seq(Nat) /\ app_written \in Nat /\ app_written' = app_written + 1
      /\ to_router' = Append(to_router, app_written + 1)
  BY DEF BridgeInv, BridgeTyped, AppWrite
<1>6. Outward = s \o to_router /\ Outward' = s \o to_router'
  BY <1>3 DEF Outward
<1> HIDE DEF s
<1>7. ~net_errors => Outward' = Upto(app_written')
  BY <1>3, <1>5, <1>6, Enter DEF BridgeInv
<1> QED BY <1>1, <1>4, <1>7 DEF BridgeInv

\* The application reads from the channel.
LEMMA AppReadStep == BridgeInv /\ AppRead => BridgeInv'
<1> SUFFICES ASSUME BridgeInv, AppRead PROVE BridgeInv'
  OBVIOUS
<1>1. app_read \in Seq(Nat) /\ from_router \in Seq(Nat) /\ from_router # <<>>
  BY DEF BridgeInv, BridgeTyped, AppRead
<1>2. app_read' \in Seq(Nat) /\ from_router' \in Seq(Nat)
      /\ app_read' \o from_router' = app_read \o from_router
  <2> DEFINE h == Head(from_router)
  <2>1. /\ Tail(from_router) \in Seq(Nat) /\ Append(app_read, h) \in Seq(Nat)
        /\ Append(app_read, h) = app_read \o <<h>>
        /\ (app_read \o <<h>>) \o Tail(from_router) = app_read \o from_router
    BY <1>1, Move
  <2>2. app_read' = Append(app_read, h) /\ from_router' = Tail(from_router)
    BY DEF AppRead
  <2> HIDE DEF h
  <2> QED BY <2>1, <2>2, Zenon
<1>3. BridgeTyped'
  BY <1>2 DEF BridgeInv, BridgeTyped, AppRead
<1>4. HeldFor("link")' = HeldFor("link") /\ HeldFor("network")' = HeldFor("network")
  BY DEF AppRead, HeldFor
<1>5. Inward' = Inward /\ Outward' = Outward
  BY <1>2, <1>4 DEF AppRead, Inward, Outward
<1> QED BY <1>3, <1>5, MovesKeep DEF AppRead

\* The channel is closed.
LEMMA CloseStep == BridgeInv /\ Close => BridgeInv'
<1> SUFFICES ASSUME BridgeInv, Close PROVE BridgeInv'
  OBVIOUS
<1>1. BridgeTyped'
  BY DEF BridgeInv, BridgeTyped, Close
<1>2. Outward' = Outward
  BY DEF Close, Outward, HeldFor
<1> QED BY <1>1, <1>2, MovesKeep DEF Close

\* The bridge takes a packet from the network.
LEMMA SelectNetworkStep == BridgeInv /\ SelectNetwork => BridgeInv'
<1> SUFFICES ASSUME BridgeInv, SelectNetwork PROVE BridgeInv'
  OBVIOUS
<1> DEFINE s == app_read \o from_router
<1>1. s \in Seq(Nat) /\ s' = s /\ net_in \in Seq(Nat) /\ net_in # <<>>
  BY Queues DEF BridgeInv, BridgeTyped, SelectNetwork, channel_vars
<1>2. HeldFor("link") = <<>> /\ HeldFor("network") = <<>> /\ HeldFor("network")' = <<>>
      /\ HeldFor("link")' = <<Head(net_in)>>
  BY DEF SelectNetwork, HeldFor
<1>3. <<Head(net_in)>> \in Seq(Nat) /\ Tail(net_in) \in Seq(Nat)
      /\ (s \o <<Head(net_in)>>) \o Tail(net_in) = s \o net_in
  BY <1>1, Move
<1>4. BridgeTyped'
  BY <1>3 DEF BridgeInv, BridgeTyped, SelectNetwork, channel_vars
<1>5. Inward = (s \o <<>>) \o net_in /\ Inward' = (s \o <<Head(net_in)>>) \o Tail(net_in)
  BY <1>1, <1>2 DEF Inward, SelectNetwork
<1>6. Inward' = Inward
  BY <1>1, <1>3, <1>5, Queues, Zenon
<1>7. Outward' = Outward
  BY <1>2 DEF SelectNetwork, channel_vars, Outward
<1> QED BY <1>4, <1>6, <1>7, MovesKeep DEF SelectNetwork, channel_vars

\* The bridge takes a packet from the channel.
LEMMA SelectLinkStep == BridgeInv /\ SelectLink => BridgeInv'
<1> SUFFICES ASSUME BridgeInv, SelectLink PROVE BridgeInv'
  OBVIOUS
<1>1. net_out \in Seq(Nat) /\ to_router \in Seq(Nat) /\ to_router # <<>>
  BY DEF BridgeInv, BridgeTyped, SelectLink
<1>2. HeldFor("link") = <<>> /\ HeldFor("network") = <<>> /\ HeldFor("link")' = <<>>
      /\ HeldFor("network")' = <<Head(to_router)>>
  BY DEF SelectLink, HeldFor
<1>3. <<Head(to_router)>> \in Seq(Nat) /\ Tail(to_router) \in Seq(Nat)
      /\ (net_out \o <<Head(to_router)>>) \o Tail(to_router) = net_out \o to_router
  BY <1>1, Move
<1>4. BridgeTyped'
  BY <1>3 DEF BridgeInv, BridgeTyped, SelectLink
<1>5. Outward = (net_out \o <<>>) \o to_router
      /\ Outward' = (net_out \o <<Head(to_router)>>) \o Tail(to_router)
  BY <1>1, <1>2 DEF Outward, SelectLink
<1>6. Outward' = Outward
  BY <1>1, <1>3, <1>5, Queues, Zenon
<1>7. Inward' = Inward
  BY <1>2 DEF SelectLink, Inward
<1> QED BY <1>4, <1>6, <1>7, MovesKeep DEF SelectLink

\* The loop meets a closed and empty channel.
LEMMA SelectClosedStep == BridgeInv /\ SelectClosed => BridgeInv'
<1> SUFFICES ASSUME BridgeInv, SelectClosed PROVE BridgeInv'
  OBVIOUS
<1>1. BridgeTyped'
  BY DEF BridgeInv, BridgeTyped, SelectClosed, channel_vars
<1>2. Outward' = Outward /\ Inward' = Inward
  BY DEF SelectClosed, channel_vars, Outward, Inward, HeldFor
<1> QED BY <1>1, <1>2, MovesKeep DEF SelectClosed, channel_vars

\* The write into the channel ends: on an open one there was room for the packet.
LEMMA WriteLinkStep == BridgeInv /\ WriteLink => BridgeInv'
<1> SUFFICES ASSUME BridgeInv, WriteLink PROVE BridgeInv'
  OBVIOUS
<1>1. app_read \in Seq(Nat) /\ from_router \in Seq(Nat) /\ holding \in Seq(Nat)
      /\ net_in \in Seq(Nat)
  BY DEF BridgeInv, BridgeTyped
<1>2. BridgeTyped'
  BY <1>1, Queues DEF BridgeInv, BridgeTyped, WriteLink
<1>3. HeldFor("link") = holding /\ HeldFor("network") = <<>> /\ HeldFor("link")' = <<>>
      /\ HeldFor("network")' = <<>>
  BY DEF WriteLink, HeldFor
<1>4. Outward' = Outward
  BY <1>3 DEF WriteLink, Outward
<1>5. ASSUME ~closed PROVE Inward' = Inward
  <2>1. from_router' = from_router \o holding
    BY <1>5 DEF WriteLink, RoomForApp
  <2>2. Inward = ((app_read \o from_router) \o holding) \o net_in
    BY <1>3 DEF Inward
  <2>3. Inward' = ((app_read \o (from_router \o holding)) \o <<>>) \o net_in
    BY <1>3, <2>1 DEF Inward, WriteLink
  <2>4. (app_read \o from_router) \o holding = app_read \o (from_router \o holding)
    <3>1. ASSUME NEW s \in Seq(Nat), NEW t \in Seq(Nat), NEW u \in Seq(Nat)
          PROVE  (s \o t) \o u = s \o (t \o u)
      BY Queues, ZenonT(60)
    <3> QED BY <1>1, <3>1, Zenon
  <2>5. (app_read \o from_router) \o holding \in Seq(Nat)
    BY <1>1, Queues, Zenon
  <2>6. ((app_read \o from_router) \o holding) \o <<>> = (app_read \o from_router) \o holding
    BY <2>5, Queues, Zenon
  <2> QED BY <2>2, <2>3, <2>4, <2>6, Zenon
<1> QED BY <1>2, <1>4, <1>5, MovesKeep DEF WriteLink

\* The write to the network ends, well or with an error.
LEMMA WriteNetworkStep ==
    ASSUME BridgeInv, NEW ok \in BOOLEAN, WriteNetwork(ok) PROVE BridgeInv'
<1>1. net_out \in Seq(Nat) /\ to_router \in Seq(Nat) /\ holding \in Seq(Nat)
  BY DEF BridgeInv, BridgeTyped
<1>2. BridgeTyped'
  BY <1>1, Queues DEF BridgeInv, BridgeTyped, WriteNetwork, channel_vars
<1>3. HeldFor("link") = <<>> /\ HeldFor("network") = holding /\ HeldFor("link")' = <<>>
      /\ HeldFor("network")' = <<>>
  BY DEF WriteNetwork, HeldFor
<1>4. Inward' = Inward
  BY <1>3 DEF WriteNetwork, channel_vars, Inward
<1>5. ASSUME ok PROVE Outward' = Outward
  <2>1. Outward = (net_out \o holding) \o to_router
    BY <1>3 DEF Outward
  <2>2. Outward' = ((net_out \o holding) \o <<>>) \o to_router
    BY <1>3, <1>5 DEF Outward, WriteNetwork, channel_vars
  <2>3. net_out \o holding \in Seq(Nat)
    BY <1>1, Queues, Zenon
  <2>4. (net_out \o holding) \o <<>> = net_out \o holding
    BY <2>3, Queues, Zenon
  <2> QED BY <2>1, <2>2, <2>4, Zenon
<1>6. ~net_errors' => ok /\ ~net_errors
  BY DEF WriteNetwork
<1> QED BY <1>2, <1>4, <1>5, <1>6, MovesKeep DEF WriteNetwork, channel_vars

\* Whatever the bridge awaits when, in either direction what came out, what is queued and
\* what the bridge holds are what went in, in order.
THEOREM BridgeLosesNothing == BridgeSpec => []BridgeKeepsAll
<1>1. BridgeInv /\ [BridgeNext]_bridge_vars => BridgeInv'
  <2> SUFFICES ASSUME BridgeInv, [BridgeNext]_bridge_vars PROVE BridgeInv'
    OBVIOUS
  <2>1. CASE UNCHANGED bridge_vars
    BY <2>1, StandsStill DEF bridge_vars
  <2>2. CASE AppBegins
    BY <2>2, StandsStill DEF AppBegins
  <2> QED BY <2>1, <2>2, ArrivalStep, AppWriteStep, AppReadStep, CloseStep, SelectNetworkStep,
             SelectLinkStep, SelectClosedStep, WriteLinkStep, WriteNetworkStep
          DEF BridgeNext, BridgeStep, AppStep
<1>2. BridgeInv => BridgeKeepsAll
  BY DEF BridgeInv, BridgeKeepsAll, Inward, Outward
<1> QED BY <1>1, <1>2, BridgeInvInit, PTL DEF BridgeSpec
-----------------------------------------------------------------------------
(* Gossip.                                                                 *)

\* A copy outlives fewer gossips than half of the epochs, so that IsForward tells a new
\* epoch from an old one: there are 2^16 epochs.
EpochsApart == 2 * MaxGossips < EpochMod

\* the position of an epoch, from the last one before the gossips: 0
Pos(e) == Ahead(StartEpoch - 1, e)

Filters == [init : BOOLEAN, head : Epoch, history : SUBSET Int]

\* the head of a filter in use is one of the gossips, or the last epoch before them
InReach(f) == f \in Filters /\ (f.init => Pos(f.head) <= MaxGossips)

Messages == [origin : Originators, epoch : Epoch]

\* every satellite numbers its gossips with successive epochs
NumberedInv ==
    /\ next_epoch \in [Nodes -> Epoch]
    /\ gossips \subseteq Messages /\ IsFiniteSet(gossips)
    /\ Cardinality(gossips) <= MaxGossips
    /\ \A n \in Originators : Pos(next_epoch[n]) \in 1 .. (Cardinality(gossips) + 1)
    /\ \A m \in gossips : Pos(m.epoch) \in 1 .. (Pos(next_epoch[m.origin]) - 1)

\* what a satellite originated or delivered is a duplicate to its filter
FilteredInv ==
    /\ \A c \in transit : c.msg \in gossips /\ c.to \in Nodes
    /\ received \in [Nodes -> SUBSET gossips]
    /\ DOMAIN dedup = Nodes
    /\ \A n \in Nodes : InReach(dedup[n])
    /\ \A n \in Nodes : \A m \in gossips :
          m \in received[n] \/ m.origin = n => IsDuplicate(dedup[n], m.epoch)

GossipInv == NumberedInv /\ FilteredInv /\ ~repeated

\* How far one epoch is ahead of another, from their positions.
LEMMA AheadByPos ==
    ASSUME NEW x \in Epoch, NEW y \in Epoch
    PROVE  /\ Pos(x) \in Epoch /\ Pos(y) \in Epoch
           /\ Ahead(x, y) = (IF Pos(x) <= Pos(y) THEN Pos(y) - Pos(x)
                                                 ELSE Pos(y) - Pos(x) + EpochMod)
<1>1. EpochMod \in Nat \ {0} /\ StartEpoch \in Int /\ x \in Int /\ y \in Int
  BY FilterAssumption, GossipAssumption DEF Epoch
<1> DEFINE s == StartEpoch - 1
           u == x - s
           v == y - s
           a == u % EpochMod
           b == v % EpochMod
           p == u \div EpochMod
           q == v \div EpochMod
<1>3. Pos(x) = a /\ Pos(y) = b
  BY DEF Pos, Ahead
<1>4. s \in Int /\ u \in Int /\ v \in Int /\ v - u = y - x
  BY <1>1
<1> HIDE DEF u, v
<1>2. /\ p \in Int /\ a \in 0 .. EpochMod - 1 /\ u = EpochMod * p + a
      /\ q \in Int /\ b \in 0 .. EpochMod - 1 /\ v = EpochMod * q + b
  BY <1>1, <1>4, DivMod, Zenon
<1> HIDE DEF s, a, b, p, q
<1>5. \A k \in Int, r \in 0 .. EpochMod - 1 : (EpochMod * k + r) % EpochMod = r
  BY <1>1, ModUnique
<1>6. CASE a <= b
  <2>1. q - p \in Int /\ b - a \in 0 .. EpochMod - 1
    BY <1>1, <1>2, <1>6
  <2>2. EpochMod * (q - p) + (b - a) = y - x
    BY <1>1, <1>2, <1>4
  <2>3. (y - x) % EpochMod = b - a
    BY <1>5, <2>1, <2>2
  <2> QED BY <1>2, <1>3, <1>6, <2>3 DEF Ahead, Epoch
<1>7. CASE ~(a <= b)
  <2>1. q - p - 1 \in Int /\ b - a + EpochMod \in 0 .. EpochMod - 1
    BY <1>1, <1>2, <1>7
  <2>2. EpochMod * (q - p - 1) + (b - a + EpochMod) = y - x
    BY <1>1, <1>2, <1>4
  <2>3. (y - x) % EpochMod = b - a + EpochMod
    BY <1>5, <2>1, <2>2
  <2> QED BY <1>2, <1>3, <1>7, <2>3 DEF Ahead, Epoch
<1> QED BY <1>6, <1>7

\* Among the gossips and the epoch before them, forward means later.
LEMMA ForwardIsLater ==
    ASSUME EpochsApart, NEW x \in Epoch, NEW y \in Epoch,
           Pos(x) <= MaxGossips, Pos(y) <= MaxGossips
    PROVE  IsForward(x, y) <=> Pos(x) < Pos(y)
<1>1. /\ Pos(x) \in Nat /\ Pos(y) \in Nat /\ EpochMod \in Nat /\ MaxGossips \in Nat
  BY AheadByPos, FilterAssumption, GossipAssumption DEF Epoch
<1>2. /\ Ahead(x, y) = (IF Pos(x) <= Pos(y) THEN Pos(y) - Pos(x)
                                            ELSE Pos(y) - Pos(x) + EpochMod)
      /\ Ahead(y, x) = (IF Pos(y) <= Pos(x) THEN Pos(x) - Pos(y)
                                            ELSE Pos(x) - Pos(y) + EpochMod)
  BY AheadByPos
<1> DEFINE a == Pos(x)
           b == Pos(y)
           u == Ahead(x, y)
           v == Ahead(y, x)
<1> HIDE DEF a, b, u, v
<1>3. /\ a \in Nat /\ b \in Nat /\ a <= MaxGossips /\ b <= MaxGossips
      /\ u = (IF a <= b THEN b - a ELSE b - a + EpochMod)
      /\ v = (IF b <= a THEN a - b ELSE a - b + EpochMod)
  BY <1>1, <1>2 DEF a, b, u, v
<1>4. (u # 0 /\ u < v) <=> a < b
  BY <1>1, <1>3 DEF EpochsApart
<1> QED BY <1>4 DEF IsForward, a, b, u, v

\* The filter in terms of positions.
LEMMA DuplicateByPos ==
    ASSUME EpochsApart, NEW f, InReach(f), NEW e \in Epoch, Pos(e) <= MaxGossips
    PROVE  /\ Pos(e) \in Nat /\ Pos(f.head) \in Nat /\ f.head \in Epoch
           /\ IsDuplicate(f, e) <=>
                 /\ f.init /\ Pos(e) <= Pos(f.head)
                 /\ \/ Pos(e) = Pos(f.head) \/ Pos(f.head) - Pos(e) > History
                    \/ Pos(f.head) - Pos(e) - 1 \in f.history
<1>1. f.head \in Epoch /\ f.init \in BOOLEAN /\ (f.init => Pos(f.head) <= MaxGossips)
  BY DEF InReach, Filters
<1>2. /\ Pos(e) \in Nat /\ Pos(f.head) \in Nat
      /\ Ahead(e, f.head) = (IF Pos(e) <= Pos(f.head) THEN Pos(f.head) - Pos(e)
                                                      ELSE Pos(f.head) - Pos(e) + EpochMod)
  BY <1>1, AheadByPos, FilterAssumption DEF Epoch
<1>3. f.init => (IsForward(f.head, e) <=> Pos(f.head) < Pos(e))
  BY <1>1, ForwardIsLater
<1>4. ~f.init => ~IsDuplicate(f, e)
  BY DEF IsDuplicate
<1>5. ASSUME f.init, Pos(f.head) < Pos(e) PROVE ~IsDuplicate(f, e)
  BY <1>3, <1>5 DEF IsDuplicate
<1>6. ASSUME f.init, Pos(e) <= Pos(f.head)
      PROVE  IsDuplicate(f, e) <=>
                \/ Pos(e) = Pos(f.head) \/ Pos(f.head) - Pos(e) > History
                \/ Pos(f.head) - Pos(e) - 1 \in f.history
  <2>1. ~IsForward(f.head, e)
    BY <1>2, <1>3, <1>6
  <2>2. Ahead(e, f.head) = Pos(f.head) - Pos(e)
    BY <1>2, <1>6
  <2>3. Ahead(e, f.head) = 0 <=> Pos(e) = Pos(f.head)
    BY <1>2, <2>2
  <2> QED BY <1>6, <2>1, <2>2, <2>3 DEF IsDuplicate
<1> QED BY <1>1, <1>2, <1>4, <1>5, <1>6

\* A filter knows what it recorded, and forgets nothing.
LEMMA FilterRemembers ==
    ASSUME EpochsApart, NEW f, InReach(f), NEW e \in Epoch, Pos(e) <= MaxGossips
    PROVE  /\ InReach(Record(f, e)) /\ IsDuplicate(Record(f, e), e)
           /\ \A x \in Epoch : Pos(x) <= MaxGossips /\ IsDuplicate(f, x) =>
                 IsDuplicate(Record(f, e), x)
<1> DEFINE g == Record(f, e)
           h == Pos(f.head)
           k == Pos(e)
<1>1. f \in Filters /\ f.head \in Epoch /\ f.init \in BOOLEAN /\ f.history \subseteq Int
      /\ (f.init => h <= MaxGossips)
  BY DEF InReach, Filters
<1>2. k \in Nat /\ h \in Nat /\ History \in Nat
  BY DuplicateByPos, FilterAssumption
<1>3. SUFFICES
        /\ InReach(g) /\ g.init = TRUE
        /\ \/ Pos(g.head) = k
           \/ k < Pos(g.head) /\ (Pos(g.head) - k > History \/ Pos(g.head) - k - 1 \in g.history)
        /\ \A x \in Epoch : Pos(x) <= MaxGossips /\ IsDuplicate(f, x) =>
              /\ Pos(x) <= Pos(g.head)
              /\ \/ Pos(x) = Pos(g.head) \/ Pos(g.head) - Pos(x) > History
                 \/ Pos(g.head) - Pos(x) - 1 \in g.history
  <2> HIDE DEF g
  <2>1. ASSUME InReach(g), NEW x \in Epoch, Pos(x) <= MaxGossips
        PROVE  /\ Pos(x) \in Nat /\ Pos(g.head) \in Nat
               /\ IsDuplicate(g, x) <=>
                 /\ g.init /\ Pos(x) <= Pos(g.head)
                 /\ \/ Pos(x) = Pos(g.head) \/ Pos(g.head) - Pos(x) > History
                    \/ Pos(g.head) - Pos(x) - 1 \in g.history
    BY <2>1, DuplicateByPos
  <2>2. InReach(g) /\ IsDuplicate(g, e)
    BY <1>2, <1>3, <2>1
  <2>3. \A x \in Epoch : Pos(x) <= MaxGossips /\ IsDuplicate(f, x) => IsDuplicate(g, x)
    BY <1>3, <2>1, <2>2
  <2> QED BY <2>2, <2>3 DEF g
<1>4. \A x \in Epoch : Pos(x) <= MaxGossips => 
         /\ Pos(x) \in Nat
         /\ IsDuplicate(f, x) <=>
               /\ f.init /\ Pos(x) <= h
               /\ \/ Pos(x) = h \/ h - Pos(x) > History \/ h - Pos(x) - 1 \in f.history
  BY DuplicateByPos
<1>5. CASE ~f.init
  <2>1. g = [f EXCEPT !.init = TRUE, !.head = e]
    BY <1>5 DEF Record
  <2>2. g.init = TRUE /\ g.head = e /\ g.history = f.history /\ g \in Filters
    BY <1>1, <2>1 DEF Filters
  <2> QED BY <1>4, <1>5, <2>2 DEF InReach
<1>6. CASE f.init /\ IsForward(f.head, e)
  <2>1. h < k
    BY <1>1, <1>6, ForwardIsLater
  <2>2. Ahead(f.head, e) = k - h
    BY <1>1, <1>2, <2>1, AheadByPos
  <2>3. g = Advance(f, e)
    BY <1>6 DEF Record
  <2>4. g = [f EXCEPT !.head = e, !.history = Mark(Shift(f.history, k - h), k - h - 1)]
    BY <2>2, <2>3 DEF Advance
  <2>5. Shift(f.history, k - h) \subseteq Int /\ k - h - 1 \in Nat
    BY <1>2, <2>1 DEF Shift
  <2>6. Mark(Shift(f.history, k - h), k - h - 1) \subseteq Int
    BY <2>5 DEF Mark
  <2>7. /\ g.init = TRUE /\ g.head = e /\ g.history = Mark(Shift(f.history, k - h), k - h - 1)
        /\ g \in Filters
    BY <1>1, <1>6, <2>4, <2>6 DEF Filters
  <2>8. ASSUME NEW x \in Epoch, Pos(x) <= MaxGossips, IsDuplicate(f, x)
        PROVE  /\ Pos(x) <= k
               /\ \/ Pos(x) = k \/ k - Pos(x) > History \/ k - Pos(x) - 1 \in g.history
    <3> DEFINE j == Pos(x)
    <3>1. j \in Nat /\ j <= h /\ (j = h \/ h - j > History \/ h - j - 1 \in f.history)
      BY <1>4, <2>8
    <3> HIDE DEF j, g, h, k
    <3>2. CASE j = h
      BY <1>2, <2>1, <2>7, <3>1, <3>2 DEF Mark, j
    <3>3. CASE h - j > History
      BY <1>2, <2>1, <3>1, <3>3 DEF j
    <3>4. CASE h - j - 1 \in f.history /\ k - j <= History
      <4>1. k - j - 1 \in 0 .. History - 1 /\ (k - j - 1) - (k - h) = h - j - 1
        BY <1>2, <2>1, <3>1, <3>4
      <4>2. k - j - 1 \in Shift(f.history, k - h)
        BY <3>4, <4>1 DEF Shift
      <4>3. k - j - 1 \in g.history
        BY <2>7, <4>2 DEF Mark
      <4> QED BY <1>2, <2>1, <3>1, <4>3 DEF j
    <3> QED BY <1>2, <2>1, <3>1, <3>2, <3>3, <3>4 DEF j
  <2> QED BY <2>7, <2>8 DEF InReach
<1>7. CASE f.init /\ ~IsForward(f.head, e) /\ IsDuplicate(f, e)
  <2>1. g = f
    BY <1>7 DEF Record
  <2> QED BY <1>1, <1>2, <1>4, <1>7, <2>1 DEF InReach
<1>8. CASE f.init /\ ~IsForward(f.head, e) /\ ~IsDuplicate(f, e)
  <2>1. k <= h
    BY <1>1, <1>2, <1>8, ForwardIsLater
  <2>2. k < h /\ h - k <= History
    BY <1>2, <1>4, <1>8, <2>1
  <2>3. Ahead(e, f.head) = h - k
    BY <1>1, <2>1, AheadByPos
  <2>4. g = [f EXCEPT !.history = Mark(f.history, h - k - 1)]
    BY <1>8, <2>3 DEF Record
  <2>5. Mark(f.history, h - k - 1) = f.history \cup {h - k - 1} /\ h - k - 1 \in Int
    BY <1>2, <2>2 DEF Mark
  <2>6. /\ g.init = TRUE /\ g.head = f.head /\ g.history = f.history \cup {h - k - 1}
        /\ g \in Filters
    BY <1>1, <1>8, <2>4, <2>5 DEF Filters
  <2> QED BY <1>1, <1>4, <1>8, <2>2, <2>6 DEF InReach
<1> QED BY <1>1, <1>5, <1>6, <1>7, <1>8

\* The next epoch has the next position.
LEMMA NextEpochPos ==
    ASSUME NEW e \in Epoch, Pos(e) + 1 < EpochMod
    PROVE  (e + 1) % EpochMod \in Epoch /\ Pos((e + 1) % EpochMod) = Pos(e) + 1
<1>1. EpochMod \in Nat \ {0} /\ StartEpoch \in Int /\ e \in Int
  BY FilterAssumption, GossipAssumption DEF Epoch
<1> DEFINE s == StartEpoch - 1
           u == e - s
           a == u % EpochMod
           p == u \div EpochMod
<1>2. Pos(e) = a
  BY DEF Pos, Ahead
<1>3. s \in Int /\ u \in Int /\ e + 1 \in Int /\ -s \in Int /\ e + 1 + (-s) = u + 1
  BY <1>1
<1> HIDE DEF u
<1>4. p \in Int /\ a \in 0 .. EpochMod - 1 /\ u = EpochMod * p + a
  BY <1>1, <1>3, DivMod, Zenon
<1> HIDE DEF a, p
<1>5. a + 1 \in 0 .. EpochMod - 1 /\ u + 1 = EpochMod * p + (a + 1)
  BY <1>1, <1>2, <1>3, <1>4
<1>6. (u + 1) % EpochMod = a + 1
  BY <1>1, <1>4, <1>5, ModUnique
<1> HIDE DEF s
<1>7. (((e + 1) % EpochMod) + (-s)) % EpochMod = (e + 1 + (-s)) % EpochMod
  BY <1>1, <1>3, ModAdd
<1>8. (e + 1) % EpochMod \in 0 .. EpochMod - 1
  BY <1>1, <1>3, DivMod
<1>9. ((e + 1) % EpochMod) + (-s) = ((e + 1) % EpochMod) - s
  BY <1>3, <1>8
<1>10. Ahead(s, (e + 1) % EpochMod) = a + 1
  BY <1>3, <1>6, <1>7, <1>9 DEF Ahead
<1> QED BY <1>2, <1>8, <1>10 DEF Pos, Epoch, s

\* A neighbour is a satellite.
LEMMA NeighborIsNode ==
    ASSUME NEW n \in Nodes, NEW d \in Direction
    PROVE  Neighbor(Mesh, n, d) \in Nodes
<1>1. Mesh \in [orbs : Nat \ {0}, sats : Nat \ {0}]
  BY GossipAssumption DEF TorusType
<1> QED BY <1>1 DEF Nodes, Points, Direction, Neighbor, NextIndex, PrevIndex

\* Before the first gossip the filters hold the epochs before it.
LEMMA GossipInvInit == EpochsApart /\ GossipInit => GossipInv
<1> SUFFICES ASSUME EpochsApart, GossipInit PROVE GossipInv
  OBVIOUS
<1>1. /\ EpochMod \in Nat \ {0} /\ StartEpoch \in Epoch /\ MaxGossips \in Nat /\ EpochMod > 2
      /\ Originators \subseteq Nodes /\ StartEpoch \in Int
  BY FilterAssumption, GossipAssumption DEF Epoch
<1>2. \A q \in Int, r \in 0 .. EpochMod - 1 : (EpochMod * q + r) % EpochMod = r
  BY <1>1, ModUnique
<1>3. Pos(StartEpoch) = 1
  <2>1. EpochMod * 0 + 1 = StartEpoch - (StartEpoch - 1) /\ 1 \in 0 .. EpochMod - 1
    BY <1>1
  <2> QED BY <1>2, <2>1 DEF Pos, Ahead
<1>4. InReach(StartFilter)
  <2>1. CASE StartEpoch = 0
    <3>1. EmptyFilter \in Filters /\ EmptyFilter.init = FALSE
      BY <1>1 DEF EmptyFilter, Filters, Epoch
    <3> QED BY <2>1, <3>1 DEF StartFilter, InReach
  <2>2. CASE StartEpoch # 0
    <3>1. EpochMod * 0 + 0 = (StartEpoch - 1) - (StartEpoch - 1) /\ 0 \in 0 .. EpochMod - 1
      BY <1>1
    <3>2. Pos(StartEpoch - 1) = 0
      BY <1>2, <3>1 DEF Pos, Ahead
    <3>3. StartEpoch - 1 \in Epoch
      BY <1>1, <2>2 DEF Epoch
    <3>4. {i \in 0 .. (History - 1) : i < StartEpoch - 1} \in SUBSET Int
      OBVIOUS
    <3>5. StartFilter = [init |-> TRUE, head |-> StartEpoch - 1,
                         history |-> {i \in 0 .. (History - 1) : i < StartEpoch - 1}]
      BY <2>2 DEF StartFilter
    <3>6. StartFilter \in Filters /\ StartFilter.head = StartEpoch - 1
      BY <3>3, <3>4, <3>5 DEF Filters
    <3> QED BY <1>1, <3>2, <3>6 DEF InReach
  <2> QED BY <2>1, <2>2
<1>5. NumberedInv
  <2>1. IsFiniteSet(gossips) /\ Cardinality(gossips) = 0 /\ gossips = {}
    BY FS_EmptySet DEF GossipInit
  <2>2. next_epoch \in [Nodes -> Epoch] /\ \A n \in Originators : next_epoch[n] = StartEpoch
    BY <1>1 DEF GossipInit, Epoch
  <2> QED BY <1>1, <1>3, <2>1, <2>2 DEF NumberedInv
<1>6. FilteredInv
  BY <1>4 DEF GossipInit, FilteredInv
<1> QED BY <1>5, <1>6 DEF GossipInv, GossipInit

\* Everything gossiped lies within reach of the filters.
LEMMA GossipFacts ==
    ASSUME GossipInv, NEW m \in gossips
    PROVE  /\ m.epoch \in Epoch /\ m.origin \in Originators /\ m.origin \in Nodes
           /\ Pos(m.epoch) <= MaxGossips
<1>1. NumberedInv /\ m \in Messages
  BY DEF GossipInv, NumberedInv
<1>2. m.epoch \in Epoch /\ m.origin \in Originators /\ m.origin \in Nodes
  BY <1>1, GossipAssumption DEF Messages
<1>3. /\ Pos(m.epoch) \in 1 .. (Pos(next_epoch[m.origin]) - 1)
      /\ Pos(next_epoch[m.origin]) \in 1 .. (Cardinality(gossips) + 1)
      /\ Cardinality(gossips) <= MaxGossips /\ Cardinality(gossips) \in Nat
  BY <1>1, <1>2, FS_CardinalityType DEF NumberedInv
<1>4. MaxGossips \in Nat
  BY GossipAssumption
<1> DEFINE c == Cardinality(gossips)
           x == Pos(next_epoch[m.origin])
           y == Pos(m.epoch)
<1> HIDE DEF c, x, y
<1>5. y \in 1 .. (x - 1) /\ x \in 1 .. (c + 1) /\ c <= MaxGossips /\ c \in Nat
  BY <1>3 DEF c, x, y
<1>6. y <= MaxGossips
  BY <1>4, <1>5
<1> QED BY <1>2, <1>6 DEF y

\* A new gossip has an epoch that its origin never used.
LEMMA OriginateKeeps ==
    ASSUME EpochsApart, GossipInv, NEW n \in Originators, Originate(n)
    PROVE  GossipInv'
<1>1. NumberedInv /\ FilteredInv /\ ~repeated /\ n \in Nodes /\ MaxGossips \in Nat
      /\ EpochMod \in Nat
  BY GossipAssumption, FilterAssumption DEF GossipInv
<1> DEFINE e == next_epoch[n]
           m == [origin |-> n, epoch |-> e]
           c == Cardinality(gossips)
<1>2. /\ c < MaxGossips /\ gossips' = gossips \cup {m}
      /\ next_epoch' = [next_epoch EXCEPT ![n] = (e + 1) % EpochMod]
      /\ dedup' = [dedup EXCEPT ![n] = Record(dedup[n], e)]
      /\ received' = received /\ repeated' = repeated
  BY DEF Originate
<1>3. e \in Epoch /\ m \in Messages /\ m.origin = n /\ m.epoch = e
  BY <1>1 DEF NumberedInv, Messages
<1>4. c \in Nat /\ Pos(e) \in 1 .. (c + 1)
  BY <1>1, FS_CardinalityType DEF NumberedInv
<1>5. \A g \in gossips :
         /\ g.origin \in Originators /\ g.origin \in Nodes /\ g.epoch \in Epoch
         /\ Pos(g.epoch) \in 1 .. (Pos(next_epoch[g.origin]) - 1) /\ Pos(g.epoch) <= MaxGossips
  BY <1>1, GossipFacts DEF NumberedInv
<1>6. m \notin gossips
  <2> SUFFICES ASSUME m \in gossips PROVE FALSE
    OBVIOUS
  <2>1. Pos(e) \in 1 .. (Pos(e) - 1)
    BY <1>3, <1>5
  <2> HIDE DEF e
  <2> QED BY <1>4, <2>1
<1> HIDE DEF m, c, e
<1>7. Cardinality(gossips') = c + 1 /\ IsFiniteSet(gossips')
  BY <1>1, <1>2, <1>6, FS_AddElement DEF NumberedInv, c
<1>8. Pos(e) <= MaxGossips /\ Pos(e) + 1 < EpochMod
  BY <1>1, <1>2, <1>4 DEF EpochsApart
<1>9. (e + 1) % EpochMod \in Epoch /\ Pos((e + 1) % EpochMod) = Pos(e) + 1
  BY <1>3, <1>8, NextEpochPos
<1>10. /\ next_epoch' \in [Nodes -> Epoch] /\ next_epoch'[n] = (e + 1) % EpochMod
       /\ \A o \in Nodes : o # n => next_epoch'[o] = next_epoch[o]
  BY <1>1, <1>2, <1>9 DEF NumberedInv
<1>11. NumberedInv'
  <2>1. gossips' \subseteq Messages
    BY <1>1, <1>2, <1>3 DEF NumberedInv
  <2>2. \A o \in Originators : Pos(next_epoch'[o]) \in 1 .. (Cardinality(gossips') + 1)
    <3> SUFFICES ASSUME NEW o \in Originators
                 PROVE  Pos(next_epoch'[o]) \in 1 .. (c + 2)
      <4>1. c + 1 + 1 = c + 2
        BY <1>4
      <4> QED BY <1>7, <4>1
    <3>1. CASE o = n
      BY <1>4, <1>9, <1>10, <3>1
    <3>2. CASE o # n
      <4>1. next_epoch'[o] = next_epoch[o] /\ Pos(next_epoch[o]) \in 1 .. (c + 1)
        BY <1>1, <1>10, <3>2, GossipAssumption DEF NumberedInv, c
      <4> QED BY <1>4, <4>1
    <3> QED BY <3>1, <3>2
  <2>3. \A g \in gossips' : Pos(g.epoch) \in 1 .. (Pos(next_epoch'[g.origin]) - 1)
    <3> SUFFICES ASSUME NEW g \in gossips'
                 PROVE  Pos(g.epoch) \in 1 .. (Pos(next_epoch'[g.origin]) - 1)
      OBVIOUS
    <3>1. CASE g = m
      BY <1>3, <1>4, <1>9, <1>10, <3>1
    <3>2. CASE g \in gossips /\ g.origin # n
      BY <1>5, <1>10, <3>2
    <3>3. CASE g \in gossips /\ g.origin = n
      <4>1. Pos(g.epoch) \in 1 .. (Pos(e) - 1)
        BY <1>5, <3>3 DEF e
      <4> QED BY <1>4, <1>9, <1>10, <3>3, <4>1
    <3> QED BY <1>2, <3>1, <3>2, <3>3
  <2>4. Cardinality(gossips') <= MaxGossips
    BY <1>1, <1>2, <1>4, <1>7
  <2> QED BY <1>7, <1>10, <2>1, <2>2, <2>3, <2>4 DEF NumberedInv
<1>12. /\ InReach(Record(dedup[n], e)) /\ IsDuplicate(Record(dedup[n], e), e)
       /\ \A x \in Epoch : Pos(x) <= MaxGossips /\ IsDuplicate(dedup[n], x) =>
             IsDuplicate(Record(dedup[n], e), x)
  <2>1. InReach(dedup[n])
    BY <1>1 DEF FilteredInv
  <2> QED BY <1>3, <1>8, <2>1, FilterRemembers
<1>13. /\ DOMAIN dedup' = Nodes /\ dedup'[n] = Record(dedup[n], e)
       /\ \A o \in Nodes : o # n => dedup'[o] = dedup[o]
  BY <1>1, <1>2 DEF FilteredInv
<1>14. \A x \in transit' : x.msg \in gossips' /\ x.to \in Nodes
  <2>1. PICK k \in 0 .. 4 : transit' = transit \cup {Copy(n, d, m) : d \in FirstDirections(k)}
    BY DEF Originate, m, e
  <2>2. FirstDirections(k) \subseteq Direction
    BY DEF FirstDirections, Direction
  <2>3. \A d \in Direction : Copy(n, d, m).msg = m /\ Copy(n, d, m).to = Neighbor(Mesh, n, d)
    BY DEF Copy
  <2>4. \A d \in FirstDirections(k) : Copy(n, d, m).msg \in gossips' /\ Copy(n, d, m).to \in Nodes
    BY <1>1, <1>2, <2>2, <2>3, NeighborIsNode
  <2>5. \A x \in transit : x.msg \in gossips' /\ x.to \in Nodes
    BY <1>1, <1>2 DEF FilteredInv
  <2> QED BY <2>1, <2>4, <2>5
<1>15. \A o \in Nodes : \A g \in gossips' :
          g \in received'[o] \/ g.origin = o => IsDuplicate(dedup'[o], g.epoch)
  <2> SUFFICES ASSUME NEW o \in Nodes, NEW g \in gossips', g \in received[o] \/ g.origin = o
               PROVE  IsDuplicate(dedup'[o], g.epoch)
    BY <1>2
  <2>1. received[o] \subseteq gossips
    BY <1>1 DEF FilteredInv
  <2>2. CASE g \in gossips
    <3>1. IsDuplicate(dedup[o], g.epoch)
      BY <1>1, <2>2 DEF FilteredInv
    <3> QED BY <1>5, <1>12, <1>13, <2>2, <3>1
  <2>3. CASE g = m
    <3>1. o = n
      BY <1>3, <1>6, <2>1, <2>3
    <3> QED BY <1>3, <1>12, <1>13, <2>3, <3>1
  <2> QED BY <1>2, <2>2, <2>3
<1>16. received' \in [Nodes -> SUBSET gossips']
  BY <1>1, <1>2 DEF FilteredInv
<1>17. \A o \in Nodes : InReach(dedup'[o])
  BY <1>1, <1>12, <1>13 DEF FilteredInv
<1>18. FilteredInv'
  BY <1>13, <1>14, <1>15, <1>16, <1>17 DEF FilteredInv, InReach, Pos, Filters
<1> QED BY <1>1, <1>2, <1>11, <1>18 DEF GossipInv

\* A copy is delivered only where the filter does not know its epoch.
LEMMA ReadKeeps ==
    ASSUME EpochsApart, GossipInv, NEW c \in transit, ReadCopy(c)
    PROVE  GossipInv'
<1>1. NumberedInv /\ FilteredInv /\ ~repeated
  BY DEF GossipInv
<1> DEFINE n == c.to
           m == c.msg
           e == c.msg.epoch
<1>2. n \in Nodes /\ m \in gossips
  BY <1>1 DEF FilteredInv
<1>3. e \in Epoch /\ m.origin \in Nodes /\ Pos(e) <= MaxGossips
  BY <1>2, GossipFacts
<1>4. /\ dedup' = [dedup EXCEPT ![n] = Record(dedup[n], e)]
      /\ next_epoch' = next_epoch /\ gossips' = gossips
  BY DEF ReadCopy
<1>5. /\ InReach(Record(dedup[n], e)) /\ IsDuplicate(Record(dedup[n], e), e)
      /\ \A x \in Epoch : Pos(x) <= MaxGossips /\ IsDuplicate(dedup[n], x) =>
            IsDuplicate(Record(dedup[n], e), x)
  <2>1. InReach(dedup[n])
    BY <1>1, <1>2 DEF FilteredInv
  <2> QED BY <1>3, <2>1, FilterRemembers
<1>6. /\ DOMAIN dedup' = Nodes /\ dedup'[n] = Record(dedup[n], e)
      /\ \A o \in Nodes : o # n => dedup'[o] = dedup[o]
  BY <1>1, <1>2, <1>4 DEF FilteredInv
<1>7. \A g \in gossips : g.epoch \in Epoch /\ Pos(g.epoch) <= MaxGossips
  BY GossipFacts
<1>8. /\ \A x \in transit' : x.msg \in gossips /\ x.to \in Nodes
      /\ received' \in [Nodes -> SUBSET gossips]
      /\ \A o \in Nodes : \A g \in received'[o] : g \in received[o] \/ (g = m /\ o = n)
      /\ ~repeated'
  <2>1. CASE IsDuplicate(dedup[n], e)
    <3>1. transit' = transit \ {c} /\ received' = received /\ repeated' = repeated
      BY <2>1 DEF ReadCopy
    <3> QED BY <1>1, <3>1 DEF FilteredInv
  <2>2. CASE ~IsDuplicate(dedup[n], e)
    <3>1. /\ transit' = (transit \ {c}) \cup {Copy(n, d, m) : d \in Forwards(n, m)}
          /\ received' = [received EXCEPT ![n] = received[n] \cup {m}]
          /\ repeated' = (repeated \/ m \in received[n] \/ m.origin = n)
      BY <2>2 DEF ReadCopy
    <3>2. m \notin received[n] /\ m.origin # n
      BY <1>1, <1>2, <2>2 DEF FilteredInv
    <3>3. ~repeated'
      BY <1>1, <3>1, <3>2
    <3>4. \A d \in Forwards(n, m) : Copy(n, d, m).msg = m /\ Copy(n, d, m).to \in Nodes
      <4>1. Forwards(n, m) \subseteq Direction
        BY DEF Forwards
      <4>2. \A d \in Direction : Neighbor(Mesh, n, d) \in Nodes
        BY <1>2, NeighborIsNode
      <4>3. \A d : Copy(n, d, m).msg = m /\ Copy(n, d, m).to = Neighbor(Mesh, n, d)
        BY DEF Copy
      <4> QED BY <4>1, <4>2, <4>3, Zenon
    <3>5. \A x \in transit' : x.msg \in gossips /\ x.to \in Nodes
      BY <1>1, <1>2, <3>1, <3>4 DEF FilteredInv
    <3>6. received \in [Nodes -> SUBSET gossips]
      BY <1>1 DEF FilteredInv
    <3>7. received' \in [Nodes -> SUBSET gossips]
      BY <1>2, <3>1, <3>6
    <3>8. \A o \in Nodes : \A g \in received'[o] : g \in received[o] \/ (g = m /\ o = n)
      BY <1>2, <3>1, <3>6
    <3> QED BY <3>3, <3>5, <3>7, <3>8
  <2> QED BY <2>1, <2>2
<1>9. \A o \in Nodes : \A g \in gossips :
         g \in received'[o] \/ g.origin = o => IsDuplicate(dedup'[o], g.epoch)
  <2> SUFFICES ASSUME NEW o \in Nodes, NEW g \in gossips, g \in received'[o] \/ g.origin = o
               PROVE  IsDuplicate(dedup'[o], g.epoch)
    OBVIOUS
  <2>1. CASE g \in received[o] \/ g.origin = o
    <3>1. IsDuplicate(dedup[o], g.epoch)
      BY <1>1, <2>1 DEF FilteredInv
    <3> QED BY <1>5, <1>6, <1>7, <3>1
  <2>2. CASE g = m /\ o = n
    BY <1>5, <1>6, <2>2
  <2> QED BY <1>8, <2>1, <2>2
<1>10. \A o \in Nodes : InReach(dedup'[o])
  BY <1>1, <1>5, <1>6 DEF FilteredInv
<1>11. FilteredInv'
  BY <1>4, <1>6, <1>8, <1>9, <1>10 DEF FilteredInv, InReach, Pos, Filters
<1>12. NumberedInv'
  BY <1>1, <1>4 DEF NumberedInv
<1> QED BY <1>8, <1>11, <1>12 DEF GossipInv

\* Every step keeps the invariant.
LEMMA GossipInvStep ==
    ASSUME EpochsApart
    PROVE  GossipInv /\ [GossipNext]_gossip_vars => GossipInv'
<1> SUFFICES ASSUME GossipInv, [GossipNext]_gossip_vars PROVE GossipInv'
  OBVIOUS
<1>1. CASE \E n \in Originators : Originate(n)
  BY <1>1, OriginateKeeps
<1>2. CASE GossipStep
  BY <1>2, ReadKeeps DEF GossipStep
<1>3. CASE \E c \in transit : LoseCopy(c)
  <2>1. /\ transit' \subseteq transit
        /\ UNCHANGED <<next_epoch, dedup, gossips, received, repeated>>
    BY <1>3 DEF LoseCopy
  <2> QED BY <2>1 DEF GossipInv, NumberedInv, FilteredInv
<1>4. CASE UNCHANGED gossip_vars
  BY <1>4 DEF gossip_vars, GossipInv, NumberedInv, FilteredInv
<1> QED BY <1>1, <1>2, <1>3, <1>4 DEF GossipNext

\* A satellite delivers a gossip at most once and never its own, on a torus of every size,
\* for every length of the filter's history, and also where the epoch wraps around: all that
\* it originated or delivered stays a duplicate to its filter.
THEOREM GossipDeliveredOnce ==
    ASSUME EpochsApart
    PROVE  GossipSpec => []DeliveredOnce
<1>1. GossipInv => DeliveredOnce
  BY DEF GossipInv, DeliveredOnce
<1> QED BY <1>1, GossipInvInit, GossipInvStep, PTL DEF GossipSpec

\* Fewer gossips are under way than the filter remembers behind its head (128), so that it
\* takes none for a duplicate that it has not seen.
HistoryReaches == MaxGossips <= History + 1

\* satellite n has seen the epoch e: it delivered or originated a gossip of that number
Seen(n, e) == \E g \in gossips : g.epoch = e /\ (g \in received[n] \/ g.origin = n)

\* the marks of a filter are behind its head, and an unused filter has none
Marked(f) == f.history \subseteq Nat /\ (~f.init => f.history = {})

\* a filter takes no gossip for a duplicate that its satellite has not seen
ExactInv ==
    \A n \in Nodes :
        /\ Marked(dedup[n])
        /\ \A x \in Epoch : Pos(x) \in 1 .. MaxGossips /\ IsDuplicate(dedup[n], x) => Seen(n, x)

\* what a satellite originated or delivered is on its way to each of its neighbours, or the
\* neighbour has seen its epoch
SpreadInv ==
    ~impaired =>
        \A n \in Nodes, d \in Direction, m \in gossips :
            n = m.origin \/ m \in received[n] =>
                Copy(n, d, m) \in transit \/ Seen(Neighbor(Mesh, n, d), m.epoch)

\* Different epochs have different positions.
LEMMA PosIsInjective ==
    ASSUME NEW x \in Epoch, NEW y \in Epoch, Pos(x) = Pos(y) PROVE x = y
<1>1. EpochMod \in Nat \ {0} /\ x \in Int /\ y \in Int /\ y - x \in Int
      /\ y - x < EpochMod /\ -EpochMod < y - x
  BY FilterAssumption DEF Epoch
<1>2. Ahead(x, y) = 0
  <2>1. Pos(x) \in Epoch /\ Pos(y) \in Epoch
    BY AheadByPos
  <2>2. Pos(x) \in Int /\ Pos(y) \in Int /\ Pos(x) <= Pos(y) /\ Pos(y) - Pos(x) = 0
    BY <2>1, FilterAssumption DEF Epoch
  <2> QED BY <2>2, AheadByPos
<1>3. (y - x) % EpochMod = 0
  BY <1>2 DEF Ahead
<1> DEFINE u == y - x
           q == u \div EpochMod
<1>4. q \in Int /\ u = EpochMod * q + (u % EpochMod)
  BY <1>1, DivMod
<1>5. u = EpochMod * q
  BY <1>1, <1>3, <1>4
<1>6. q = 0
  BY <1>1, <1>4, <1>5, NoMultiple
<1> QED BY <1>1, <1>5, <1>6

\* What a filter knows after recording e it knew before, but for e itself.
LEMMA FilterIsExact ==
    ASSUME EpochsApart, HistoryReaches, NEW f, InReach(f), Marked(f),
           NEW e \in Epoch, Pos(e) \in 1 .. MaxGossips
    PROVE  /\ Marked(Record(f, e))
           /\ \A x \in Epoch :
                 Pos(x) \in 1 .. MaxGossips /\ IsDuplicate(Record(f, e), x) =>
                    x = e \/ IsDuplicate(f, x)
<1> DEFINE g == Record(f, e)
           h == Pos(f.head)
           k == Pos(e)
<1>1. /\ f \in Filters /\ f.head \in Epoch /\ f.init \in BOOLEAN /\ f.history \subseteq Nat
      /\ (f.init => h <= MaxGossips) /\ (~f.init => f.history = {})
  BY DEF InReach, Filters, Marked
<1>2. k \in Nat /\ h \in Nat /\ History \in Nat /\ MaxGossips \in Nat /\ k <= MaxGossips
  BY DuplicateByPos, FilterAssumption, GossipAssumption
<1>3. InReach(g)
  BY <1>2, FilterRemembers
<1>4. \A x \in Epoch : Pos(x) \in 1 .. MaxGossips =>
         /\ Pos(x) \in Nat /\ Pos(g.head) \in Nat
         /\ IsDuplicate(f, x) <=>
               /\ f.init /\ Pos(x) <= h
               /\ \/ Pos(x) = h \/ h - Pos(x) > History \/ h - Pos(x) - 1 \in f.history
         /\ IsDuplicate(g, x) <=>
               /\ g.init /\ Pos(x) <= Pos(g.head)
               /\ \/ Pos(x) = Pos(g.head) \/ Pos(g.head) - Pos(x) > History
                  \/ Pos(g.head) - Pos(x) - 1 \in g.history
  <2> HIDE DEF g
  <2>1. ASSUME NEW x \in Epoch, Pos(x) \in 1 .. MaxGossips PROVE Pos(x) <= MaxGossips
    BY <1>2, <2>1
  <2> QED BY <1>3, <2>1, DuplicateByPos
<1>5. \A x \in Epoch : Pos(x) = k => x = e
  BY PosIsInjective
<1>6. SUFFICES ASSUME NEW x \in Epoch
               PROVE  /\ Marked(g)
                      /\ Pos(x) \in 1 .. MaxGossips /\ IsDuplicate(g, x) =>
                            Pos(x) = k \/ IsDuplicate(f, x)
  <2> HIDE DEF g
  <2>1. \A x \in Epoch : /\ Marked(g)
                         /\ Pos(x) \in 1 .. MaxGossips /\ IsDuplicate(g, x) =>
                            Pos(x) = k \/ IsDuplicate(f, x)
    BY <1>6
  <2>2. Marked(g)
    BY <2>1
  <2> QED BY <1>5, <2>1, <2>2 DEF g
<1> DEFINE j == Pos(x)
<1>7. CASE ~f.init
  <2>1. g = [f EXCEPT !.init = TRUE, !.head = e]
    BY <1>7 DEF Record
  <2>2. g.init = TRUE /\ g.head = e /\ g.history = {}
    BY <1>1, <1>7, <2>1 DEF Filters
  <2>3. Marked(g)
    BY <2>2 DEF Marked
  <2>4. ASSUME j \in 1 .. MaxGossips, IsDuplicate(g, x) PROVE j = k
    <3>1. j \in Nat /\ j <= k /\ (j = k \/ k - j > History)
      BY <1>4, <2>2, <2>4
    <3> HIDE DEF j, k, g
    <3> QED BY <1>2, <2>4, <3>1 DEF HistoryReaches
  <2> QED BY <2>3, <2>4
<1>8. CASE f.init /\ IsForward(f.head, e)
  <2>1. h < k
    BY <1>1, <1>2, <1>8, ForwardIsLater
  <2>2. Ahead(f.head, e) = k - h
    BY <1>1, <1>2, <2>1, AheadByPos
  <2>3. g = Advance(f, e)
    BY <1>8 DEF Record
  <2>4. g = [f EXCEPT !.head = e, !.history = Mark(Shift(f.history, k - h), k - h - 1)]
    BY <2>2, <2>3 DEF Advance
  <2>5. /\ g.init = TRUE /\ g.head = e /\ g.history = Mark(Shift(f.history, k - h), k - h - 1)
    BY <1>1, <1>8, <2>4 DEF Filters
  <2>6. Shift(f.history, k - h) \subseteq Nat /\ k - h - 1 \in Nat
    BY <1>2, <2>1 DEF Shift
  <2>7. /\ g.history \subseteq Nat
        /\ \A i \in g.history : i = k - h - 1 \/ i - (k - h) \in f.history
    BY <2>5, <2>6 DEF Mark, Shift
  <2>8. Marked(g)
    BY <2>5, <2>7 DEF Marked
  <2>9. ASSUME j \in 1 .. MaxGossips, IsDuplicate(g, x) PROVE j = k \/ IsDuplicate(f, x)
    <3>1. j \in Nat /\ j <= k /\ (j = k \/ k - j > History \/ k - j - 1 \in g.history)
      BY <1>4, <2>5, <2>9
    <3>2. IsDuplicate(f, x) <=> j <= h /\ (j = h \/ h - j > History \/ h - j - 1 \in f.history)
      BY <1>4, <1>8, <2>9
    <3>3. ~(k - j > History)
      <4> HIDE DEF j, k, g
      <4> QED BY <1>2, <2>9, <3>1 DEF HistoryReaches
    <3>4. ASSUME k - j - 1 \in g.history PROVE IsDuplicate(f, x)
      <4>1. k - j - 1 = k - h - 1 \/ (k - j - 1) - (k - h) \in f.history
        BY <2>7, <3>4
      <4>2. CASE k - j - 1 = k - h - 1
        <5>1. j = h
          <6> HIDE DEF j, k, h
          <6> QED BY <1>2, <3>1, <4>2
        <5> QED BY <1>2, <3>2, <5>1
      <4>3. CASE (k - j - 1) - (k - h) \in f.history
        <5>1. (k - j - 1) - (k - h) = h - j - 1
          <6> HIDE DEF j, k, h
          <6> QED BY <1>2, <3>1
        <5>2. h - j - 1 \in f.history /\ h - j - 1 \in Nat
          BY <1>1, <4>3, <5>1
        <5>3. j <= h
          <6> HIDE DEF j, k, h
          <6> QED BY <1>2, <3>1, <5>2
        <5> QED BY <3>2, <5>2, <5>3
      <4> QED BY <4>1, <4>2, <4>3
    <3> QED BY <3>1, <3>3, <3>4
  <2> QED BY <2>8, <2>9
<1>9. CASE f.init /\ ~IsForward(f.head, e) /\ IsDuplicate(f, e)
  <2>1. g = f
    BY <1>9 DEF Record
  <2> QED BY <2>1
<1>10. CASE f.init /\ ~IsForward(f.head, e) /\ ~IsDuplicate(f, e)
  <2>1. k <= h
    BY <1>1, <1>2, <1>10, ForwardIsLater
  <2>2. k < h /\ h - k <= History
    BY <1>2, <1>4, <1>10, <2>1
  <2>3. Ahead(e, f.head) = h - k
    BY <1>1, <2>1, AheadByPos
  <2>4. g = [f EXCEPT !.history = Mark(f.history, h - k - 1)]
    BY <1>10, <2>3 DEF Record
  <2>5. Mark(f.history, h - k - 1) = f.history \cup {h - k - 1} /\ h - k - 1 \in Nat
    BY <1>2, <2>2 DEF Mark
  <2>6. g.init = TRUE /\ g.head = f.head /\ g.history = f.history \cup {h - k - 1}
    BY <1>1, <1>10, <2>4, <2>5 DEF Filters
  <2>7. Marked(g)
    BY <1>1, <2>5, <2>6 DEF Marked
  <2>8. ASSUME j \in 1 .. MaxGossips, IsDuplicate(g, x) PROVE j = k \/ IsDuplicate(f, x)
    <3>1. j \in Nat /\ j <= h /\ (j = h \/ h - j > History \/ h - j - 1 \in g.history)
      BY <1>4, <2>6, <2>8
    <3>2. IsDuplicate(f, x) <=> j <= h /\ (j = h \/ h - j > History \/ h - j - 1 \in f.history)
      BY <1>4, <1>10, <2>8
    <3>3. ASSUME h - j - 1 = h - k - 1 PROVE j = k
      <4> HIDE DEF j, k, h
      <4> QED BY <1>2, <3>1, <3>3
    <3> QED BY <2>6, <3>1, <3>2, <3>3
  <2> QED BY <2>7, <2>8
<1> QED BY <1>1, <1>7, <1>8, <1>9, <1>10

\* Before the first gossip the filters know none of them.
LEMMA ExactInvInit == EpochsApart /\ GossipInit => ExactInv
<1> SUFFICES ASSUME EpochsApart, GossipInit PROVE ExactInv
  OBVIOUS
<1>1. GossipInv
  BY GossipInvInit
<1>2. EpochMod \in Nat \ {0} /\ StartEpoch \in Epoch /\ StartEpoch \in Int /\ MaxGossips \in Nat
  BY FilterAssumption, GossipAssumption DEF Epoch
<1>3. Marked(StartFilter)
  BY FilterAssumption DEF StartFilter, EmptyFilter, Marked
<1>4. ASSUME NEW x \in Epoch, Pos(x) \in 1 .. MaxGossips PROVE ~IsDuplicate(StartFilter, x)
  <2>1. CASE StartEpoch = 0
    BY <2>1 DEF StartFilter, EmptyFilter, IsDuplicate
  <2>2. CASE StartEpoch # 0
    <3>1. StartFilter.head = StartEpoch - 1
      BY <2>2 DEF StartFilter
    <3>2. Pos(StartFilter.head) = 0
      <4>1. EpochMod * 0 + 0 = (StartEpoch - 1) - (StartEpoch - 1) /\ 0 \in 0 .. EpochMod - 1
        BY <1>2
      <4>2. (EpochMod * 0 + 0) % EpochMod = 0
        BY <1>2, <4>1, ModUnique
      <4> QED BY <3>1, <4>1, <4>2 DEF Pos, Ahead
    <3>3. InReach(StartFilter)
      <4>1. [orb |-> 0, sat |-> 0] \in Nodes
        BY GossipAssumption DEF Nodes, Points, TorusType, IndexMod
      <4> QED BY <1>1, <4>1 DEF GossipInv, FilteredInv, GossipInit
    <3>4. Pos(x) <= MaxGossips /\ Pos(x) \in Nat /\ Pos(x) > 0
      BY <1>2, <1>4
    <3>5. IsDuplicate(StartFilter, x) => Pos(x) <= 0
      BY <3>2, <3>3, <3>4, DuplicateByPos
    <3> QED BY <3>4, <3>5
  <2> QED BY <2>1, <2>2
<1> QED BY <1>3, <1>4 DEF GossipInit, ExactInv

\* What a satellite has seen it has seen for ever.
LEMMA SeenStays ==
    ASSUME gossips \subseteq gossips', \A n \in Nodes : received[n] \subseteq received'[n]
    PROVE  \A n \in Nodes : \A e : Seen(n, e) => Seen(n, e)'
  BY DEF Seen

\* A new gossip starts on all four links of its origin, unless a write fails.
LEMMA OriginateSpreads ==
    ASSUME EpochsApart, HistoryReaches, GossipInv, ExactInv, SpreadInv,
           NEW n \in Originators, Originate(n)
    PROVE  ExactInv' /\ SpreadInv'
<1>0. PICK e : e = next_epoch[n]
  OBVIOUS
<1> DEFINE m == [origin |-> n, epoch |-> e]
<1>1. /\ gossips' = gossips \cup {m} /\ received' = received
      /\ dedup' = [dedup EXCEPT ![n] = Record(dedup[n], e)]
  BY <1>0 DEF Originate
<1>2. /\ n \in Nodes /\ e \in Epoch /\ m.epoch = e /\ m.origin = n
      /\ DOMAIN dedup = Nodes /\ InReach(dedup[n])
      /\ \A o \in Nodes : received[o] \subseteq gossips
  BY <1>0, GossipAssumption DEF GossipInv, NumberedInv, FilteredInv
<1>3. Pos(e) \in 1 .. MaxGossips
  <2> DEFINE c == Cardinality(gossips)
  <2>1. c \in Nat /\ Pos(e) \in 1 .. (c + 1) /\ c < MaxGossips /\ MaxGossips \in Nat
    BY <1>0, FS_CardinalityType, GossipAssumption DEF GossipInv, NumberedInv, Originate
  <2> HIDE DEF c
  <2> QED BY <2>1
<1>4. \A o \in Nodes : \A x : Seen(o, x) => Seen(o, x)'
  BY <1>1, SeenStays
<1>5. Seen(n, e)'
  <2>1. m \in gossips' /\ m.epoch = e /\ m.origin = n
    BY <1>1, <1>2
  <2> HIDE DEF m
  <2> QED BY <2>1 DEF Seen
<1>6. ExactInv'
  <2>1. /\ dedup'[n] = Record(dedup[n], e)
        /\ \A o \in Nodes : o # n => dedup'[o] = dedup[o]
    BY <1>1, <1>2
  <2>2. /\ Marked(Record(dedup[n], e))
        /\ \A x \in Epoch :
              Pos(x) \in 1 .. MaxGossips /\ IsDuplicate(Record(dedup[n], e), x) =>
                 x = e \/ IsDuplicate(dedup[n], x)
    BY <1>2, <1>3, FilterIsExact DEF ExactInv
  <2>3. ASSUME NEW o \in Nodes
        PROVE  /\ Marked(dedup'[o])
               /\ \A x \in Epoch : Pos(x) \in 1 .. MaxGossips /\ IsDuplicate(dedup'[o], x) =>
                     Seen(o, x)'
    <3>1. /\ Marked(dedup[o])
          /\ \A x \in Epoch : Pos(x) \in 1 .. MaxGossips /\ IsDuplicate(dedup[o], x) => Seen(o, x)
      BY DEF ExactInv
    <3>2. CASE o = n
      <4>1. Marked(dedup'[o])
        BY <2>1, <2>2, <3>2
      <4>2. ASSUME NEW x \in Epoch, Pos(x) \in 1 .. MaxGossips, IsDuplicate(dedup'[o], x)
            PROVE  Seen(o, x)'
        <5>1. x = e \/ IsDuplicate(dedup[n], x)
          BY <2>1, <2>2, <3>2, <4>2
        <5>2. CASE x = e
          BY <1>5, <3>2, <5>2
        <5>3. CASE IsDuplicate(dedup[n], x)
          BY <1>4, <3>1, <3>2, <4>2, <5>3
        <5> QED BY <5>1, <5>2, <5>3
      <4> QED BY <4>1, <4>2
    <3>3. CASE o # n
      BY <1>4, <2>1, <3>1, <3>3
    <3> QED BY <3>2, <3>3
  <2> QED BY <2>3 DEF ExactInv, Marked, Pos
<1>7. SpreadInv'
  <2> SUFFICES ASSUME ~impaired', NEW o \in Nodes, NEW d \in Direction, NEW g \in gossips',
                      o = g.origin \/ g \in received[o]
               PROVE  Copy(o, d, g) \in transit' \/ Seen(Neighbor(Mesh, o, d), g.epoch)'
    BY <1>1 DEF SpreadInv, Copy
  <2>1. PICK k \in 0 .. 4 :
           /\ transit' = transit \cup {Copy(n, f, m) : f \in FirstDirections(k)}
           /\ impaired' = (impaired \/ k < 4)
    BY <1>0 DEF Originate
  <2>2. k = 4 /\ ~impaired
    <3>1. ~impaired /\ ~(k < 4)
      BY <2>1, Zenon
    <3> QED BY <3>1
  <2>3. FirstDirections(4) = Direction
    <3>1. <<"North", "South", "East", "West">>[1] = "North"
          /\ <<"North", "South", "East", "West">>[2] = "South"
          /\ <<"North", "South", "East", "West">>[3] = "East"
          /\ <<"North", "South", "East", "West">>[4] = "West"
      OBVIOUS
    <3>2. 1 .. 4 = {1, 2, 3, 4}
      OBVIOUS
    <3> QED BY <3>1, <3>2 DEF FirstDirections, Direction
  <2>4. CASE g \in gossips
    <3>1. Copy(o, d, g) \in transit \/ Seen(Neighbor(Mesh, o, d), g.epoch)
      BY <2>2, <2>4 DEF SpreadInv
    <3> QED BY <1>4, <2>1, <3>1, NeighborIsNode
  <2>5. CASE g = m /\ g \notin gossips
    <3>1. o = n
      BY <1>2, <2>5
    <3> QED BY <2>1, <2>2, <2>3, <2>5, <3>1
  <2> QED BY <1>1, <2>4, <2>5
<1> QED BY <1>6, <1>7

\* A satellite that reads a copy has then seen its epoch, and passes on what it delivers.
LEMMA ReadSpreads ==
    ASSUME EpochsApart, HistoryReaches, GossipInv, ExactInv, SpreadInv, NEW c \in transit,
           ReadCopy(c)
    PROVE  ExactInv' /\ SpreadInv'
<1> DEFINE n == c.to
           m == c.msg
           e == c.msg.epoch
<1>1. dedup' = [dedup EXCEPT ![n] = Record(dedup[n], e)] /\ gossips' = gossips
      /\ impaired' = impaired
  BY DEF ReadCopy
<1>2. /\ n \in Nodes /\ m \in gossips /\ DOMAIN dedup = Nodes /\ InReach(dedup[n])
      /\ received \in [Nodes -> SUBSET gossips]
  BY DEF GossipInv, FilteredInv
<1>3. e \in Epoch /\ m.origin \in Nodes /\ Pos(e) \in 1 .. MaxGossips
  <2>1. e \in Epoch /\ m.origin \in Nodes /\ Pos(e) <= MaxGossips
    BY <1>2, GossipFacts
  <2>2. Pos(e) \in 1 .. (Pos(next_epoch[m.origin]) - 1)
    BY <1>2 DEF GossipInv, NumberedInv
  <2>3. Pos(e) \in Int /\ 1 <= Pos(e) /\ MaxGossips \in Nat
    BY <2>2, GossipAssumption
  <2> QED BY <2>1, <2>3
<1>4. /\ \A o \in Nodes : received[o] \subseteq received'[o]
      /\ \A o \in Nodes : o # n => received'[o] = received[o]
      /\ received'[n] \subseteq received[n] \cup {m}
      /\ IsDuplicate(dedup[n], e) => received'[n] = received[n]
      /\ ~IsDuplicate(dedup[n], e) => m \in received'[n]
  BY <1>2 DEF ReadCopy
<1>5. \A o \in Nodes : \A x : Seen(o, x) => Seen(o, x)'
  BY <1>1, <1>4, SeenStays
<1>6. Seen(n, e)'
  <2>1. CASE IsDuplicate(dedup[n], e)
    BY <1>2, <1>3, <1>5, <2>1 DEF ExactInv
  <2>2. CASE ~IsDuplicate(dedup[n], e)
    BY <1>1, <1>2, <1>4, <2>2 DEF Seen
  <2> QED BY <2>1, <2>2
<1>7. ExactInv'
  <2>1. /\ dedup'[n] = Record(dedup[n], e)
        /\ \A o \in Nodes : o # n => dedup'[o] = dedup[o]
    BY <1>1, <1>2
  <2>2. /\ Marked(Record(dedup[n], e))
        /\ \A x \in Epoch :
              Pos(x) \in 1 .. MaxGossips /\ IsDuplicate(Record(dedup[n], e), x) =>
                 x = e \/ IsDuplicate(dedup[n], x)
    BY <1>2, <1>3, FilterIsExact DEF ExactInv
  <2>3. ASSUME NEW o \in Nodes
        PROVE  /\ Marked(dedup'[o])
               /\ \A x \in Epoch : Pos(x) \in 1 .. MaxGossips /\ IsDuplicate(dedup'[o], x) =>
                     Seen(o, x)'
    <3>1. /\ Marked(dedup[o])
          /\ \A x \in Epoch : Pos(x) \in 1 .. MaxGossips /\ IsDuplicate(dedup[o], x) => Seen(o, x)
      BY DEF ExactInv
    <3>2. CASE o = n
      BY <1>5, <1>6, <2>1, <2>2, <3>1, <3>2
    <3>3. CASE o # n
      BY <1>5, <2>1, <3>1, <3>3
    <3> QED BY <3>2, <3>3
  <2> QED BY <2>3 DEF ExactInv, Marked, Pos
<1>8. SpreadInv'
  <2> SUFFICES ASSUME ~impaired, NEW o \in Nodes, NEW d \in Direction, NEW g \in gossips,
                      o = g.origin \/ g \in received'[o]
               PROVE  Copy(o, d, g) \in transit' \/ Seen(Neighbor(Mesh, o, d), g.epoch)'
    BY <1>1 DEF SpreadInv, Copy
  <2>1. Neighbor(Mesh, o, d) \in Nodes
    BY NeighborIsNode
  <2>2. CASE o = g.origin \/ g \in received[o]
    <3>1. Copy(o, d, g) \in transit \/ Seen(Neighbor(Mesh, o, d), g.epoch)
      BY <2>2 DEF SpreadInv
    <3>2. CASE Copy(o, d, g) = c
      <4>1. Neighbor(Mesh, o, d) = n /\ g = m
        BY <3>2 DEF Copy
      <4> QED BY <1>6, <4>1
    <3>3. CASE Copy(o, d, g) \in transit /\ Copy(o, d, g) # c
      BY <3>3 DEF ReadCopy
    <3> QED BY <1>5, <2>1, <3>1, <3>2, <3>3
  <2>3. CASE o = n /\ g = m /\ g \notin received[o] /\ g.origin # o
    <3>1. ~IsDuplicate(dedup[n], e)
      BY <1>4, <2>3
    <3>2. transit' = (transit \ {c}) \cup {Copy(n, f, m) : f \in Forwards(n, m)}
      BY <3>1 DEF ReadCopy
    <3>3. CASE Neighbor(Mesh, n, d) # m.origin
      <4>1. d \in Forwards(n, m)
        BY <3>3 DEF Forwards
      <4> QED BY <2>3, <3>2, <4>1
    <3>4. CASE Neighbor(Mesh, n, d) = m.origin
      BY <1>1, <1>2, <2>3, <3>4 DEF Seen
    <3> QED BY <3>3, <3>4
  <2> QED BY <1>4, <2>2, <2>3
<1> QED BY <1>7, <1>8

\* Another satellite has a neighbour that is nearer, and that has it as a neighbour.
LEMMA NearerNeighbor ==
    ASSUME NEW p \in Nodes, NEW q \in Nodes, p # q
    PROVE  \E r \in Nodes, d \in Direction :
              /\ Neighbor(Mesh, r, d) = p
              /\ Hops(Mesh, r, q) \in Nat /\ Hops(Mesh, p, q) \in Nat
              /\ Hops(Mesh, r, q) < Hops(Mesh, p, q)
<1> DEFINE n == Mesh.sats
           m == Mesh.orbs
<1>1. /\ n \in 1 .. 255 /\ m \in 1 .. 255
      /\ p.sat \in 0 .. (n - 1) /\ q.sat \in 0 .. (n - 1)
      /\ p.orb \in 0 .. (m - 1) /\ q.orb \in 0 .. (m - 1)
      /\ p = [orb |-> p.orb, sat |-> p.sat] /\ q = [orb |-> q.orb, sat |-> q.sat]
  BY GossipAssumption DEF TorusType, IndexMod, Nodes, Points
<1>2. p.orb # q.orb \/ p.sat # q.sat
  BY <1>1
<1>3. \A k \in 1 .. 255 : \A i \in 0 .. (k - 1) :
         /\ PrevIndex(i, k) \in 0 .. (k - 1) /\ NextIndex(i, k) \in 0 .. (k - 1)
         /\ NextIndex(PrevIndex(i, k), k) = i /\ PrevIndex(NextIndex(i, k), k) = i
  BY DEF PrevIndex, NextIndex
<1>4. \A k \in 1 .. 255 : \A i, j \in 0 .. (k - 1) : RingDistance(i, j, k) \in Nat
  <2> SUFFICES ASSUME NEW k \in 1 .. 255, NEW i \in 0 .. (k - 1), NEW j \in 0 .. (k - 1)
               PROVE  RingDistance(i, j, k) \in Nat
    OBVIOUS
  <2> QED BY DistanceIs
<1>5. \A k \in 1 .. 255 : \A i, j \in 0 .. (k - 1) : i # j =>
         \/ RingDistance(PrevIndex(i, k), j, k) < RingDistance(i, j, k)
         \/ RingDistance(NextIndex(i, k), j, k) < RingDistance(i, j, k)
  <2> SUFFICES ASSUME NEW k \in 1 .. 255, NEW i \in 0 .. (k - 1), NEW j \in 0 .. (k - 1), i # j
               PROVE  \/ RingDistance(PrevIndex(i, k), j, k) < RingDistance(i, j, k)
                      \/ RingDistance(NextIndex(i, k), j, k) < RingDistance(i, j, k)
    OBVIOUS
  <2>1. RingDistance(i, j, k) \in Nat
    BY <1>4
  <2>2. \/ RingDistance(PrevIndex(i, k), j, k) = RingDistance(i, j, k) - 1
        \/ RingDistance(NextIndex(i, k), j, k) = RingDistance(i, j, k) - 1
    BY RingStep
  <2> QED BY <2>1, <2>2
<1>6. \A s \in 0 .. (n - 1), o \in 0 .. (m - 1) :
         /\ [orb |-> o, sat |-> s] \in Nodes
         /\ Hops(Mesh, [orb |-> o, sat |-> s], q) =
               RingDistance(o, q.orb, m) + RingDistance(s, q.sat, n)
  BY <1>1 DEF Nodes, Points, Hops
<1>7. /\ RingDistance(p.orb, q.orb, m) \in Nat /\ RingDistance(p.sat, q.sat, n) \in Nat
      /\ Hops(Mesh, p, q) = RingDistance(p.orb, q.orb, m) + RingDistance(p.sat, q.sat, n)
  BY <1>1, <1>4 DEF Hops
<1>8. ASSUME NEW s \in 0 .. (n - 1), NEW d \in Direction,
             RingDistance(s, q.sat, n) < RingDistance(p.sat, q.sat, n),
             Neighbor(Mesh, [orb |-> p.orb, sat |-> s], d) = p
      PROVE  \E r \in Nodes, x \in Direction :
                /\ Neighbor(Mesh, r, x) = p
                /\ Hops(Mesh, r, q) \in Nat /\ Hops(Mesh, p, q) \in Nat
                /\ Hops(Mesh, r, q) < Hops(Mesh, p, q)
  <2> DEFINE r == [orb |-> p.orb, sat |-> s]
  <2>1. r \in Nodes /\ Hops(Mesh, r, q) = RingDistance(p.orb, q.orb, m) + RingDistance(s, q.sat, n)
    BY <1>1, <1>6
  <2>2. RingDistance(s, q.sat, n) \in Nat
    BY <1>1, <1>4
  <2>3. Hops(Mesh, r, q) \in Nat /\ Hops(Mesh, p, q) \in Nat /\ Hops(Mesh, r, q) < Hops(Mesh, p, q)
    BY <1>7, <1>8, <2>1, <2>2
  <2> HIDE DEF r
  <2> QED BY <1>8, <2>1, <2>3 DEF r
<1>9. ASSUME NEW o \in 0 .. (m - 1), NEW d \in Direction,
             RingDistance(o, q.orb, m) < RingDistance(p.orb, q.orb, m),
             Neighbor(Mesh, [orb |-> o, sat |-> p.sat], d) = p
      PROVE  \E r \in Nodes, x \in Direction :
                /\ Neighbor(Mesh, r, x) = p
                /\ Hops(Mesh, r, q) \in Nat /\ Hops(Mesh, p, q) \in Nat
                /\ Hops(Mesh, r, q) < Hops(Mesh, p, q)
  <2> DEFINE r == [orb |-> o, sat |-> p.sat]
  <2>1. r \in Nodes /\ Hops(Mesh, r, q) = RingDistance(o, q.orb, m) + RingDistance(p.sat, q.sat, n)
    BY <1>1, <1>6
  <2>2. RingDistance(o, q.orb, m) \in Nat
    BY <1>1, <1>4
  <2>3. Hops(Mesh, r, q) \in Nat /\ Hops(Mesh, p, q) \in Nat /\ Hops(Mesh, r, q) < Hops(Mesh, p, q)
    BY <1>7, <1>9, <2>1, <2>2
  <2> HIDE DEF r
  <2> QED BY <1>9, <2>1, <2>3 DEF r
<1>10. \A s, o : /\ Neighbor(Mesh, [orb |-> o, sat |-> s], "North") = [orb |-> o, sat |-> PrevIndex(s, n)]
                 /\ Neighbor(Mesh, [orb |-> o, sat |-> s], "South") = [orb |-> o, sat |-> NextIndex(s, n)]
                 /\ Neighbor(Mesh, [orb |-> o, sat |-> s], "East") = [orb |-> NextIndex(o, m), sat |-> s]
                 /\ Neighbor(Mesh, [orb |-> o, sat |-> s], "West") = [orb |-> PrevIndex(o, m), sat |-> s]
  BY DEF Neighbor
<1>11. "North" \in Direction /\ "South" \in Direction /\ "East" \in Direction /\ "West" \in Direction
  BY DEF Direction
<1>12. /\ NextIndex(PrevIndex(p.sat, n), n) = p.sat /\ PrevIndex(NextIndex(p.sat, n), n) = p.sat
       /\ NextIndex(PrevIndex(p.orb, m), m) = p.orb /\ PrevIndex(NextIndex(p.orb, m), m) = p.orb
  <2> HIDE DEF n, m
  <2> QED BY <1>1, <1>3
<1>13. CASE p.sat # q.sat
  <2>1. \/ RingDistance(PrevIndex(p.sat, n), q.sat, n) < RingDistance(p.sat, q.sat, n)
        \/ RingDistance(NextIndex(p.sat, n), q.sat, n) < RingDistance(p.sat, q.sat, n)
    BY <1>1, <1>5, <1>13
  <2>2. CASE RingDistance(PrevIndex(p.sat, n), q.sat, n) < RingDistance(p.sat, q.sat, n)
    <3>1. Neighbor(Mesh, [orb |-> p.orb, sat |-> PrevIndex(p.sat, n)], "South") = p
      BY <1>1, <1>10, <1>12
    <3> QED BY <1>1, <1>3, <1>8, <1>11, <2>2, <3>1
  <2>3. CASE RingDistance(NextIndex(p.sat, n), q.sat, n) < RingDistance(p.sat, q.sat, n)
    <3>1. Neighbor(Mesh, [orb |-> p.orb, sat |-> NextIndex(p.sat, n)], "North") = p
      BY <1>1, <1>10, <1>12
    <3> QED BY <1>1, <1>3, <1>8, <1>11, <2>3, <3>1
  <2> QED BY <2>1, <2>2, <2>3
<1>14. CASE p.orb # q.orb
  <2>1. \/ RingDistance(PrevIndex(p.orb, m), q.orb, m) < RingDistance(p.orb, q.orb, m)
        \/ RingDistance(NextIndex(p.orb, m), q.orb, m) < RingDistance(p.orb, q.orb, m)
    BY <1>1, <1>5, <1>14
  <2>2. CASE RingDistance(PrevIndex(p.orb, m), q.orb, m) < RingDistance(p.orb, q.orb, m)
    <3>1. Neighbor(Mesh, [orb |-> PrevIndex(p.orb, m), sat |-> p.sat], "East") = p
      BY <1>1, <1>10, <1>12
    <3> QED BY <1>1, <1>3, <1>9, <1>11, <2>2, <3>1
  <2>3. CASE RingDistance(NextIndex(p.orb, m), q.orb, m) < RingDistance(p.orb, q.orb, m)
    <3>1. Neighbor(Mesh, [orb |-> NextIndex(p.orb, m), sat |-> p.sat], "West") = p
      BY <1>1, <1>10, <1>12
    <3> QED BY <1>1, <1>3, <1>9, <1>11, <2>3, <3>1
  <2> QED BY <2>1, <2>2, <2>3
<1> QED BY <1>2, <1>13, <1>14

\* When the links are empty, what one satellite has seen its neighbours have seen, and so
\* has everyone: a first satellite, by the distance from the origin, that has not seen the
\* epoch would have a nearer neighbour that has.
LEMMA SpreadReachesAll ==
    ASSUME GossipInv, SpreadInv, transit = {}, ~impaired, NEW m \in gossips, NEW n \in Nodes
    PROVE  Seen(n, m.epoch)
<1> DEFINE e == m.epoch
           o == m.origin
           Unseen == {p \in Nodes : ~Seen(p, e)}
           Far == {Hops(Mesh, p, o) : p \in Unseen}
<1>1. o \in Nodes
  BY GossipFacts
<1>2. Seen(o, e)
  BY DEF Seen
<1>3. \A p \in Unseen : p # o
  BY <1>2
<1>4. ASSUME NEW r \in Nodes, NEW d \in Direction, Seen(r, e) PROVE Seen(Neighbor(Mesh, r, d), e)
  <2>1. PICK g \in gossips : g.epoch = e /\ (g \in received[r] \/ g.origin = r)
    BY <1>4 DEF Seen
  <2> QED BY <2>1 DEF SpreadInv
<1>5. SUFFICES ASSUME Unseen # {} PROVE FALSE
  OBVIOUS
<1>6. Far \subseteq Nat /\ Far # {}
  <2>1. \A p \in Unseen : Hops(Mesh, p, o) \in Nat
    BY <1>1, <1>3, NearerNeighbor
  <2> QED BY <1>5, <2>1
<1>7. PICK p \in Unseen : \A x \in Far : Hops(Mesh, p, o) <= x
  <2> HIDE DEF Unseen
  <2>1. PICK x \in Far : \A y \in Far : x <= y
    <3> HIDE DEF Far
    <3> QED BY <1>6, LeastNat
  <2> QED BY <2>1
<1>8. PICK r \in Nodes, d \in Direction :
         /\ Neighbor(Mesh, r, d) = p /\ Hops(Mesh, r, o) \in Nat /\ Hops(Mesh, p, o) \in Nat
         /\ Hops(Mesh, r, o) < Hops(Mesh, p, o)
  BY <1>1, <1>3, <1>7, NearerNeighbor
<1>9. Hops(Mesh, r, o) \notin Far
  <2> HIDE DEF Far
  <2> QED BY <1>7, <1>8
<1>10. Seen(r, e)
  BY <1>9
<1> QED BY <1>4, <1>7, <1>8, <1>10

\* A flood that has ended, with nothing lost, reached every satellite of the torus, but for
\* those that had seen the same epoch from another origin, and so on a torus of every size
\* and with every number of originators.
THEOREM GossipFloodReaches ==
    ASSUME EpochsApart, HistoryReaches
    PROVE  GossipSpec => []FloodReaches
<1> DEFINE Inv == GossipInv /\ ExactInv /\ SpreadInv
<1>1. GossipInit => Inv
  BY GossipInvInit, ExactInvInit DEF GossipInit, SpreadInv
<1>2. Inv /\ [GossipNext]_gossip_vars => Inv'
  <2> SUFFICES ASSUME GossipInv, ExactInv, SpreadInv, [GossipNext]_gossip_vars
               PROVE  GossipInv' /\ ExactInv' /\ SpreadInv'
    OBVIOUS
  <2>1. GossipInv'
    BY GossipInvStep
  <2>2. CASE \E n \in Originators : Originate(n)
    BY <2>1, <2>2, OriginateSpreads
  <2>3. CASE GossipStep
    BY <2>1, <2>3, ReadSpreads DEF GossipStep
  <2>4. CASE \E c \in transit : LoseCopy(c)
    <3>1. impaired' = TRUE /\ UNCHANGED <<dedup, gossips, received>>
      BY <2>4 DEF LoseCopy
    <3> QED BY <2>1, <3>1 DEF ExactInv, SpreadInv, Seen, Marked
  <2>5. CASE UNCHANGED gossip_vars
    BY <2>1, <2>5 DEF gossip_vars, ExactInv, SpreadInv, Seen, Marked, Copy
  <2> QED BY <2>2, <2>3, <2>4, <2>5 DEF GossipNext
<1>3. Inv => FloodReaches
  <2> SUFFICES ASSUME GossipInv, SpreadInv, transit = {}, ~impaired,
                      NEW m \in gossips, NEW n \in Nodes
               PROVE  \/ n = m.origin \/ m \in received[n]
                      \/ \E other \in gossips \ {m} :
                            other.epoch = m.epoch /\ (other \in received[n] \/ other.origin = n)
    BY DEF FloodReaches
  <2> QED BY SpreadReachesAll DEF Seen
<1> QED BY <1>1, <1>2, <1>3, PTL DEF GossipSpec
-----------------------------------------------------------------------------
(* The output ring.                                                        *)

Rings == [buf : [0 .. RingBytes - 1 -> Nat], head : Nat, tail : Nat, count : Nat,
          panicked : BOOLEAN]

\* Packet d lies at x, behind its length.
Holds(buf, x, d) ==
    /\ buf[x] * ByteMod + buf[x + 1] = Len(d)
    /\ \A i \in 1 .. Len(d) : buf[x + 1 + i] = d[i]

\* The bytes x .. y - 1 are within the part of the ring that is in use: from the tail to
\* the head, or to the end and on to the head.
InUse(head, tail, x, y) ==
    /\ tail < head => tail <= x /\ y <= head
    /\ head < tail => tail <= x \/ y <= head

\* A packet that follows position b starts there, or behind a marked gap.
Joins(r, b, x) ==
    \/ x = Cursor(b)
    \/ /\ x = 0 /\ b + LEN_SIZE <= RingBytes /\ r.buf[b] = 0 /\ r.buf[b + 1] = 0
       /\ r.head < r.tail /\ r.tail <= b

\* A packet at xj .. yj - 1 is read before one at xk: it lies below it in the same lap,
\* or in the lap before.
Before(tail, xj, yj, xk) ==
    \/ tail <= xj /\ xk < tail
    \/ yj <= xk /\ (tail <= xk => tail <= xj)

\* The packets of p lie at x .. y - 1, from the tail to the head.
Layout(r, p, x, y) ==
    /\ r \in Rings /\ ~r.panicked /\ r.count = Len(p)
    /\ r.head < RingBytes /\ r.tail < RingBytes
    /\ p \in Seq(Seq(Nat)) /\ x \in Seq(Nat) /\ y \in Seq(Nat) /\ Len(x) = Len(p) /\ Len(y) = Len(p)
    /\ Len(p) = 0 => r.head = 0 /\ r.tail = 0
    /\ Len(p) > 0 => r.head # r.tail /\ r.head = Cursor(y[Len(p)]) /\ Joins(r, r.tail, x[1])
    /\ \A k \in 1 .. Len(p) :
          /\ y[k] = x[k] + LEN_SIZE + Len(p[k]) /\ y[k] <= RingBytes /\ Len(p[k]) > 0
          /\ Holds(r.buf, x[k], p[k]) /\ InUse(r.head, r.tail, x[k], y[k])
          /\ k > 1 => Joins(r, y[k - 1], x[k])
    /\ \A j, k \in 1 .. Len(p) : j < k => Before(r.tail, x[j], y[j], x[k])

\* The facts of a layout.
LEMMA LayoutTypes ==
    ASSUME NEW r, NEW p, NEW x, NEW y, Layout(r, p, x, y)
    PROVE  /\ r \in Rings /\ ~r.panicked /\ r.count = Len(p)
           /\ r.head \in Nat /\ r.tail \in Nat /\ r.head < RingBytes /\ r.tail < RingBytes
           /\ r.buf \in [0 .. RingBytes - 1 -> Nat]
           /\ Len(p) \in Nat /\ RingBytes \in Nat /\ RingBytes >= 2 /\ ByteMod \in Nat \ {0, 1}
           /\ \A k \in 1 .. Len(p) :
                 /\ x[k] \in Nat /\ y[k] \in Nat /\ p[k] \in Seq(Nat) /\ Len(p[k]) \in Nat
                 /\ Len(p[k]) > 0 /\ y[k] = x[k] + 2 + Len(p[k]) /\ y[k] <= RingBytes
                 /\ x[k] < y[k]
<1>1. /\ r \in Rings /\ ~r.panicked /\ r.count = Len(p) /\ r.head < RingBytes /\ r.tail < RingBytes
      /\ p \in Seq(Seq(Nat)) /\ x \in Seq(Nat) /\ y \in Seq(Nat) /\ Len(x) = Len(p) /\ Len(y) = Len(p)
  BY DEF Layout
<1>2. r.head \in Nat /\ r.tail \in Nat /\ r.buf \in [0 .. RingBytes - 1 -> Nat]
  BY <1>1 DEF Rings
<1>3. Len(p) \in Nat /\ RingBytes \in Nat /\ RingBytes >= 2 /\ ByteMod \in Nat \ {0, 1}
  BY <1>1, RingAssumption DEF LEN_SIZE
<1>4. ASSUME NEW k \in 1 .. Len(p)
      PROVE  /\ x[k] \in Nat /\ y[k] \in Nat /\ p[k] \in Seq(Nat) /\ Len(p[k]) \in Nat
             /\ Len(p[k]) > 0 /\ y[k] = x[k] + 2 + Len(p[k]) /\ y[k] <= RingBytes
             /\ x[k] < y[k]
  <2>1. x[k] \in Nat /\ y[k] \in Nat /\ p[k] \in Seq(Nat)
    BY <1>1, SMTT(40)
  <2>2. Len(p[k]) \in Nat
    BY <2>1
  <2>3. Len(p[k]) > 0 /\ y[k] = x[k] + 2 + Len(p[k]) /\ y[k] <= RingBytes
    BY DEF Layout, LEN_SIZE
  <2>4. ASSUME NEW a \in Nat, NEW b \in Nat, NEW c \in Nat, b = a + 2 + c PROVE a < b
    BY <2>4
  <2> QED BY <2>1, <2>2, <2>3, <2>4
<1> QED BY <1>1, <1>2, <1>3, <1>4

\* front() finds the first packet.
LEMMA LayoutFront ==
    ASSUME NEW r, NEW p, NEW x, NEW y, Layout(r, p, x, y), Len(p) > 0
    PROVE  /\ Front(r) = x[1] /\ ReadLen(r, x[1]) = Len(p[1])
           /\ Readable(r) /\ FrontPacket(r) = p[1]
<1> DEFINE N == RingBytes
<1>1. /\ Len(p) \in Nat /\ N \in Nat /\ r.tail \in Nat /\ r.head \in Nat /\ r.tail < N
      /\ r.buf \in [0 .. N - 1 -> Nat] /\ ByteMod \in Nat
  BY LayoutTypes
<1>2. 1 \in 1 .. Len(p)
  BY <1>1
<1>3. /\ x[1] \in Nat /\ y[1] \in Nat /\ p[1] \in Seq(Nat) /\ Len(p[1]) \in Nat
      /\ Len(p[1]) > 0 /\ y[1] = x[1] + 2 + Len(p[1]) /\ y[1] <= N
  BY <1>2, LayoutTypes
<1>4. Holds(r.buf, x[1], p[1]) /\ r.head # r.tail /\ Joins(r, r.tail, x[1])
  BY <1>2 DEF Layout
<1>5. ReadLen(r, x[1]) = Len(p[1])
  BY <1>4 DEF Holds, ReadLen
<1>6. Front(r) = x[1]
  <2>1. CASE x[1] = Cursor(r.tail)
    <3>1. x[1] = r.tail
      BY <1>1, <2>1 DEF Cursor
    <3> QED BY <1>3, <1>5, <3>1 DEF Front
  <2>2. CASE x[1] = 0 /\ r.tail + LEN_SIZE <= N /\ r.buf[r.tail] = 0 /\ r.buf[r.tail + 1] = 0
    <3>1. ReadLen(r, r.tail) = 0
      BY <1>1, <2>2 DEF ReadLen
    <3> QED BY <1>4, <2>2, <3>1 DEF Front
  <2> QED BY <1>4, <2>1, <2>2 DEF Joins
<1>7. Readable(r)
  BY <1>1, <1>3, <1>5, <1>6 DEF Readable, LEN_SIZE
<1>8. FrontPacket(r) = p[1]
  <2>1. FrontPacket(r) = [i \in 1 .. Len(p[1]) |-> r.buf[x[1] + 2 + i - 1]]
    BY <1>5, <1>6 DEF FrontPacket, LEN_SIZE
  <2>2. p[1] = [i \in 1 .. Len(p[1]) |-> p[1][i]]
    <3>1. ASSUME NEW s \in Seq(Nat) PROVE s = [i \in 1 .. Len(s) |-> s[i]]
      OBVIOUS
    <3> QED BY <1>3, <3>1
  <2>3. \A i \in 1 .. Len(p[1]) : r.buf[x[1] + 2 + i - 1] = p[1][i]
    <3> SUFFICES ASSUME NEW i \in 1 .. Len(p[1]) PROVE r.buf[x[1] + 2 + i - 1] = p[1][i]
      OBVIOUS
    <3>1. x[1] + 2 + i - 1 = x[1] + 1 + i
      <4>1. ASSUME NEW u \in Nat, NEW w \in Int PROVE u + 2 + w - 1 = u + 1 + w
        OBVIOUS
      <4>2. i \in Int
        BY <1>3
      <4> QED BY <1>3, <4>1, <4>2
    <3> QED BY <1>4, <3>1 DEF Holds
  <2> QED BY <2>1, <2>2, <2>3
<1> QED BY <1>5, <1>6, <1>7, <1>8
\* Cursors of a ring that is neither empty nor full, and a packet in use.
Cursors(head, tail, N) ==
    head \in Nat /\ tail \in Nat /\ N \in Nat /\ head < N /\ tail < N /\ head # tail
Placed(head, tail, N, x, y) ==
    x \in Nat /\ y \in Nat /\ x < y /\ y <= N /\ InUse(head, tail, x, y)

\* The tail behind a packet that ends at y.
Comes(t, y, N) == t \in Nat /\ (y = N => t = 0) /\ (y # N => t = y)

\* A packet stays in use when the first one is popped.
LEMMA PopPlaces ==
    ASSUME NEW head, NEW tail, NEW t, NEW N, Cursors(head, tail, N),
           NEW x1, NEW y1, Placed(head, tail, N, x1, y1), Comes(t, y1, N),
           NEW x, NEW y, Placed(head, tail, N, x, y), Before(tail, x1, y1, x)
    PROVE  /\ t < N /\ t # head /\ InUse(head, t, x, y)
           /\ tail < head => t < head
  BY DEF Cursors, Placed, InUse, Before, Comes

\* So does the order of two packets.
LEMMA PopOrder ==
    ASSUME NEW head, NEW tail, NEW t, NEW N, Cursors(head, tail, N),
           NEW x1, NEW y1, Placed(head, tail, N, x1, y1), Comes(t, y1, N),
           NEW xj, NEW yj, Placed(head, tail, N, xj, yj), Before(tail, x1, y1, xj),
           NEW xk, NEW yk, Placed(head, tail, N, xk, yk), Before(tail, x1, y1, xk),
           Before(tail, xj, yj, xk)
    PROVE  Before(t, xj, yj, xk)
  BY DEF Cursors, Placed, InUse, Before, Comes

\* And the gap behind a packet other than the first.
LEMMA PopGap ==
    ASSUME NEW head, NEW tail, NEW t, NEW N, Cursors(head, tail, N), head < tail,
           NEW x1, NEW y1, Placed(head, tail, N, x1, y1), Comes(t, y1, N),
           NEW xj, NEW yj, Placed(head, tail, N, xj, yj), Before(tail, x1, y1, xj), tail <= yj
    PROVE  head < t /\ t <= yj
  BY DEF Cursors, Placed, InUse, Before, Comes

\* A popped ring holds the other packets.
LEMMA LayoutPop ==
    ASSUME NEW r, NEW p, NEW x, NEW y, Layout(r, p, x, y), Len(p) > 0
    PROVE  /\ \E u, v : Layout(Pop(r), Tail(p), u, v)
           /\ Pop(r).count > 0 => Pop(r).head = r.head /\ (r.tail < r.head => Pop(r).tail < r.head)
<1> DEFINE N == RingBytes
           n == Len(p)
           q == Pop(r)
<1>1. /\ r \in Rings /\ ~r.panicked /\ r.count = n
      /\ r.head \in Nat /\ r.tail \in Nat /\ r.head < N /\ r.tail < N
      /\ r.buf \in [0 .. N - 1 -> Nat] /\ n \in Nat /\ N \in Nat
  BY LayoutTypes
<1>2. \A k \in 1 .. n : /\ x[k] \in Nat /\ y[k] \in Nat /\ p[k] \in Seq(Nat) /\ Len(p[k]) \in Nat
                        /\ Len(p[k]) > 0 /\ y[k] = x[k] + 2 + Len(p[k]) /\ y[k] <= N /\ x[k] < y[k]
  BY LayoutTypes
<1>3. /\ p \in Seq(Seq(Nat)) /\ x \in Seq(Nat) /\ y \in Seq(Nat) /\ Len(x) = n /\ Len(y) = n
      /\ r.head # r.tail /\ r.head = Cursor(y[n]) /\ Joins(r, r.tail, x[1])
  BY DEF Layout
<1>4. \A k \in 1 .. n :
          /\ Holds(r.buf, x[k], p[k]) /\ InUse(r.head, r.tail, x[k], y[k])
          /\ k > 1 => Joins(r, y[k - 1], x[k])
  BY DEF Layout
<1>5. \A j, k \in 1 .. n : j < k => Before(r.tail, x[j], y[j], x[k])
  BY DEF Layout
<1>6. Front(r) = x[1] /\ ReadLen(r, x[1]) = Len(p[1]) /\ Readable(r)
  BY LayoutFront
<1>7. 1 \in 1 .. n /\ n \in 1 .. n
  BY <1>1
<1>8. CASE n = 1
  <2>1. q = [r EXCEPT !.head = 0, !.tail = 0, !.count = 0]
    BY <1>1, <1>6, <1>8 DEF Pop
  <2>2. q \in Rings /\ ~q.panicked /\ q.count = 0 /\ q.head = 0 /\ q.tail = 0
    BY <1>1, <2>1 DEF Rings
  <2>3. Tail(p) \in Seq(Seq(Nat)) /\ Len(Tail(p)) = 0
    BY <1>3, <1>8
  <2>4. <<>> \in Seq(Nat) /\ Len(<<>>) = 0 /\ 1 .. 0 = {}
    OBVIOUS
  <2> HIDE DEF q
  <2>5. \A k \in 1 .. Len(Tail(p)) : FALSE
    BY <2>3, <2>4
  <2>6. PICK e : e = Tail(p)
    OBVIOUS
  <2>7. Layout(q, e, <<>>, <<>>)
    <3>1. 0 < RingBytes
      BY <1>1
    <3>2. e \in Seq(Seq(Nat)) /\ Len(e) = 0 /\ \A k \in 1 .. Len(e) : FALSE
      BY <2>3, <2>5, <2>6
    <3> QED BY <2>2, <2>4, <3>1, <3>2 DEF Layout
  <2>8. /\ \E a, b : Layout(q, Tail(p), a, b)
        /\ q.count > 0 => q.head = r.head /\ (r.tail < r.head => q.tail < r.head)
    BY <2>2, <2>6, <2>7
  <2> QED BY <2>8 DEF q
<1>9. CASE n > 1
  <2> DEFINE t == Cursor(y[1])
             m == n - 1
             z == Tail(p)
             u == Tail(x)
             v == Tail(y)
  <2>1. x[1] + LEN_SIZE + ReadLen(r, x[1]) = y[1]
    BY <1>2, <1>6, <1>7 DEF LEN_SIZE
  <2>2. q = [r EXCEPT !.tail = t, !.count = n - 1]
    <3>1. r.count # 1
      <4>1. ASSUME NEW c \in Nat, c > 1 PROVE c # 1
        BY <4>1
      <4> QED BY <1>1, <1>9, <4>1
    <3>2. q = [r EXCEPT !.tail = Cursor(Front(r) + LEN_SIZE + ReadLen(r, Front(r))), !.count = @ - 1]
      BY <1>6, <3>1, Zenon DEF Pop
    <3>3. Cursor(Front(r) + LEN_SIZE + ReadLen(r, Front(r))) = t
      BY <1>6, <2>1
    <3> HIDE DEF t
    <3> QED BY <1>1, <3>2, <3>3
  <2>3. /\ m \in Nat /\ m > 0 /\ m + 1 = n /\ 1 \in 1 .. m /\ m \in 1 .. m
        /\ \A k \in 1 .. m : k + 1 \in 1 .. n /\ 1 < k + 1 /\ k \in 1 .. n /\ (k + 1) - 1 = k
    BY <1>1, <1>9
  <2>4. /\ z \in Seq(Seq(Nat)) /\ u \in Seq(Nat) /\ v \in Seq(Nat)
        /\ Len(z) = m /\ Len(u) = m /\ Len(v) = m
    BY <1>1, <1>3, <1>9
  <2>5. \A k \in 1 .. m : z[k] = p[k + 1] /\ u[k] = x[k + 1] /\ v[k] = y[k + 1]
    <3>1. ASSUME NEW S, NEW s \in Seq(S), Len(s) > 1, NEW k \in 1 .. Len(s) - 1 PROVE Tail(s)[k] = s[k + 1]
      OBVIOUS
    <3> QED BY <1>3, <1>9, <3>1
  <2>6. x[1] \in Nat /\ y[1] \in Nat /\ x[1] < y[1] /\ y[1] <= N
        /\ Placed(r.head, r.tail, N, x[1], y[1]) /\ Cursors(r.head, r.tail, N)
    BY <1>1, <1>2, <1>3, <1>4, <1>7 DEF Placed, Cursors
  <2>7. t \in Nat /\ Comes(t, y[1], N)
    BY <2>6 DEF Cursor, Comes
  <2>8. q \in Rings /\ ~q.panicked /\ q.count = m /\ q.head = r.head /\ q.tail = t /\ q.buf = r.buf
    BY <1>1, <2>2, <2>3, <2>7 DEF Rings
  <2> HIDE DEF q, t, m, z, u, v
  <2>9. ASSUME NEW k \in 1 .. m
        PROVE  /\ u[k] \in Nat /\ v[k] \in Nat /\ u[k] < v[k] /\ v[k] <= N
               /\ v[k] = u[k] + 2 + Len(z[k]) /\ Len(z[k]) > 0 /\ Holds(r.buf, u[k], z[k])
               /\ InUse(r.head, r.tail, u[k], v[k]) /\ Before(r.tail, x[1], y[1], u[k])
    <3>1. k + 1 \in 1 .. n /\ 1 < k + 1 /\ z[k] = p[k + 1] /\ u[k] = x[k + 1] /\ v[k] = y[k + 1]
      BY <2>3, <2>5
    <3> QED BY <1>2, <1>4, <1>5, <1>7, <3>1
  <2>10. ASSUME NEW k \in 1 .. m
         PROVE  t < N /\ t # r.head /\ InUse(r.head, t, u[k], v[k]) /\ (r.tail < r.head => t < r.head)
    <3>1. Placed(r.head, r.tail, N, u[k], v[k]) /\ Before(r.tail, x[1], y[1], u[k])
      BY <2>9 DEF Placed
    <3> HIDE DEF N
    <3> QED BY <2>6, <2>7, <3>1, PopPlaces
  <2>11. ASSUME NEW j \in 1 .. m, NEW k \in 1 .. m, j < k PROVE Before(t, u[j], v[j], u[k])
    <3>1. Before(r.tail, u[j], v[j], u[k])
      <4>1. j + 1 \in 1 .. n /\ k + 1 \in 1 .. n /\ j + 1 < k + 1
        BY <2>3, <2>11
      <4> QED BY <1>5, <2>5, <4>1
    <3>2. Placed(r.head, r.tail, N, u[k], v[k]) /\ Before(r.tail, x[1], y[1], u[k])
      BY <2>9 DEF Placed
    <3>3. Placed(r.head, r.tail, N, u[j], v[j]) /\ Before(r.tail, x[1], y[1], u[j])
      BY <2>9 DEF Placed
    <3> HIDE DEF N
    <3> QED BY <2>6, <2>7, <3>1, <3>2, <3>3, PopOrder
  <2>12. Joins(q, t, u[1])
    <3>1. 2 \in 1 .. n /\ 2 > 1 /\ u[1] = x[2] /\ 2 - 1 = 1
      BY <2>3, <2>5
    <3>2. Joins(r, y[1], u[1])
      BY <1>4, <3>1
    <3>3. CASE u[1] = Cursor(y[1])
      <4>1. Cursor(t) = t
        <5>1. t < N
          BY <2>3, <2>10
        <5> QED BY <1>1, <2>7, <5>1 DEF Cursor
      <4> QED BY <3>3, <4>1 DEF Joins, t
    <3>4. CASE /\ u[1] = 0 /\ y[1] + LEN_SIZE <= N /\ r.buf[y[1]] = 0 /\ r.buf[y[1] + 1] = 0
               /\ r.head < r.tail /\ r.tail <= y[1]
      <4>1. y[1] # N /\ r.head < y[1]
        <5>1. ASSUME NEW a \in Nat, NEW b \in Nat, NEW c \in Nat, NEW d \in Nat, a + 2 <= b, c < d, d <= a
              PROVE  a # b /\ c < a
          BY <5>1
        <5> HIDE DEF N
        <5> QED BY <1>1, <2>6, <3>4, <5>1 DEF LEN_SIZE
      <4>2. t = y[1]
        BY <2>7, <4>1 DEF Comes
      <4> QED BY <1>1, <2>6, <2>8, <3>4, <4>1, <4>2 DEF Joins
    <3> QED BY <3>2, <3>3, <3>4 DEF Joins
  <2>13. ASSUME NEW k \in 1 .. m, k > 1 PROVE Joins(q, v[k - 1], u[k])
    <3>1. k - 1 \in 1 .. m /\ k + 1 \in 1 .. n /\ k + 1 > 1 /\ (k + 1) - 1 = k /\ (k - 1) + 1 = k
      BY <2>3, <2>13
    <3>2. v[k - 1] = y[k] /\ u[k] = x[k + 1]
      BY <2>5, <3>1
    <3>3. Joins(r, v[k - 1], u[k])
      BY <1>4, <3>1, <3>2
    <3>4. CASE u[k] = Cursor(v[k - 1])
      BY <3>4 DEF Joins
    <3>5. CASE /\ u[k] = 0 /\ v[k - 1] + LEN_SIZE <= N /\ r.buf[v[k - 1]] = 0 /\ r.buf[v[k - 1] + 1] = 0
               /\ r.head < r.tail /\ r.tail <= v[k - 1]
      <4>1. r.head < t /\ t <= v[k - 1]
        <5>1. PICK j \in 1 .. m : j = k - 1
          BY <3>1
        <5>2. Placed(r.head, r.tail, N, u[j], v[j]) /\ Before(r.tail, x[1], y[1], u[j])
          BY <2>9 DEF Placed
        <5>3. r.head < r.tail /\ r.tail <= v[j]
          BY <3>5, <5>1
        <5> HIDE DEF N
        <5>4. r.head < t /\ t <= v[j]
          BY <2>6, <2>7, <5>2, <5>3, PopGap
        <5> QED BY <5>1, <5>4
      <4> QED BY <2>8, <3>5, <4>1 DEF Joins
    <3> QED BY <3>3, <3>4, <3>5 DEF Joins
  <2>14. v[m] = y[n]
    BY <2>3, <2>5
  <2>15. t < N /\ t # r.head /\ (r.tail < r.head => t < r.head)
    BY <2>3, <2>10
  <2>16. Layout(q, z, u, v)
    <3>1. \A k \in 1 .. Len(z) :
            /\ v[k] = u[k] + LEN_SIZE + Len(z[k]) /\ v[k] <= RingBytes /\ Len(z[k]) > 0
            /\ Holds(q.buf, u[k], z[k]) /\ InUse(q.head, q.tail, u[k], v[k])
            /\ k > 1 => Joins(q, v[k - 1], u[k])
      BY <2>4, <2>8, <2>9, <2>10, <2>13 DEF LEN_SIZE
    <3>2. \A j, k \in 1 .. Len(z) : j < k => Before(q.tail, u[j], v[j], u[k])
      BY <2>4, <2>8, <2>11
    <3>3. q.head # q.tail /\ q.head = Cursor(v[Len(z)]) /\ Joins(q, q.tail, u[1])
      BY <1>3, <2>4, <2>8, <2>12, <2>14, <2>15
    <3> QED BY <1>1, <2>3, <2>4, <2>8, <2>15, <3>1, <3>2, <3>3 DEF Layout
  <2>17. /\ \E a, b : Layout(q, z, a, b)
         /\ q.count > 0 => q.head = r.head /\ (r.tail < r.head => q.tail < r.head)
    BY <2>8, <2>15, <2>16
  <2> QED BY <2>17 DEF q, z
<1>10. n = 1 \/ n > 1
  <2>1. ASSUME NEW c \in Nat, c > 0 PROVE c = 1 \/ c > 1
    BY <2>1
  <2> QED BY <1>1, <2>1
<1> QED BY <1>8, <1>9, <1>10
-----------------------------------------------------------------------------
\* What is pushed.
Packet(d) == d \in Seq(Nat) /\ Len(d) \in Nat /\ Len(d) > 0 /\ Needed(d) <= RingBytes

\* The places for a packet at h .. w - 1, and the head behind it, in a ring that is
\* not empty: at the head, below the tail if the packets have gone round, or, behind a gap, at 0.
Fits(head, tail, N, h, w, g) ==
    /\ h \in Nat /\ w \in Nat /\ h < w /\ w <= N /\ Comes(g, w, N) /\ g # tail
    /\ \/ head = h /\ tail < head
       \/ head = h /\ head < tail /\ w <= tail
       \/ h = 0 /\ tail < head /\ w <= tail

\* There it follows every packet and overlaps none.
LEMMA PushPlaces ==
    ASSUME NEW head, NEW tail, NEW N, Cursors(head, tail, N), NEW h, NEW w, NEW g,
           Fits(head, tail, N, h, w, g), NEW x, NEW y, Placed(head, tail, N, x, y)
    PROVE  /\ InUse(g, tail, x, y) /\ InUse(g, tail, h, w) /\ Before(tail, x, y, h)
           /\ y <= h \/ w <= x
           /\ h = 0 /\ tail < head => y <= head
  BY DEF Cursors, Fits, Placed, InUse, Before, Comes

\* Nor a gap.
LEMMA PushGap ==
    ASSUME NEW head, NEW tail, NEW N, Cursors(head, tail, N), NEW h, NEW w, NEW g,
           Fits(head, tail, N, h, w, g), head < tail, NEW b \in Nat, tail <= b
    PROVE  g < tail /\ w <= b
  BY DEF Cursors, Fits, Comes

\* s is r with the bytes h .. w - 1 written, and perhaps those of a gap.
Kept(r, s, h, w) ==
    \A i \in 0 .. RingBytes - 1 :
        (i < h \/ w <= i) /\ (h = 0 /\ r.tail < r.head => i < r.head) => s.buf[i] = r.buf[i]

\* A packet whose bytes are kept.
LEMMA HoldsKept ==
    ASSUME NEW b, NEW c, NEW x \in Nat, NEW d, Len(d) \in Nat, Holds(b, x, d),
           \A i \in x .. (x + 1 + Len(d)) : c[i] = b[i]
    PROVE  Holds(c, x, d)
<1>1. PICK l \in Nat : l = Len(d)
  OBVIOUS
<1>2. x \in x .. (x + 1 + l) /\ x + 1 \in x .. (x + 1 + l)
      /\ \A i \in 1 .. l : x + 1 + i \in x .. (x + 1 + l)
  OBVIOUS
<1> QED BY <1>1, <1>2 DEF Holds

(* A packet written where it fits joins the layout behind the last one, and
   the packets already there keep their bytes. *)
LEMMA PushLayout ==
    ASSUME NEW r, NEW p, NEW x, NEW y, Layout(r, p, x, y), NEW d, Packet(d),
           NEW s \in Rings, ~s.panicked, s.count = Len(p) + 1, s.tail = r.tail, s.head # s.tail,
           NEW h \in Nat, NEW w \in Nat, w = h + 2 + Len(d), w <= RingBytes,
           Comes(s.head, w, RingBytes), Holds(s.buf, h, d), Kept(r, s, h, w),
           Len(p) = 0 => h = 0,
           Len(p) > 0 => Fits(r.head, r.tail, RingBytes, h, w, s.head),
           Len(p) > 0 /\ h # r.head =>
              r.head + LEN_SIZE <= RingBytes /\ s.buf[r.head] = 0 /\ s.buf[r.head + 1] = 0
    PROVE  Layout(s, Append(p, d), Append(x, h), Append(y, w))
<1> DEFINE N == RingBytes
           n == Len(p)
           z == Append(p, d)
           u == Append(x, h)
           v == Append(y, w)
<1>1. /\ r \in Rings /\ r.head \in Nat /\ r.tail \in Nat /\ r.head < N /\ r.tail < N
      /\ n \in Nat /\ N \in Nat
  BY LayoutTypes
<1>2. \A k \in 1 .. n : /\ x[k] \in Nat /\ y[k] \in Nat /\ p[k] \in Seq(Nat) /\ Len(p[k]) \in Nat
                        /\ Len(p[k]) > 0 /\ y[k] = x[k] + 2 + Len(p[k]) /\ y[k] <= N /\ x[k] < y[k]
  BY LayoutTypes
<1>3. /\ p \in Seq(Seq(Nat)) /\ x \in Seq(Nat) /\ y \in Seq(Nat) /\ Len(x) = n /\ Len(y) = n
      /\ n > 0 => r.head # r.tail /\ r.head = Cursor(y[n]) /\ Joins(r, r.tail, x[1])
      /\ n = 0 => r.head = 0 /\ r.tail = 0
  BY DEF Layout
<1>4. \A k \in 1 .. n :
          /\ Holds(r.buf, x[k], p[k]) /\ InUse(r.head, r.tail, x[k], y[k])
          /\ k > 1 => Joins(r, y[k - 1], x[k])
  BY DEF Layout
<1>5. \A j, k \in 1 .. n : j < k => Before(r.tail, x[j], y[j], x[k])
  BY DEF Layout
<1>6. /\ z \in Seq(Seq(Nat)) /\ u \in Seq(Nat) /\ v \in Seq(Nat)
      /\ Len(z) = n + 1 /\ Len(u) = n + 1 /\ Len(v) = n + 1
  BY <1>3, SMTT(40) DEF Packet
<1>7. /\ \A k \in 1 .. n : z[k] = p[k] /\ u[k] = x[k] /\ v[k] = y[k]
      /\ z[n + 1] = d /\ u[n + 1] = h /\ v[n + 1] = w
  <2>1. ASSUME NEW S, NEW q \in Seq(S), NEW e \in S
        PROVE  Append(q, e)[Len(q) + 1] = e /\ \A k \in 1 .. Len(q) : Append(q, e)[k] = q[k]
    OBVIOUS
  <2>2. d \in Seq(Nat)
    BY DEF Packet
  <2> QED BY <1>3, <2>1, <2>2, SMTT(40)
<1> HIDE DEF z, u, v
<1>8. \A k \in 1 .. n + 1 : k \in 1 .. n \/ k = n + 1
  BY <1>1
<1>9. ASSUME n > 0 PROVE Cursors(r.head, r.tail, N) /\ Fits(r.head, r.tail, N, h, w, s.head)
  BY <1>1, <1>3, <1>9 DEF Cursors
<1>10. ASSUME NEW k \in 1 .. n
       PROVE  /\ n > 0 /\ Placed(r.head, r.tail, N, x[k], y[k])
              /\ InUse(s.head, s.tail, x[k], y[k]) /\ InUse(s.head, s.tail, h, w)
              /\ Before(s.tail, x[k], y[k], h)
              /\ y[k] <= h \/ w <= x[k]
              /\ h = 0 /\ r.tail < r.head => y[k] <= r.head
  <2>1. n > 0
    BY <1>1
  <2>2. Placed(r.head, r.tail, N, x[k], y[k])
    BY <1>2, <1>4 DEF Placed
  <2> HIDE DEF N
  <2> QED BY <1>9, <2>1, <2>2, PushPlaces
<1>11. ASSUME NEW k \in 1 .. n PROVE Holds(s.buf, x[k], p[k])
  <2>1. ASSUME NEW i \in x[k] .. (x[k] + 1 + Len(p[k])) PROVE s.buf[i] = r.buf[i]
    <3>0. ASSUME NEW a \in Nat, NEW l \in Nat, NEW b \in Nat, b = a + 2 + l, NEW o \in a .. (a + 1 + l)
          PROVE  o \in Nat /\ a <= o /\ o < b
      BY <3>0
    <3>1. i \in Nat /\ x[k] <= i /\ i < y[k] /\ y[k] <= N
      BY <1>2, <3>0
    <3>2. i \in 0 .. N - 1
      BY <1>1, <1>2, <3>1
    <3>3. i < h \/ w <= i
      <4>1. x[k] \in Nat /\ y[k] \in Nat /\ (y[k] <= h \/ w <= x[k])
        BY <1>2, <1>10
      <4>2. PICK a \in Nat, b \in Nat : a = x[k] /\ b = y[k]
        BY <4>1
      <4>3. (b <= h \/ w <= a) /\ a <= i /\ i < b /\ i \in Nat
        BY <3>1, <4>1, <4>2
      <4> QED BY <4>3
    <3>4. h = 0 /\ r.tail < r.head => i < r.head
      BY <1>1, <1>2, <1>10, <3>1
    <3> QED BY <3>2, <3>3, <3>4 DEF Kept
  <2> QED BY <1>2, <1>4, <2>1, HoldsKept
<1>12. ASSUME NEW b \in Nat, NEW a, Joins(r, b, a), n > 0 PROVE Joins(s, b, a)
  <2>1. CASE a = Cursor(b)
    BY <2>1 DEF Joins
  <2>2. CASE /\ a = 0 /\ b + LEN_SIZE <= N /\ r.buf[b] = 0 /\ r.buf[b + 1] = 0
             /\ r.head < r.tail /\ r.tail <= b
    <3>1. s.head < r.tail /\ w <= b
      BY <1>9, <1>12, <2>2, PushGap
    <3>2. b \in 0 .. N - 1 /\ b + 1 \in 0 .. N - 1 /\ w <= b /\ w <= b + 1 /\ ~(r.tail < r.head)
      BY <1>1, <2>2, <3>1, SMTT(40) DEF LEN_SIZE
    <3>3. s.buf[b] = r.buf[b] /\ s.buf[b + 1] = r.buf[b + 1]
      BY <3>2 DEF Kept
    <3> QED BY <2>2, <3>1, <3>3 DEF Joins
  <2> QED BY <1>12, <2>1, <2>2 DEF Joins
<1>13. s.head \in Nat /\ s.head < N /\ s.head = Cursor(w)
  <2>1. w > 0
    OBVIOUS
  <2> QED BY <1>1, <2>1 DEF Comes, Cursor
<1>14. n > 0 => Joins(s, y[n], h)
  <2> SUFFICES ASSUME n > 0 PROVE Joins(s, y[n], h)
    OBVIOUS
  <2>1. n \in 1 .. n
    BY <1>1
  <2>2. y[n] \in Nat /\ y[n] <= N /\ r.head = Cursor(y[n])
    BY <1>2, <1>3, <2>1
  <2>3. CASE h = r.head
    BY <2>2, <2>3 DEF Joins
  <2>4. CASE h # r.head
    <3>1. h = 0 /\ r.tail < r.head /\ w <= r.tail
      BY <1>9, <2>4 DEF Fits
    <3>2. y[n] = r.head
      BY <1>1, <2>2, <3>1 DEF Cursor
    <3>3. r.head + LEN_SIZE <= N /\ s.buf[r.head] = 0 /\ s.buf[r.head + 1] = 0
      BY <2>4
    <3>4. s.head < s.tail
      BY <1>1, <1>13, <3>1 DEF Comes
    <3> QED BY <1>1, <3>1, <3>2, <3>3, <3>4 DEF Joins
  <2> QED BY <2>3, <2>4
<1>15. InUse(s.head, s.tail, h, w)
  <2>1. CASE n = 0
    BY <1>1, <1>3, <1>13, <2>1 DEF InUse, Comes
  <2>2. CASE n > 0
    <3>1. 1 \in 1 .. n
      BY <1>1, <2>2
    <3> QED BY <1>10, <3>1
  <2> QED BY <1>1, <2>1, <2>2
<1>16. Joins(s, s.tail, u[1])
  <2>1. CASE n = 0
    <3>1. u[1] = 0 /\ s.tail = 0
      BY <1>3, <1>7, <2>1
    <3> QED BY <1>1, <3>1, RingAssumption DEF Joins, Cursor, LEN_SIZE
  <2>2. CASE n > 0
    <3>1. 1 \in 1 .. n
      BY <1>1, <2>2
    <3> QED BY <1>1, <1>3, <1>7, <1>12, <2>2, <3>1
  <2> QED BY <1>1, <2>1, <2>2
<1>17. ASSUME NEW k \in 1 .. n + 1
       PROVE  /\ v[k] = u[k] + LEN_SIZE + Len(z[k]) /\ v[k] <= N /\ Len(z[k]) > 0
              /\ Holds(s.buf, u[k], z[k]) /\ InUse(s.head, s.tail, u[k], v[k])
              /\ k > 1 => Joins(s, v[k - 1], u[k])
  <2>1. CASE k \in 1 .. n
    <3>1. k > 1 => k - 1 \in 1 .. n /\ n > 0
      BY <1>1, <2>1
    <3>2. k > 1 => Joins(s, y[k - 1], x[k])
      BY <1>2, <1>4, <1>12, <2>1, <3>1
    <3> QED BY <1>2, <1>7, <1>10, <1>11, <2>1, <3>1, <3>2 DEF LEN_SIZE
  <2>2. CASE k = n + 1
    <3>1. k > 1 => n > 0 /\ k - 1 = n /\ n \in 1 .. n
      BY <1>1, <2>2
    <3>2. k > 1 => Joins(s, v[k - 1], u[k])
      BY <1>7, <1>14, <2>2, <3>1
    <3> QED BY <1>7, <1>15, <2>2, <3>2 DEF LEN_SIZE, Packet
  <2> QED BY <1>8, <2>1, <2>2
<1>18. ASSUME NEW j \in 1 .. n + 1, NEW k \in 1 .. n + 1, j < k PROVE Before(s.tail, u[j], v[j], u[k])
  <2>1. j \in 1 .. n
    BY <1>1, <1>18
  <2>2. CASE k \in 1 .. n
    BY <1>5, <1>7, <1>18, <2>1, <2>2
  <2>3. CASE k = n + 1
    BY <1>7, <1>10, <2>1, <2>3
  <2> QED BY <1>8, <2>2, <2>3
<1>19. s.head = Cursor(v[n + 1])
  BY <1>7, <1>13
<1>20. n + 1 \in Nat /\ n + 1 > 0
  BY <1>1
<1>21. Layout(s, z, u, v)
  <2>1. /\ \A k \in 1 .. Len(z) :
             /\ v[k] = u[k] + LEN_SIZE + Len(z[k]) /\ v[k] <= RingBytes /\ Len(z[k]) > 0
             /\ Holds(s.buf, u[k], z[k]) /\ InUse(s.head, s.tail, u[k], v[k])
             /\ k > 1 => Joins(s, v[k - 1], u[k])
        /\ \A j, k \in 1 .. Len(z) : j < k => Before(s.tail, u[j], v[j], u[k])
    BY <1>6, <1>17, <1>18
  <2>2. Len(z) # 0 /\ s.count = Len(z) /\ s.tail < RingBytes /\ s.head < RingBytes
    BY <1>1, <1>6, <1>13, <1>20
  <2>3. s.head # s.tail /\ s.head = Cursor(v[Len(z)]) /\ Joins(s, s.tail, u[1])
    BY <1>6, <1>16, <1>19
  <2> QED BY <1>6, <2>1, <2>2, <2>3 DEF Layout
<1> QED BY <1>21 DEF z, u, v
\* s is m with d written to h .. w - 1.
IsWritten(m, h, d, w, s) ==
    /\ m \in Rings /\ h \in Nat /\ Packet(d) /\ w \in Nat /\ w = h + 2 + Len(d) /\ w <= RingBytes
    /\ s = Write(m, h, d)

\* What that changes.
LEMMA WriteIs ==
    ASSUME NEW m, NEW h, NEW d, NEW w, NEW s, IsWritten(m, h, d, w, s)
    PROVE  /\ s \in Rings /\ s.panicked = m.panicked /\ s.tail = m.tail /\ s.count = m.count + 1
           /\ Comes(s.head, w, RingBytes) /\ Holds(s.buf, h, d)
           /\ \A i \in 0 .. RingBytes - 1 : i < h \/ w <= i => s.buf[i] = m.buf[i]
<1> DEFINE N == RingBytes
           l == Len(d)
           Byte(i) == CASE i = h -> Len(d) \div ByteMod
                        [] i = h + 1 -> Len(d) % ByteMod
                        [] i - h - 1 \in DOMAIN d -> d[i - h - 1]
                        [] OTHER -> m.buf[i]
           new == [i \in DOMAIN m.buf |-> Byte(i)]
<1> m \in Rings /\ h \in Nat /\ Packet(d) /\ w \in Nat /\ w = h + 2 + Len(d) /\ w <= RingBytes
    /\ s = Write(m, h, d)
  BY DEF IsWritten
<1>1. /\ m.buf \in [0 .. N - 1 -> Nat] /\ m.head \in Nat /\ m.tail \in Nat /\ m.count \in Nat
      /\ m.panicked \in BOOLEAN /\ DOMAIN m.buf = 0 .. N - 1
  BY DEF Rings
<1>2. /\ l \in Nat /\ l > 0 /\ N \in Nat /\ DOMAIN d = 1 .. l /\ \A i \in 1 .. l : d[i] \in Nat
      /\ ByteMod \in Nat \ {0}
  BY RingAssumption, SMTT(40) DEF Packet
<1>3. /\ l \div ByteMod \in Nat /\ l % ByteMod \in Nat
      /\ (l \div ByteMod) * ByteMod + (l % ByteMod) = l
  <2>1. ASSUME NEW a \in Nat, NEW b \in Nat \ {0}
        PROVE  a \div b \in Nat /\ a % b \in Nat /\ (a \div b) * b + (a % b) = a
    <3>1. a \div b \in Int /\ a % b \in 0 .. b - 1 /\ a = b * (a \div b) + (a % b)
      BY a \in Int, DivMod
    <3>2. PICK q \in Int, e \in 0 .. b - 1 : q = a \div b /\ e = a % b /\ a = b * q + e
      BY <3>1
    <3>3. CASE q < 0
      <4>1. b * (q + 1) <= 0
        BY <3>3
      <4>2. b * (q + 1) = b * q + b
        OBVIOUS
      <4> QED BY <3>2, <4>1, <4>2
    <3>4. CASE q >= 0
      <4>1. q \in Nat /\ b * q = q * b
        BY <3>4
      <4>2. q * b + e = a /\ e \in Nat
        BY <3>2, <4>1
      <4> QED BY <3>2, <4>1, <4>2, Zenon
    <3> QED BY <3>3, <3>4
  <2> QED BY <1>2, <2>1
<1> HIDE DEF l
<1>4. Byte(h) = l \div ByteMod /\ Byte(h + 1) = l % ByteMod
  <2>1. h + 1 # h
    OBVIOUS
  <2> QED BY <2>1 DEF l
<1>5. \A i \in 1 .. l : Byte(h + 1 + i) = d[i]
  <2> SUFFICES ASSUME NEW i \in 1 .. l PROVE Byte(h + 1 + i) = d[i]
    OBVIOUS
  <2>1. h + 1 + i # h /\ h + 1 + i # h + 1 /\ (h + 1 + i) - h - 1 = i /\ i \in DOMAIN d
    BY <1>2
  <2> QED BY <2>1
<1>6. \A i \in 0 .. N - 1 : i < h \/ w <= i => Byte(i) = m.buf[i]
  <2> SUFFICES ASSUME NEW i \in 0 .. N - 1, i < h \/ w <= i PROVE Byte(i) = m.buf[i]
    OBVIOUS
  <2>1. i # h /\ i # h + 1 /\ i - h - 1 \notin 1 .. l
    BY <1>2 DEF l
  <2>2. i - h - 1 \notin DOMAIN d
    BY <1>2, <2>1
  <2> QED BY <2>1, <2>2
<1>7. \A i \in 0 .. N - 1 : i = h \/ i = h + 1 \/ i < h \/ w <= i \/ \E o \in 1 .. l : i = h + 1 + o
  <2> SUFFICES ASSUME NEW i \in 0 .. N - 1, ~(i = h \/ i = h + 1 \/ i < h \/ w <= i)
               PROVE  \E o \in 1 .. l : i = h + 1 + o
    OBVIOUS
  <2>1. i - h - 1 \in 1 .. l /\ i = h + 1 + (i - h - 1)
    BY <1>2 DEF l
  <2> QED BY <2>1
<1> HIDE DEF Byte
<1>8. \A i \in 0 .. N - 1 : Byte(i) \in Nat
  <2> SUFFICES ASSUME NEW i \in 0 .. N - 1 PROVE Byte(i) \in Nat
    OBVIOUS
  <2>1. CASE i = h \/ i = h + 1
    BY <1>3, <1>4, <2>1
  <2>2. CASE i < h \/ w <= i
    BY <1>1, <1>6, <2>2
  <2>3. CASE \E o \in 1 .. l : i = h + 1 + o
    BY <1>2, <1>5, <2>3
  <2> QED BY <1>7, <2>1, <2>2, <2>3
<1>9. new \in [0 .. N - 1 -> Nat] /\ \A i \in 0 .. N - 1 : new[i] = Byte(i)
  BY <1>1, <1>8
<1>10. s = [m EXCEPT !.buf = new, !.head = Cursor(h + Needed(d)), !.count = m.count + 1]
  BY DEF Write, Byte
<1>11. h + Needed(d) = w
  BY <1>2 DEF Needed, LEN_SIZE, l
<1>12. Comes(Cursor(w), w, N)
  BY <1>2 DEF Comes, Cursor
<1>13. Cursor(w) \in Nat /\ m.count + 1 \in Nat
  BY <1>1, <1>12 DEF Comes
<1> HIDE DEF new
<1>14. /\ s \in Rings /\ s.panicked = m.panicked /\ s.tail = m.tail /\ s.count = m.count + 1
       /\ s.head = Cursor(w) /\ s.buf = new
  BY <1>1, <1>9, <1>10, <1>11, <1>13, ZenonT(60) DEF Rings
<1>15. Holds(new, h, d)
  <2>1. h \in 0 .. N - 1 /\ h + 1 \in 0 .. N - 1 /\ \A i \in 1 .. l : h + 1 + i \in 0 .. N - 1
    BY <1>2 DEF l
  <2>2. new[h] * ByteMod + new[h + 1] = l
    <3>1. new[h] = l \div ByteMod /\ new[h + 1] = l % ByteMod
      BY <1>4, <1>9, <2>1
    <3> QED BY <1>3, <3>1, Zenon
  <2>3. \A i \in 1 .. l : new[h + 1 + i] = d[i]
    BY <1>5, <1>9, <2>1
  <2> QED BY <2>2, <2>3 DEF Holds, l
<1> QED BY <1>6, <1>9, <1>12, <1>14, <1>15
\* The ring does not go round a second time.
NotTwice(r, d) == Wraps(r, d) /\ r.count > 0 => r.tail <= r.head

\* What try_push did to a ring that holds p.
Tried(t, r, p, d) ==
    \/ ~t.ok /\ t.ring.panicked /\ r.count > 0 /\ r.head + 1 = RingBytes
    \/ ~t.ok /\ t.ring = r /\ Len(p) > 0
    \/ /\ t.ok /\ ~t.ring.panicked /\ t.ring.count = Len(p) + 1
       /\ t.ring.head # t.ring.tail => \E u, v : Layout(t.ring, Append(p, d), u, v)

\* It fails and changes nothing, unless it panics, or the packet follows the others.
LEMMA TryPushes ==
    ASSUME NEW r, NEW p, NEW x, NEW y, Layout(r, p, x, y), NEW d, Packet(d), NotTwice(r, d)
    PROVE  Tried(TryPush(r, d), r, p, d)
<1> DEFINE N == RingBytes
           n == Len(p)
           l == Len(d)
           t == TryPush(r, d)
<1>1. /\ r \in Rings /\ ~r.panicked /\ r.count = n
      /\ r.head \in Nat /\ r.tail \in Nat /\ r.head < N /\ r.tail < N
      /\ r.buf \in [0 .. N - 1 -> Nat] /\ n \in Nat /\ N \in Nat
  BY LayoutTypes
<1>2. /\ n > 0 => r.head # r.tail
      /\ n = 0 => r.head = 0 /\ r.tail = 0
  BY DEF Layout
<1>3. l \in Nat /\ l > 0 /\ Needed(d) = 2 + l /\ 2 + l <= N
  BY DEF Packet, Needed, LEN_SIZE
<1>4. /\ Wraps(r, d) <=> N - r.head < 2 + l
      /\ \A k : NoRoomBefore(r, k) <=> k > r.tail
  BY <1>3 DEF Wraps, NoRoomBefore
<1>5. n = 0 \/ n > 0
  <2>1. ASSUME NEW c \in Nat PROVE c = 0 \/ c > 0
    OBVIOUS
  <2> QED BY <1>1, <2>1
<1> HIDE DEF n, l
<1>6. CASE Wraps(r, d)
  <2>1. n > 0
    BY <1>1, <1>2, <1>3, <1>4, <1>5, <1>6
  <2>2. r.tail < r.head /\ r.count > 0 /\ r.head >= r.tail
    BY <1>1, <1>2, <1>6, <2>1 DEF NotTwice
  <2>3. CASE 2 + l > r.tail
    <3>1. RefusedAtGap(r, d)
      BY <1>3, <1>4, <1>6, <2>2, <2>3 DEF RefusedAtGap
    <3>2. t = [ok |-> FALSE, ring |-> r]
      BY <3>1 DEF TryPush
    <3>3. ~t.ok /\ t.ring = r
      BY <3>2
    <3> QED BY <2>1, <3>3 DEF Tried, n
  <2>4. CASE ~(2 + l > r.tail)
    <3>1. ~RefusedAtGap(r, d)
      BY <1>3, <1>4, <2>4 DEF RefusedAtGap
    <3>2. CASE r.head + 1 >= N
      <4>1. MarkGap(r) = [r EXCEPT !.panicked = TRUE]
        BY <3>2 DEF MarkGap
      <4>2. MarkGap(r).panicked = TRUE
        BY <1>1, <4>1 DEF Rings
      <4>3. t = [ok |-> FALSE, ring |-> MarkGap(r)]
        BY <1>6, <3>1, <4>2 DEF TryPush
      <4>4. ~t.ok /\ t.ring.panicked
        BY <4>2, <4>3
      <4>5. r.head + 1 = RingBytes
        BY <1>1, <3>2
      <4> QED BY <2>2, <4>4, <4>5 DEF Tried
    <3>3. CASE ~(r.head + 1 >= N)
      <4> DEFINE m == [r EXCEPT !.buf[r.head] = 0, !.buf[r.head + 1] = 0]
                 s == Write(m, 0, d)
                 w == 2 + l
      <4>1. MarkGap(r) = m
        BY <3>3 DEF MarkGap
      <4>2. r.head \in 0 .. N - 1 /\ r.head + 1 \in 0 .. N - 1 /\ r.head + 1 # r.head
        BY <1>1, <3>3
      <4>3. /\ m \in Rings /\ m.panicked = FALSE /\ m.tail = r.tail /\ m.count = n
            /\ m.buf = [r.buf EXCEPT ![r.head] = 0, ![r.head + 1] = 0]
        BY <1>1, <4>2 DEF Rings
      <4>4. m.buf[r.head] = 0 /\ m.buf[r.head + 1] = 0
            /\ \A i \in 0 .. N - 1 : i < r.head => m.buf[i] = r.buf[i]
        <5>1. \A i \in 0 .. N - 1 : i < r.head => i # r.head /\ i # r.head + 1
          BY <1>1
        <5> HIDE DEF m
        <5> QED BY <1>1, <4>2, <4>3, <5>1
      <4> HIDE DEF m
      <4>5. ~Overlaps(r, 0, d)
        BY <1>3, <1>4, <2>4 DEF Overlaps
      <4>6. t = [ok |-> TRUE, ring |-> s]
        BY <1>6, <3>1, <4>1, <4>3, <4>5 DEF TryPush
      <4>7. t.ok /\ t.ring = s
        BY <4>6
      <4>8. w \in Nat /\ w = 0 + 2 + Len(d) /\ w <= RingBytes /\ 0 \in Nat
        BY <1>3 DEF l
      <4>9. /\ s \in Rings /\ s.panicked = m.panicked /\ s.tail = m.tail /\ s.count = m.count + 1
            /\ Comes(s.head, w, RingBytes) /\ Holds(s.buf, 0, d)
            /\ \A i \in 0 .. RingBytes - 1 : i < 0 \/ w <= i => s.buf[i] = m.buf[i]
        <5>1. IsWritten(m, 0, d, w, s)
          BY <4>3, <4>8 DEF IsWritten
        <5> HIDE DEF s, w
        <5> QED BY <5>1, WriteIs
      <4> HIDE DEF s
      <4>10. w <= r.tail /\ w <= r.head /\ w <= r.head + 1 /\ 0 < w
        BY <1>1, <1>3, <2>2, <2>4
      <4>11. s.buf[r.head] = 0 /\ s.buf[r.head + 1] = 0
        BY <4>2, <4>4, <4>9, <4>10
      <4>12. Kept(r, s, 0, w)
        <5> SUFFICES ASSUME NEW i \in 0 .. RingBytes - 1, i < 0 \/ w <= i, i < r.head PROVE s.buf[i] = r.buf[i]
          BY <2>2 DEF Kept
        <5> QED BY <4>4, <4>9
      <4>13. r.head + LEN_SIZE <= RingBytes
        BY <1>1, <3>3 DEF LEN_SIZE
      <4> HIDE DEF w
      <4>14. ASSUME s.head # s.tail PROVE Layout(s, Append(p, d), Append(x, 0), Append(y, w))
        <5>1. Fits(r.head, r.tail, RingBytes, 0, w, s.head)
          BY <2>2, <4>3, <4>8, <4>9, <4>10, <4>14 DEF Fits
        <5>2. ~s.panicked /\ s.count = Len(p) + 1 /\ s.tail = r.tail
          BY <4>3, <4>9 DEF n
        <5> QED BY <4>8, <4>9, <4>11, <4>12, <4>13, <4>14, <5>1, <5>2, PushLayout
      <4>15. ~s.panicked /\ s.count = Len(p) + 1
        BY <4>3, <4>9 DEF n
      <4> QED BY <4>7, <4>14, <4>15 DEF Tried
    <3> QED BY <3>2, <3>3
  <2> QED BY <2>3, <2>4
<1>7. CASE ~Wraps(r, d)
  <2> DEFINE s == Write(r, r.head, d)
             w == r.head + 2 + l
  <2>1. ~RefusedAtGap(r, d)
    BY <1>7 DEF RefusedAtGap
  <2>2. CASE Overlaps(r, r.head, d)
    <3>1. t = [ok |-> FALSE, ring |-> r]
      BY <1>7, <2>1, <2>2 DEF TryPush
    <3>2. ~t.ok /\ t.ring = r /\ n > 0
      BY <1>1, <2>2, <3>1 DEF Overlaps
    <3> QED BY <3>2 DEF Tried, n
  <2>3. CASE ~Overlaps(r, r.head, d)
    <3>1. t = [ok |-> TRUE, ring |-> s]
      BY <1>1, <1>7, <2>1, <2>3 DEF TryPush
    <3>2. t.ok /\ t.ring = s
      BY <3>1
    <3>3. w \in Nat /\ w = r.head + 2 + Len(d) /\ w <= RingBytes /\ r.head < w
      <4>1. ASSUME NEW a \in Nat, NEW b \in Nat, NEW c \in Nat, ~(c - a < 2 + b)
            PROVE  a + 2 + b \in Nat /\ a + 2 + b <= c /\ a < a + 2 + b
        BY <4>1
      <4>2. ~(N - r.head < 2 + l)
        BY <1>4, <1>7
      <4>3. w \in Nat /\ w <= N /\ r.head < w
        BY <1>1, <1>3, <4>1, <4>2
      <4> QED BY <4>3 DEF l
    <3>4. /\ s \in Rings /\ s.panicked = r.panicked /\ s.tail = r.tail /\ s.count = r.count + 1
          /\ Comes(s.head, w, RingBytes) /\ Holds(s.buf, r.head, d)
          /\ \A i \in 0 .. RingBytes - 1 : i < r.head \/ w <= i => s.buf[i] = r.buf[i]
      <4>1. IsWritten(r, r.head, d, w, s)
        BY <1>1, <3>3 DEF IsWritten
      <4> HIDE DEF s, w
      <4> QED BY <4>1, WriteIs
    <3> HIDE DEF s
    <3>5. Kept(r, s, r.head, w)
      BY <3>4 DEF Kept
    <3>6. ~s.panicked /\ s.count = Len(p) + 1
      BY <1>1, <3>4 DEF n
    <3>7. ASSUME n > 0, s.head # s.tail PROVE Fits(r.head, r.tail, RingBytes, r.head, w, s.head)
      <4>1. r.tail < r.head \/ (r.head < r.tail /\ w <= r.tail)
        <5>1. r.head + Needed(d) = w
          BY <1>1, <1>3
        <5>2. r.head < r.tail => w <= r.tail
          BY <1>1, <1>4, <2>3, <3>3, <3>7, <5>1, SMTT(40) DEF Overlaps
        <5> QED BY <1>1, <1>2, <3>7, <5>2
      <4> HIDE DEF w
      <4> QED BY <1>1, <3>3, <3>4, <3>7, <4>1 DEF Fits
    <3> HIDE DEF w
    <3>8. ASSUME s.head # s.tail PROVE Layout(s, Append(p, d), Append(x, r.head), Append(y, w))
      <4>1. Len(p) = 0 => r.head = 0
        BY <1>2 DEF n
      <4>2. Len(p) > 0 => Fits(r.head, r.tail, RingBytes, r.head, w, s.head)
        BY <3>7, <3>8 DEF n
      <4> QED BY <1>1, <3>3, <3>4, <3>5, <3>6, <3>8, <4>1, <4>2, PushLayout
    <3> QED BY <3>2, <3>6, <3>8 DEF Tried
  <2> QED BY <2>2, <2>3
<1> QED BY <1>6, <1>7
-----------------------------------------------------------------------------
\* The packets left after j evictions.
Suffix(p, j) == SubSeq(p, j + 1, Len(p))

(* The elements of a suffix, and its length. *)
LEMMA SuffixIs ==
    ASSUME NEW S, NEW p \in Seq(S), NEW j \in 0 .. Len(p)
    PROVE  /\ Suffix(p, j) \in Seq(S) /\ Len(Suffix(p, j)) = Len(p) - j
           /\ \A i \in 1 .. Len(p) - j : Suffix(p, j)[i] = p[i + j]
<1>1. Len(p) \in Nat /\ j \in Nat /\ j <= Len(p)
  OBVIOUS
<1>2. PICK n \in Nat : n = Len(p)
  BY <1>1
<1>3. \A i \in j + 1 .. n : i \in 1 .. n
  BY <1>1, <1>2
<1>4. Len(SubSeq(p, j + 1, n)) = n - j
  BY <1>1, <1>2
<1>5. SubSeq(p, j + 1, n) \in Seq(S)
  BY <1>1, <1>2, <1>3
<1>6. ASSUME NEW i \in 1 .. n - j PROVE SubSeq(p, j + 1, n)[i] = p[i + j]
  BY <1>1, <1>2
<1> QED BY <1>2, <1>4, <1>5, <1>6 DEF Suffix

(* Nothing evicted: the suffix is the whole sequence. *)
LEMMA SuffixAll == ASSUME NEW S, NEW p \in Seq(S) PROVE Suffix(p, 0) = p
<1>1. 0 \in 0 .. Len(p) /\ Len(p) - 0 = Len(p) /\ \A i \in 1 .. Len(p) : i + 0 = i
  OBVIOUS
<1>2. /\ Suffix(p, 0) \in Seq(S) /\ Len(Suffix(p, 0)) = Len(p)
      /\ \A i \in 1 .. Len(p) : Suffix(p, 0)[i] = p[i]
  BY <1>1, SuffixIs
<1> QED BY <1>2, SeqEqual

(* One packet more evicted is the tail of the suffix. *)
LEMMA SuffixTail ==
    ASSUME NEW S, NEW p \in Seq(S), NEW j \in Nat, j < Len(p)
    PROVE  Tail(Suffix(p, j)) = Suffix(p, j + 1) /\ Len(Suffix(p, j)) > 0
<1> DEFINE q == Suffix(p, j)
           u == Suffix(p, j + 1)
<1>1. PICK n \in Nat : n = Len(p)
  OBVIOUS
<1>2. j \in 0 .. Len(p) /\ j + 1 \in 0 .. Len(p)
  BY <1>1
<1>3. q \in Seq(S) /\ Len(q) = n - j /\ \A i \in 1 .. n - j : q[i] = p[i + j]
  BY <1>1, <1>2, SuffixIs
<1>4. u \in Seq(S) /\ Len(u) = n - (j + 1) /\ \A i \in 1 .. n - (j + 1) : u[i] = p[i + (j + 1)]
  BY <1>1, <1>2, SuffixIs
<1> HIDE DEF q, u
<1>5. n - j > 0 /\ n - (j + 1) = (n - j) - 1 /\ n - j \in Nat
  BY <1>1
<1>6. ASSUME NEW c \in Seq(S), Len(c) > 0
      PROVE  /\ Tail(c) \in Seq(S) /\ Len(Tail(c)) = Len(c) - 1
             /\ \A i \in 1 .. Len(c) - 1 : Tail(c)[i] = c[i + 1]
  BY <1>6
<1>7. /\ Tail(q) \in Seq(S) /\ Len(Tail(q)) = n - (j + 1)
      /\ \A i \in 1 .. n - (j + 1) : Tail(q)[i] = q[i + 1]
  BY <1>3, <1>5, <1>6
<1>8. ASSUME NEW i \in 1 .. n - (j + 1) PROVE Tail(q)[i] = u[i]
  <2>1. i + 1 \in 1 .. n - j /\ (i + 1) + j = i + (j + 1)
    BY <1>1
  <2> QED BY <1>3, <1>4, <1>7, <2>1
<1>9. Tail(q) = u
  BY <1>4, <1>7, <1>8, SeqEqual
<1> QED BY <1>3, <1>5, <1>9 DEF q, u

(* The suffix of a queue with a packet behind it. *)
LEMMA SuffixAppend ==
    ASSUME NEW S, NEW p \in Seq(S), NEW j \in 0 .. Len(p), NEW d \in S
    PROVE  Append(Suffix(p, j), d) = Suffix(Append(p, d), j)
<1> DEFINE q == Suffix(p, j)
           a == Append(p, d)
           u == Suffix(a, j)
           c == Append(q, d)
<1>1. PICK n \in Nat : n = Len(p)
  OBVIOUS
<1>2. q \in Seq(S) /\ Len(q) = n - j /\ \A i \in 1 .. n - j : q[i] = p[i + j]
  BY <1>1, SuffixIs
<1>3. ASSUME NEW s \in Seq(S), NEW e \in S
      PROVE  /\ Append(s, e) \in Seq(S) /\ Len(Append(s, e)) = Len(s) + 1
             /\ Append(s, e)[Len(s) + 1] = e /\ \A k \in 1 .. Len(s) : Append(s, e)[k] = s[k]
  OBVIOUS
<1>4. a \in Seq(S) /\ Len(a) = n + 1 /\ a[n + 1] = d /\ \A k \in 1 .. n : a[k] = p[k]
  BY <1>1, <1>3
<1> HIDE DEF q, a
<1>5. c \in Seq(S) /\ Len(c) = (n - j) + 1 /\ c[(n - j) + 1] = d /\ \A k \in 1 .. n - j : c[k] = q[k]
  BY <1>2, <1>3
<1>6. j \in 0 .. Len(a) /\ (n + 1) - j = (n - j) + 1 /\ n - j \in Nat
  BY <1>1, <1>4
<1>7. u \in Seq(S) /\ Len(u) = (n - j) + 1 /\ \A i \in 1 .. (n - j) + 1 : u[i] = a[i + j]
  <2>1. Len(a) - j = (n - j) + 1
    BY <1>4, <1>6
  <2>2. u \in Seq(S) /\ Len(u) = Len(a) - j /\ \A i \in 1 .. Len(a) - j : u[i] = a[i + j]
    BY <1>4, <1>6, SuffixIs
  <2> HIDE DEF u
  <2> QED BY <2>1, <2>2
<1> HIDE DEF u, c
<1>8. ASSUME NEW i \in 1 .. (n - j) + 1 PROVE c[i] = u[i]
  <2>1. CASE i \in 1 .. n - j
    <3>1. i + j \in 1 .. n
      BY <1>1, <1>6, <2>1
    <3> QED BY <1>2, <1>4, <1>5, <1>7, <2>1, <3>1
  <2>2. CASE i = (n - j) + 1
    <3>1. i + j = n + 1
      BY <1>1, <1>6, <2>2
    <3> QED BY <1>4, <1>5, <1>7, <2>2, <3>1
  <2> QED BY <1>6, <2>1, <2>2
<1>9. c = u
  BY <1>5, <1>7, <1>8, SeqEqual
<1> QED BY <1>9 DEF c, u, q, a
\* The function by which Evicting is defined, up to n.
Tries(g, r, d, n) ==
    g = [k \in 0 .. n |-> IF k = 0 THEN TryPush(r, d) ELSE Retry(g[k - 1], d)]

\* There is such a function.
LEMMA TriesExist ==
    ASSUME NEW r, NEW d, NEW n \in Nat
    PROVE  \E g : Tries(g, r, d, n)
<1> DEFINE B == {k \in Nat : ~\E g : Tries(g, r, d, k)}
           z == TryPush(r, d)
<1> SUFFICES B = {}
  OBVIOUS
<1> SUFFICES ASSUME B # {} PROVE FALSE
  OBVIOUS
<1>1. B \subseteq Nat
  OBVIOUS
<1> HIDE DEF B
<1>2. PICK k \in B : \A y \in B : k <= y
  BY <1>1, LeastNat
<1>3. k \in Nat /\ ~\E g : Tries(g, r, d, k)
  BY DEF B
<1> HIDE DEF z
<1>4. CASE k = 0
  <2> DEFINE g == [i \in 0 .. 0 |-> z]
  <2>1. g = [i \in 0 .. 0 |-> IF i = 0 THEN z ELSE Retry(g[i - 1], d)]
    OBVIOUS
  <2>2. Tries(g, r, d, 0)
    BY <2>1 DEF Tries, z
  <2> QED BY <1>3, <1>4, <2>2
<1>5. CASE k # 0
  <2>1. k - 1 \in Nat /\ k - 1 < k
    BY <1>3, <1>5
  <2>2. k - 1 \notin B
    BY <1>2, <1>3, <2>1
  <2>3. PICK h : Tries(h, r, d, k - 1)
    BY <2>1, <2>2 DEF B
  <2>4. h = [i \in 0 .. k - 1 |-> IF i = 0 THEN z ELSE Retry(h[i - 1], d)]
    BY <2>3 DEF Tries, z
  <2> DEFINE g == [i \in 0 .. k |-> IF i < k THEN h[i] ELSE Retry(h[k - 1], d)]
  <2>5. ASSUME NEW i \in 0 .. k PROVE g[i] = IF i = 0 THEN z ELSE Retry(g[i - 1], d)
    <3>1. CASE i = 0
      BY <1>3, <1>5, <2>4, <3>1
    <3>2. CASE i # 0 /\ i < k
      <4>1. i \in 0 .. k - 1 /\ i - 1 \in 0 .. k /\ i - 1 < k /\ i \in 0 .. k
        BY <1>3, <3>2
      <4>2. h[i] = Retry(h[i - 1], d)
        BY <2>4, <3>2, <4>1
      <4>3. g[i] = h[i] /\ g[i - 1] = h[i - 1]
        BY <3>2, <4>1
      <4> QED BY <3>2, <4>2, <4>3
    <3>3. CASE i = k
      <4>1. k - 1 \in 0 .. k /\ k - 1 < k /\ k \in 0 .. k /\ ~(k < k)
        BY <1>3, <1>5
      <4>2. g[k - 1] = h[k - 1] /\ g[k] = Retry(h[k - 1], d)
        BY <4>1
      <4> QED BY <1>5, <3>3, <4>2
    <3> QED BY <1>3, <3>1, <3>2, <3>3
  <2>6. g = [i \in 0 .. k |-> IF i = 0 THEN z ELSE Retry(g[i - 1], d)]
    BY <2>5
  <2>7. Tries(g, r, d, k)
    BY <2>6 DEF Tries, z
  <2> QED BY <1>3, <2>7
<1> QED BY <1>4, <1>5

\* Evicting is its last value.
LEMMA EvictingIs ==
    ASSUME NEW r, r.count \in Nat, NEW d
    PROVE  \E g : Tries(g, r, d, r.count) /\ Evicting(r, d) = g[r.count]
<1> DEFINE f == CHOOSE g : Tries(g, r, d, r.count)
<1>1. Tries(f, r, d, r.count)
  BY TriesExist
<1>2. Evicting(r, d) = f[r.count]
  BY DEF Evicting, Tries
<1> QED BY <1>1, <1>2

\* After at most k evictions the ring holds the packets left, or those and the new one.
\* The head stays where it was, at h, and a panic shows that h was the last byte.
Pushed(t, p, d) ==
    /\ t.ok /\ ~t.ring.panicked
    /\ \E j \in 0 .. Len(p) :
          /\ t.ring.count = Len(p) - j + 1
          /\ t.ring.head # t.ring.tail => \E u, v : Layout(t.ring, Suffix(Append(p, d), j), u, v)
Evicted(t, h, k, p, d) ==
    \/ ~t.ok /\ t.ring.panicked /\ h + 1 = RingBytes
    \/ ~t.ok /\ k < Len(p) /\ NotTwice(t.ring, d) /\ t.ring.head = h /\ \E u, v : Layout(t.ring, Suffix(p, k), u, v)
    \/ Pushed(t, p, d)

(* After k evictions the next try_push either writes the packet behind what is
   left or leaves the ring as it was. *)
LEMMA EvictedTry ==
    ASSUME NEW r, NEW p, p \in Seq(Seq(Nat)), NEW k \in 0 .. Len(p), NEW x, NEW y,
           Layout(r, Suffix(p, k), x, y), NEW d, Packet(d), NotTwice(r, d),
           NEW h, r.count > 0 => r.head = h
    PROVE  Evicted(TryPush(r, d), h, k, p, d)
<1> DEFINE q == Suffix(p, k)
           t == TryPush(r, d)
<1>1. Len(q) = Len(p) - k /\ Len(p) \in Nat
  BY SuffixIs
<1>2. d \in Seq(Nat)
  BY DEF Packet
<1>3. Append(q, d) = Suffix(Append(p, d), k)
  BY <1>2, SuffixAppend
<1>4. Tried(t, r, q, d)
  BY TryPushes
<1> HIDE DEF q, t
<1>5. CASE ~t.ok /\ t.ring.panicked /\ r.count > 0 /\ r.head + 1 = RingBytes
  BY <1>5 DEF Evicted, t
<1>6. CASE ~t.ok /\ t.ring = r /\ Len(q) > 0
  <2>1. k < Len(p)
    BY <1>1, <1>6
  <2>2. r.count > 0
    BY <1>6 DEF Layout, q
  <2> QED BY <1>6, <2>1, <2>2 DEF Evicted, t
<1>7. CASE /\ t.ok /\ ~t.ring.panicked /\ t.ring.count = Len(q) + 1
           /\ t.ring.head # t.ring.tail => \E u, v : Layout(t.ring, Append(q, d), u, v)
  <2>1. Pushed(t, p, d)
    BY <1>1, <1>3, <1>7 DEF Pushed
  <2> QED BY <2>1 DEF Evicted, t
<1> QED BY <1>4, <1>5, <1>6, <1>7 DEF Tried

\* One eviction more.
LEMMA EvictedStep ==
    ASSUME NEW p, p \in Seq(Seq(Nat)), NEW k \in Nat, k < Len(p), NEW d, Packet(d),
           NEW t, NEW h, Evicted(t, h, k, p, d)
    PROVE  Evicted(Retry(t, d), h, k + 1, p, d)
<1>1. CASE t.ok \/ t.ring.panicked
  <2>1. Retry(t, d) = t
    BY <1>1 DEF Retry
  <2>2. ~t.ok /\ k < Len(p) /\ (\E u, v : Layout(t.ring, Suffix(p, k), u, v)) => FALSE
    BY <1>1 DEF Layout
  <2> QED BY <2>1, <2>2 DEF Evicted
<1>2. CASE ~(t.ok \/ t.ring.panicked)
  <2> DEFINE rest == Pop(t.ring)
  <2>1. NotTwice(t.ring, d) /\ t.ring.head = h /\ \E u, v : Layout(t.ring, Suffix(p, k), u, v)
    BY <1>2 DEF Evicted, Pushed
  <2>2. PICK u, v : Layout(t.ring, Suffix(p, k), u, v)
    BY <2>1
  <2>3. Tail(Suffix(p, k)) = Suffix(p, k + 1) /\ Len(Suffix(p, k)) > 0
    BY SuffixTail
  <2>4. /\ \E a, b : Layout(rest, Suffix(p, k + 1), a, b)
        /\ rest.count > 0 => rest.head = t.ring.head /\ (t.ring.tail < t.ring.head => rest.tail < t.ring.head)
    <3>1. PICK o, q : o = t.ring /\ q = Suffix(p, k)
      OBVIOUS
    <3>2. Layout(o, q, u, v) /\ Len(q) > 0
      BY <2>2, <2>3, <3>1
    <3>3. /\ \E a, b : Layout(Pop(o), Tail(q), a, b)
          /\ Pop(o).count > 0 => Pop(o).head = o.head /\ (o.tail < o.head => Pop(o).tail < o.head)
      BY <3>2, LayoutPop
    <3> QED BY <2>3, <3>1, <3>3
  <2> HIDE DEF rest
  <2>5. PICK a, b : Layout(rest, Suffix(p, k + 1), a, b)
    BY <2>4
  <2>6. ~rest.panicked
    BY <2>5 DEF Layout
  <2>7. Retry(t, d) = TryPush(rest, d)
    BY <1>2, <2>6 DEF Retry, rest
  <2>8. NotTwice(rest, d)
    <3> SUFFICES ASSUME Wraps(rest, d), rest.count > 0 PROVE rest.tail <= rest.head
      BY DEF NotTwice
    <3>1. rest.head = t.ring.head /\ (t.ring.tail < t.ring.head => rest.tail < t.ring.head)
      BY <2>4
    <3>2. Wraps(t.ring, d)
      BY <3>1 DEF Wraps
    <3>3. t.ring.count > 0 /\ t.ring.head # t.ring.tail
      BY <2>2, <2>3 DEF Layout
    <3>4. t.ring.tail <= t.ring.head
      BY <2>1, <3>2, <3>3 DEF NotTwice
    <3>5. t.ring.tail \in Nat /\ t.ring.head \in Nat /\ rest.tail \in Nat
      BY <2>2, <2>5, LayoutTypes
    <3> QED BY <3>1, <3>3, <3>4, <3>5
  <2>9. k + 1 \in 0 .. Len(p)
    OBVIOUS
  <2>10. Evicted(TryPush(rest, d), h, k + 1, p, d)
    BY <2>1, <2>4, <2>5, <2>8, <2>9, EvictedTry
  <2> QED BY <2>7, <2>10
<1> QED BY <1>1, <1>2

\* push with front_drop ends with a panic or the new packet behind those left.
LEMMA Evicts ==
    ASSUME NEW r, NEW p, NEW x, NEW y, Layout(r, p, x, y), NEW d, Packet(d), NotTwice(r, d)
    PROVE  LET t == Evicting(r, d)
           IN  (~t.ok /\ t.ring.panicked /\ r.head + 1 = RingBytes) \/ Pushed(t, p, d)
<1> DEFINE n == Len(p)
<1>1. p \in Seq(Seq(Nat)) /\ n \in Nat /\ r.count = n
  BY LayoutTypes DEF Layout
<1>2. PICK g : Tries(g, r, d, n) /\ Evicting(r, d) = g[n]
  BY <1>1, EvictingIs
<1>3. g = [k \in 0 .. n |-> IF k = 0 THEN TryPush(r, d) ELSE Retry(g[k - 1], d)]
  BY <1>2 DEF Tries
<1> DEFINE B == {k \in 0 .. n : ~Evicted(g[k], r.head, k, p, d)}
<1>4. B = {}
  <2> SUFFICES ASSUME B # {} PROVE FALSE
    OBVIOUS
  <2>1. B \subseteq Nat
    BY <1>1
  <2>2. PICK k \in B : \A i \in B : k <= i
    BY <2>1, LeastNat
  <2>3. k \in 0 .. n /\ ~Evicted(g[k], r.head, k, p, d) /\ k \in Nat
    BY <2>1
  <2>4. CASE k = 0
    <3>1. g[0] = TryPush(r, d) /\ 0 \in 0 .. Len(p)
      BY <1>1, <1>3
    <3>2. Suffix(p, 0) = p
      BY <1>1, SuffixAll
    <3>3. Evicted(TryPush(r, d), r.head, 0, p, d)
      BY <1>1, <3>1, <3>2, EvictedTry
    <3> QED BY <2>3, <2>4, <3>1, <3>3
  <2>5. CASE k # 0
    <3>1. k - 1 \in 0 .. n /\ k - 1 < k /\ k - 1 \in Nat /\ k - 1 < n /\ (k - 1) + 1 = k
      BY <1>1, <2>3, <2>5
    <3>2. k - 1 \notin B
      BY <2>2, <2>3, <3>1
    <3>3. Evicted(g[k - 1], r.head, k - 1, p, d)
      BY <3>1, <3>2
    <3>4. g[k] = Retry(g[k - 1], d)
      BY <1>3, <2>3, <2>5
    <3> HIDE DEF B
    <3>5. PICK i \in Nat : i = k - 1 /\ i + 1 = k /\ i < Len(p)
      BY <3>1
    <3>6. Evicted(Retry(g[i], d), r.head, i + 1, p, d)
      BY <1>1, <3>3, <3>5, EvictedStep
    <3> QED BY <2>3, <3>4, <3>5, <3>6
  <2> QED BY <2>4, <2>5
<1>5. Evicted(g[n], r.head, n, p, d)
  BY <1>1, <1>4
<1>6. ~(n < Len(p))
  BY <1>1
<1> QED BY <1>2, <1>5, <1>6 DEF Evicted
\* A push that leaves the ring not tight.
LEMMA PushKeeps ==
    ASSUME NEW r, NEW p, NEW x, NEW y, Layout(r, p, x, y), NEW d, Packet(d), NEW out,
           out = Evicting(r, d) \/ out = TryPush(r, d), ~Tight(r, out.ring, d)
    PROVE  /\ ~out.ok => \E u, v : Layout(out.ring, p, u, v)
           /\ out.ok => \E u, v : Layout(out.ring, SubSeq(Append(p, d), Len(Append(p, d)) - out.ring.count + 1,
                                                        Len(Append(p, d))), u, v)
<1> DEFINE all == Append(p, d)
<1>1. /\ p \in Seq(Seq(Nat)) /\ Len(p) \in Nat /\ r.head \in Nat /\ r.tail \in Nat
      /\ d \in Seq(Nat) /\ r.count = Len(p)
  BY LayoutTypes DEF Layout, Packet
<1>2. all \in Seq(Seq(Nat)) /\ Len(all) = Len(p) + 1
  BY <1>1
<1>3. /\ NotTwice(r, d) /\ ~(out.ring.panicked /\ r.head + 1 = RingBytes)
      /\ out.ring.count > 0 => out.ring.head # out.ring.tail
  BY <1>1 DEF NotTwice, Tight
<1> HIDE DEF all
<1>4. CASE ~out.ok
  <2>1. out.ring = r
    BY <1>3, <1>4, Evicts, TryPushes DEF Tried, Pushed
  <2> QED BY <1>4, <2>1
<1>5. CASE out.ok
  <2>1. PICK j \in 0 .. Len(p) :
          /\ out.ring.count = Len(p) - j + 1
          /\ out.ring.head # out.ring.tail => \E u, v : Layout(out.ring, Suffix(all, j), u, v)
    <3>1. CASE out = Evicting(r, d)
      BY <1>3, <1>5, <3>1, Evicts DEF Pushed, all
    <3>2. CASE out = TryPush(r, d)
      <4>1. /\ out.ring.count = Len(p) + 1
            /\ out.ring.head # out.ring.tail => \E u, v : Layout(out.ring, all, u, v)
        BY <1>3, <1>5, <3>2, TryPushes DEF Tried, all
      <4>2. Suffix(all, 0) = all
        BY <1>2, SuffixAll
      <4>3. 0 \in 0 .. Len(p) /\ Len(p) - 0 + 1 = Len(p) + 1
        BY <1>1
      <4> QED BY <4>1, <4>2, <4>3
    <3> QED BY <3>1, <3>2
  <2>2. out.ring.count > 0 /\ Len(all) - out.ring.count + 1 = j + 1
    BY <1>1, <1>2, <2>1
  <2>3. \E u, v : Layout(out.ring, Suffix(all, j), u, v)
    BY <1>3, <2>1, <2>2
  <2> QED BY <1>5, <2>2, <2>3 DEF Suffix, all
<1> QED BY <1>4, <1>5

-----------------------------------------------------------------------------
\* The packets of the queue lie in the ring, one behind the other.
RingInv == ~tight => \E x, y : Layout(ring, queue, x, y)

(* The empty ring has the empty layout. *)
LEMMA RingInvInit == RingInit => RingInv
<1> SUFFICES ASSUME RingInit PROVE RingInv
  OBVIOUS
<1>1. RingBytes \in Nat /\ 0 < RingBytes
  BY RingAssumption DEF LEN_SIZE
<1>2. ring = EmptyRing /\ queue = <<>>
  BY DEF RingInit
<1>3. /\ EmptyRing \in Rings /\ ~EmptyRing.panicked /\ EmptyRing.count = 0
      /\ EmptyRing.head = 0 /\ EmptyRing.tail = 0
  BY <1>1 DEF EmptyRing, Rings
<1>4. <<>> \in Seq(Nat) /\ <<>> \in Seq(Seq(Nat)) /\ Len(<<>>) = 0 /\ \A k \in 1 .. 0 : FALSE
  OBVIOUS
<1>5. Layout(EmptyRing, <<>>, <<>>, <<>>)
  BY <1>1, <1>3, <1>4 DEF Layout
<1> QED BY <1>2, <1>5 DEF RingInv

(* Every step keeps the layout: pop_front takes the oldest packet off, push
   evicts and writes. *)
LEMMA RingInvStep == RingInv /\ [RingNext]_ring_vars => RingInv'
<1> SUFFICES ASSUME RingInv, [RingNext]_ring_vars PROVE RingInv'
  OBVIOUS
<1>1. ASSUME ~tight, NEW n \in Lengths, NEW byte \in 0 .. ByteMod - 1, Push([i \in 1 .. n |-> byte])
      PROVE  RingInv'
  <2> DEFINE d == [i \in 1 .. n |-> byte]
             out == IF front_drop THEN Evicting(ring, d) ELSE TryPush(ring, d)
             all == Append(queue, d)
  <2>1. /\ Needed(d) <= RingBytes /\ ring' = out.ring
        /\ queue' = IF ~out.ok THEN queue ELSE SubSeq(all, Len(all) - out.ring.count + 1, Len(all))
        /\ tight' = (tight \/ Tight(ring, out.ring, d))
    BY <1>1, Zenon DEF Push
  <2>2. Packet(d)
    <3>1. n \in Nat /\ n > 0 /\ byte \in Nat
      BY RingAssumption
    <3>2. d \in Seq(Nat) /\ Len(d) = n
      BY <3>1
    <3> QED BY <2>1, <3>1, <3>2 DEF Packet
  <2>3. out = Evicting(ring, d) \/ out = TryPush(ring, d)
    OBVIOUS
  <2> HIDE DEF d, out
  <2> SUFFICES ASSUME ~tight' PROVE \E u, v : Layout(ring', queue', u, v)
    BY DEF RingInv
  <2>4. ~Tight(ring, out.ring, d)
    BY <2>1
  <2>5. PICK x, y : Layout(ring, queue, x, y)
    BY <1>1 DEF RingInv
  <2>6. /\ ~out.ok => \E u, v : Layout(out.ring, queue, u, v)
        /\ out.ok => \E u, v : Layout(out.ring, SubSeq(all, Len(all) - out.ring.count + 1, Len(all)), u, v)
    BY <2>2, <2>3, <2>4, <2>5, PushKeeps
  <2> HIDE DEF all
  <2>7. CASE ~out.ok
    BY <2>1, <2>6, <2>7
  <2>8. CASE out.ok
    BY <2>1, <2>6, <2>8
  <2> QED BY <2>7, <2>8
<1>2. ASSUME ~tight, PopFront PROVE RingInv'
  <2>1. ring.count > 0 /\ ring' = Pop(ring) /\ queue' = Tail(queue)
    BY <1>2 DEF PopFront
  <2>2. PICK x, y : Layout(ring, queue, x, y)
    BY <1>2 DEF RingInv
  <2>3. Len(queue) > 0
    BY <2>1, <2>2 DEF Layout
  <2>4. \E u, v : Layout(Pop(ring), Tail(queue), u, v)
    BY <2>2, <2>3, LayoutPop
  <2> QED BY <2>1, <2>4 DEF RingInv
<1>3. CASE UNCHANGED ring_vars
  <2>1. ring' = ring /\ queue' = queue /\ tight' = tight
    BY <1>3 DEF ring_vars
  <2> QED BY <2>1 DEF RingInv
<1> QED BY <1>1, <1>2, <1>3 DEF RingNext

\* The ring is the queue of its packets (RingIsQueue, push, front and pop of ringbuf.rs)
\* for every size of the buffer and all packets that fit into it: across wraps, gaps and
\* evictions front() is the oldest packet, whole, and no index is out of bounds, as
\* long as the ring is not tight.
THEOREM RingStaysQueue == RingSpec => []RingIsQueue
<1>1. RingInv => RingIsQueue
  <2> SUFFICES ASSUME RingInv, ~tight
               PROVE  /\ ~ring.panicked /\ ring.count = Len(queue)
                      /\ queue # <<>> => Readable(ring) /\ FrontPacket(ring) = Head(queue)
    BY DEF RingIsQueue
  <2>1. PICK x, y : Layout(ring, queue, x, y)
    BY DEF RingInv
  <2>2. ~ring.panicked /\ ring.count = Len(queue) /\ queue \in Seq(Seq(Nat))
    BY <2>1 DEF Layout
  <2>3. ASSUME queue # <<>> PROVE Readable(ring) /\ FrontPacket(ring) = Head(queue)
    <3>1. Len(queue) > 0 /\ Head(queue) = queue[1]
      BY <2>2, <2>3
    <3> QED BY <2>1, <3>1, LayoutFront
  <2> QED BY <2>2, <2>3
<1> QED BY <1>1, RingInvInit, RingInvStep, PTL DEF RingSpec
=============================================================================
