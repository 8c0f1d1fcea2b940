------------------------------- MODULE Gossip -------------------------------
(***************************************************************************)
(* Flooding over the torus.  A satellite numbers what it originates with   *)
(* its own counter and sends it to its four neighbours; a satellite that   *)
(* reads an epoch its filter does not know forwards the packet unchanged   *)
(* in every direction that does not lead to the predecessor the packet     *)
(* names, which is its origin, and delivers it.                            *)
(*                                                                         *)
(* A copy is on its way from the moment it is in the output ring of a port *)
(* until the neighbour reads it; the ring may be full and the link loses.  *)
(***************************************************************************)
EXTENDS Torus, EpochFilter, FiniteSets

CONSTANTS
    Mesh,           \* the torus
    Originators,    \* satellites whose application gossips
    StartEpoch,     \* gossips each of them sent, and all heard, before
    MaxGossips      \* bound: messages originated

Nodes == Points(Mesh)

ASSUME GossipAssumption ==
    /\ Mesh \in TorusType
    /\ Originators \subseteq Nodes
    /\ StartEpoch \in Epoch /\ MaxGossips \in Nat

VARIABLES
    next_epoch,     \* the counter of each satellite
    dedup,          \* its DuplicateFilter
    transit,        \* the copies on their way
    gossips,        \* history: the messages originated
    received,       \* history: what each satellite delivered
    repeated,       \* history: a satellite delivered something twice, or its own
    impaired        \* history: a copy was lost or a write failed

gossip_vars == <<next_epoch, dedup, transit, gossips, received, repeated, impaired>>

\* the filter that has seen every epoch before StartEpoch
StartFilter ==
    IF StartEpoch = 0 THEN EmptyFilter
    ELSE [init |-> TRUE, head |-> StartEpoch - 1,
          history |-> {i \in 0..(History - 1) : i < StartEpoch - 1}]

GossipInit ==
    /\ next_epoch = [n \in Nodes |-> IF n \in Originators THEN StartEpoch ELSE 0]
    /\ dedup = [n \in Nodes |-> StartFilter]
    /\ transit = {}
    /\ gossips = {}
    /\ received = [n \in Nodes |-> {}]
    /\ repeated = FALSE
    /\ impaired = FALSE

\* on a ring of two both directions lead to the same satellite: one link here
Copy(n, d, m) == [by |-> n, to |-> Neighbor(Mesh, n, d), msg |-> m]

\* the first k directions of flood_directions
FirstDirections(k) == {<<"North", "South", "East", "West">>[i] : i \in 1..k}

\* Gossip::write: an error of one link keeps the packet from the later ones
Originate(n) ==
    /\ Cardinality(gossips) < MaxGossips
    /\ next_epoch' = [next_epoch EXCEPT ![n] = (@ + 1) % EpochMod]
    /\ dedup' = [dedup EXCEPT ![n] = Record(@, next_epoch[n])]
    /\ LET m == [origin |-> n, epoch |-> next_epoch[n]]
       IN  /\ gossips' = gossips \cup {m}
           /\ \E k \in 0..4 :
                 /\ transit' = transit \cup {Copy(n, d, m) : d \in FirstDirections(k)}
                 /\ impaired' = (impaired \/ k < 4)
    /\ UNCHANGED <<received, repeated>>

\* mutant of Forwards: the comparison inverted
ForwardsBack(n, m) == {d \in Direction : Neighbor(Mesh, n, d) = m.origin}

\* every direction but the predecessor's; the predecessor stays the origin
Forwards(n, m) == {d \in Direction : Neighbor(Mesh, n, d) # m.origin}

\* Event::Read: drop a duplicate; else forward and deliver
ReadCopy(c) ==
    LET n == c.to
    IN  /\ dedup' = [dedup EXCEPT ![n] = Record(@, c.msg.epoch)]
        /\ IF IsDuplicate(dedup[n], c.msg.epoch)
           THEN /\ transit' = transit \ {c}
                /\ UNCHANGED <<received, repeated>>
           ELSE /\ transit' = (transit \ {c}) \cup {Copy(n, d, c.msg) : d \in Forwards(n, c.msg)}
                /\ received' = [received EXCEPT ![n] = @ \cup {c.msg}]
                /\ repeated' = (repeated \/ c.msg \in received[n] \/ c.msg.origin = n)
        /\ UNCHANGED <<next_epoch, gossips, impaired>>

LoseCopy(c) ==
    /\ transit' = transit \ {c}
    /\ impaired' = TRUE
    /\ UNCHANGED <<next_epoch, dedup, gossips, received, repeated>>

GossipStep == \E c \in transit : ReadCopy(c)

GossipNext ==
    \/ \E n \in Originators : Originate(n)
    \/ GossipStep
    \/ \E c \in transit : LoseCopy(c)

GossipSpec == GossipInit /\ [][GossipNext]_gossip_vars /\ WF_gossip_vars(GossipStep)
-----------------------------------------------------------------------------
\* Although a packet comes back over every cycle of the torus, no satellite
\* delivers a gossip twice, nor one of its own (DuplicateFilter, also where the
\* epoch wraps).
DeliveredOnce == ~repeated

\* When nothing was lost and no write failed, a flood that has ended reached every
\* satellite, except those that had seen the same epoch number from another origin:
\* the filter does not look at the origin.
FloodReaches ==
    transit = {} /\ ~impaired =>
        \A m \in gossips : \A n \in Nodes :
            \/ n = m.origin \/ m \in received[n]
            \/ \E other \in gossips \ {m} :
                  other.epoch = m.epoch /\ (other \in received[n] \/ other.origin = n)

\* Every flood ends, although forwarded packets keep the origin as their
\* predecessor and so do go back to the satellite they came from.
FloodEnds == transit # {} ~> transit = {}
=============================================================================
