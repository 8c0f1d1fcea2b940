------------------------------- MODULE Bridge -------------------------------
(***************************************************************************)
(* An application behind a LocalChannel and the bridge between its router  *)
(* side and a network.  Both are loops that await one thing at a time: the *)
(* bridge selects the next packet, network first, and awaits the write of  *)
(* it before it selects again; the application, on the one handle it has   *)
(* of the channel, reads nothing while a write of its own waits.  They     *)
(* share one executor.                                                     *)
(***************************************************************************)
EXTENDS Naturals, Sequences

CONSTANTS
    QueueLen,       \* QUEUE: packets in each direction of the channel
    MaxArrivals,    \* bound: packets that come from the network
    MaxWrites       \* bound: packets the application writes

ASSUME BridgeAssumption ==
    QueueLen \in Nat \ {0} /\ MaxArrivals \in Nat /\ MaxWrites \in Nat

VARIABLES
    to_router, from_router, closed,     \* LocalChannelState
    bridge_pc,      \* "select", "link" or "network" (awaiting a write), "spin"
    holding,        \* the packet the bridge writes
    app_pc,         \* the application awaits a "read", or a "write" of its own
    net_in,         \* packets at network.read
    arrivals,       \* history: packets that came from the network
    net_out,        \* history: packets handed to network.write with success
    net_errors,     \* history: network.write failed, the packet is gone
    app_read,       \* history: packets the application read
    app_written     \* history: packets its writes put into the channel

channel_vars == <<to_router, from_router, closed>>
bridge_vars == <<channel_vars, bridge_pc, holding, app_pc, net_in, arrivals, net_out, net_errors,
                 app_read, app_written>>

BridgeInit ==
    /\ to_router = <<>> /\ from_router = <<>> /\ closed = FALSE
    /\ bridge_pc = "select" /\ holding = <<>> /\ app_pc = "read"
    /\ net_in = <<>> /\ arrivals = 0 /\ net_out = <<>> /\ net_errors = FALSE
    /\ app_read = <<>> /\ app_written = 0

Full(q) == Len(q) = QueueLen

\* a loop that never awaits keeps the executor: nothing else is polled
Polled == bridge_pc # "spin"
-----------------------------------------------------------------------------
NetworkArrival ==
    /\ arrivals < MaxArrivals
    /\ arrivals' = arrivals + 1
    /\ net_in' = Append(net_in, arrivals + 1)
    /\ UNCHANGED <<channel_vars, bridge_pc, holding, app_pc, net_out, net_errors, app_read,
                   app_written>>

\* the application's loop comes to a write, whatever there is to read
AppBegins ==
    /\ Polled /\ app_pc = "read" /\ app_written < MaxWrites
    /\ app_pc' = "write"
    /\ UNCHANGED <<channel_vars, bridge_pc, holding, net_in, arrivals, net_out, net_errors,
                   app_read, app_written>>

\* LocalAppHandle::write: Pending while the queue is full; an error on a closed channel
AppWrite ==
    /\ Polled /\ app_pc = "write"
    /\ closed \/ ~Full(to_router)
    /\ app_pc' = "read"
    /\ IF closed THEN UNCHANGED <<app_written, to_router>>
       ELSE app_written' = app_written + 1 /\ to_router' = Append(to_router, app_written + 1)
    /\ UNCHANGED <<from_router, closed, bridge_pc, holding, net_in, arrivals, net_out,
                   net_errors, app_read>>

\* LocalAppHandle::read: what is queued is still read after close()
AppRead ==
    /\ Polled /\ app_pc = "read" /\ from_router # <<>>
    /\ app_read' = Append(app_read, Head(from_router))
    /\ from_router' = Tail(from_router)
    /\ UNCHANGED <<to_router, closed, bridge_pc, holding, app_pc, net_in, arrivals, net_out,
                   net_errors, app_written>>

Close ==
    /\ Polled /\ ~closed
    /\ closed' = TRUE
    /\ UNCHANGED <<to_router, from_router, bridge_pc, holding, app_pc, net_in, arrivals, net_out,
                   net_errors, app_read, app_written>>

\* select_biased!: the network is asked first.  A closed and empty channel answers
\* the second arm with an error at once, so the loop turns without an await
SelectNetwork ==
    /\ bridge_pc \in {"select", "spin"} /\ net_in # <<>>
    /\ bridge_pc' = "link" /\ holding' = <<Head(net_in)>> /\ net_in' = Tail(net_in)
    /\ UNCHANGED <<channel_vars, app_pc, arrivals, net_out, net_errors, app_read, app_written>>

SelectLink ==
    /\ bridge_pc = "select" /\ net_in = <<>> /\ to_router # <<>>
    /\ bridge_pc' = "network" /\ holding' = <<Head(to_router)>> /\ to_router' = Tail(to_router)
    /\ UNCHANGED <<from_router, closed, app_pc, net_in, arrivals, net_out, net_errors, app_read,
                   app_written>>

SelectClosed ==
    /\ bridge_pc = "select" /\ net_in = <<>> /\ to_router = <<>> /\ closed
    /\ bridge_pc' = "spin"
    /\ UNCHANGED <<channel_vars, holding, app_pc, net_in, arrivals, net_out, net_errors, app_read,
                   app_written>>

\* mutants of RoomForApp: the other queue is looked at, none is
RoomForAppOther == ~Full(to_router)
RoomForAppAlways == TRUE

RoomForApp == ~Full(from_router)

\* LocalRouterHandle::write: Pending while the queue is full; an error is ignored
WriteLink ==
    /\ bridge_pc = "link"
    /\ closed \/ RoomForApp
    /\ from_router' = IF closed \/ Full(from_router) THEN from_router
                      ELSE from_router \o holding
    /\ bridge_pc' = "select" /\ holding' = <<>>
    /\ UNCHANGED <<to_router, closed, app_pc, net_in, arrivals, net_out, net_errors, app_read,
                   app_written>>

\* network.write: an error is ignored as well
WriteNetwork(ok) ==
    /\ bridge_pc = "network"
    /\ net_out' = IF ok THEN net_out \o holding ELSE net_out
    /\ net_errors' = (net_errors \/ ~ok)
    /\ bridge_pc' = "select" /\ holding' = <<>>
    /\ UNCHANGED <<channel_vars, app_pc, net_in, arrivals, app_read, app_written>>

BridgeStep ==
    \/ SelectNetwork \/ SelectLink \/ SelectClosed
    \/ WriteLink \/ \E ok \in BOOLEAN : WriteNetwork(ok)

AppStep == AppRead \/ AppWrite

BridgeNext == NetworkArrival \/ AppBegins \/ AppStep \/ Close \/ BridgeStep

\* the executor polls the bridge and the application in turn
BridgeSpec ==
    BridgeInit /\ [][BridgeNext]_bridge_vars /\ WF_bridge_vars(BridgeStep) /\ WF_bridge_vars(AppStep)
-----------------------------------------------------------------------------
Upto(n) == [i \in 1 .. n |-> i]

HeldFor(pc) == IF bridge_pc = pc THEN holding ELSE <<>>

\* Every packet is in one place and in its turn: in either direction, what came out,
\* what is queued and what the bridge holds between two awaits are what went in, in
\* that order, as long as the channel is open (and, outwards, no network.write failed).
BridgeKeepsAll ==
    /\ ~closed => app_read \o from_router \o HeldFor("link") \o net_in = Upto(arrivals)
    /\ ~net_errors => net_out \o HeldFor("network") \o to_router = Upto(app_written)

\* The bridge waits for the application to read and the application for the bridge to
\* take what it wrote, with both queues full: neither reads before its write is done.
WritesFaceEachOther ==
    /\ bridge_pc = "link" /\ Full(from_router)
    /\ app_pc = "write" /\ Full(to_router)

\* What came from the network reaches the application, although the bridge reads nothing
\* while it awaits a full queue, and the application nothing while it awaits the other
\* one: there is no way to get stuck but the two writes that wait for each other.
ArrivalsReachApp ==
    \A n \in 1 .. MaxArrivals :
        arrivals >= n ~> closed \/ Len(app_read) >= n \/ WritesFaceEachOther
=============================================================================
