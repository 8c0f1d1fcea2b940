# TLA+ models of the LeoDOS protocols

LeoDOS is the software of a constellation of satellites: protocol layers (crate
`leodos-protocols`), a distributed computing layer (`leodos-spacecomp`), bindings to
NASA's cFS (`leodos-libcfs`) and flight applications. This directory holds TLA+ models of
the two retransmission protocols on which everything else rests (SRSPP end to end, COP-1
per hop), of file transfer (CFDP class 2), of routing, gossip and the bridge of the network
layer, of frame security (SDLS) and of map-reduce jobs with the solvers of their plans, the
TLC runs that check them, and TLAPS proofs of most of their invariants.

Run a check with `tlc -config X.cfg M` and a proof with `tlapm M.tla`; `PROJECT.json` lists
the runs, the source lines behind every definition, the hazards and the theorems.

## The system

| Part | State it keeps | Operations | What is hard about it |
|---|---|---|---|
| SRSPP sender (`transport/srspp/machine/sender.rs`, `api/cfs/sender.rs`) | window of slots, send buffer, queue of actions, timer set | send, send_eos, ACK, timeout, link write, drop, bind | the application runs while the loop awaits the link; queue and timer set are bounded and drop silently; compaction |
| SRSPP receiver (`machine/receiver/`, `api/cfs/receiver.rs`) | expected number, bitmap, reorder buffer, reassembly buffer, ACK state, two deadlines, EOS | data, EOS, ACK timeout, progress timeout, recv | loss, repetition and reordering; wrap-around; one message buffer; gaps that never close |
| SRSPP endpoint (`api/cfs/endpoint.rs`) | sender slots, streams, errors | run loop, views | one task for everything, errors end the loop |
| COP-1 FOP-1 (`datalink/reliability/cop1/fop.rs`) | state, V(S), NN(R), sent queue, T1 | send AD/BD, CLCW, T1, seven directives | stale CLCWs, go-back-N, restarts |
| COP-1 FARM-1 (`cop1/farm.rs`) | state, V(R), three flags, counter | AD, BD, BC frames, buffer release | paths between Wait, Lockout and Open |
| CFDP class 2 (`transport/cfdp/class2/machine`) | transactions, progress, ranges received, retries, timers | put, data read, checksum, PDUs, timers, suspend, resume, prompt | timers of two ends that must neither stop too early nor outlive their purpose; reads and writes that finish later |
| ISL routing (`network/isl/torus.rs`, `routing/`) | output ring per port, gateways | send, read a port, write a port | ties on the rings of the torus, gateways that move while a packet is on its way and that each router computes with its own clock |
| ISL gossip (`network/isl/gossip`) | epoch counter, filter of epochs | write, read and forward | cycles of the torus, wrap of the epochs, epochs of several origins |
| Ring buffer (`utils/ringbuf.rs`) | bytes, two cursors, count | push, front, pop | gaps, wraps, eviction, a full ring |
| Bridge and local channel (`network/bridge.rs`, `datalink/link/local.rs`) | two queues, closed | run, read and write on both sides, close | one loop for both directions that awaits full queues |
| SDLS (`datalink/security/sdls`) | sequence numbers, window; keys and associations by id | protect, check; load, activate, OTAR, create, rekey, start, ... | replay, wrap of a short field; procedures in any order, blocks that fail halfway |
| SpaceComp (`leodos-spacecomp`) | role per node, connections, counts of ended peers | dispatch, collect, map, reduce | jobs that share nodes, messages that overtake assignments, connections that restart |
| Assignment (`leodos-spacecomp/src/plan/assignment`) | potentials, matching, slack | solve | unsigned potentials below zero, optimality |
| Framing, coding, compression, physical | mostly none | encode, decode | numeric |

Parts interact by calls within one task (machine, driver, endpoint), by messages (packets and
ACKs between endpoints, frames and CLCWs between FOP-1 and FARM-1) and by shared state
behind `SyncRefCell` (application and run loop). `PROJECT.json` lists all components, with
the reason for each that is not modelled.

What makes them correct: the transport delivers whole messages, in order, once; no packet,
ACK, timer or gap is forgotten; what is acknowledged was received; a packet is given up only
after all its attempts; `flush` returns. COP-1 keeps the order of AD frames, acknowledges only
what was accepted, and the flags of the CLCW agree with the state of FARM-1. A CFDP
transaction has a timer or work under way once its Metadata is accepted; its EOF follows all
data; the tracker claims only what is in the file. A packet takes a shortest way and settles; a
flood ends, reaches everyone and delivers once; no protected frame with a number passes twice;
keys only age; the phases of a job end in order; a plan is a cheapest one.

## The modules

- `SrsppSeq`, `Cop1Seq`: arithmetic of the sequence spaces, with the size as a constant.
- `SrsppSender`: one sender slot. An action is what happens between two awaits of the run
  loop: `StartWrite` and `FinishWrite` are the two sides of `link.write(..).await`; in
  between (`tx_pc = "write"`), as in the select, the application may `Send`, `SendEos`,
  `Drop` or `Bind`. `SendRequest` is the whole of `handle_send_request` with its
  `queue_packet` calls and a `compact`. Bytes are pairs (message, position), so that
  corruption shows. `HandleTimeout` acts on the first expired number right after the select, as
  the driver does (`api/cfs/sender.rs:181`), with what the application queued meanwhile still in the
  action list; only between two numbers `transmit` drains it.
  `sends`, `gave_up`, `writes`, `rebinds` and `overtaken` are history.
- `SrsppReceiver`: one stream, for the packed and the fast backend. The handlers of the
  backend are operators on a record (`HandleData`, `SkipGap`), because a packet may be
  handled by the stream or by the fresh one that replaces it. `events`, `completed`,
  `passed` and `reaps` are history.
- `SrsppStream`: the receiver with any order, loss and repetition of a given sequence of
  packets; `MCSrsppStream` defines the sequences.
- `Srspp`: sender and receiver over a network that keeps everything ever written, from which
  anything may be read again or never. `SrsppChannel` says what the pair promises to the
  applications; `ImplementsChannel` is the refinement.
- `Farm`, `Fop`: the two machines of COP-1, one action per event (some split by case).
  `Fop` includes a driver that executes the actions of an event before the next event;
  it is external, since `Cop1Writer` hands actions out. `Cop1` joins them by two
  links that keep order and may lose.
- `CfdpTracker`, `CfdpLink`, `CfdpSender`, `CfdpReceiver`, `Cfdp`: the two CFDP machines, one
  action per event, over a set of PDUs from which anything may be read again or never. What a
  machine asks of its filestore (`reads`, `calcs`, `writes`, `verifying`) is answered later, in any
  order. `reads` and `calcs` are bags: a resume, or a NAK, starts a chain of reads of the file beside one
  that is still outstanding, and each goes on to a checksum and an EOF of its own. Since the in-tree receiver never completes a file (below), a constant initial
  choice `peer` lets either end be another implementation: then what such a peer may send at that point is on the link. A foreign receiver sends
  NAKs before the EOF, too, for any range before the end of a chunk it has seen (immediate NAK mode,
  or prompted); that it asks for nothing beyond is an assumption, for the sender reads a requested range on to
  the end of the file and then sends the EOF. A foreign sender's Metadata may hold filestore
  requests that do not parse: `handle_metadata` then fails between the insertion of the transaction and
  the start of its timers (`RecvMetadata`, `refused`). Filestore requests that parse (the sender here
  makes none) are left out. `file` is what was really written.
- `Torus`, `IslRouting`: the grid, addresses and their two bytes, both routing algorithms and
  the routers of all satellites. `DistanceMinimizing` compares lengths of links, which depend
  on time and on floating point: either hop is possible. Each router computes the gateway of a
  station at the time of its own clock: `gateway` is the one after the last change, and `shown` has every one
  that some clock may still show. A router may use any of `shown`, which is more than the code allows (one
  clock does not go back); `ClocksAgree` is the moment when the slowest clock has passed the change.
  A station is any byte; without a gateway it stands for satellite (0, station), which need not exist.
- `EpochFilter`, `Gossip`: the duplicate filter on the circle of epochs, and flooding.
- `RingBuffer`: the output ring of a port byte by byte, beside the queue it stands for.
- `Bridge`: an application behind a `LocalChannel` and the bridge loop; an action is what
  happens between two awaits. The application has the one handle `LocalChannel::split` gives it, whose `read` and
  `write` both take `&mut self`: while it awaits a write it reads nothing (`app_pc`), as
  `SrsppEndpoint::run` does in `endpoint.rs:365`.
- `Sdls`, `SdlsKeys`: one association at its two ends, with ciphers abstracted to whether a frame
  verifies and the header to its sequence number field, which may be absent; the ring of keys and the table of associations under every order of procedures.
- `SpaceComp`: coordinator, dispatch loop and roles of every satellite, over SRSPP as it is used
  there: in order and without loss, but with connections that number from 0 again.
- `Assignment`: `Hungarian` and `JonkerVolgenant`, one round of a search per action, with
  costs modulo `CostMod` as a release build computes them.
- `MCSpaceComp`: SpaceComp alone, with a plan whose reducer maps. `MCApplication`, `MCNetwork`: each joins several independent parts in one run; the variable
  `part` is chosen initially, the other parts stay in their initial states.
- `SrsppSenderProofs`, `SrsppStreamProofs`, `SrsppProofs`, `Cop1Proofs`, `ApplicationProofs` (CFDP,
  SpaceComp), `NetworkProofs` (routing, bridge, gossip, ring), `SdlsProofs`: theorems and proofs. `ModularArithmetic`: facts on `%`.
- Definitions commented as "mutant of ..." are faulty variants of the definition that
  follows; with one of them in its place the property listed in `PROJECT.json` must fail.

Left out of the modelled code: `send_base` (written, read by nothing the models cover), the
addresses and APIDs of packets, the durations of timers, the fields of the CLCW that FOP-1
does not read, `pending_bd`, and the unused `window_width` and `timeout_type` of FOP-1.

## The runs

| Run | Shows |
|---|---|
| `sender` | queue, timers and buffer stay consistent; attempts are counted right; `flush` returns |
| `stream` | delivery whole and in order through wrap-around; EOS last; ACKs and gaps are timed; gaps close |
| `srspp` | the pair implements the channel for one connection; ACKs are true |
| `cop1` | order, acknowledgment, flags and T1 |
| `application` | CFDP: EOF after all data, no accepted transaction without a timer or work, Ack timer only for an unacknowledged EOF, sound tracker; phases of jobs end in order; `Hungarian` is optimal |
| `network` | shortest ways that settle; floods that end, reach all and deliver once; no replay; associations in use have keys, keys only age; the ring is a queue; the bridge loses nothing and holds nothing back unless both ends wait for each other |
| `sack` | violated: sender and receiver number the bits of the selective ACK differently |
| `eos` | violated: a duplicate after EOS is delivered again |
| `unread` | violated: an unread complete message is overwritten |
| `packed` | violated: the packed backend's slab is cleared under buffered segments |
| `center` | violated: a reducer at the center, which maps too, ends its map phase on the PhaseDone of another mapper |
| `assignment` | violated: `JonkerVolgenant` returns an assignment that is not a cheapest one |

The six violated properties state what the documents of the repository say; `PROJECT.json`
quotes them under "findings".

### Bounds

- `sender`: a window of 2, a buffer of 3 bytes for packets of up to 2, so that compaction,
  WindowFull and BufferFull all happen; an action queue of 2, which overflows (a
  SpaceAvailable is dropped) and is the smallest for which `PendingIsQueued` holds. In
  general 2 * WIN - 1 places are enough: an ACK leaves a StopTimer for each of up to WIN - 1
  slots and a SpaceAvailable, and sends during the next write add WIN - 1 Transmits; a timeout
  that comes right after a select with WIN - 1 new Transmits adds one. The code has 32, enough for WIN up to 16. 3 sends; one
  retransmission; one drop and rebind; 8 sequence numbers. ACKs are any that cover
  only packets already on the link.
- `stream`: a window of 3 and 6 sequence numbers for 8 packets, so that the numbers wrap and
  old packets carry numbers near the window; a packet is at most 3 behind (`MaxAge`):
  together with the window of 3 this is the most the space of 6 can tell apart, as 2^14
  is for the code's windows. Messages of one and of three segments, then EOS.
- `srspp`: two sends of one or two packets, or one and an EOS; a window of 2; one
  retransmission; 16 numbers, so that a number names one packet. Immediate ACKs and no gap
  skipping, as the applications configure it. `MaxReaps = 0` ends the behaviour at the
  first packet after the end of the stream: what happens then is the run `eos`. The same
  instance with three sends (3.1 million states) also passes, beyond the time limit kept here.
- `cop1`: 8 frame numbers, a FARM window of 4, a sent queue of 2, three FDUs, two directives,
  `TransmissionLimit` 2, links of 3 frames and 2 CLCWs. Set V(R) to 7 makes the next
  frames wrap. The action list holds 3 = WIN + 1 (the code: 16, so WIN up to 15).
- `application`: CFDP with files of 0, 1 and 2 chunks (2 with a foreign receiver), two puts, one
  place per table, `MAX_GAPS` 2 for five chunks of a foreign sender so that ranges merge and a
  range is forgotten, one repetition of the EOF, no repetition of a NAK, one prompt,
  suspension or keep-alive; at most two reads of one chunk and two checksums of one file at a time
  (`MaxCopies`: enough for a chain of reads that a resume, or a NAK, starts beside another one, to meet it;
  between the two in-tree ends only one,
  for the link is a set of PDUs that a second copy does not change, so that the run ends in time);
  `FaultHandler` Cancel. Two jobs of one collector and one chunk each that share mapper and reducer, with
  satellites in several roles. All 3 x 3 matrices over the costs 0, 1, 3 with a sorted first
  row; `CostMod` 64 is far above what three rounds add up.
- `network`: a torus of 3 x 4, odd and even, with four flows (`MCFlows`): to a satellite with two
  ways of different length, to the same one from half-way round a ring of four (a tie), to a station whose id is
  a satellite's (1) and to one whose id is none (5). Two packets, rings of one packet, two satellites that come in
  sight of a station (one of them initially), one change of a gateway that some routers see before others; gossip on 2 x 2, two messages, epochs modulo 8 that wrap
  (`StartEpoch` 7), a history of 3; a sequence number field of 3 values, or none, under a counter of
  5 (`SnMods`, `CounterMod`); three key ids for a ring of two, one association, one OTAR block of two keys; a ring
  of 12 bytes for packets of 1 to 3, with bytes of two values so that a length has two
  bytes that matter; a channel of one packet each way, three packets each way.

`CHECK_DEADLOCK FALSE` stands where the system may stop for good: two idle applications or an
ended run loop (`Srspp`), every transfer, job or search done (`application`, `assignment`),
every packet delivered (`network`).

### Fairness

The executor polls the run loop (`WF` of its steps), a `link.write` ends, with success or not
(`WF`; nothing forces a failure while the loop waits for packets), the select ends at the
earliest deadline or, with none, after the 100 ms of `duration_until` (`WF`),
and a retransmission timer that is armed again and again fires in the end (`SF`):
`select_biased!` prefers packets, but packets do not arrive without pause for ever. The
receiver's progress timer has weak fairness only, since each packet pushes it back. Nothing is assumed
of the application, of the consumer or of ACKs. `FlushReturns` and `GapsClose` rest on these.

In `network` each packet that a router has or that waits at one is read or written in the end: `WF` of
`RouterStep(i)` for each packet, since every router is a process of its own and reads and writes all its ports;
and the clocks run (`WF` of `ClocksAgree`), so that after the last change all routers see the same
gateway (`PacketsSettle`). The gossip loops keep running (`FloodEnds`). One executor polls the bridge and the
application (`WF` of `BridgeStep` and `AppStep`; `network.write` ends with success or not): the application ends
the read or the write it awaits when it can, and when it begins a write is its own choice (`ArrivalsReachApp`).
Nothing is assumed of links or senders.

### What properties exclude

Two properties on timers, and `FlushReturns`, exclude a sender that is dropped while its packet is in
`link.write` (`overtaken`): the loop then arms a timer for the old number in the slot
of the new sender. `AckedIsAccepted` excludes behaviours in which a CLCW completed an
initialisation, because that CLCW may be an old one, or a Set V(R) was sent (`resynced`). `RingIsQueue` excludes a ring that
is `tight`: filled to the last byte (head = tail with packets in it, which the next push takes for
an empty ring), gone round a second time while head < tail, or with a gap of one byte (the
sentinel's second byte is out of bounds; any other panic of a push is a violation). Each of the three is necessary: without it TLC shows a
packet overwritten or an index out of bounds, although the comment says "When the ring is full,
`push` returns `false` and the packet is dropped" (`ringbuf.rs:10`). All are listed as hazards.

`ReceiverIsWatched` excludes transactions in `refused`: their Metadata failed after they were opened, and
they have no timer and keep their place until a further PDU of theirs, or a resume, starts one.
`NoReplay` asks for different numbers only where the header has a number: with `sn_len = 0`, which
`ManagedSa::new` sets and the AES-GCM test of the repository uses, `process_security` checks none
(`sdls/mod.rs:523, 567`) and a repeated frame passes. `PacketsSettle` excludes packets to a station
without a gateway whose id is no index of a satellite (`OffTorus`): no router is at (0, station), so they
circle in plane 0 for ever. A router of the flight build, a release build
(`apps/cargo_rust_app.cmake:49`), computes the distance modulo 256 where it would be negative; a build with
overflow checks panics there. `ArrivalsReachApp` excludes `WritesFaceEachOther`: the
bridge awaits a write to the full channel while the application awaits a write to the full channel the other
way. The model reaches this deadlock, and the property says that it is the only way for a packet to
get stuck.

## The proofs

All theorems hold for every value of the constants within the assumptions the modules name
(`FrameSpaceAssumption`, `RxAssumption`, ..., which TLC evaluates in every run) and, where a
theorem has one, its own hypothesis:

| Module | Theorem | Property | Hypothesis |
|---|---|---|---|
| `Cop1Proofs` | `FarmTypeCorrect`, `FlagsAreConsistent` | `FarmTypeOK`, `FlagsMatchState` of `FarmSpec` | |
| | `Cop1TypeCorrect` | `Cop1Type` of `Cop1Spec` | |
| | `Cop1ImplementsFarm`, `Cop1FlagsAreConsistent` | `Cop1Spec => FarmSpec` and what follows | |
| | `T1IsRunning` | `T1CoversSentFrames` | `ActionsFit` |
| | `FdusStayInOrder` | `AcceptedInOrder` | `BufferIsShort` |
| | `AcknowledgedWasDelivered` | `AckedIsAccepted` | `HalfCircle` |
| `SrsppSenderProofs` | `GiveUpIsLast` | `GiveUpAfterAllAttempts` (action property) | |
| | `PendingStaysQueued`, `AwaitingStaysTimed` | `PendingIsQueued`, `AwaitingIsTimed` | `RoomForActions`, `[]DistinctSeqs` |
| | `NumbersStayApart` | `DistinctSeqs` | `NumbersLast` |
| | `SenderForgetsNothing` | `PendingIsQueued`, `AwaitingIsTimed` | `RoomForActions`, `NumbersLast` |
| | `PayloadsStayIntact`, `SenderStaysTyped` | `PayloadIntact`, `TxTypeOK` | |
| `SrsppStreamProofs` | `OwedAcksAreScheduled`, `GapsAreTimed` | `OwedAckIsScheduled`, `GapIsTimed` | |
| | `BitmapIsTrue` | `BitmapMatchesSlots` | `WindowDividesSpace` |
| | `ReceiverStaysTyped` | `RxTypeOK` | |
| | `EndComesLast` | `EosIsLast` | `WindowDividesSpace`, `NumbersApart`, `EosIsFinal`, `MaxReaps = 0` |
| | `MessagesStayWhole`, `MessagesStayInOrder` | `DeliveredIntact`, `DeliveredInOrder` | `WindowDividesSpace`, `NumbersApart`, `FastSlots`, `MaxReaps = 0` |
| `SrsppProofs` | `AcksTellTheTruth` | `AcksAreTrue` | `WindowDividesSpace`, `[]OneConnection` |
| `ApplicationProofs` | `CfdpTypes` | `CfdpTypeOK` | |
| | `CfdpEofAfterAllData`, `CfdpAckTimer` | `EofAfterAllData`, `AckTimerIsCurrent` | |
| | `CfdpReceiverWatched` | `ReceiverIsWatched` | a fault cancels or abandons |
| | `CfdpTrackerIsSound` | `TrackerIsSound` | |
| | `CfdpEofIsCovered` | `EofIsCovered` | `NaksCanAsk` |
| | `PhasesStayInOrder` | `PhasesInOrder` | `ReducerApart` |
| `NetworkProofs` | `RoutingShortestWay` | `ShortestWay` (sides of the torus up to 255, `TorusType`) | |
| | `BridgeLosesNothing` | `BridgeKeepsAll` | |
| | `GossipDeliveredOnce` | `DeliveredOnce` | `EpochsApart` |
| | `GossipFloodReaches` | `FloodReaches` | `EpochsApart`, `HistoryReaches` |
| | `RingStaysQueue` | `RingIsQueue` | |
| `SdlsProofs` | `SdlsNoReplay` | `NoReplay` | |
| | `KeysOperational`, `KeysAge` | `OperationalHasKey`, `KeysOnlyAge` (action property) | |

`ModularArithmetic` has the facts on `%` that the circles of numbers need and the solver does
not find by itself: successors, sums, differences within one turn. It also has `LeastNat`: a set of
naturals that is not empty has a least member. Where a fact needs an induction (a scan over
ranges, a distance on the torus, a count), the proof takes the first place at which the fact fails and
shows that it does not fail there.

The hypotheses and why the code meets them:

- `ActionsFit`: the window is smaller than the action list (8 and 16 in the code); otherwise a
  go-back pushes the StartTimer out of the list, which TLC shows with equal sizes.
- `BufferIsShort`: the FDU buffer holds fewer FDUs than there are frame numbers (1024 bytes, 256
  numbers, FDUs of more than four bytes). Since the buffer only frees its space when a transfer
  starts anew, it bounds the numbers one transfer uses; without it a frame of the last turn
  would carry the number FARM-1 expects in this one.
- `HalfCircle`, `EpochsApart`: a behaviour takes FDUs, or gossips, for at most half of the circle.
  `remove_acknowledged` and `is_forward` compare on a circle; a report or a copy delayed by more
  than half a turn is ambiguous to the code, too, and the models let one be delayed for ever.
- `WindowDividesSpace`: a window of 8 divides 2^14, so slots do not collide where numbers wrap.
- `NumbersApart`: no packet arrives so late that its number is in the window again, and the window is at
  most half of the numbers (8 of 2^14 in the code: a copy may be 16376 packets old).
- `EosIsFinal`, `MaxReaps = 0`: one connection, which `done()` ends. A packet read after the end opens
  a new connection, and then the properties fail: that is the run `eos`.
- `FastSlots`: the fast backend, whose slots hold a packet (`MTU` bytes). For the packed backend the property
  is false: that is the run `packed`.
- `StreamIsCut`, an assumption of `SrsppStream` that TLC evaluates: the packets are cut as
  `handle_send_request` and `queue_eos` do it, messages whose end did not find room included.
  The configuration of the run `stream` meets all of these hypotheses.
- `RoomForActions`: the action list holds 2 * WIN - 1 actions (see the bounds of `sender`: 32 in the code,
  for windows up to 16).
- `[]DistinctSeqs`: the packets in the window have different numbers, a condition on the behaviour,
  without which an ACK or a timer would meet the wrong slot. Selective ACKs free slots around
  a packet that is never acknowledged, and nothing but the retransmission limit bounds how far numbers
  run ahead of it; `NumbersLast` (the sends of one connection take at most 2^14 numbers) is the
  simplest condition on the constants that implies it.
- `HistoryReaches`: the filter remembers as many epochs (128) as gossips are under way. Otherwise
  it takes an epoch behind its history for one it has seen.
- `NaksCanAsk`: the tracker has at least two ranges (four in the code), file sizes are below u64::MAX and
  a foreign receiver asks only for what the file has. With one range a NAK could ask for
  nothing but a range that starts at the end of the file: it stops the Ack timer and starts no read.
- `ReducerApart`: the reducer is none of the mappers of its job. The coordinator of the code violates it when
  it puts the reducer at `CenterOfAoi`; what happens then is the run `center`.
- `[]OneConnection`: the stream was not replaced by a fresh one and its numbers have not come round.
  A network that keeps everything for ever makes old numbers ambiguous beyond that.

The inductive invariants, and what the properties lack without them:

- FARM-1: `FlagsMatchState` with the types of the flags. That Wait implies both flags carries
  the step from Wait to Lockout; that Open implies no wait flag needs each of the four ways back.
  `FarmSpec` lets any frame arrive in any state, more than `Cop1` allows; the refinement
  `Cop1ImplementsFarm` shows each step of the composition to be an event of FARM-1 or a stutter.
- T1: `T1CoversSentFrames` is inductive with `Cop1Type`, whose `QueueIsLive` says that slots are
  occupied only during a transfer. The case that decides is the go-back, where StartTimer follows the
  resent frames in the action list.
- Order: `OrderInv`. Frames are delivered in order because numbers and FDUs on the uplink and in the
  sent queue are ordered alike (`QueueOrder`, `LinkOrder`, `ResendOrder`), because a frame that
  FARM-1 already took never has the expected number again (`StaleOrder`: V(R) has moved past it, and
  no Set V(R) that could move it back is on the link before it), and because the buffer bounds how
  far numbers spread (`Buffered`). `QueueOrder` also shows that `get_fdu(seq)` finds the one slot with that number.
- Acknowledgment: `PositionInv`. Without Set V(R) and without V(S) taken from a CLCW, the FDU sent with
  number s is the (s + 1)-th FARM-1 accepts, V(R) counts what it accepted, and every CLCW on
  the way reports at most V(R). The proof attempt showed that excluding CLCW-based initialisation
  is not enough: a Set V(R) that FARM-1 executes, followed by Terminate and an initialisation without
  CLCW, leaves V(R) ahead of V(S), and the next CLCW acknowledges frames that were only sent. `resynced`
  therefore also records Set V(R).
- Attempts: `Attempts` counts writes of a slot: as many as retransmissions while it is pending, one more
  while it awaits its ACK, so that a timeout at the limit has seen all of them.
- Sender queue: `QueueInv`. Transmits in the queue belong to different live slots, during the select
  and up to the first expired timer there are only first transmissions, and the other actions cover fewer than WIN
  places; hence never more than 2 * WIN - 1, and what finds no place is a SpaceAvailable.
- Sender timers: `TimerInv`. Every armed entry of the timer set is charged to a slot of its own, other than the
  slot whose packet is in `link.write`; so there is a free entry when the write ends.
- Send buffer: `BufferInv`. Live payloads lie below `write_pos`, whole and apart (`Lies`). `compact` puts each
  behind the total of those before it (`CompactOrder`), which is at most where it was, so that no byte is
  overwritten before it is moved. The totals are sums over sets of slots; they do not depend on the order in which the slots are
  taken (`TotalSplits`). The chunks of a message lie one behind the other (`ChunkBounds`).
- Receiver timers: `TimersInv`. While `drive_actions` waits for the link the deadline is not yet set:
  `ack_pending` implies `ack_timer_running`, which implies an armed deadline or a pending start;
  a pending "stop" or "keep" of the progress timer never meets buffered segments.
- Receiver window: `WindowInv` states bitmap and slots as two views of the same offsets from the expected
  number, with offset 0 empty. It needs that delivery of a run of segments shifts both alike
  (`DeliverRun`) for both backends and for skipped gaps.
- Receiver types: `ReceiverTypes`. The delivery of a run of segments is a fold; `DeliverRunTrace` unrolls it into one
  `deliver_packet` after the other (`Trace`), and each checks the length of what it keeps.
- End of the stream: `PositionInv` counts packets without wrapping. The distance by which the receiver sorts a packet
  tells its position (`ArrivalDistance`), a buffered segment is a packet of the peer (`Placed`), and the
  progress timer is armed only where segments are buffered (`GapsOnly`), so that no gap is skipped behind the
  last packet. `EndInv` adds that the EOS is the last packet and is reported when all are passed.
- Delivery: `DeliveryInv`. Each occupied slot holds the packet of its position in a part of the store of its own
  (`SlotsKept`); the message in progress is the beginning of a message of the peer up to the last packet
  passed (`Partial`), for otherwise nothing would keep a Continuation from being joined to the wrong message; a complete one is
  whole, and all later packets are of later messages (`Whole`). While a message is in progress no complete one waits: without
  that an empty message would leave the wrong one in progress. `skip_gap` ends the message in progress, which is
  what `ReadsSkip` needs.
- ACKs: `AckInv` adds that slots and packets have the numbers of their positions, and that the ACK that
  `link.write` has not yet put on the network is as true as those on it: what was heard stays heard.
- CFDP: `CfdpInv` adds the types of both machines and the link, that the chunk a read or a checksum
  waits for follows chunks already sent, whichever of several chains of reads it belongs to, and that a
  NAK follows an EOF or asks for nothing beyond what was sent (`ChunksSent`); that data and NAKs on the link are
  of transactions that exist (`LinkOwn`); and that a Nak timer follows an EOF (`NaksFollowEof`). Reads and checksums are bags; the proofs look only at which
  are under way at least once (`Reading`, `Summing`), and lemmas on bags (`BagAdds`, `BagLoses`) carry each
  step over to these sets (`PutView`, `DataView`, `ChecksumView`, `ResumeView`, `NakView`). `TimersFollowState` says which timer each state of a reception has;
  `ReceiverIsWatched` alone forgets it. With the handlers Ignore and Suspend a fault leaves the transaction
  without a timer, until another PDU of its file starts one or the user resumes it.
- CFDP tracker: `TrackInv`. `RangesOK` (sorted, apart, no range empty) holds before and after
  `add_segment` because of `ScanInv`: after each range the kept ones are before or behind the growing
  segment, which covers the old one and all ranges it swallowed. The sort is a permutation (`PlacesCount`).
  The tracker claims what is in the file or about to be written there in the same event.
- CFDP NAKs: `FilesFit`. Data on the link, writes, files and reads lie within the file of their
  transaction, so the tracker's holes do, too, or are the tail from 0: one range of every NAK starts within
  the file and leads to a read, at the end of which the EOF is sent again.
- SpaceComp: `JobInv`. A message is on a pipe at most once and only where the plan puts it,
  each assignment is sent and each role begun once, and what a role has counted are PhaseDones of different
  collectors, or mappers, that have ended: the last one comes after all. The proof attempt without
  `ReducerApart` failed in the step of a node that maps and reduces, which led to the run `center`.
- Routing: `RoutingInv` adds what a packet waits for: its address stands for a member of `Address`,
  and the hop it was queued for leads on. The lemmas are arithmetic on rings: `RingStep` (a step in the
  direction of the shorter way makes it shorter by one, ties included), `HopShortens` (so does every hop either
  algorithm chooses), `AddressRoundTrip` (the two bytes of an address stand for it).
- Bridge: `BridgeInv` adds to each direction what the loop holds across an await; the property is a
  prefix of it.
- Gossip: `GossipInv` adds positions: an originator's epochs follow one another, every filter's head
  is within the gossips sent so far, and what a satellite has delivered or sent is a duplicate to its filter. The
  filter forgets nothing: epochs behind its history count as duplicates (`FilterRemembers`).
  `FloodReaches` needs the converse, `ExactInv`: a filter knows exactly the epochs its satellite has seen;
  and `SpreadInv`: who has a gossip has forwarded it, so each neighbour has it, had seen its epoch, or a copy
  is on the way or lost. Were a satellite not reached, take one nearest to the origin: the
  neighbour on a shortest way was.
- Ring: `RingInv`. The packets of the queue have a `Layout`: from tail to head one lies behind the other,
  each starts where the one before it ends or, behind a gap that is marked or too short to hold
  a length, at 0, and none leaves the region in use. `pop` takes the first place off (`LayoutPop`), a write behind the last one
  keeps the bytes of the others (`PushLayout`), and a `try_push` that fails leaves the ring as it was unless
  it goes round twice. Evictions are a sequence of tries; the proof takes the first one after which the ring
  were not the rest of the queue.
- SDLS: `SdlsInv` adds that frames on the air differ in their numbers and that the receiver's counter is
  past all it has passed. `KeysInv` is the property with the types; the work is that a block that
  stops after its first key leaves a ring in which every key is as old as before or older.

Only model-checked, and why:

- `FlushReturns`, `GapsClose`, `FloodEnds`, `PacketsSettle`, `ArrivalsReachApp`: liveness under fairness is
  out of the prover's reach.
- `ImplementsChannel`: the theorems on delivery are about the packets of a peer that are given as a constant. In
  `Srspp` they are what the sender has cut so far; the refinement needs the same argument for a stream that grows, and
  the channel's counts of messages, which are `SelectSeq`s.
- `AssignmentOptimal`: optimality is the duality theorem of linear programming, a statement on sums over all
  permutations. The library's induction theorems take an operator as a parameter, which the
  provers cannot instantiate.

## What the models show beside the findings

These follow from the code as modelled and are no property of a run:

- CFDP: `SegmentTracker::is_complete` compares the length of an array of `MAX_GAPS` with 1
  (`tracker.rs:113`), so no file is ever complete: the receiver answers every EOF with a NAK until
  its limit. The missing range at the end starts at 0 when nothing was received. The runners that
  would drive the machines are not compiled ("TODO: Finish this implementation").
- SpaceComp: a node that is assigned twice to the same peer opens a second connection that
  starts at 0 while the receiver keeps its expected number; its packets are acknowledged as
  duplicates and dropped. Chunks that arrive before their AssignMapper are read and dropped by the
  dispatch loop (`node.rs:316`). `collect` of the applications does not call `done()`, and a role
  that returns without `flush` abandons what is unsent. So a job may never end; that its
  phases never end out of order is what `PhasesInOrder` shows.
- Gossip: the filter does not look at the origin, so two origins that use the same epoch hide one
  another (`FloodReaches` says so). Routing: packets to a station without a gateway and without a satellite of
  its number circle until a link loses them. SDLS: without a sequence number field nothing keeps a replay out; after an outage longer than the window every later frame is
  rejected; destroyed keys keep their place among `MAX_KEYS`.
- Bridge: an application that awaits a write before it reads again, as `SrsppEndpoint::run` does, deadlocks with
  the bridge once both queues are full (`WritesFaceEachOther`); after `close()` the loop turns without an await.
- COP-1: `write_pos` of the FDU buffer is reset only when a transfer starts anew (`fop.rs:674`), so that a long
  transfer ends with a full buffer although its frames are acknowledged.
- Solvers: in a build with overflow checks the unsigned potentials panic; only the first mappers,
  as many as there are collectors, are considered.

Hazards of the modelled parts that no property covers and that `PROJECT.json` does not list:
`send()` waits for bytes that only another send's compaction frees (`endpoint.rs:626`); without a
progress timeout a packet the sender gave up stops the stream (`machine/receiver/mod.rs:85`, the documented
reliable mode); a peer beyond `MAX_STREAMS` is ignored (`api/cfs/receiver.rs:178`); a window above 17
overflows the bitmap (`base.rs:44`, no configuration has one); `drain_stored` takes a message out
of the store before the machine accepted it (`api/cfs/sender.rs:209`); a frame queued while FOP-1
retransmits is sent only with the next request (`fop.rs:370`); `InitAdWithClcw` is left only by
Terminate (`fop.rs:523`).

## Not modelled

- Encodings without state: SRSPP packets, CFDP PDUs, SPP, TM, TC, AOS, USLP and Proximity-1
  frames, SLE, time codes. The models use the parsed fields.
- Numeric code: FEC, CRC, randomizer, modulators, image compression, orbit and link geometry, the
  cost model of plans. In instances small enough for TLC nothing of it would be left to check. It is
  the larger half of the implementation's lines, with bindings, simulation and tools.
- The lite backend of SRSPP, which no configuration uses. Reading it: an EOS at offset 0 never lets
  the expected number pass, an EOS after an unread message unwraps a None, and a gap skip
  moves an unread message.
- The framed links (`datalink/link/framed.rs`), the DTN store, the table of streams and the listener,
  several sender slots of one endpoint, shutdown.
- `leodos-libcfs`: its single-threaded executor is an assumption of every model.

## Plan

1. Prove: delivery for a stream that grows, and with it the refinement of `SrsppChannel`; optimality of
   `Hungarian` from its potentials.
2. Extend: the table of streams and the listener, the DTN store and `drain_stored`, several
   sender slots, filestore requests of CFDP, framed links.
