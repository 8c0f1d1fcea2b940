------------------------------ MODULE SpaceComp ------------------------------
(***************************************************************************)
(* Map-reduce jobs on the satellites.  A coordinator plans a job and sends *)
(* the assignments one by one; collectors send chunks to mappers, mappers  *)
(* to the reducer, and each end of data is a PhaseDone.  Every satellite   *)
(* runs one dispatch loop: while it is in a role it reads its messages     *)
(* through the SpaceCompRx of that role, otherwise in the loop itself.     *)
(*                                                                         *)
(* SRSPP is taken as it is used here: in order, without loss, from one     *)
(* sender to one receiver.  A new sender numbers from 0 again, while the   *)
(* receiver, which never sees an EOS, keeps its expected number: what it   *)
(* takes for a duplicate is acknowledged and dropped.                      *)
(***************************************************************************)
EXTENDS Naturals, Sequences, FiniteSets, SequencesExt

CONSTANTS
    Satellites,     \* nodes of the constellation
    Ground,         \* the ground station that submits jobs
    JobPlan,        \* by job id: its coordinator, collectors, mappers, assignment, reducer
    MaxChunks       \* bound: chunks a collector sends

Jobs == DOMAIN JobPlan
Senders == Satellites \cup {Ground}

\* plan() chooses distinct collectors, distinct mappers, and a mapper for each collector
ASSUME PlanAssumption ==
    /\ Ground \notin Satellites /\ MaxChunks \in Nat
    /\ \A j \in Jobs :
          /\ JobPlan[j].coordinator \in Satellites /\ JobPlan[j].reducer \in Satellites
          /\ JobPlan[j].collectors \in Seq(Satellites) /\ JobPlan[j].mappers \in Seq(Satellites)
          /\ IsInjective(JobPlan[j].collectors) /\ IsInjective(JobPlan[j].mappers)
          /\ JobPlan[j].assignment \in
                [DOMAIN JobPlan[j].collectors -> DOMAIN JobPlan[j].mappers]

VARIABLES
    node,           \* what the dispatch loop of each satellite is doing
    next_seq,       \* SRSPP: number of the next message from one node to another
    expected_seq,   \* SRSPP: number the receiver waits for
    flight,         \* messages sent and not yet acknowledged
    inbox,          \* messages received and not yet read, by reader and sender
    collected,      \* history: chunks sent by collectors
    mapped,         \* history: chunks mapped
    reduced,        \* history: the chunks each result was made of
    ended,          \* history: the roles that signalled done(), and the results
    failed          \* history: jobs in which app.map returned an error

net_vars == <<next_seq, expected_seq, flight, inbox>>
job_history == <<collected, mapped, reduced, ended, failed>>
job_vars == <<node, net_vars, job_history>>

Idle == [role |-> "idle"]

JobInit ==
    /\ node = [n \in Satellites |-> Idle]
    /\ next_seq = [n \in Senders |-> [m \in Satellites |-> 0]]
    /\ expected_seq = [n \in Senders |-> [m \in Satellites |-> 0]]
    /\ flight = [n \in Senders |-> [m \in Satellites |-> <<>>]]
    /\ inbox = [m \in Satellites |-> [n \in Senders |-> <<>>]]
    /\ collected = {} /\ mapped = {} /\ failed = {} /\ ended = {}
    /\ reduced = [j \in Jobs |-> <<>>]
-----------------------------------------------------------------------------
(* SRSPP *)

\* EndpointSender::send
Send(n, m, msg) ==
    /\ flight' = [flight EXCEPT ![n][m] = Append(@, [seq |-> next_seq[n][m], msg |-> msg])]
    /\ next_seq' = [next_seq EXCEPT ![n][m] = @ + 1]
    /\ UNCHANGED <<expected_seq, inbox>>

Flushed(n, m) == flight[n][m] = <<>>

\* EndpointSender::drop: what is already on the link may still arrive
DropSender(n, m) ==
    /\ \E k \in 0 .. Len(flight[n][m]) :
          flight' = [flight EXCEPT ![n][m] = SubSeq(@, 1, k)]
    /\ next_seq' = [next_seq EXCEPT ![n][m] = 0]
    /\ UNCHANGED <<expected_seq, inbox>>

\* the endpoint of m receives the next message of n and acknowledges it
Arrive(n, m) ==
    /\ flight[n][m] # <<>>
    /\ flight' = [flight EXCEPT ![n][m] = Tail(@)]
    /\ IF Head(flight[n][m]).seq = expected_seq[n][m]
       THEN /\ expected_seq' = [expected_seq EXCEPT ![n][m] = @ + 1]
            /\ inbox' = [inbox EXCEPT ![m][n] = Append(@, Head(flight[n][m]).msg)]
       ELSE UNCHANGED <<expected_seq, inbox>>
    /\ UNCHANGED <<node, next_seq, job_history>>

\* the listener hands n the oldest message of some stream
Take(n, m) ==
    /\ inbox[n][m] # <<>>
    /\ inbox' = [inbox EXCEPT ![n][m] = Tail(@)]
-----------------------------------------------------------------------------
(* Coordinator *)

Submit(j) ==
    /\ <<Ground, j>> \notin ended
    /\ ended' = ended \cup {<<Ground, j>>}
    /\ Send(Ground, JobPlan[j].coordinator, [op |-> "SubmitJob", job |-> j])
    /\ UNCHANGED <<node, collected, mapped, reduced, failed>>

CollectorCount(j, k) ==
    Cardinality({i \in DOMAIN JobPlan[j].collectors : JobPlan[j].assignment[i] = k})

\* the messages of coordinator::run in their order: collectors, mappers, reducer
Assignments(j) ==
    LET p == JobPlan[j]
    IN  [i \in DOMAIN p.collectors |->
            [to |-> p.collectors[i],
             msg |-> [op |-> "AssignCollector", job |-> j, next |-> p.mappers[p.assignment[i]]]]]
        \o [k \in DOMAIN p.mappers |->
            [to |-> p.mappers[k],
             msg |-> [op |-> "AssignMapper", job |-> j, next |-> p.reducer,
                      count |-> CollectorCount(j, k)]]]
        \o << [to |-> p.reducer,
               msg |-> [op |-> "AssignReducer", job |-> j, next |-> p.coordinator,
                        count |-> Len(p.mappers)]] >>

\* open a sender for the next assignment and send it
Assign(n) ==
    /\ node[n].role = "coordinate" /\ ~node[n].waiting
    /\ LET a == Assignments(node[n].job)[node[n].step] IN Send(n, a.to, a.msg)
    /\ node' = [node EXCEPT ![n].waiting = TRUE]
    /\ UNCHANGED job_history

\* flush() returned: drop the sender and go on
Assigned(n) ==
    LET all == Assignments(node[n].job)
        to  == all[node[n].step].to
    IN  /\ node[n].role = "coordinate" /\ node[n].waiting
        /\ Flushed(n, to)
        /\ DropSender(n, to)
        /\ node' = [node EXCEPT ![n] = IF @.step = Len(all) THEN Idle
                                       ELSE [@ EXCEPT !.step = node[n].step + 1, !.waiting = FALSE]]
        /\ UNCHANGED job_history
-----------------------------------------------------------------------------
(* The dispatch loop and the roles *)

\* a message read outside a role: an assignment starts one, data is dropped
Started(msg) ==
    CASE msg.op = "SubmitJob" ->
            [role |-> "coordinate", job |-> msg.job, step |-> 1, waiting |-> FALSE]
      [] msg.op = "AssignCollector" ->
            [role |-> "collect", job |-> msg.job, next |-> msg.next, chunks |-> 0]
      [] msg.op = "AssignMapper" ->
            [role |-> "map", job |-> msg.job, next |-> msg.next, count |-> msg.count, done |-> 0]
      [] msg.op = "AssignReducer" ->
            [role |-> "reduce", job |-> msg.job, next |-> msg.next, count |-> msg.count, done |-> 0]
      [] OTHER -> Idle

Dispatch(n, m) ==
    /\ node[n].role = "idle"
    /\ Take(n, m)
    /\ node' = [node EXCEPT ![n] = Started(Head(inbox[n][m]))]
    /\ UNCHANGED <<next_seq, expected_seq, flight, job_history>>

\* app.collect: some chunks; then it signals the end, or just returns
Collect(n) ==
    LET c == <<n, node[n].job, node[n].chunks>>
    IN  /\ node[n].role = "collect" /\ node[n].chunks < MaxChunks
        /\ Send(n, node[n].next, [op |-> "DataChunk", job |-> node[n].job, chunk |-> c])
        /\ node' = [node EXCEPT ![n].chunks = @ + 1]
        /\ collected' = collected \cup {c}
        /\ UNCHANGED <<mapped, reduced, ended, failed>>

\* SpaceCompTx::done: PhaseDone, then flush
SignalDone(n) ==
    /\ Send(n, node[n].next, [op |-> "PhaseDone", job |-> node[n].job])
    /\ node' = [node EXCEPT ![n] = [role |-> "flush", next |-> @.next]]
    /\ ended' = ended \cup {<<node[n].role, n, node[n].job>>}

CollectDone(n) ==
    /\ node[n].role = "collect"
    /\ SignalDone(n)
    /\ UNCHANGED <<collected, mapped, reduced, failed>>

CollectReturn(n) ==
    /\ node[n].role = "collect"
    /\ DropSender(n, node[n].next)
    /\ node' = [node EXCEPT ![n] = Idle]
    /\ UNCHANGED job_history

LeaveRole(n) ==
    /\ node[n].role = "flush"
    /\ Flushed(n, node[n].next)
    /\ DropSender(n, node[n].next)
    /\ node' = [node EXCEPT ![n] = Idle]
    /\ UNCHANGED job_history

Receiving(n) == node[n].role \in {"map", "reduce"} /\ node[n].done < node[n].count

\* mutant of ForThisJob: SpaceCompRx does not look at the job id
ForAnyJob(n, msg) == msg.op \in {"DataChunk", "PhaseDone"}

ForThisJob(n, msg) == msg.job = node[n].job /\ msg.op \in {"DataChunk", "PhaseDone"}

\* SpaceCompRx::recv: messages of other jobs and assignments are swallowed
Skip(n, m) ==
    /\ Receiving(n)
    /\ Take(n, m)
    /\ ~ForThisJob(n, Head(inbox[n][m]))
    /\ UNCHANGED <<node, next_seq, expected_seq, flight, job_history>>

CountDone(n, m) ==
    /\ Receiving(n)
    /\ Take(n, m)
    /\ ForThisJob(n, Head(inbox[n][m])) /\ Head(inbox[n][m]).op = "PhaseDone"
    /\ node' = [node EXCEPT ![n].done = @ + 1]
    /\ UNCHANGED <<next_seq, expected_seq, flight, job_history>>

\* app.map: one chunk in, one chunk out
MapChunk(n, m) ==
    LET msg == Head(inbox[n][m])
    IN  /\ Receiving(n) /\ node[n].role = "map"
        /\ Take(n, m)
        /\ ForThisJob(n, msg) /\ msg.op = "DataChunk"
        /\ flight' = [flight EXCEPT ![n][node[n].next] =
                         Append(@, [seq |-> next_seq[n][node[n].next], msg |-> msg])]
        /\ next_seq' = [next_seq EXCEPT ![n][node[n].next] = @ + 1]
        /\ mapped' = mapped \cup {msg.chunk}
        /\ UNCHANGED <<node, expected_seq, collected, reduced, ended, failed>>

\* app.map returned an error: the loop is left
MapError(n, m) ==
    LET msg == Head(inbox[n][m])
    IN  /\ Receiving(n) /\ node[n].role = "map"
        /\ Take(n, m)
        /\ ForThisJob(n, msg) /\ msg.op = "DataChunk"
        /\ node' = [node EXCEPT ![n].done = node[n].count]
        /\ failed' = failed \cup {node[n].job}
        /\ UNCHANGED <<next_seq, expected_seq, flight, collected, mapped, reduced, ended>>

MapDone(n) ==
    /\ node[n].role = "map" /\ ~Receiving(n)
    /\ SignalDone(n)
    /\ UNCHANGED <<collected, mapped, reduced, failed>>

\* app.reduce reads every chunk
ReduceChunk(n, m) ==
    LET msg == Head(inbox[n][m])
    IN  /\ Receiving(n) /\ node[n].role = "reduce"
        /\ Take(n, m)
        /\ ForThisJob(n, msg) /\ msg.op = "DataChunk"
        /\ reduced' = [reduced EXCEPT ![msg.job] = Append(@, msg.chunk)]
        /\ UNCHANGED <<node, next_seq, expected_seq, flight, collected, mapped, ended, failed>>

\* app.reduce sends its result and returns without a flush: it may be cut off
ReduceReturn(n) ==
    LET to == node[n].next
        result == [seq |-> next_seq[n][to], msg |-> [op |-> "DataChunk", job |-> node[n].job]]
    IN  /\ node[n].role = "reduce" /\ ~Receiving(n)
        /\ \E k \in 0..1 : flight' = [flight EXCEPT ![n][to] = @ \o SubSeq(<<result>>, 1, k)]
        /\ next_seq' = [next_seq EXCEPT ![n][to] = 0]
        /\ node' = [node EXCEPT ![n] = Idle]
        /\ ended' = ended \cup {<<"reduce", n, node[n].job>>}
        /\ UNCHANGED <<expected_seq, inbox, collected, mapped, reduced, failed>>

JobNext ==
    \/ \E j \in Jobs : Submit(j)
    \/ \E n \in Senders, m \in Satellites : Arrive(n, m)
    \/ \E n \in Satellites :
          \/ Assign(n) \/ Assigned(n) \/ Collect(n) \/ CollectDone(n) \/ CollectReturn(n)
          \/ LeaveRole(n) \/ MapDone(n) \/ ReduceReturn(n)
          \/ \E m \in Senders :
                \/ Dispatch(n, m) \/ Skip(n, m) \/ CountDone(n, m)
                \/ MapChunk(n, m) \/ MapError(n, m) \/ ReduceChunk(n, m)

JobSpec == JobInit /\ [][JobNext]_job_vars
-----------------------------------------------------------------------------
MapperOf(j, i) == JobPlan[j].mappers[JobPlan[j].assignment[i]]

\* The phases of a job end in order, also when two jobs share a mapper and a
\* reducer: a mapper ends only when all its collectors signalled the end of their
\* data, unless app.map failed, and a result is made only when all mappers ended,
\* from chunks that were mapped, none of them twice (SpaceCompRx, CollectorCount).
\* (This needs a reducer that is none of the mappers: SpaceCompRx does not tell the
\* PhaseDone of a collector from that of a mapper.)
PhasesInOrder ==
    \A j \in Jobs :
        LET p == JobPlan[j] IN
        /\ \A i \in DOMAIN p.collectors :
              <<"map", MapperOf(j, i), j>> \in ended /\ j \notin failed =>
                  <<"collect", p.collectors[i], j>> \in ended
        /\ <<"reduce", p.reducer, j>> \in ended =>
              \A k \in DOMAIN p.mappers : <<"map", p.mappers[k], j>> \in ended
        /\ IsInjective(reduced[j]) /\ Range(reduced[j]) \subseteq mapped
=============================================================================
