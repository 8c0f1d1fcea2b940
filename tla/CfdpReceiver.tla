---------------------------- MODULE CfdpReceiver ----------------------------
(***************************************************************************)
(* The CFDP class 2 ReceiverMachine.  One action per Event; file writes    *)
(* and checksum verification complete later, in any order, as events of    *)
(* their own.                                                              *)
(***************************************************************************)
EXTENDS CfdpLink, CfdpTracker, FiniteSets, Functions

CONSTANTS
    NakLimit,       \* nak_limit: repetitions of an unanswered NAK
    FaultHandler    \* the HandlerCode of every condition of the transactions

ASSUME ReceiverAssumption ==
    NakLimit \in Nat /\ FaultHandler \in {"Cancel", "Ignore", "Suspend", "Abandon"}

VARIABLES
    rtx,            \* transactions: id -> transaction
    r_timers,       \* running timers, <<id, type>>
    writes,         \* writes the filestore has not finished, FileData PDUs
    verifying,      \* transactions whose checksum is being verified
    file,           \* the destination files: id -> offsets written
    refused         \* history: transactions whose Metadata failed after they were opened,
                    \* and that no event has started a timer for since

r_vars == <<rtx, r_timers, writes, verifying, file, refused>>

RTypeOK ==
    /\ DOMAIN rtx \subseteq Ids
    /\ \A id \in DOMAIN rtx : rtx[id] \in
         [size : Nat, suspended : BOOLEAN, progress : Nat, nak_retries : 0..NakLimit,
          ranges : Seq(Nat \X Nat),
          state : {"ReceivingFileData", "WaitingForNakData", "VerifyingChecksum"}]
    /\ r_timers \subseteq Ids \X {"Nak", "Inactivity", "KeepAlive"}
    /\ \A w \in writes : w.t = "data"
    /\ verifying \subseteq Ids
    /\ file \in [Ids -> SUBSET Nat]
    /\ refused \subseteq Ids

RInit ==
    /\ rtx = <<>>
    /\ r_timers = {} /\ writes = {} /\ verifying = {}
    /\ file = [id \in Ids |-> {}]
    /\ refused = {}
-----------------------------------------------------------------------------
RStart(id, types) == r_timers \cup ({id} \X types)
RStop(id, types) == r_timers \ ({id} \X types)

\* handle_fault; suspending stops every timer of the transaction
HandleFault(id, timers) ==
    \/ /\ FaultHandler \in {"Cancel", "Abandon"}
       /\ rtx' = Restrict(rtx, DOMAIN rtx \ {id})
       /\ r_timers' = timers
    \/ /\ FaultHandler = "Ignore"
       /\ rtx' = rtx
       /\ r_timers' = timers
    \/ /\ FaultHandler = "Suspend"
       /\ rtx' = [rtx EXCEPT ![id].suspended = TRUE]
       /\ r_timers' = timers \ ({id} \X {"Nak", "Inactivity", "KeepAlive"})

\* handle_metadata and create_transaction: also for a transaction that ended,
\* which a late copy of the PDU opens again.  Filestore requests that cannot be
\* parsed are an error found after the transaction was inserted and before its
\* timers are started.
RecvMetadata(p) ==
    /\ p.t = "metadata" /\ p.id \notin DOMAIN rtx
    /\ Cardinality(DOMAIN rtx) < MaxConcurrent
    /\ rtx' = Opened(rtx, p.id,
                     [size |-> p.size, suspended |-> FALSE, progress |-> 0,
                      nak_retries |-> 0, ranges |-> <<>>, state |-> "ReceivingFileData"])
    /\ \/ /\ p.parses
          /\ r_timers' = RStart(p.id, {"KeepAlive", "Inactivity"})
          /\ refused' = refused \ {p.id}
       \/ /\ ~p.parses
          /\ refused' = refused \cup {p.id}
          /\ UNCHANGED r_timers
    /\ UNCHANGED <<writes, verifying, file, net>>

\* mutant of RestartInactivity: the timer is only stopped
RestartInactivityNever(id) == RStop(id, {"Inactivity"})

RestartInactivity(id) ==
    IF rtx[id].suspended THEN RStop(id, {"Inactivity"}) ELSE RStart(id, {"Inactivity"})

\* handle_file_data: the write is started; the Inactivity timer starts again
\* unless the transaction is suspended
RecvFileData(p) ==
    /\ p.t = "data" /\ p.id \in DOMAIN rtx
    /\ writes' = writes \cup {p}
    /\ r_timers' = RestartInactivity(p.id)
    /\ refused' = refused \ {p.id}
    /\ UNCHANGED <<rtx, verifying, file, net>>

\* handle_eof: acknowledge, then verify the complete file or ask for the rest
\* (send_nak).  An EOF that carries a fault ends the transaction.
RecvEof(p) ==
    /\ p.t = "eof" /\ p.id \in DOMAIN rtx
    /\ refused' = refused \ {p.id}
    /\ UNCHANGED <<writes, file>>
    /\ LET t   == rtx[p.id]
           ack == Ack(p.id, "Eof")
           nak == Nak(p.id, MissingRanges(t.ranges, t.size))
       IN  \/ /\ p.cond # "NoError"
              /\ HandleFault(p.id, RStop(p.id, {"Inactivity"}))
              /\ SendPdus({ack})
              /\ UNCHANGED verifying
           \/ /\ p.cond = "NoError" /\ IsComplete(t.ranges, t.size)
              /\ rtx' = [rtx EXCEPT ![p.id].state = "VerifyingChecksum"]
              /\ r_timers' = RStop(p.id, {"Inactivity"})
              /\ verifying' = verifying \cup {p.id}
              /\ SendPdus({ack})
           \/ /\ p.cond = "NoError" /\ ~IsComplete(t.ranges, t.size)
              /\ rtx' = [rtx EXCEPT ![p.id].state = "WaitingForNakData"]
              /\ r_timers' = RStop(p.id, {"Inactivity"}) \cup {<<p.id, "Nak">>}
              /\ SendPdus({ack, nak})
              /\ UNCHANGED verifying

\* handle_pdu_received, an EOF of no transaction
RecvStrayEof(p) ==
    /\ p.t = "eof" /\ p.id \notin DOMAIN rtx
    /\ SendPdus({Ack(p.id, "Eof")})
    /\ UNCHANGED r_vars

\* handle_pdu_received, Prompt(KeepAlive); a Prompt(NAK) is ignored
RecvPrompt(p) ==
    /\ p.t = "prompt" /\ p.kind = "KeepAlive"
    /\ p.id \in DOMAIN rtx /\ ~rtx[p.id].suspended
    /\ SendPdus({KeepAlive(p.id, rtx[p.id].progress)})
    /\ UNCHANGED r_vars

RPduReceived == \E p \in net :
    RecvMetadata(p) \/ RecvFileData(p) \/ RecvEof(p) \/ RecvStrayEof(p) \/ RecvPrompt(p)
-----------------------------------------------------------------------------
\* handle_file_data_written, once the filestore wrote the chunk
FileDataWritten(w) ==
    /\ w \in writes
    /\ writes' = writes \ {w}
    /\ file' = [file EXCEPT ![w.id] = @ \cup w.off..(w.off + w.len - 1)]
    /\ rtx' = IF w.id \in DOMAIN rtx
              THEN [rtx EXCEPT ![w.id].progress = w.off + w.len,
                               ![w.id].ranges = AddSegment(@, w.off, w.len)]
              ELSE rtx
    /\ UNCHANGED <<r_timers, verifying, refused, net>>

\* handle_checksum_verified of a transaction without filestore requests: the
\* in-tree sender puts none in its Metadata
ChecksumVerified(id, valid) ==
    /\ id \in verifying
    /\ verifying' = verifying \ {id}
    /\ UNCHANGED <<writes, file, refused>>
    /\ \/ /\ id \in DOMAIN rtx => rtx[id].state # "VerifyingChecksum"
          /\ UNCHANGED <<rtx, r_timers, net>>
       \/ /\ id \in DOMAIN rtx /\ rtx[id].state = "VerifyingChecksum" /\ ~valid
          /\ HandleFault(id, r_timers)
          /\ UNCHANGED net
       \/ /\ id \in DOMAIN rtx /\ rtx[id].state = "VerifyingChecksum" /\ valid
          /\ rtx' = Restrict(rtx, DOMAIN rtx \ {id})
          /\ SendPdus({Ack(id, "Eof"), Finished(id, "NoError")})
          /\ UNCHANGED r_timers

\* handle_nak_timeout: repeat the NAK, or give up
NakTimeout(id) ==
    /\ <<id, "Nak">> \in r_timers
    /\ UNCHANGED <<writes, verifying, file, refused>>
    /\ \/ /\ id \notin DOMAIN rtx
          /\ r_timers' = RStop(id, {"Nak"})
          /\ UNCHANGED <<rtx, net>>
       \/ /\ id \in DOMAIN rtx /\ rtx[id].nak_retries >= NakLimit
          /\ HandleFault(id, RStop(id, {"Nak"}))
          /\ UNCHANGED net
       \/ /\ id \in DOMAIN rtx /\ rtx[id].nak_retries < NakLimit
          /\ rtx' = [rtx EXCEPT ![id].nak_retries = @ + 1, ![id].state = "WaitingForNakData"]
          /\ SendPdus({Nak(id, MissingRanges(rtx[id].ranges, rtx[id].size))})
          /\ UNCHANGED r_timers

\* handle_inactivity
RInactivity(id) ==
    /\ <<id, "Inactivity">> \in r_timers
    /\ IF id \in DOMAIN rtx
       THEN HandleFault(id, RStop(id, {"Inactivity"}))
       ELSE r_timers' = RStop(id, {"Inactivity"}) /\ UNCHANGED rtx
    /\ UNCHANGED <<writes, verifying, file, refused, net>>

\* handle_timer_expired, the KeepAlive timer, which starts again
KeepAliveTimeout(id) ==
    /\ <<id, "KeepAlive">> \in r_timers
    /\ IF id \in DOMAIN rtx
       THEN SendPdus({KeepAlive(id, rtx[id].progress)}) /\ UNCHANGED r_timers
       ELSE r_timers' = RStop(id, {"KeepAlive"}) /\ UNCHANGED net
    /\ UNCHANGED <<rtx, writes, verifying, file, refused>>

\* handle_suspend_request
RSuspend(id) ==
    /\ id \in DOMAIN rtx /\ ~rtx[id].suspended
    /\ rtx' = [rtx EXCEPT ![id].suspended = TRUE]
    /\ r_timers' = RStop(id, {"Nak", "Inactivity", "KeepAlive"})
    /\ UNCHANGED <<writes, verifying, file, refused, net>>

\* handle_resume_request, which does not ask whether the transaction is suspended
RResume(id) ==
    /\ id \in DOMAIN rtx
    /\ rtx' = [rtx EXCEPT ![id].suspended = FALSE]
    /\ r_timers' = CASE rtx[id].state = "WaitingForNakData" -> RStart(id, {"Nak", "Inactivity"})
                     [] rtx[id].state = "ReceivingFileData" -> RStart(id, {"KeepAlive", "Inactivity"})
                     [] OTHER -> r_timers
    /\ refused' = refused \ {id}
    /\ UNCHANGED <<writes, verifying, file, net>>
=============================================================================
