----------------------------- MODULE CfdpSender -----------------------------
(***************************************************************************)
(* The CFDP class 2 SenderMachine.  One action per Event; the file reads   *)
(* and the checksum a handler asks for complete later, in any order, as    *)
(* events of their own.  The machine keeps no account of them, so that two *)
(* chains of reads of one file, or two checksums of it, may be under way.  *)
(***************************************************************************)
EXTENDS CfdpLink, FiniteSets, Functions, Bags

CONSTANTS
    FileSizes,      \* sizes of the files the user sends, in chunks
    AckLimit,       \* ack_limit: retransmissions of an unacknowledged EOF
    KeepAliveLimit  \* keep_alive_limit: chunks the receiver may lag behind

ASSUME SenderAssumption ==
    FileSizes \subseteq Nat /\ AckLimit \in Nat /\ KeepAliveLimit \in Nat

VARIABLES
    next_seq_num,   \* the next transaction sequence number
    stx,            \* transactions: id -> transaction
    s_timers,       \* running timers, <<id, type>>
    reads,          \* reads the filestore has not answered, a bag of <<id, offset>>
    calcs           \* checksums being computed, a bag of transactions

s_vars == <<next_seq_num, stx, s_timers, reads, calcs>>

\* what is being read, and summed up, at least once
Reading == BagToSet(reads)
Summing == BagToSet(calcs)

STypeOK ==
    /\ next_seq_num \in 0..MaxPuts
    /\ DOMAIN stx \subseteq 0..(next_seq_num - 1)
    /\ \A id \in DOMAIN stx : stx[id] \in
         [size : FileSizes, suspended : BOOLEAN, progress : Nat, ack_retries : 0..AckLimit,
          file_checksum : BOOLEAN, last_receiver_progress : Nat,
          state : {"SendingFileData", "WaitingForEofAck", "WaitingForFinishedPdu"}]
    /\ s_timers \subseteq Ids \X {"Ack", "Inactivity"}
    /\ IsABag(reads) /\ Reading \subseteq Ids \X Nat
    /\ IsABag(calcs) /\ Summing \subseteq Ids

SInit ==
    /\ next_seq_num = 0
    /\ stx = <<>>
    /\ s_timers = {} /\ reads = EmptyBag /\ calcs = EmptyBag
-----------------------------------------------------------------------------
AllTimers(id) == {id} \X {"Ack", "Inactivity", "Nak", "KeepAlive"}

\* handle_terminate: the machine forgets the transaction
Forget(id) == stx' = Restrict(stx, DOMAIN stx \ {id})

\* create_transation and handle_put_request.  A full table uses up the
\* sequence number and fails; the Metadata PDU announces a file of size 0.
PutRequest(size) ==
    /\ next_seq_num < MaxPuts
    /\ next_seq_num' = next_seq_num + 1
    /\ UNCHANGED <<s_timers, calcs>>
    /\ \/ /\ Cardinality(DOMAIN stx) < MaxConcurrent
          /\ stx' = Opened(stx, next_seq_num,
               [size |-> size, suspended |-> FALSE, progress |-> 0, ack_retries |-> 0,
                file_checksum |-> FALSE, last_receiver_progress |-> 0,
                state |-> "SendingFileData"])
          /\ SendPdus({Metadata(next_seq_num, 0, TRUE)})
          /\ reads' = reads (+) SetToBag({<<next_seq_num, 0>>})
       \/ /\ Cardinality(DOMAIN stx) = MaxConcurrent
          /\ UNCHANGED <<stx, reads, net>>

\* mutant of SendEof: no timer is started
SendEofUntimed(id) ==
    /\ SendPdus({Eof(id, "NoError", stx[id].size)})
    /\ UNCHANGED s_timers

\* send_eof
SendEof(id) ==
    /\ SendPdus({Eof(id, "NoError", stx[id].size)})
    /\ s_timers' = s_timers \cup {<<id, "Ack">>}

\* mutant of LastChunk: one chunk early
LastChunkEarly(id, end) == end + 1 >= stx[id].size

LastChunk(id, end) == end >= stx[id].size

\* handle_data_segment_ready: send the chunk, then ask for the next one, or for
\* the checksum behind the last one.  A suspended transaction drops the chunk.
DataSegmentReady(id, off) ==
    /\ <<id, off>> \in Reading
    /\ LET done == reads (-) SetToBag({<<id, off>>})
           len  == IF off < stx[id].size THEN 1 ELSE 0
       IN  IF id \notin DOMAIN stx \/ stx[id].suspended
           THEN reads' = done /\ UNCHANGED <<stx, calcs, net>>
           ELSE /\ SendPdus({FileData(id, off, len)})
                /\ stx' = [stx EXCEPT ![id].progress = off + len]
                /\ IF LastChunk(id, off + len)
                   THEN calcs' = calcs (+) SetToBag({id}) /\ reads' = done
                   ELSE reads' = done (+) SetToBag({<<id, off + len>>}) /\ UNCHANGED calcs
    /\ UNCHANGED <<next_seq_num, s_timers>>

\* handle_checksum: the EOF goes out whether or not the transaction is suspended
ChecksumReady(id) ==
    /\ id \in Summing
    /\ calcs' = calcs (-) SetToBag({id})
    /\ UNCHANGED <<next_seq_num, reads>>
    /\ IF id \in DOMAIN stx
       THEN /\ stx' = [stx EXCEPT ![id].file_checksum = TRUE, ![id].state = "WaitingForEofAck"]
            /\ SendEof(id)
       ELSE UNCHANGED <<stx, s_timers, net>>

\* mutant of AckLimitReached: one retransmission too many
AckLimitReachedLate(id) == stx[id].ack_retries > AckLimit

AckLimitReached(id) == stx[id].ack_retries >= AckLimit

\* handle_timer_expired, the Ack timer
AckTimeout(id) ==
    /\ <<id, "Ack">> \in s_timers
    /\ UNCHANGED <<next_seq_num, reads, calcs>>
    /\ \/ /\ id \notin DOMAIN stx
          /\ s_timers' = s_timers \ {<<id, "Ack">>}
          /\ UNCHANGED <<stx, net>>
       \/ /\ id \in DOMAIN stx /\ AckLimitReached(id)
          /\ Forget(id)
          /\ s_timers' = s_timers \ {<<id, "Ack">>}
          /\ UNCHANGED net
       \/ /\ id \in DOMAIN stx /\ ~AckLimitReached(id)
          /\ stx' = [stx EXCEPT ![id].ack_retries = @ + 1]
          /\ IF stx[id].state = "WaitingForEofAck"
             THEN SendEof(id)
             ELSE s_timers' = s_timers \ {<<id, "Ack">>} /\ UNCHANGED net

\* handle_timer_expired, the Inactivity timer; every fault handler of the
\* sender is the default one, Cancel
SInactivity(id) ==
    /\ <<id, "Inactivity">> \in s_timers
    /\ s_timers' = s_timers \ {<<id, "Inactivity">>}
    /\ IF id \in DOMAIN stx /\ stx[id].state = "WaitingForFinishedPdu"
       THEN Forget(id)
       ELSE UNCHANGED stx
    /\ UNCHANGED <<next_seq_num, reads, calcs, net>>

\* handle_prompt
PromptRequest(id, kind) ==
    /\ id \in DOMAIN stx
    /\ stx[id].state = "SendingFileData"
    /\ kind = "KeepAlive" => ~stx[id].suspended
    /\ SendPdus({Prompt(id, kind)})
    /\ UNCHANGED s_vars

\* handle_suspend
SSuspend(id) ==
    /\ id \in DOMAIN stx /\ ~stx[id].suspended
    /\ stx' = [stx EXCEPT ![id].suspended = TRUE]
    /\ s_timers' = s_timers \ AllTimers(id)
    /\ UNCHANGED <<next_seq_num, reads, calcs, net>>

\* handle_resume: pick the transfer up where its state says.  A read that was
\* under way all the time goes on beside the new one.
SResume(id) ==
    /\ id \in DOMAIN stx /\ stx[id].suspended
    /\ stx' = [stx EXCEPT ![id].suspended = FALSE]
    /\ UNCHANGED <<next_seq_num, calcs>>
    /\ \/ /\ stx[id].state = "SendingFileData"
          /\ reads' = reads (+) SetToBag({<<id, stx[id].progress>>})
          /\ UNCHANGED <<s_timers, net>>
       \/ /\ stx[id].state = "WaitingForEofAck"
          /\ SendEof(id)
          /\ UNCHANGED reads
       \/ /\ stx[id].state = "WaitingForFinishedPdu"
          /\ s_timers' = s_timers \cup {<<id, "Inactivity">>}
          /\ UNCHANGED <<reads, net>>
-----------------------------------------------------------------------------
\* handle_finished; in another state than WaitingForFinishedPdu it is an error
\* and the PDU is discarded
RecvFinished(p) ==
    /\ p.t = "finished" /\ p.id \in DOMAIN stx
    /\ stx[p.id].state = "WaitingForFinishedPdu"
    /\ s_timers' = s_timers \ AllTimers(p.id)
    /\ SendPdus({Ack(p.id, "Finished")})
    /\ Forget(p.id)
    /\ UNCHANGED <<next_seq_num, reads, calcs>>

\* mutant of TimersAfterAck: the Ack timer goes on
TimersAfterAckBoth(id) == s_timers \cup {<<id, "Inactivity">>}

TimersAfterAck(id) == (s_timers \ {<<id, "Ack">>}) \cup {<<id, "Inactivity">>}

\* handle_ack
RecvAck(p) ==
    /\ p.t = "ack" /\ p.dir = "Eof" /\ p.id \in DOMAIN stx
    /\ stx[p.id].state = "WaitingForEofAck"
    /\ stx' = [stx EXCEPT ![p.id].state = "WaitingForFinishedPdu"]
    /\ s_timers' = TimersAfterAck(p.id)
    /\ UNCHANGED <<next_seq_num, reads, calcs, net>>

\* the chunks a ReadDataSegmentBatch reads: each requested range from its start to
\* the end of the file, a range beyond the end being an empty read
Requested(id, segs) ==
    {off \in 0..stx[id].size :
        \E g \in segs : g[1] <= off /\ off < g[2] /\ (off = g[1] \/ off < stx[id].size)}

\* handle_nak: the Ack timer stops whatever the state is
RecvNak(p) ==
    /\ p.t = "nak" /\ p.id \in DOMAIN stx /\ ~stx[p.id].suspended
    /\ s_timers' = s_timers \ {<<p.id, "Ack">>}
    /\ reads' = reads (+) SetToBag({p.id} \X Requested(p.id, p.segs))
    /\ UNCHANGED <<next_seq_num, stx, calcs, net>>

\* handle_keep_alive: the receiver must not fall too far behind
RecvKeepAlive(p) ==
    /\ p.t = "keepalive" /\ p.id \in DOMAIN stx /\ ~stx[p.id].suspended
    /\ LET t    == stx[p.id]
           last == IF p.progress > t.last_receiver_progress
                   THEN p.progress ELSE t.last_receiver_progress
       IN  IF t.progress > last + KeepAliveLimit
           THEN Forget(p.id)
           ELSE stx' = [stx EXCEPT ![p.id].last_receiver_progress = last]
    /\ UNCHANGED <<next_seq_num, s_timers, reads, calcs, net>>

SPduReceived == \E p \in net :
    RecvFinished(p) \/ RecvAck(p) \/ RecvNak(p) \/ RecvKeepAlive(p)
=============================================================================
