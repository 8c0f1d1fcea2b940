-------------------------------- MODULE Cfdp --------------------------------
(***************************************************************************)
(* A CFDP class 2 sender and receiver over the link of CfdpLink.           *)
(***************************************************************************)
EXTENDS CfdpSender, CfdpReceiver

CONSTANTS
    SizesWithPeer,  \* sizes of the files sent to another implementation
    MaxRequests,    \* bound: prompts, suspensions and keep-alive timeouts
    PeerChunks,     \* chunks of a file sent by another implementation
    MaxCopies       \* bound: reads of one chunk, and checksums of one file, at a time

ASSUME CfdpAssumption == SizesWithPeer \subseteq FileSizes

VARIABLES
    peer,           \* which end is another implementation of CFDP, if any
    requests        \* prompts, suspensions and keep-alive timeouts so far

vars == <<s_vars, r_vars, net, peer, requests>>

\* what another sender may have sent before its EOF; parses: its Metadata is in order
FromPeerSender(parses) ==
    {Metadata(0, 0, parses)} \cup {FileData(0, off, 1) : off \in 0..(PeerChunks - 1)}

\* what another receiver may send while it receives: a NAK (immediate NAK mode, or
\* prompted) asks for a part of the file before the end of a chunk it has seen
PeerProgress == {KeepAlive(0, 0), KeepAlive(0, 1)}
EarlyNaks(p) ==
    {Nak(0, {g}) : g \in {x \in (0..p.off) \X (1..(p.off + p.len)) : x[1] < x[2]}}

\* what it may send once it has the EOF
PeerAnswers == {Ack(0, "Eof"), Finished(0, "NoError"), Nak(0, {<<0, 1>>}), Nak(0, {<<1, U64Max>>})}

Init ==
    /\ SInit /\ RInit
    /\ requests = 0
    /\ \/ peer = "none" /\ net = {}
       \/ peer = "sender" /\ \E parses \in BOOLEAN : net = FromPeerSender(parses)
       \/ peer = "receiver" /\ net = PeerProgress
-----------------------------------------------------------------------------
Request == requests < MaxRequests /\ requests' = requests + 1

FewCopies ==
    /\ \A r \in Reading : reads[r] <= MaxCopies
    /\ \A id \in Summing : calcs[id] <= MaxCopies

SenderUser ==
    /\ peer # "sender"
    /\ \/ /\ IF peer = "receiver" THEN \E size \in SizesWithPeer : PutRequest(size)
             ELSE next_seq_num = 0 /\ \E size \in FileSizes \ SizesWithPeer : PutRequest(size)
          /\ UNCHANGED requests
       \/ Request /\ \E id \in Ids : \E k \in {"Nak", "KeepAlive"} : PromptRequest(id, k)
       \/ Request /\ \E id \in Ids : SSuspend(id)
       \/ (\E id \in Ids : SResume(id)) /\ UNCHANGED requests
    /\ UNCHANGED <<r_vars, peer>>

SenderFilestore ==
    /\ peer # "sender"
    /\ \/ \E r \in Reading : DataSegmentReady(r[1], r[2])
       \/ \E id \in Summing : ChecksumReady(id)
    /\ UNCHANGED <<r_vars, requests, peer>>

SenderTimer ==
    /\ peer # "sender"
    /\ \E id \in Ids : AckTimeout(id) \/ SInactivity(id)
    /\ UNCHANGED <<r_vars, requests, peer>>

SenderReceives ==
    /\ peer # "sender"
    /\ SPduReceived
    /\ UNCHANGED <<r_vars, requests, peer>>

ReceiverUser ==
    /\ peer # "receiver"
    /\ \/ Request /\ \E id \in Ids : RSuspend(id)
       \/ (\E id \in Ids : RResume(id)) /\ UNCHANGED requests
    /\ UNCHANGED <<s_vars, peer>>

ReceiverFilestore ==
    /\ peer # "receiver"
    /\ \/ \E w \in writes : FileDataWritten(w)
       \/ \E id \in verifying : \E valid \in BOOLEAN : ChecksumVerified(id, valid)
    /\ UNCHANGED <<s_vars, requests, peer>>

ReceiverTimer ==
    /\ peer # "receiver"
    /\ \/ (\E id \in Ids : NakTimeout(id) \/ RInactivity(id)) /\ UNCHANGED requests
       \/ Request /\ \E id \in Ids : KeepAliveTimeout(id)
    /\ UNCHANGED <<s_vars, peer>>

ReceiverReceives ==
    /\ peer # "receiver"
    /\ RPduReceived
    /\ UNCHANGED <<s_vars, requests, peer>>

PeerReceiver ==
    /\ peer = "receiver"
    /\ \E p \in net : /\ p.id = 0
                      /\ \/ p.t = "eof" /\ SendPdus(PeerAnswers)
                         \/ p.t = "data" /\ \E nak \in EarlyNaks(p) : SendPdus({nak})
    /\ UNCHANGED <<s_vars, r_vars, requests, peer>>

SenderNext == (SenderUser \/ SenderFilestore \/ SenderTimer \/ SenderReceives) /\ FewCopies'

ReceiverNext == ReceiverUser \/ ReceiverFilestore \/ ReceiverTimer \/ ReceiverReceives

Next == SenderNext \/ ReceiverNext \/ PeerReceiver

Spec == Init /\ [][Next]_vars
-----------------------------------------------------------------------------
\* Type correctness of both machines.
CfdpTypeOK == STypeOK /\ RTypeOK

\* An EOF (send_eof) goes out only after every chunk of the file was sent at
\* least once, however suspensions, resumptions, NAKs and the chains of reads that
\* they start beside one another interleave.  (A receiver asks only for what lies
\* before data it has seen: a NAK beyond it would have the end read, and the EOF
\* sent, before the middle.)
EofAfterAllData ==
    \A p \in net : p.t = "eof" =>
        \A off \in 0..(p.size - 1) : FileData(p.id, off, 1) \in net

\* A sending transaction that is not suspended and waits for the ACK of its EOF
\* has the Ack timer running, or work under way that ends in another EOF: a NAK,
\* which stops the timer (handle_nak), never strands it.  (The NAKs of the in-tree
\* receiver always ask for something, and so do those of PeerReceiver.)
EofIsCovered ==
    \A id \in DOMAIN stx :
        stx[id].state = "WaitingForEofAck" /\ ~stx[id].suspended =>
            \/ <<id, "Ack">> \in s_timers
            \/ \E r \in Reading : r[1] = id
            \/ id \in Summing

\* The Ack timer runs only for an EOF that is not acknowledged: it never counts
\* against, or ends (AckLimitReached), a transaction past that point.
AckTimerIsCurrent ==
    \A id \in DOMAIN stx :
        <<id, "Ack">> \in s_timers => stx[id].state = "WaitingForEofAck"

\* The documented invariant of the tracker (sorted, disjoint, not adjacent), and
\* what it is for: it claims no byte that is not in the destination file.
TrackerIsSound ==
    \A id \in DOMAIN rtx :
        LET r == rtx[id].ranges
        IN  /\ Len(r) <= MAX_GAPS
            /\ \A i \in 1..(Len(r) - 1) : r[i][2] < r[i + 1][1]
            /\ Covered(r) \subseteq file[id]

\* A receiving transaction that is not suspended has a timer that can end it:
\* a sender that went away never keeps one of the MaxConcurrent places.  (One whose
\* Metadata was refused after it was opened has no timer until another PDU of it
\* comes, or the user resumes it; refused excludes it.)
ReceiverIsWatched ==
    \A id \in DOMAIN rtx \ refused :
        ~rtx[id].suspended =>
            <<id, "Inactivity">> \in r_timers \/ <<id, "Nak">> \in r_timers \/ id \in verifying
=============================================================================
