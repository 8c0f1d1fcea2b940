-------------------------- MODULE ApplicationProofs --------------------------
(***************************************************************************)
(* File transfer and jobs.                                                 *)
(*                                                                         *)
(* CFDP class 2 for every number of transactions, every table size, every  *)
(* file size and every limit: both machines keep their types, an EOF       *)
(* follows all data and is never left without a timer or work, and the     *)
(* receiver's tracker stays sorted and claims no byte that is not in the   *)
(* file.  The scan and the sort of add_segment are argued about by the     *)
(* first range at which they could go wrong.                               *)
(*                                                                         *)
(* SpaceComp for every number of satellites, jobs and chunks and every     *)
(* plan whose reducer is none of its mappers: a message is under way at    *)
(* most once and only where the plan puts it, every role is assigned and   *)
(* begins only once, and the PhaseDones a role has counted came from       *)
(* different senders.                                                      *)
(***************************************************************************)
EXTENDS Cfdp, SpaceComp, ModularArithmetic, FiniteSetTheorems, SequenceTheorems, TLAPS

NetTyped ==
    \A p \in net :
        /\ p.t = "data" => p.off \in Nat /\ p.len \in Nat
        /\ p.t = "keepalive" => p.progress \in Nat
        /\ p.t = "eof" => p.size \in Nat
        /\ p.t = "metadata" => p.size \in Nat

\* The fields of a receiving transaction, its ranges apart.
RState == {"ReceivingFileData", "WaitingForNakData", "VerifyingChecksum"}
IsRecord(t, fields) == t = [f \in fields |-> t[f]]
RTx(t) ==
    /\ IsRecord(t, {"size", "suspended", "progress", "nak_retries", "ranges", "state"})
    /\ t.suspended \in BOOLEAN /\ t.progress \in Nat /\ t.state \in RState

RTyped ==
    /\ \A id \in DOMAIN rtx : RTx(rtx[id])
    /\ \A w \in writes : w.t = "data" /\ w.off \in Nat /\ w.len \in Nat

\* The first n chunks of the file of transaction id, as far as they exist, are
\* among the PDUs of pdus.
Sent(pdus, id, n, size) == \A off \in 0..(size - 1) : off < n => FileData(id, off, 1) \in pdus

EofSent(id) == \E p \in net : p.t = "eof" /\ p.id = id

\* A NAK that asks only for chunks that were sent.
AsksForSent(p, size) == \A g \in p.segs : g[2] \in Nat /\ Sent(net, p.id, g[2], size)

\* The sender's types: the bags are bags, and nothing is known of a transaction
\* number that was not given out yet.
SState == {"SendingFileData", "WaitingForEofAck", "WaitingForFinishedPdu"}
STx == [size : FileSizes, suspended : BOOLEAN, progress : Nat, ack_retries : 0..AckLimit,
        file_checksum : BOOLEAN, last_receiver_progress : Nat, state : SState]
Given == 0..(next_seq_num - 1)
SFields ==
    /\ next_seq_num \in 0..MaxPuts
    /\ \A id \in DOMAIN stx : id \in Given /\ stx[id] \in STx
    /\ s_timers \subseteq Given \X {"Ack", "Inactivity"}
    /\ Reading \subseteq Given \X Nat
    /\ Summing \subseteq Given
    /\ \A p \in net : p.t = "eof" => p.id \in Given
Counted == IsABag(reads) /\ IsABag(calcs)
STyped == Counted /\ SFields

\* What the reads, the checksum and the state of a transaction say of its file.
TxSent(id) ==
    LET size == stx[id].size
    IN  /\ Sent(net, id, stx[id].progress, size)
        /\ \A r \in Reading : r[1] = id => Sent(net, id, r[2], size)
        /\ id \in Summing \/ stx[id].state # "SendingFileData" => Sent(net, id, size, size)
        /\ \A p \in net : p.t = "eof" /\ p.id = id => p.size = size
        /\ \A p \in net : p.t = "data" /\ p.id = id => Sent(net, id, p.off + p.len, size)
        /\ \A p \in net : p.t = "nak" /\ p.id = id => EofSent(id) \/ AsksForSent(p, size)

ChunksSent == \A id \in DOMAIN stx : TxSent(id)

\* No data and no NAK on the link are of a transaction number not given out yet,
\* unless another sender put them there.
LinkOwn == peer # "sender" => \A p \in net : p.t \in {"data", "nak"} => p.id \in Given

\* Whatever may lead the in-tree receiver to send a NAK follows an EOF.
NaksFollowEof ==
    /\ \A x \in r_timers : x[2] = "Nak" => EofSent(x[1])
    /\ \A id \in DOMAIN rtx : rtx[id].state = "WaitingForNakData" => EofSent(id)

-----------------------------------------------------------------------------
\* A read, or a checksum, added to a bag.
LEMMA BagAdds ==
    ASSUME NEW B, IsABag(B), NEW S
    PROVE  /\ IsABag(B (+) SetToBag(S)) /\ BagToSet(B (+) SetToBag(S)) = BagToSet(B) \cup S
<1> DEFINE C == SetToBag(S)
           A == B (+) C
<1>1. DOMAIN C = S /\ \A e \in S : C[e] = 1
  BY DEF SetToBag
<1>2. /\ A = [e \in DOMAIN B \cup DOMAIN C |-> (IF e \in DOMAIN B THEN B[e] ELSE 0)
                                             + (IF e \in DOMAIN C THEN C[e] ELSE 0)]
  BY DEF (+)
<1> HIDE DEF A, C
<1>3. DOMAIN A = DOMAIN B \cup S
  BY <1>1, <1>2
<1>4. ASSUME NEW e \in DOMAIN A PROVE A[e] \in {n \in Nat : n > 0}
  BY <1>1, <1>2, <1>3 DEF IsABag
<1>5. A \in [DOMAIN A -> {n \in Nat : n > 0}]
  BY <1>2, <1>4
<1> QED BY <1>3, <1>5 DEF IsABag, BagToSet, A, C

\* One taken out of it; another copy of it may be left.
LEMMA BagLoses ==
    ASSUME NEW B, IsABag(B), NEW S
    PROVE  /\ IsABag(B (-) SetToBag(S))
           /\ BagToSet(B (-) SetToBag(S)) \subseteq BagToSet(B)
           /\ BagToSet(B) \ S \subseteq BagToSet(B (-) SetToBag(S))
<1> DEFINE C == SetToBag(S)
           D == [e \in DOMAIN B |-> IF e \in DOMAIN C THEN B[e] - C[e] ELSE B[e]]
           A == B (-) C
<1>1. DOMAIN C = S /\ \A e \in S : C[e] = 1
  BY DEF SetToBag
<1>2. A = [e \in {d \in DOMAIN D : D[d] > 0} |-> D[e]]
  BY DEF (-)
<1>3. DOMAIN D = DOMAIN B /\ \A e \in DOMAIN B : D[e] \in Int /\ (e \notin S => D[e] > 0)
  BY <1>1 DEF IsABag
<1> HIDE DEF A, C, D
<1>4. DOMAIN A = {d \in DOMAIN B : D[d] > 0} /\ \A e \in DOMAIN A : A[e] = D[e]
  BY <1>2, <1>3
<1>5. A \in [DOMAIN A -> {n \in Nat : n > 0}]
  <2>1. ASSUME NEW e \in DOMAIN A PROVE A[e] \in {n \in Nat : n > 0}
    BY <1>3, <1>4
  <2> QED BY <1>2, <2>1
<1> QED BY <1>3, <1>4, <1>5 DEF IsABag, BagToSet, A, C

\* What is being read, as the bag of reads changes.
LEMMA ReadsView ==
    ASSUME Counted
    PROVE  /\ reads' = reads => Reading' = Reading
           /\ \A S : reads' = reads (+) SetToBag(S) => Reading' = Reading \cup S /\ IsABag(reads')
           /\ \A r : reads' = reads (-) SetToBag({r}) =>
                 /\ IsABag(reads')
                 /\ Reading' \subseteq Reading /\ Reading \ {r} \subseteq Reading'
           /\ \A r, n : reads' = (reads (-) SetToBag({r})) (+) SetToBag({n}) =>
                 /\ IsABag(reads')
                 /\ Reading' \subseteq Reading \cup {n}
                 /\ (Reading \ {r}) \cup {n} \subseteq Reading'
<1>1. IsABag(reads)
  BY DEF Counted
<1>2. reads' = reads => Reading' = Reading
  BY DEF Reading
<1>3. ASSUME NEW S, reads' = reads (+) SetToBag(S)
      PROVE  Reading' = Reading \cup S /\ IsABag(reads')
  BY <1>1, <1>3, BagAdds DEF Reading
<1>4. ASSUME NEW r, reads' = reads (-) SetToBag({r})
      PROVE  IsABag(reads') /\ Reading' \subseteq Reading /\ Reading \ {r} \subseteq Reading'
  BY <1>1, <1>4, BagLoses DEF Reading
<1>5. ASSUME NEW r, NEW n, reads' = (reads (-) SetToBag({r})) (+) SetToBag({n})
      PROVE  /\ IsABag(reads') /\ Reading' \subseteq Reading \cup {n}
             /\ (Reading \ {r}) \cup {n} \subseteq Reading'
  <2> DEFINE done == reads (-) SetToBag({r})
  <2>1. /\ IsABag(done) /\ BagToSet(done) \subseteq Reading
        /\ Reading \ {r} \subseteq BagToSet(done)
    BY <1>1, BagLoses DEF Reading
  <2> HIDE DEF done
  <2>2. IsABag(reads') /\ BagToSet(reads') = BagToSet(done) \cup {n}
    BY <1>5, <2>1, BagAdds DEF done
  <2> QED
    BY <2>1, <2>2 DEF Reading
<1> QED
  BY <1>2, <1>3, <1>4, <1>5

\* What is being summed up, as the bag of checksums changes.
LEMMA CalcsView ==
    ASSUME Counted
    PROVE  /\ calcs' = calcs => Summing' = Summing
           /\ \A id : calcs' = calcs (+) SetToBag({id}) => Summing' = Summing \cup {id} /\ IsABag(calcs')
           /\ \A id : calcs' = calcs (-) SetToBag({id}) =>
                 /\ IsABag(calcs')
                 /\ Summing' \subseteq Summing /\ Summing \ {id} \subseteq Summing'
<1>1. IsABag(calcs)
  BY DEF Counted
<1>2. calcs' = calcs => Summing' = Summing
  BY DEF Summing
<1>3. ASSUME NEW id, calcs' = calcs (+) SetToBag({id})
      PROVE  Summing' = Summing \cup {id} /\ IsABag(calcs')
  BY <1>1, <1>3, BagAdds DEF Summing
<1>4. ASSUME NEW id, calcs' = calcs (-) SetToBag({id})
      PROVE  IsABag(calcs') /\ Summing' \subseteq Summing /\ Summing \ {id} \subseteq Summing'
  BY <1>1, <1>4, BagLoses DEF Summing
<1> QED
  BY <1>2, <1>3, <1>4

\* A put request asks for the first chunk of the new file.
LEMMA PutView ==
    ASSUME Counted, NEW size, PutRequest(size)
    PROVE  /\ Counted' /\ Summing' = Summing
           /\ \/ Reading' = Reading /\ stx' = stx /\ net' = net
              \/ /\ Reading' = Reading \cup {<<next_seq_num, 0>>}
                 /\ SendPdus({Metadata(next_seq_num, 0, TRUE)})
                 /\ stx' = Opened(stx, next_seq_num,
                      [size |-> size, suspended |-> FALSE, progress |-> 0, ack_retries |-> 0,
                       file_checksum |-> FALSE, last_receiver_progress |-> 0,
                       state |-> "SendingFileData"])
<1>1. calcs' = calcs /\ (reads' = reads \/ reads' = reads (+) SetToBag({<<next_seq_num, 0>>}))
  BY DEF PutRequest
<1>2. Counted' /\ Summing' = Summing
  BY <1>1, ReadsView, CalcsView DEF Counted
<1>3. CASE reads' = reads /\ stx' = stx /\ net' = net
  BY <1>2, <1>3, ReadsView
<1>4. CASE reads' = reads (+) SetToBag({<<next_seq_num, 0>>})
  <2>1. Reading' = Reading \cup {<<next_seq_num, 0>>}
    BY <1>4, ReadsView
  <2> QED
    BY <1>2, <1>3, <2>1 DEF PutRequest
<1> QED
  BY <1>3, <1>4 DEF PutRequest

\* A chunk read: what is read and summed up afterwards.
LEMMA DataView ==
    ASSUME Counted, NEW id, NEW off, DataSegmentReady(id, off)
    PROVE  LET len == IF off < stx[id].size THEN 1 ELSE 0
           IN  /\ Counted' /\ <<id, off>> \in Reading /\ Reading \ {<<id, off>>} \subseteq Reading'
               /\ \/ /\ id \notin DOMAIN stx \/ stx[id].suspended
                     /\ Reading' \subseteq Reading /\ Summing' = Summing
                     /\ UNCHANGED <<stx, net>>
                  \/ /\ id \in DOMAIN stx /\ ~stx[id].suspended
                     /\ SendPdus({FileData(id, off, len)})
                     /\ stx' = [stx EXCEPT ![id].progress = off + len]
                     /\ \/ /\ off + len >= stx[id].size
                           /\ Summing' = Summing \cup {id} /\ Reading' \subseteq Reading
                        \/ /\ Summing' = Summing /\ <<id, off + len>> \in Reading'
                           /\ Reading' \subseteq Reading \cup {<<id, off + len>>}
<1> DEFINE len == IF off < stx[id].size THEN 1 ELSE 0
           done == reads (-) SetToBag({<<id, off>>})
<1>1. /\ <<id, off>> \in Reading
      /\ \/ /\ id \notin DOMAIN stx \/ stx[id].suspended
            /\ reads' = done /\ UNCHANGED <<stx, calcs, net>>
         \/ /\ id \in DOMAIN stx /\ ~stx[id].suspended
            /\ SendPdus({FileData(id, off, len)})
            /\ stx' = [stx EXCEPT ![id].progress = off + len]
            /\ \/ /\ off + len >= stx[id].size
                  /\ calcs' = calcs (+) SetToBag({id}) /\ reads' = done
               \/ reads' = done (+) SetToBag({<<id, off + len>>}) /\ calcs' = calcs
  BY DEF DataSegmentReady, LastChunk
<1> HIDE DEF len
<1>2. reads' = done => /\ IsABag(reads') /\ Reading' \subseteq Reading
                       /\ Reading \ {<<id, off>>} \subseteq Reading'
  BY ReadsView
<1>3. reads' = done (+) SetToBag({<<id, off + len>>}) =>
          /\ IsABag(reads') /\ Reading' \subseteq Reading \cup {<<id, off + len>>}
          /\ (Reading \ {<<id, off>>}) \cup {<<id, off + len>>} \subseteq Reading'
  BY ReadsView
<1> HIDE DEF done
<1>4. calcs' = calcs => Summing' = Summing /\ IsABag(calcs')
  BY CalcsView DEF Counted
<1>5. calcs' = calcs (+) SetToBag({id}) => Summing' = Summing \cup {id} /\ IsABag(calcs')
  BY CalcsView
<1>6. Counted' /\ Reading \ {<<id, off>>} \subseteq Reading'
  BY <1>1, <1>2, <1>3, <1>4, <1>5 DEF Counted
<1> USE DEF len
<1> QED
  BY <1>1, <1>2, <1>3, <1>4, <1>5, <1>6

\* A checksum ready: no read changes.
LEMMA ChecksumView ==
    ASSUME Counted, NEW id, ChecksumReady(id)
    PROVE  /\ Counted' /\ Reading' = Reading /\ id \in Summing
           /\ Summing' \subseteq Summing /\ \A x \in Summing : x # id => x \in Summing'
<1>1. reads' = reads /\ calcs' = calcs (-) SetToBag({id}) /\ id \in Summing
  BY DEF ChecksumReady
<1> QED
  BY <1>1, ReadsView, CalcsView DEF Counted

\* A transfer resumed: the chunk behind the last one sent is asked for again.
LEMMA ResumeView ==
    ASSUME Counted, NEW id, SResume(id)
    PROVE  /\ Counted' /\ Summing' = Summing
           /\ \/ /\ stx[id].state = "SendingFileData"
                 /\ Reading' = Reading \cup {<<id, stx[id].progress>>}
                 /\ UNCHANGED <<s_timers, net>>
              \/ stx[id].state = "WaitingForEofAck" /\ SendEof(id) /\ Reading' = Reading
              \/ /\ stx[id].state = "WaitingForFinishedPdu"
                 /\ s_timers' = s_timers \cup {<<id, "Inactivity">>}
                 /\ Reading' = Reading /\ net' = net
<1>1. calcs' = calcs /\ (reads' = reads \/ reads' = reads (+) SetToBag({<<id, stx[id].progress>>}))
  BY DEF SResume
<1>2. Counted' /\ Summing' = Summing
  BY <1>1, ReadsView, CalcsView DEF Counted
<1>3. reads' = reads (+) SetToBag({<<id, stx[id].progress>>}) =>
          Reading' = Reading \cup {<<id, stx[id].progress>>}
  BY ReadsView
<1>4. reads' = reads => Reading' = Reading
  BY ReadsView
<1> QED
  BY <1>2, <1>3, <1>4 DEF SResume

\* A NAK: what it asks for is read.
LEMMA NakView ==
    ASSUME Counted, NEW p, RecvNak(p)
    PROVE  Counted' /\ Summing' = Summing /\ Reading' = Reading \cup ({p.id} \X Requested(p.id, p.segs))
<1>1. calcs' = calcs /\ reads' = reads (+) SetToBag({p.id} \X Requested(p.id, p.segs))
  BY DEF RecvNak
<1> QED
  BY <1>1, ReadsView, CalcsView DEF Counted

\* The other events leave both bags alone.
LEMMA IdleView ==
    ASSUME Counted, UNCHANGED <<reads, calcs>>
    PROVE  Counted' /\ Reading' = Reading /\ Summing' = Summing
  BY DEF Counted, Reading, Summing

\* The bags stay bags.
LEMMA SenderCounts == ASSUME Counted, SenderNext PROVE Counted'
<1>1. CASE SenderUser
  <2>1. ASSUME NEW id, NEW kind, PromptRequest(id, kind) \/ SSuspend(id) PROVE Counted'
    BY <2>1, IdleView DEF PromptRequest, SSuspend, s_vars
  <2> QED
    BY <1>1, <2>1, PutView, ResumeView DEF SenderUser
<1>2. CASE SenderFilestore
  <2>1. ASSUME NEW id, NEW off, DataSegmentReady(id, off) PROVE Counted'
    BY <2>1, DataView
  <2> QED
    BY <1>2, <2>1, ChecksumView DEF SenderFilestore
<1>3. CASE SenderTimer
  BY <1>3, IdleView DEF SenderTimer, AckTimeout, SInactivity
<1>4. CASE SenderReceives
  BY <1>4, NakView, IdleView DEF SenderReceives, SPduReceived, RecvFinished, RecvAck, RecvKeepAlive
<1> QED
  BY <1>1, <1>2, <1>3, <1>4 DEF SenderNext

\* The invariant's form of the sender's types is stronger than the checked one.
LEMMA SenderTypes == STyped => STypeOK
<1> SUFFICES ASSUME STyped PROVE STypeOK
  OBVIOUS
<1>1. Given \subseteq Ids
  BY LinkAssumption DEF STyped, SFields, Given, Ids
<1> QED
  BY <1>1 DEF STyped, SFields, Counted, STypeOK, STx, SState, Given

\* A put request opens a transaction under a number not used before.
LEMMA PutKeepsTypes ==
    ASSUME STyped, NEW size \in FileSizes, PutRequest(size) PROVE SFields'
<1> DEFINE t == [size |-> size, suspended |-> FALSE, progress |-> 0, ack_retries |-> 0,
                 file_checksum |-> FALSE, last_receiver_progress |-> 0,
                 state |-> "SendingFileData"]
<1>1. t \in STx
  BY SenderAssumption DEF STx, SState
<1> HIDE DEF t
<1>2. /\ next_seq_num \in Nat /\ next_seq_num < MaxPuts
      /\ next_seq_num' = next_seq_num + 1 /\ s_timers' = s_timers /\ Summing' = Summing
  BY LinkAssumption DEF PutRequest, STyped, SFields, Summing
<1>3. next_seq_num \in Given' /\ Given \subseteq Given' /\ next_seq_num' \in 0..MaxPuts
  BY <1>2, LinkAssumption DEF Given
<1>4. \A id \in DOMAIN stx' : id \in Given' /\ stx'[id] \in STx
  <2>1. CASE stx' = Opened(stx, next_seq_num, t)
    <3>1. /\ DOMAIN stx' = DOMAIN stx \cup {next_seq_num}
          /\ stx'[next_seq_num] = t
          /\ \A x \in DOMAIN stx : x # next_seq_num => stx'[x] = stx[x]
      BY <2>1 DEF Opened
    <3> QED
      BY <1>1, <1>3, <3>1 DEF STyped, SFields
  <2>2. CASE stx' = stx
    BY <1>3, <2>2 DEF STyped, SFields
  <2> QED
    BY <2>1, <2>2 DEF PutRequest, t
<1>5. Reading' \subseteq Given' \X Nat
  <2>1. Reading' \subseteq Reading \cup {<<next_seq_num, 0>>}
    BY PutView DEF STyped
  <2>2. <<next_seq_num, 0>> \in Given' \X Nat /\ Given \X Nat \subseteq Given' \X Nat
    BY <1>3
  <2> QED
    BY <2>1, <2>2 DEF STyped, SFields
<1>6. \A p \in net' : p.t = "eof" => p.id \in Given'
  <2>1. \A p \in net' : p \in net \/ p.t = "metadata"
    BY DEF PutRequest, SendPdus, Metadata
  <2> QED
    BY <1>3, <2>1 DEF STyped, SFields
<1> QED
  BY <1>2, <1>3, <1>4, <1>5, <1>6 DEF STyped, SFields

\* A transaction forgotten, or a field of it changed, leaves a table of
\* transactions.
LEMMA ForgetTyped ==
    ASSUME STyped, NEW id, Forget(id), Given' = Given
    PROVE  \A x \in DOMAIN stx' : x \in Given' /\ stx'[x] \in STx
  BY DEF Forget, Restrict, STyped, SFields

\* A transaction that an event changes keeps the types of the table.
LEMMA ChangeTyped ==
    ASSUME STyped, NEW id \in DOMAIN stx, NEW t \in STx, Given' = Given,
           stx' = [stx EXCEPT ![id] = t]
    PROVE  \A x \in DOMAIN stx' : x \in Given' /\ stx'[x] \in STx
  BY DEF STyped, SFields

\* A chunk that was read leads to the next read or to the checksum.
LEMMA DataKeepsTypes ==
    ASSUME STyped, NEW id, NEW off, DataSegmentReady(id, off) PROVE SFields'
<1> DEFINE len == IF off < stx[id].size THEN 1 ELSE 0
<1>1. id \in Given /\ off \in Nat /\ off + len \in Nat
  BY DEF DataSegmentReady, STyped, SFields
<1>2. Given' = Given /\ next_seq_num' = next_seq_num /\ s_timers' = s_timers
  BY DEF DataSegmentReady, Given
<1>3. Reading \subseteq Given \X Nat
  BY DEF STyped, SFields
<1>4. CASE Reading' \subseteq Reading /\ Summing' = Summing /\ UNCHANGED <<stx, net>>
  BY <1>2, <1>3, <1>4 DEF STyped, SFields
<1>5. CASE /\ id \in DOMAIN stx
           /\ SendPdus({FileData(id, off, len)})
           /\ stx' = [stx EXCEPT ![id].progress = off + len]
           /\ Reading' \subseteq Reading \cup {<<id, off + len>>}
           /\ Summing' \subseteq Summing \cup {id}
  <2> HIDE DEF len
  <2>1. [stx[id] EXCEPT !.progress = off + len] \in STx
    BY <1>1, <1>5 DEF STyped, SFields, STx
  <2>2. \A x \in DOMAIN stx' : x \in Given' /\ stx'[x] \in STx
    BY <1>2, <1>5, <2>1, ChangeTyped
  <2>3. Reading' \subseteq Given' \X Nat
    <3>1. <<id, off + len>> \in Given \X Nat
      BY <1>1
    <3> QED
      BY <1>2, <1>3, <1>5, <3>1
  <2>4. \A p \in net' : p.t = "eof" => p.id \in Given'
    BY <1>2, <1>5 DEF SendPdus, FileData, STyped, SFields
  <2>5. Summing' \subseteq Given'
    BY <1>1, <1>2, <1>5 DEF STyped, SFields
  <2> QED
    BY <1>2, <2>2, <2>3, <2>4, <2>5 DEF STyped, SFields
<1> QED
  BY <1>4, <1>5, DataView DEF STyped

\* An EOF of a known transaction is sent under a number given out.
LEMMA EofTyped ==
    ASSUME STyped, NEW id \in Given, SendEof(id), Given' = Given
    PROVE  /\ \A p \in net' : p.t = "eof" => p.id \in Given'
           /\ s_timers' \subseteq Given' \X {"Ack", "Inactivity"}
<1>1. <<id, "Ack">> \in Given \X {"Ack", "Inactivity"}
  OBVIOUS
<1> QED
  BY <1>1 DEF SendEof, SendPdus, Eof, STyped, SFields

\* The events of the filestore's checksum and of the timers.
LEMMA ChecksumKeepsTypes ==
    ASSUME STyped, NEW id, ChecksumReady(id) PROVE SFields'
<1>1. id \in Given /\ Given' = Given /\ next_seq_num' = next_seq_num
  BY DEF ChecksumReady, STyped, SFields, Given
<1>2. CASE id \in DOMAIN stx
  <2>1. [stx[id] EXCEPT !.file_checksum = TRUE, !.state = "WaitingForEofAck"] \in STx
    BY <1>2 DEF STyped, SFields, STx, SState
  <2>2. stx' = [stx EXCEPT ![id] = [stx[id] EXCEPT !.file_checksum = TRUE,
                                                   !.state = "WaitingForEofAck"]]
    BY <1>2 DEF ChecksumReady
  <2>3. \A x \in DOMAIN stx' : x \in Given' /\ stx'[x] \in STx
    BY <1>1, <1>2, <2>1, <2>2, ChangeTyped
  <2>4. SendEof(id) /\ Reading' = Reading /\ Summing' \subseteq Summing
    BY <1>2, ChecksumView DEF ChecksumReady, STyped
  <2> QED
    BY <1>1, <2>3, <2>4, EofTyped DEF STyped, SFields
<1>3. CASE id \notin DOMAIN stx
  BY <1>1, <1>3, ChecksumView DEF ChecksumReady, STyped, SFields
<1> QED
  BY <1>2, <1>3

\* The Ack timer repeats the EOF or gives the transaction up.
LEMMA AckTimeoutKeepsTypes ==
    ASSUME STyped, NEW id, AckTimeout(id) PROVE SFields'
<1>1. /\ id \in Given /\ Given' = Given
      /\ next_seq_num' = next_seq_num /\ Reading' = Reading /\ Summing' = Summing
  BY DEF AckTimeout, STyped, SFields, Given, Reading, Summing
<1>2. CASE stx' = stx /\ net' = net /\ s_timers' \subseteq s_timers
  BY <1>1, <1>2 DEF STyped, SFields
<1>3. CASE Forget(id) /\ net' = net /\ s_timers' \subseteq s_timers
  BY <1>1, <1>3, ForgetTyped DEF STyped, SFields
<1>4. CASE /\ id \in DOMAIN stx /\ ~AckLimitReached(id)
           /\ stx' = [stx EXCEPT ![id].ack_retries = @ + 1]
           /\ \/ SendEof(id)
              \/ net' = net /\ s_timers' \subseteq s_timers
  <2>1. [stx[id] EXCEPT !.ack_retries = @ + 1] \in STx
    <3>1. stx[id] \in STx /\ AckLimit \in Nat
      BY <1>4, SenderAssumption DEF STyped, SFields
    <3>2. stx[id].ack_retries + 1 \in 0..AckLimit
      BY <1>4, <3>1 DEF AckLimitReached, STx
    <3> QED
      BY <3>1, <3>2 DEF STx
  <2>2. \A x \in DOMAIN stx' : x \in Given' /\ stx'[x] \in STx
    BY <1>1, <1>4, <2>1, ChangeTyped
  <2>3. CASE SendEof(id)
    BY <1>1, <2>2, <2>3, EofTyped DEF STyped, SFields
  <2>4. CASE net' = net /\ s_timers' \subseteq s_timers
    BY <1>1, <2>2, <2>4 DEF STyped, SFields
  <2> QED
    BY <1>4, <2>3, <2>4
<1> QED
  BY <1>2, <1>3, <1>4 DEF AckTimeout

\* The inactivity timer gives the transaction up.
LEMMA SInactivityKeepsTypes ==
    ASSUME STyped, NEW id, SInactivity(id) PROVE SFields'
<1>1. /\ Given' = Given /\ next_seq_num' = next_seq_num
      /\ Reading' = Reading /\ Summing' = Summing /\ net' = net /\ s_timers' \subseteq s_timers
  BY DEF SInactivity, Given, Reading, Summing
<1>2. CASE Forget(id)
  BY <1>1, <1>2, ForgetTyped DEF STyped, SFields
<1>3. CASE stx' = stx
  BY <1>1, <1>3 DEF STyped, SFields
<1> QED
  BY <1>2, <1>3 DEF SInactivity

\* The user's requests.
LEMMA PromptKeepsTypes ==
    ASSUME STyped, NEW id, NEW kind, PromptRequest(id, kind) PROVE SFields'
<1>1. UNCHANGED s_vars /\ net' = net \cup {Prompt(id, kind)} /\ Prompt(id, kind).t # "eof"
  BY DEF PromptRequest, SendPdus, Prompt
<1>2. Reading' = Reading /\ Summing' = Summing /\ Given' = Given
  BY <1>1 DEF s_vars, Reading, Summing, Given
<1> QED
  BY <1>1, <1>2 DEF s_vars, STyped, SFields

\* Suspension stops timers and marks the transaction.
LEMMA SSuspendKeepsTypes ==
    ASSUME STyped, NEW id, SSuspend(id) PROVE SFields'
<1>1. /\ Given' = Given /\ next_seq_num' = next_seq_num
      /\ Reading' = Reading /\ Summing' = Summing /\ net' = net /\ s_timers' \subseteq s_timers
  BY DEF SSuspend, Given, Reading, Summing
<1>2. id \in DOMAIN stx /\ stx' = [stx EXCEPT ![id].suspended = TRUE]
  BY DEF SSuspend
<1>3. [stx[id] EXCEPT !.suspended = TRUE] \in STx
  BY <1>2 DEF STyped, SFields, STx
<1>4. \A x \in DOMAIN stx' : x \in Given' /\ stx'[x] \in STx
  BY <1>1, <1>2, <1>3, ChangeTyped
<1> QED
  BY <1>1, <1>4 DEF STyped, SFields

\* Resumption asks for the next chunk, sends the EOF again, or waits for Finished.
LEMMA SResumeKeepsTypes ==
    ASSUME STyped, NEW id, SResume(id) PROVE SFields'
<1>1. /\ Given' = Given /\ next_seq_num' = next_seq_num /\ Summing' = Summing
      /\ id \in DOMAIN stx /\ stx' = [stx EXCEPT ![id].suspended = FALSE]
  BY DEF SResume, Given, Summing
<1>2. stx[id] \in STx /\ id \in Given
  BY <1>1 DEF STyped, SFields
<1>3. \A x \in DOMAIN stx' : x \in Given' /\ stx'[x] \in STx
  <2>1. [stx[id] EXCEPT !.suspended = FALSE] \in STx
    BY <1>2 DEF STx
  <2> QED
    BY <1>1, <2>1, ChangeTyped
<1>4. CASE Reading' = Reading \cup {<<id, stx[id].progress>>} /\ UNCHANGED <<s_timers, net>>
  <2>1. <<id, stx[id].progress>> \in Given \X Nat
    BY <1>2 DEF STx
  <2> QED
    BY <1>1, <1>3, <1>4, <2>1 DEF STyped, SFields
<1>5. CASE SendEof(id) /\ Reading' = Reading
  BY <1>1, <1>2, <1>3, <1>5, EofTyped DEF STyped, SFields
<1>6. CASE s_timers' = s_timers \cup {<<id, "Inactivity">>} /\ Reading' = Reading /\ net' = net
  <2>1. <<id, "Inactivity">> \in Given \X {"Ack", "Inactivity"}
    BY <1>2
  <2> QED
    BY <1>1, <1>3, <1>6, <2>1 DEF STyped, SFields
<1> QED
  BY <1>4, <1>5, <1>6, ResumeView DEF STyped

\* The PDUs of the receiver.
LEMMA PduKeepsTypes ==
    ASSUME STyped, NetTyped, SPduReceived PROVE SFields'
<1>1. PICK p \in net : RecvFinished(p) \/ RecvAck(p) \/ RecvNak(p) \/ RecvKeepAlive(p)
  BY DEF SPduReceived
<1>2. Given' = Given /\ next_seq_num' = next_seq_num /\ Summing' = Summing
  BY <1>1 DEF RecvFinished, RecvAck, RecvNak, RecvKeepAlive, Given, Summing
<1>3. CASE RecvFinished(p)
  <2>1. Forget(p.id) /\ Reading' = Reading /\ s_timers' \subseteq s_timers
    BY <1>3 DEF RecvFinished, Reading
  <2>2. \A q \in net' : q.t = "eof" => q.id \in Given'
    BY <1>2, <1>3 DEF RecvFinished, SendPdus, Ack, STyped, SFields
  <2> QED
    BY <1>2, <2>1, <2>2, ForgetTyped DEF STyped, SFields
<1>4. CASE RecvAck(p)
  <2>1. /\ p.id \in DOMAIN stx /\ Reading' = Reading /\ net' = net
        /\ stx' = [stx EXCEPT ![p.id].state = "WaitingForFinishedPdu"]
        /\ s_timers' \subseteq s_timers \cup {<<p.id, "Inactivity">>}
    BY <1>4 DEF RecvAck, TimersAfterAck, Reading
  <2>2. [stx[p.id] EXCEPT !.state = "WaitingForFinishedPdu"] \in STx
    BY <2>1 DEF STyped, SFields, STx, SState
  <2>3. \A x \in DOMAIN stx' : x \in Given' /\ stx'[x] \in STx
    BY <1>2, <2>1, <2>2, ChangeTyped
  <2>4. <<p.id, "Inactivity">> \in Given \X {"Ack", "Inactivity"}
    BY <2>1 DEF STyped, SFields
  <2> QED
    BY <1>2, <2>1, <2>3, <2>4 DEF STyped, SFields
<1>5. CASE RecvNak(p)
  <2>1. /\ p.id \in Given /\ stx' = stx /\ net' = net /\ s_timers' \subseteq s_timers
        /\ Reading' = Reading \cup ({p.id} \X Requested(p.id, p.segs))
    BY <1>5, NakView DEF RecvNak, STyped, SFields
  <2>2. Requested(p.id, p.segs) \subseteq Nat
    BY DEF Requested
  <2>3. Reading' \subseteq Given \X Nat
    BY <2>1, <2>2 DEF STyped, SFields
  <2> QED
    BY <1>2, <2>1, <2>3 DEF STyped, SFields
<1>6. CASE RecvKeepAlive(p)
  <2> DEFINE last == IF p.progress > stx[p.id].last_receiver_progress
                     THEN p.progress ELSE stx[p.id].last_receiver_progress
  <2>1. /\ p.id \in DOMAIN stx /\ stx[p.id] \in STx /\ p.progress \in Nat
        /\ s_timers' = s_timers /\ Reading' = Reading /\ net' = net
    BY <1>6 DEF RecvKeepAlive, STyped, SFields, NetTyped, Reading
  <2>2. CASE Forget(p.id)
    BY <1>2, <2>1, <2>2, ForgetTyped DEF STyped, SFields
  <2>3. CASE stx' = [stx EXCEPT ![p.id].last_receiver_progress = last]
    <3>1. last \in Nat
      BY <2>1 DEF STx
    <3> HIDE DEF last
    <3>2. [stx[p.id] EXCEPT !.last_receiver_progress = last] \in STx
      BY <2>1, <3>1 DEF STx
    <3>3. \A x \in DOMAIN stx' : x \in Given' /\ stx'[x] \in STx
      BY <1>2, <2>1, <2>3, <3>2, ChangeTyped
    <3> QED
      BY <1>2, <2>1, <3>3 DEF STyped, SFields
  <2> QED
    BY <1>6, <2>2, <2>3 DEF RecvKeepAlive
<1> QED
  BY <1>1, <1>3, <1>4, <1>5, <1>6

\* Every event keeps the sender's types.
LEMMA SenderKeepsTypes ==
    ASSUME STyped, NetTyped, SenderNext PROVE STyped'
<1>1. CASE SenderUser
  <2>1. ASSUME NEW size \in FileSizes, PutRequest(size) PROVE SFields'
    BY <2>1, PutKeepsTypes
  <2> QED
    BY <1>1, <2>1, PromptKeepsTypes, SSuspendKeepsTypes, SResumeKeepsTypes, CfdpAssumption,
       SenderCounts DEF SenderUser, STyped
<1>2. CASE SenderFilestore
  BY <1>2, DataKeepsTypes, ChecksumKeepsTypes, SenderCounts DEF SenderFilestore, STyped
<1>3. CASE SenderTimer
  BY <1>3, AckTimeoutKeepsTypes, SInactivityKeepsTypes, SenderCounts DEF SenderTimer, STyped
<1>4. CASE SenderReceives
  BY <1>4, PduKeepsTypes, SenderCounts DEF SenderReceives, STyped
<1> QED
  BY <1>1, <1>2, <1>3, <1>4 DEF SenderNext
-----------------------------------------------------------------------------
\* What the receiver sends.
RPdu(p) ==
    \/ p.t \in {"ack", "finished", "nak"}
    \/ p.t = "keepalive" /\ p.progress \in Nat

\* A fault closes the transaction, suspends it or leaves it alone.
LEMMA FaultFacts ==
    ASSUME RTyped, NEW id \in DOMAIN rtx, NEW timers, HandleFault(id, timers)
    PROVE  /\ r_timers' \subseteq timers
           /\ \A x \in DOMAIN rtx' :
                 x \in DOMAIN rtx /\ RTx(rtx'[x]) /\ rtx'[x].state = rtx[x].state
<1>1. CASE rtx' = Restrict(rtx, DOMAIN rtx \ {id}) /\ r_timers' = timers
  BY <1>1 DEF Restrict, RTyped
<1>2. CASE rtx' = rtx /\ r_timers' = timers
  BY <1>2 DEF RTyped
<1>3. CASE /\ rtx' = [rtx EXCEPT ![id].suspended = TRUE]
           /\ r_timers' \subseteq timers
  <2>1. RTx(rtx[id])
    BY DEF RTyped
  <2>2. RTx(rtx'[id]) /\ rtx'[id].state = rtx[id].state
    BY <1>3, <2>1 DEF RTx, IsRecord
  <2> QED
    BY <1>3, <2>2 DEF RTyped
<1> QED
  BY <1>1, <1>2, <1>3 DEF HandleFault

\* What a step of the receiver may do to the link, and to what it knows.
RStepOK ==
    /\ RTyped'
    /\ net \subseteq net' /\ \A p \in net' : p \in net \/ RPdu(p)
    /\ \A p \in net' : p.t = "nak" => p \in net \/ EofSent(p.id)
    /\ \A x \in r_timers' : x[2] = "Nak" => x \in r_timers \/ EofSent(x[1])
    /\ \A id \in DOMAIN rtx' : rtx'[id].state = "WaitingForNakData" =>
          EofSent(id) \/ (id \in DOMAIN rtx /\ rtx[id].state = "WaitingForNakData")

\* The PDUs the receiver sends are of its kinds.
LEMMA RPduKinds ==
    /\ \A id, dir : RPdu(Ack(id, dir)) /\ Ack(id, dir).t = "ack"
    /\ \A id, cond : RPdu(Finished(id, cond)) /\ Finished(id, cond).t = "finished"
    /\ \A id, segs : RPdu(Nak(id, segs)) /\ Nak(id, segs).t = "nak" /\ Nak(id, segs).id = id
    /\ \A id : \A n \in Nat : RPdu(KeepAlive(id, n)) /\ KeepAlive(id, n).t = "keepalive"
  BY DEF RPdu, Ack, Finished, Nak, KeepAlive

\* Metadata opens a transaction of the receiver that has no Nak timer yet.
LEMMA RecvMetadataStep ==
    ASSUME RTyped, NetTyped, NEW p \in net, RecvMetadata(p) PROVE RStepOK
<1> DEFINE t == [size |-> p.size, suspended |-> FALSE, progress |-> 0,
                 nak_retries |-> 0, ranges |-> <<>>, state |-> "ReceivingFileData"]
<1>1. RTx(t) /\ t.state = "ReceivingFileData"
  BY DEF RTx, IsRecord, RState
<1>2. rtx' = Opened(rtx, p.id, t) /\ writes' = writes /\ net' = net
  BY DEF RecvMetadata
<1> HIDE DEF t
<1>3. /\ DOMAIN rtx' = DOMAIN rtx \cup {p.id} /\ rtx'[p.id] = t
      /\ \A x \in DOMAIN rtx : x # p.id => rtx'[x] = rtx[x]
  BY <1>2 DEF Opened
<1>4. \A x \in r_timers' : x[2] = "Nak" => x \in r_timers
  BY DEF RecvMetadata, RStart
<1> QED
  BY <1>1, <1>2, <1>3, <1>4 DEF RStepOK, RTyped

\* File data is handed to the filestore and changes no transaction.
LEMMA RecvFileDataStep ==
    ASSUME RTyped, NetTyped, NEW p \in net, RecvFileData(p) PROVE RStepOK
<1>1. \A x \in r_timers' : x[2] = "Nak" => x \in r_timers
  BY DEF RecvFileData, RestartInactivity, RStart, RStop
<1>2. rtx' = rtx /\ net' = net /\ writes' = writes \cup {p} /\ p.t = "data"
  BY DEF RecvFileData
<1>3. p.off \in Nat /\ p.len \in Nat
  BY <1>2 DEF NetTyped
<1> QED
  BY <1>1, <1>2, <1>3 DEF RStepOK, RTyped

\* An EOF is acknowledged; the Nak timer it may start has this EOF behind it.
LEMMA RecvEofStep ==
    ASSUME RTyped, NetTyped, NEW p \in net, RecvEof(p) PROVE RStepOK
<1> DEFINE nak == Nak(p.id, MissingRanges(rtx[p.id].ranges, rtx[p.id].size))
           ack == Ack(p.id, "Eof")
<1>1. /\ p.id \in DOMAIN rtx /\ writes' = writes /\ EofSent(p.id) /\ RTx(rtx[p.id])
  BY DEF RecvEof, EofSent, RTyped
<1>2. RPdu(ack) /\ ack.t = "ack" /\ RPdu(nak) /\ nak.t = "nak" /\ nak.id = p.id
  BY RPduKinds
<1>3. net' = net \cup {ack} \/ net' = net \cup {ack, nak}
  BY DEF RecvEof, SendPdus
<1> HIDE DEF ack, nak
<1>4. /\ net \subseteq net' /\ \A q \in net' : q \in net \/ RPdu(q)
      /\ \A q \in net' : q.t = "nak" => q \in net \/ EofSent(q.id)
  BY <1>1, <1>2, <1>3
<1>5. \A x \in r_timers' : x[2] = "Nak" => x \in r_timers \/ EofSent(x[1])
  <2>1. CASE HandleFault(p.id, RStop(p.id, {"Inactivity"}))
    BY <1>1, <2>1, FaultFacts DEF RStop
  <2>2. CASE r_timers' \subseteq r_timers \cup {<<p.id, "Nak">>}
    BY <1>1, <2>2
  <2> QED
    BY <2>1, <2>2 DEF RecvEof, RStop
<1>6. \A x \in DOMAIN rtx' : /\ RTx(rtx'[x])
                             /\ rtx'[x].state = "WaitingForNakData" =>
                                  EofSent(x) \/ (x \in DOMAIN rtx /\ rtx[x].state = rtx'[x].state)
  <2>1. CASE HandleFault(p.id, RStop(p.id, {"Inactivity"}))
    BY <1>1, <2>1, FaultFacts
  <2>2. ASSUME NEW s \in RState, rtx' = [rtx EXCEPT ![p.id].state = s]
        PROVE  \A x \in DOMAIN rtx' :
                  /\ RTx(rtx'[x])
                  /\ rtx'[x].state = "WaitingForNakData" =>
                        EofSent(x) \/ (x \in DOMAIN rtx /\ rtx[x].state = rtx'[x].state)
    <3>1. RTx(rtx'[p.id])
      BY <1>1, <2>2 DEF RTx, IsRecord
    <3> QED
      BY <1>1, <2>2, <3>1 DEF RTyped
  <2> QED
    BY <2>1, <2>2 DEF RecvEof, RState
<1> QED
  BY <1>1, <1>4, <1>5, <1>6 DEF RStepOK, RTyped

\* A stray EOF or a prompt is answered and changes nothing else.
LEMMA RecvOtherStep ==
    ASSUME RTyped, NetTyped, NEW p \in net, RecvStrayEof(p) \/ RecvPrompt(p) PROVE RStepOK
<1>1. UNCHANGED r_vars
  BY DEF RecvStrayEof, RecvPrompt
<1>2. CASE RecvStrayEof(p)
  BY <1>1, <1>2, RPduKinds DEF RecvStrayEof, SendPdus, RStepOK, RTyped, r_vars
<1>3. CASE RecvPrompt(p)
  <2>1. rtx[p.id].progress \in Nat
    BY <1>3 DEF RecvPrompt, RTyped, RTx, IsRecord
  <2> QED
    BY <1>1, <1>3, <2>1, RPduKinds DEF RecvPrompt, SendPdus, RStepOK, RTyped, r_vars
<1> QED
  BY <1>2, <1>3

\* A finished write adds its range to the tracker of its transaction.
LEMMA FileDataWrittenStep ==
    ASSUME RTyped, NEW w \in writes, FileDataWritten(w) PROVE RStepOK
<1>1. /\ w.off + w.len \in Nat
      /\ writes' \subseteq writes /\ net' = net /\ r_timers' = r_timers
  BY DEF FileDataWritten, RTyped
<1>2. CASE w.id \notin DOMAIN rtx
  BY <1>1, <1>2 DEF FileDataWritten, RStepOK, RTyped
<1>3. CASE w.id \in DOMAIN rtx
  <2> DEFINE new == AddSegment(rtx[w.id].ranges, w.off, w.len)
  <2>1. rtx' = [rtx EXCEPT ![w.id] = [rtx[w.id] EXCEPT !.progress = w.off + w.len,
                                                       !.ranges = new]]
    BY <1>3 DEF FileDataWritten, RTyped, RTx, IsRecord
  <2> HIDE DEF new
  <2>2. RTx(rtx[w.id])
    BY <1>3 DEF RTyped
  <2>3. RTx(rtx'[w.id]) /\ rtx'[w.id].state = rtx[w.id].state
    BY <1>1, <1>3, <2>1, <2>2 DEF RTx, IsRecord
  <2> QED
    BY <1>1, <2>1, <2>3 DEF RStepOK, RTyped
<1> QED
  BY <1>2, <1>3

\* A verified checksum ends the transaction, a wrong one is a fault.
LEMMA ChecksumVerifiedStep ==
    ASSUME RTyped, NEW id, NEW valid \in BOOLEAN, ChecksumVerified(id, valid) PROVE RStepOK
<1>1. writes' = writes
  BY DEF ChecksumVerified
<1>2. CASE UNCHANGED <<rtx, r_timers, net>>
  BY <1>1, <1>2 DEF RStepOK, RTyped
<1>3. CASE id \in DOMAIN rtx /\ HandleFault(id, r_timers) /\ net' = net
  BY <1>1, <1>3, FaultFacts DEF RStepOK, RTyped
<1>4. CASE /\ rtx' = Restrict(rtx, DOMAIN rtx \ {id})
           /\ SendPdus({Ack(id, "Eof"), Finished(id, "NoError")})
           /\ UNCHANGED r_timers
  <2>1. \A p \in net' : p \in net \/ (RPdu(p) /\ p.t # "nak")
    BY <1>4, RPduKinds DEF SendPdus
  <2>2. \A x \in DOMAIN rtx' : x \in DOMAIN rtx /\ rtx'[x] = rtx[x]
    BY <1>4 DEF Restrict
  <2> QED
    BY <1>1, <1>4, <2>1, <2>2 DEF RStepOK, RTyped, SendPdus
<1> QED
  BY <1>2, <1>3, <1>4 DEF ChecksumVerified

\* The Nak timer asks again for what is missing, up to its limit.
LEMMA NakTimeoutStep ==
    ASSUME RTyped, NaksFollowEof, NEW id, NakTimeout(id) PROVE RStepOK
<1>1. writes' = writes /\ EofSent(id)
  BY DEF NakTimeout, NaksFollowEof
<1>2. CASE rtx' = rtx /\ net' = net /\ r_timers' \subseteq r_timers
  BY <1>1, <1>2 DEF RStepOK, RTyped
<1>3. CASE id \in DOMAIN rtx /\ HandleFault(id, RStop(id, {"Nak"})) /\ net' = net
  BY <1>1, <1>3, FaultFacts DEF RStepOK, RTyped, RStop
<1>4. CASE /\ id \in DOMAIN rtx
           /\ rtx' = [rtx EXCEPT ![id].nak_retries = @ + 1, ![id].state = "WaitingForNakData"]
           /\ SendPdus({Nak(id, MissingRanges(rtx[id].ranges, rtx[id].size))})
           /\ UNCHANGED r_timers
  <2>1. \A p \in net' : p \in net \/ (RPdu(p) /\ EofSent(p.id))
    BY <1>1, <1>4, RPduKinds DEF SendPdus
  <2>2. RTx(rtx[id])
    BY <1>4 DEF RTyped
  <2>3. RTx(rtx'[id])
    BY <1>4, <2>2 DEF RTx, IsRecord, RState
  <2> QED
    BY <1>1, <1>4, <2>1, <2>3 DEF RStepOK, RTyped, SendPdus
<1> QED
  BY <1>2, <1>3, <1>4 DEF NakTimeout, RStop

\* The inactivity timer is a fault; the keep-alive timer reports the progress.
LEMMA RTimerStep ==
    ASSUME RTyped, NEW id, RInactivity(id) \/ KeepAliveTimeout(id) PROVE RStepOK
<1>1. CASE RInactivity(id)
  <2>1. CASE id \in DOMAIN rtx
    BY <1>1, <2>1, FaultFacts DEF RInactivity, RStepOK, RTyped, RStop
  <2>2. CASE id \notin DOMAIN rtx
    BY <1>1, <2>2 DEF RInactivity, RStepOK, RTyped, RStop
  <2> QED
    BY <2>1, <2>2
<1>2. CASE KeepAliveTimeout(id)
  <2>1. CASE id \in DOMAIN rtx
    <3>1. rtx[id].progress \in Nat
      BY <2>1 DEF RTyped, RTx, IsRecord
    <3> QED
      BY <1>2, <2>1, <3>1, RPduKinds DEF KeepAliveTimeout, SendPdus, RStepOK, RTyped
  <2>2. CASE id \notin DOMAIN rtx
    BY <1>2, <2>2 DEF KeepAliveTimeout, RStepOK, RTyped, RStop
  <2> QED
    BY <2>1, <2>2
<1> QED
  BY <1>1, <1>2

\* Suspension and resumption of a reception touch its timers only.
LEMMA RRequestStep ==
    ASSUME RTyped, NaksFollowEof, NEW id, RSuspend(id) \/ RResume(id) PROVE RStepOK
<1>1. /\ id \in DOMAIN rtx /\ writes' = writes /\ net' = net
      /\ \E b \in BOOLEAN : rtx' = [rtx EXCEPT ![id].suspended = b]
  BY DEF RSuspend, RResume
<1>2. RTx(rtx[id])
  BY <1>1 DEF RTyped
<1>3. RTx(rtx'[id]) /\ rtx'[id].state = rtx[id].state
  BY <1>1, <1>2 DEF RTx, IsRecord
<1>4. \A x \in r_timers' : x[2] = "Nak" => x \in r_timers \/ EofSent(x[1])
  <2>1. CASE RSuspend(id)
    BY <2>1 DEF RSuspend, RStop
  <2>2. CASE RResume(id)
    BY <1>1, <2>2 DEF RResume, RStart, NaksFollowEof
  <2> QED
    BY <2>1, <2>2
<1> QED
  BY <1>1, <1>3, <1>4 DEF RStepOK, RTyped

\* Every event of the receiver.
LEMMA ReceiverStep ==
    ASSUME RTyped, NetTyped, NaksFollowEof, ReceiverNext PROVE RStepOK
<1>1. CASE ReceiverUser
  BY <1>1, RRequestStep DEF ReceiverUser
<1>2. CASE ReceiverFilestore
  BY <1>2, FileDataWrittenStep, ChecksumVerifiedStep DEF ReceiverFilestore
<1>3. CASE ReceiverTimer
  BY <1>3, NakTimeoutStep, RTimerStep DEF ReceiverTimer
<1>4. CASE ReceiverReceives
  BY <1>4, RecvMetadataStep, RecvFileDataStep, RecvEofStep, RecvOtherStep
     DEF ReceiverReceives, RPduReceived
<1> QED
  BY <1>1, <1>2, <1>3, <1>4 DEF ReceiverNext
-----------------------------------------------------------------------------
\* More PDUs on the link, more chunks sent.
LEMMA SentGrows ==
    ASSUME NEW pdus, NEW more, pdus \subseteq more, NEW id, NEW n, NEW size,
           Sent(pdus, id, n, size)
    PROVE  Sent(more, id, n, size)
  BY DEF Sent

\* An EOF stays on the link, and so does what a NAK may ask for.
LEMMA AskedGrows ==
    ASSUME net \subseteq net', NEW p, NEW size
    PROVE  /\ \A id : EofSent(id) => EofSent(id)'
           /\ AsksForSent(p, size) => AsksForSent(p, size)'
<1>1. \A id : EofSent(id) => EofSent(id)'
  BY DEF EofSent
<1>2. ASSUME AsksForSent(p, size) PROVE AsksForSent(p, size)'
  BY <1>2, SentGrows DEF AsksForSent
<1> QED
  BY <1>1, <1>2

\* A step keeps what is known of transaction id when each new read, a new
\* checksum and a new state come only after the chunks they stand for.
LEMMA TxSentStep ==
    ASSUME NEW id \in DOMAIN stx, TxSent(id), net \subseteq net', NEW size,
           stx[id].size = size, stx'[id].size = size,
           \/ stx'[id].progress = stx[id].progress
           \/ Sent(net', id, stx'[id].progress, size),
           \A r \in Reading' : r[1] = id => r \in Reading \/ Sent(net', id, r[2], size),
           id \in Summing' => id \in Summing \/ Sent(net', id, size, size),
           stx'[id].state # "SendingFileData" =>
              stx[id].state # "SendingFileData" \/ Sent(net', id, size, size),
           \A p \in net' : p.t = "eof" /\ p.id = id => p \in net \/ p.size = size,
           \A p \in net' : p.t = "data" /\ p.id = id =>
              p \in net \/ Sent(net', id, p.off + p.len, size),
           \A p \in net' : p.t = "nak" /\ p.id = id =>
              p \in net \/ EofSent(id) \/ AsksForSent(p, size)
    PROVE  TxSent(id)'
<1>1. Sent(net', id, stx'[id].progress, size)
  BY SentGrows DEF TxSent
<1>2. \A r \in Reading' : r[1] = id => Sent(net', id, r[2], size)
  BY SentGrows DEF TxSent
<1>3. id \in Summing' \/ stx'[id].state # "SendingFileData" => Sent(net', id, size, size)
  BY SentGrows DEF TxSent
<1>4. \A p \in net' : p.t = "eof" /\ p.id = id => p.size = size
  BY DEF TxSent
<1>5. \A p \in net' : p.t = "data" /\ p.id = id => Sent(net', id, p.off + p.len, size)
  BY SentGrows DEF TxSent
<1>6. \A p \in net' : p.t = "nak" /\ p.id = id => EofSent(id)' \/ AsksForSent(p, size)'
  BY AskedGrows DEF TxSent
<1> QED
  BY <1>1, <1>2, <1>3, <1>4, <1>5, <1>6 DEF TxSent

\* A new transaction has sent nothing, and nothing of it is under way.
LEMMA PutKeepsChunks ==
    ASSUME STyped, LinkOwn, peer # "sender", ChunksSent, EofAfterAllData,
           NEW size \in FileSizes, PutRequest(size)
    PROVE  ChunksSent' /\ EofAfterAllData'
<1> DEFINE n == next_seq_num
           t == [size |-> size, suspended |-> FALSE, progress |-> 0, ack_retries |-> 0,
                 file_checksum |-> FALSE, last_receiver_progress |-> 0,
                 state |-> "SendingFileData"]
<1>1. n \in Nat /\ n \notin Given /\ size \in Nat /\ Summing' = Summing
  BY SenderAssumption DEF STyped, SFields, Given, PutRequest, Summing
<1>2. n \notin DOMAIN stx /\ n \notin Summing /\ (\A r \in Reading : r[1] # n)
      /\ \A p \in net : p.t \in {"eof", "data", "nak"} => p.id # n
  BY <1>1 DEF STyped, SFields, LinkOwn
<1>3. net \subseteq net' /\ \A p \in net' : p \in net \/ p.t = "metadata"
  BY DEF PutRequest, SendPdus, Metadata
<1>4. Reading' \subseteq Reading \cup {<<n, 0>>}
  BY PutView DEF STyped
<1>5. t.size = size /\ t.progress = 0 /\ t.state = "SendingFileData"
  OBVIOUS
<1>6. stx' = Opened(stx, n, t) \/ stx' = stx
  BY DEF PutRequest
<1> HIDE DEF n, t
<1>7. \A x \in DOMAIN stx' : (x = n /\ stx'[x] = t) \/ (x \in DOMAIN stx /\ x # n /\ stx'[x] = stx[x])
  BY <1>2, <1>6 DEF Opened
<1>8. ASSUME NEW x \in DOMAIN stx' PROVE TxSent(x)'
  <2>1. CASE x = n /\ stx'[x] = t
    <3>1. \A r \in Reading' : r[1] = x => r[2] = 0
      BY <1>2, <1>4, <2>1
    <3>2. Sent(net', x, 0, size)
      BY <1>1 DEF Sent
    <3>3. x \notin Summing' /\ \A p \in net' : p.t \in {"eof", "data", "nak"} => p.id # x
      BY <1>1, <1>2, <1>3, <2>1
    <3> QED
      BY <1>5, <2>1, <3>1, <3>2, <3>3 DEF TxSent
  <2>2. CASE x \in DOMAIN stx /\ x # n /\ stx'[x] = stx[x]
    <3>1. TxSent(x) /\ \A r \in Reading' : r[1] = x => r \in Reading
      BY <1>4, <2>2 DEF ChunksSent
    <3> QED
      BY <1>1, <1>3, <2>2, <3>1, TxSentStep
  <2> QED
    BY <1>7, <2>1, <2>2
<1>9. EofAfterAllData'
  BY <1>3 DEF EofAfterAllData
<1> QED
  BY <1>8, <1>9 DEF ChunksSent

\* A chunk that was read is sent before the read behind it is asked for.
LEMMA DataKeepsChunks ==
    ASSUME STyped, ChunksSent, EofAfterAllData, NEW id, NEW off, DataSegmentReady(id, off)
    PROVE  ChunksSent' /\ EofAfterAllData'
<1> DEFINE len == IF off < stx[id].size THEN 1 ELSE 0
<1>1. off \in Nat /\ <<id, off>> \in Reading
  BY DEF DataSegmentReady, STyped, SFields
<1>2. CASE Reading' \subseteq Reading /\ Summing' = Summing /\ UNCHANGED <<stx, net>>
  <2>1. ASSUME NEW x \in DOMAIN stx PROVE TxSent(x)'
    BY <1>2, <2>1, TxSentStep DEF ChunksSent
  <2> QED
    BY <1>2, <2>1 DEF ChunksSent, EofAfterAllData
<1>3. CASE /\ id \in DOMAIN stx
           /\ SendPdus({FileData(id, off, len)})
           /\ stx' = [stx EXCEPT ![id].progress = off + len]
           /\ \/ /\ off + len >= stx[id].size
                 /\ Summing' = Summing \cup {id} /\ Reading' \subseteq Reading
              \/ Summing' = Summing /\ Reading' \subseteq Reading \cup {<<id, off + len>>}
  <2>1. stx[id].size \in Nat /\ len \in {0, 1} /\ (len = 1 <=> off < stx[id].size)
    BY <1>3, SenderAssumption DEF STyped, SFields, STx
  <2>2. Sent(net', id, off + len, stx[id].size)
    <3>1. Sent(net, id, off, stx[id].size)
      BY <1>1, <1>3 DEF ChunksSent, TxSent
    <3>2. net \subseteq net' /\ FileData(id, off, len) \in net'
      BY <1>3 DEF SendPdus
    <3> HIDE DEF len
    <3> QED
      BY <1>1, <2>1, <3>1, <3>2 DEF Sent
  <2>3. /\ net \subseteq net'
        /\ \A p \in net' : p \in net \/ (p.t = "data" /\ p.id = id /\ p.off + p.len = off + len)
    BY <1>3 DEF SendPdus, FileData
  <2> HIDE DEF len
  <2>4. off + len >= stx[id].size => Sent(net', id, stx[id].size, stx[id].size)
    BY <1>1, <2>1, <2>2 DEF Sent
  <2>5. /\ DOMAIN stx' = DOMAIN stx
        /\ stx'[id].size = stx[id].size /\ stx'[id].state = stx[id].state
        /\ stx'[id].progress = off + len
        /\ \A x \in DOMAIN stx : x # id => stx'[x] = stx[x]
    BY <1>3 DEF STyped, SFields, STx
  <2>6. TxSent(id)'
    <3>1. TxSent(id)
      BY <1>3 DEF ChunksSent
    <3>2. \A r \in Reading' : r[1] = id => r \in Reading \/ Sent(net', id, r[2], stx[id].size)
      BY <1>3, <2>2
    <3>3. id \in Summing' => id \in Summing \/ Sent(net', id, stx[id].size, stx[id].size)
      BY <1>3, <2>4
    <3>4. \A p \in net' : p.t = "data" => p \in net \/ Sent(net', id, p.off + p.len, stx[id].size)
      BY <2>2, <2>3
    <3> QED
      BY <1>3, <2>2, <2>3, <2>5, <3>1, <3>2, <3>3, <3>4, TxSentStep
  <2>7. ASSUME NEW x \in DOMAIN stx, x # id PROVE TxSent(x)'
    <3>1. TxSent(x) /\ (x \in Summing' => x \in Summing) /\ \A r \in Reading' : r[1] = x => r \in Reading
      BY <1>3, <2>7 DEF ChunksSent
    <3> QED
      BY <2>3, <2>5, <2>7, <3>1, TxSentStep
  <2>8. EofAfterAllData'
    BY <2>3 DEF EofAfterAllData
  <2> QED
    BY <2>5, <2>6, <2>7, <2>8 DEF ChunksSent
<1> QED
  BY <1>2, <1>3, DataView DEF STyped

\* The table after a step that opens no transaction and moves no progress.
SameFiles ==
    \A x \in DOMAIN stx' :
        /\ x \in DOMAIN stx
        /\ stx'[x].size = stx[x].size /\ stx'[x].progress = stx[x].progress

\* A NAK that follows the EOF, or asks for nothing that was not sent.
NakFollows(p) == EofSent(p.id) \/ (p.id \in DOMAIN stx => AsksForSent(p, stx[p.id].size))

\* A step that starts no read, no checksum and sends neither data nor an EOF.
LEMMA QuietStep ==
    ASSUME ChunksSent, EofAfterAllData, SameFiles, Reading' \subseteq Reading, Summing' \subseteq Summing,
           \A x \in DOMAIN stx' : stx'[x].state # "SendingFileData" =>
              stx[x].state # "SendingFileData",
           net \subseteq net',
           \A p \in net' : p \in net \/ (p.t \notin {"eof", "data"} /\ (p.t = "nak" => NakFollows(p)))
    PROVE  ChunksSent' /\ EofAfterAllData'
<1>1. ASSUME NEW x \in DOMAIN stx' PROVE TxSent(x)'
  <2>1. x \in DOMAIN stx /\ TxSent(x)
    BY DEF ChunksSent, SameFiles
  <2>2. \A p \in net' : p.t = "nak" /\ p.id = x =>
           p \in net \/ EofSent(x) \/ AsksForSent(p, stx[x].size)
    BY <2>1 DEF NakFollows
  <2> QED
    BY <2>1, <2>2, TxSentStep DEF SameFiles
<1>2. EofAfterAllData'
  BY DEF EofAfterAllData
<1> QED
  BY <1>1, <1>2 DEF ChunksSent

\* A step that sends the EOF of a transaction whose file was sent.
LEMMA EofStep ==
    ASSUME STyped, ChunksSent, EofAfterAllData, SameFiles, NEW id \in DOMAIN stx,
           Reading' \subseteq Reading, Summing' \subseteq Summing, SendEof(id),
           id \in Summing \/ stx[id].state # "SendingFileData",
           \A x \in DOMAIN stx' : x # id => stx'[x].state = stx[x].state
    PROVE  ChunksSent' /\ EofAfterAllData'
<1> DEFINE size == stx[id].size
           eof == Eof(id, "NoError", size)
<1>1. Sent(net, id, size, size) /\ size \in Nat
  BY SenderAssumption DEF ChunksSent, TxSent, STyped, SFields, STx
<1>2. net' = net \cup {eof} /\ eof.t = "eof" /\ eof.id = id /\ eof.size = size
  BY DEF SendEof, SendPdus, Eof
<1> HIDE DEF eof, size
<1>3. Sent(net', id, size, size)
  BY <1>1, <1>2, SentGrows
<1>4. ASSUME NEW x \in DOMAIN stx' PROVE TxSent(x)'
  <2>1. x \in DOMAIN stx /\ TxSent(x)
    BY DEF ChunksSent, SameFiles
  <2>2. \A p \in net' : p.t = "eof" /\ p.id = x => p \in net \/ p.size = stx[x].size
    BY <1>2 DEF size
  <2>3. stx'[x].state # "SendingFileData" =>
           stx[x].state # "SendingFileData" \/ Sent(net', x, stx[x].size, stx[x].size)
    BY <1>3 DEF size
  <2> QED
    BY <1>2, <2>1, <2>2, <2>3, TxSentStep DEF SameFiles
<1>5. EofAfterAllData'
  <2>1. \A off \in 0..(size - 1) : FileData(id, off, 1) \in net'
    BY <1>1, <1>3 DEF Sent
  <2> QED
    BY <1>2, <2>1 DEF EofAfterAllData
<1> QED
  BY <1>4, <1>5 DEF ChunksSent

\* A step that asks for more chunks of a transaction, all of them behind chunks
\* that were sent.
LEMMA ReadStep ==
    ASSUME ChunksSent, EofAfterAllData, SameFiles, NEW id \in DOMAIN stx,
           Summing' = Summing, net' = net, \A x \in DOMAIN stx' : stx'[x].state = stx[x].state,
           \A r \in Reading' : r \in Reading \/ (r[1] = id /\ Sent(net, id, r[2], stx[id].size))
    PROVE  ChunksSent' /\ EofAfterAllData'
<1>1. ASSUME NEW x \in DOMAIN stx' PROVE TxSent(x)'
  <2>1. x \in DOMAIN stx /\ TxSent(x)
    BY DEF ChunksSent, SameFiles
  <2> QED
    BY <2>1, TxSentStep DEF SameFiles
<1>2. EofAfterAllData'
  BY DEF EofAfterAllData
<1> QED
  BY <1>1, <1>2 DEF ChunksSent

\* The steps that forget a transaction, or change other fields of it.
LEMMA ForgetFiles ==
    ASSUME NEW id, Forget(id)
    PROVE  SameFiles /\ \A x \in DOMAIN stx' : stx'[x] = stx[x]
  BY DEF Forget, Restrict, SameFiles

\* A change of one transaction that keeps its size and progress keeps the files.
LEMMA ChangeFiles ==
    ASSUME STyped, NEW id \in DOMAIN stx, NEW t \in STx, stx' = [stx EXCEPT ![id] = t],
           t.size = stx[id].size, t.progress = stx[id].progress
    PROVE  SameFiles /\ stx'[id] = t /\ \A x \in DOMAIN stx' : x # id => stx'[x] = stx[x]
  BY DEF SameFiles

\* The checksum is ready only after all data, so the EOF it lets out follows them.
LEMMA ChecksumKeepsChunks ==
    ASSUME STyped, ChunksSent, EofAfterAllData, NEW id, ChecksumReady(id)
    PROVE  ChunksSent' /\ EofAfterAllData'
<1>1. id \in Summing /\ Reading' = Reading /\ Summing' \subseteq Summing
  BY ChecksumView DEF STyped
<1>2. CASE id \in DOMAIN stx
  <2> DEFINE t == [stx[id] EXCEPT !.file_checksum = TRUE, !.state = "WaitingForEofAck"]
  <2>1. stx' = [stx EXCEPT ![id] = t] /\ SendEof(id)
    BY <1>2 DEF ChecksumReady
  <2>2. t \in STx /\ t.size = stx[id].size /\ t.progress = stx[id].progress
    BY <1>2 DEF STyped, SFields, STx, SState
  <2> HIDE DEF t
  <2>3. SameFiles /\ \A x \in DOMAIN stx' : x # id => stx'[x] = stx[x]
    BY <1>2, <2>1, <2>2, ChangeFiles
  <2> QED
    BY <1>1, <1>2, <2>1, <2>3, EofStep
<1>3. CASE id \notin DOMAIN stx
  BY <1>1, <1>3, QuietStep DEF ChecksumReady, SameFiles
<1> QED
  BY <1>2, <1>3

\* A repeated EOF follows all data as the first one did.
LEMMA AckTimeoutKeepsChunks ==
    ASSUME STyped, ChunksSent, EofAfterAllData, NEW id, AckTimeout(id)
    PROVE  ChunksSent' /\ EofAfterAllData'
<1>1. Reading' = Reading /\ Summing' = Summing
  BY DEF AckTimeout, Reading, Summing
<1>2. CASE stx' = stx /\ net' = net
  BY <1>1, <1>2, QuietStep DEF SameFiles
<1>3. CASE Forget(id) /\ net' = net
  BY <1>1, <1>3, ForgetFiles, QuietStep
<1>4. CASE /\ id \in DOMAIN stx
           /\ stx' = [stx EXCEPT ![id].ack_retries = @ + 1]
           /\ \/ stx[id].state = "WaitingForEofAck" /\ SendEof(id)
              \/ net' = net
  <2>1. SameFiles /\ \A x \in DOMAIN stx' : stx'[x].state = stx[x].state
    BY <1>4 DEF SameFiles, STyped, SFields, STx
  <2>2. CASE stx[id].state = "WaitingForEofAck" /\ SendEof(id)
    BY <1>1, <1>4, <2>1, <2>2, EofStep
  <2>3. CASE net' = net
    BY <1>1, <2>1, <2>3, QuietStep
  <2> QED
    BY <1>4, <2>2, <2>3
<1> QED
  BY <1>2, <1>3, <1>4 DEF AckTimeout

\* Giving a transaction up sends nothing.
LEMMA SInactivityKeepsChunks ==
    ASSUME ChunksSent, EofAfterAllData, NEW id, SInactivity(id)
    PROVE  ChunksSent' /\ EofAfterAllData'
<1>1. SameFiles /\ \A x \in DOMAIN stx' : stx'[x] = stx[x]
  BY ForgetFiles DEF SInactivity, SameFiles
<1>2. Reading' = Reading /\ Summing' = Summing /\ net' = net
  BY DEF SInactivity, Reading, Summing
<1> QED
  BY <1>1, <1>2, QuietStep

\* The requests of the user send no EOF and forget no chunk.
LEMMA UserKeepsChunks ==
    ASSUME STyped, ChunksSent, EofAfterAllData, NEW id, NEW kind,
           PromptRequest(id, kind) \/ SSuspend(id) \/ SResume(id)
    PROVE  ChunksSent' /\ EofAfterAllData'
<1>1. CASE PromptRequest(id, kind)
  <2>1. Reading' = Reading /\ Summing' = Summing /\ stx' = stx
    BY <1>1 DEF PromptRequest, s_vars, Reading, Summing
  <2>2. net \subseteq net' /\ \A p \in net' : p \in net \/ p.t = "prompt"
    BY <1>1 DEF PromptRequest, SendPdus, Prompt
  <2> QED
    BY <2>1, <2>2, QuietStep DEF SameFiles
<1>2. CASE SSuspend(id)
  <2>1. SameFiles /\ \A x \in DOMAIN stx' : stx'[x].state = stx[x].state
    BY <1>2 DEF SSuspend, SameFiles, STyped, SFields, STx
  <2>2. Reading' = Reading /\ Summing' = Summing /\ net' = net
    BY <1>2 DEF SSuspend, Reading, Summing
  <2> QED
    BY <2>1, <2>2, QuietStep
<1>3. CASE SResume(id)
  <2>1. SameFiles /\ \A x \in DOMAIN stx' : stx'[x].state = stx[x].state
    BY <1>3 DEF SResume, SameFiles, STyped, SFields, STx
  <2>2. id \in DOMAIN stx /\ Summing' = Summing
    BY <1>3 DEF SResume, Summing
  <2>3. CASE Reading' = Reading \cup {<<id, stx[id].progress>>} /\ net' = net
    <3>1. Sent(net, id, stx[id].progress, stx[id].size)
      BY <2>2 DEF ChunksSent, TxSent
    <3> QED
      BY <2>1, <2>2, <2>3, <3>1, ReadStep
  <2>4. CASE stx[id].state = "WaitingForEofAck" /\ SendEof(id) /\ Reading' = Reading
    BY <2>1, <2>2, <2>4, EofStep
  <2>5. CASE Reading' = Reading /\ net' = net
    BY <2>1, <2>2, <2>5, QuietStep
  <2> QED
    BY <1>3, <2>3, <2>4, <2>5, ResumeView DEF STyped
<1> QED
  BY <1>1, <1>2, <1>3

\* A NAK asks again for chunks that were sent: it follows the EOF, or asks only
\* for what lies before data that was seen.
LEMMA PduKeepsChunks ==
    ASSUME STyped, ChunksSent, EofAfterAllData, SPduReceived
    PROVE  ChunksSent' /\ EofAfterAllData'
<1>1. PICK p \in net : RecvFinished(p) \/ RecvAck(p) \/ RecvNak(p) \/ RecvKeepAlive(p)
  BY DEF SPduReceived
<1>2. CASE RecvFinished(p)
  <2>1. Reading' = Reading /\ Summing' = Summing /\ Forget(p.id)
    BY <1>2 DEF RecvFinished, Reading, Summing
  <2>2. net \subseteq net' /\ \A q \in net' : q \in net \/ q.t = "ack"
    BY <1>2 DEF RecvFinished, SendPdus, Ack
  <2> QED
    BY <2>1, <2>2, ForgetFiles, QuietStep
<1>3. CASE RecvAck(p)
  <2>1. SameFiles /\ \A x \in DOMAIN stx' :
          stx'[x].state = stx[x].state \/ stx[x].state = "WaitingForEofAck"
    BY <1>3 DEF RecvAck, SameFiles, STyped, SFields, STx
  <2>2. Reading' = Reading /\ Summing' = Summing /\ net' = net
    BY <1>3 DEF RecvAck, Reading, Summing
  <2> QED
    BY <2>1, <2>2, QuietStep
<1>4. CASE RecvNak(p)
  <2> DEFINE size == stx[p.id].size
  <2>1. /\ p.t = "nak" /\ p.id \in DOMAIN stx /\ stx' = stx /\ Summing' = Summing /\ net' = net
        /\ Reading' = Reading \cup ({p.id} \X Requested(p.id, p.segs))
    BY <1>4, NakView DEF RecvNak, STyped
  <2>2. TxSent(p.id)
    BY <2>1 DEF ChunksSent
  <2>3. ASSUME NEW off \in Requested(p.id, p.segs) PROVE Sent(net, p.id, off, size)
    <3>1. CASE EofSent(p.id)
      <4>1. PICK e \in net : e.t = "eof" /\ e.id = p.id
        BY <3>1 DEF EofSent
      <4>2. e.size = size
        BY <2>2, <4>1 DEF TxSent
      <4> QED
        BY <4>1, <4>2 DEF EofAfterAllData, Sent
    <3>2. CASE AsksForSent(p, size)
      <4>1. PICK g \in p.segs : off < g[2]
        BY DEF Requested
      <4>2. g[2] \in Nat /\ Sent(net, p.id, g[2], size) /\ off \in Nat
        BY <3>2, <4>1 DEF AsksForSent, Requested
      <4> HIDE DEF size
      <4> QED
        BY <4>1, <4>2 DEF Sent
    <3> QED
      BY <2>1, <2>2, <3>1, <3>2 DEF TxSent
  <2> QED
    BY <2>1, <2>3, ReadStep DEF SameFiles
<1>5. CASE RecvKeepAlive(p)
  <2>1. SameFiles /\ \A x \in DOMAIN stx' : stx'[x].state = stx[x].state
    <3>1. CASE Forget(p.id)
      BY <3>1, ForgetFiles
    <3>2. CASE ~Forget(p.id)
      BY <1>5, <3>2 DEF RecvKeepAlive, SameFiles, STyped, SFields, STx
    <3> QED
      BY <3>1, <3>2
  <2>2. Reading' = Reading /\ Summing' = Summing /\ net' = net
    BY <1>5 DEF RecvKeepAlive, Reading, Summing
  <2> QED
    BY <2>1, <2>2, QuietStep
<1> QED
  BY <1>1, <1>2, <1>3, <1>4, <1>5

\* Every event of the sender.
LEMMA SenderKeepsChunks ==
    ASSUME STyped, LinkOwn, ChunksSent, EofAfterAllData, SenderNext
    PROVE  ChunksSent' /\ EofAfterAllData'
<1>1. CASE SenderUser
  <2>1. ASSUME NEW size \in FileSizes, PutRequest(size) PROVE ChunksSent' /\ EofAfterAllData'
    BY <1>1, <2>1, PutKeepsChunks DEF SenderUser
  <2> QED
    BY <1>1, <2>1, UserKeepsChunks, CfdpAssumption DEF SenderUser
<1>2. CASE SenderFilestore
  BY <1>2, DataKeepsChunks, ChecksumKeepsChunks DEF SenderFilestore
<1>3. CASE SenderTimer
  BY <1>3, AckTimeoutKeepsChunks, SInactivityKeepsChunks DEF SenderTimer
<1>4. CASE SenderReceives
  BY <1>4, PduKeepsChunks DEF SenderReceives
<1> QED
  BY <1>1, <1>2, <1>3, <1>4 DEF SenderNext
-----------------------------------------------------------------------------
\* What the sender sends.
SPdu(p) ==
    \/ p.t \in {"prompt", "ack"}
    \/ p.t = "metadata" /\ p.size \in Nat
    \/ p.t = "eof" /\ p.size \in Nat
    \/ p.t = "data" /\ p.off \in Nat /\ p.len \in Nat

SSends == net \subseteq net' /\ \A p \in net' : p \in net \/ SPdu(p)

\* The sender removes nothing from the link and sends PDUs of its own kinds only.
LEMMA SenderSends == ASSUME STyped, SenderNext PROVE SSends
<1>1. ASSUME NEW id \in DOMAIN stx, SendEof(id) PROVE SSends
  <2>1. stx[id].size \in Nat
    BY SenderAssumption DEF STyped, SFields, STx
  <2> QED
    BY <1>1, <2>1 DEF SendEof, SendPdus, Eof, SSends, SPdu
<1>2. ASSUME net' = net PROVE SSends
  BY <1>2 DEF SSends
<1>3. CASE SenderUser
  <2>1. ASSUME NEW size, PutRequest(size) PROVE SSends
    BY <2>1 DEF PutRequest, SendPdus, Metadata, SSends, SPdu
  <2>2. ASSUME NEW id, NEW kind, PromptRequest(id, kind) PROVE SSends
    BY <2>2 DEF PromptRequest, SendPdus, Prompt, SSends, SPdu
  <2>3. ASSUME NEW id, SSuspend(id) \/ SResume(id) PROVE SSends
    BY <1>1, <1>2, <2>3 DEF SSuspend, SResume
  <2> QED
    BY <1>3, <2>1, <2>2, <2>3 DEF SenderUser
<1>4. CASE SenderFilestore
  <2>1. ASSUME NEW id, NEW off, DataSegmentReady(id, off) PROVE SSends
    <3> DEFINE len == IF off < stx[id].size THEN 1 ELSE 0
    <3>1. off \in Nat /\ len \in Nat
      BY <2>1 DEF DataSegmentReady, STyped, SFields
    <3>2. SendPdus({FileData(id, off, len)}) \/ net' = net
      BY <2>1 DEF DataSegmentReady
    <3> HIDE DEF len
    <3> QED
      BY <1>2, <3>1, <3>2 DEF SendPdus, FileData, SSends, SPdu
  <2>2. ASSUME NEW id, ChecksumReady(id) PROVE SSends
    BY <1>1, <1>2, <2>2 DEF ChecksumReady
  <2> QED
    BY <1>4, <2>1, <2>2 DEF SenderFilestore
<1>5. CASE SenderTimer
  BY <1>1, <1>2, <1>5 DEF SenderTimer, AckTimeout, SInactivity
<1>6. CASE SenderReceives
  <2>1. ASSUME NEW p, RecvFinished(p) PROVE SSends
    BY <2>1 DEF RecvFinished, SendPdus, Ack, SSends, SPdu
  <2> QED
    BY <1>2, <1>6, <2>1 DEF SenderReceives, SPduReceived, RecvAck, RecvNak, RecvKeepAlive
<1> QED
  BY <1>3, <1>4, <1>5, <1>6 DEF SenderNext

\* The file data and the metadata of the sender are of its own transactions.
LEMMA SenderOwn ==
    ASSUME STyped, SenderNext
    PROVE  \A p \in net' : p \in net \/ p.t \notin {"data", "metadata"} \/
              (p.id \in Ids /\ (p.t = "data" => p.id \in Given))
<1>1. ASSUME NEW id, SendEof(id) \/ net' = net
      PROVE  \A p \in net' : p \in net \/ p.t \notin {"data", "metadata"}
  BY <1>1 DEF SendEof, SendPdus, Eof
<1>2. CASE SenderUser
  <2>1. ASSUME NEW size, PutRequest(size)
        PROVE  next_seq_num \in Ids /\ (net' = net \/ net' = net \cup {Metadata(next_seq_num, 0, TRUE)})
    <3>1. next_seq_num \in Ids
      BY <2>1, LinkAssumption DEF PutRequest, STyped, SFields, Ids
    <3> QED BY <2>1, <3>1 DEF PutRequest, SendPdus
  <2>2. ASSUME NEW id, NEW kind, PromptRequest(id, kind)
        PROVE  \A p \in net' : p \in net \/ p.t \notin {"data", "metadata"}
    BY <2>2 DEF PromptRequest, SendPdus, Prompt
  <2>3. ASSUME NEW id, SSuspend(id) \/ SResume(id) PROVE SendEof(id) \/ net' = net
    BY <2>3 DEF SSuspend, SResume
  <2>4. Metadata(next_seq_num, 0, TRUE).id = next_seq_num /\ Metadata(next_seq_num, 0, TRUE).t = "metadata"
    BY DEF Metadata
  <2> QED BY <1>1, <1>2, <2>1, <2>2, <2>3, <2>4 DEF SenderUser
<1>3. CASE SenderFilestore
  <2>1. ASSUME NEW id, NEW off, DataSegmentReady(id, off)
        PROVE  net' = net \/ (id \in Given /\ id \in Ids /\ \E len : net' = net \cup {FileData(id, off, len)})
    <3>1. id \in Given /\ id \in Ids
      BY <2>1, LinkAssumption DEF DataSegmentReady, STyped, SFields, Given, Ids
    <3> QED BY <2>1, <3>1 DEF DataSegmentReady, SendPdus
  <2>2. ASSUME NEW id, ChecksumReady(id) PROVE SendEof(id) \/ net' = net
    BY <2>2 DEF ChecksumReady
  <2>3. \A id, off, len : FileData(id, off, len).id = id /\ FileData(id, off, len).t = "data"
    BY DEF FileData
  <2>4. CASE \E r \in Reading : DataSegmentReady(r[1], r[2])
    BY <2>1, <2>3, <2>4
  <2>5. CASE \E id \in Summing : ChecksumReady(id)
    BY <1>1, <2>2, <2>5
  <2> QED BY <1>3, <2>4, <2>5 DEF SenderFilestore
<1>4. CASE SenderTimer
  <2>1. ASSUME NEW id, AckTimeout(id) \/ SInactivity(id) PROVE SendEof(id) \/ net' = net
    BY <2>1 DEF AckTimeout, SInactivity
  <2> QED BY <1>1, <1>4, <2>1 DEF SenderTimer
<1>5. CASE SenderReceives
  <2>1. \A p \in net' : p \in net \/ p.t \notin {"data", "metadata"}
    BY <1>5 DEF SenderReceives, SPduReceived, RecvFinished, RecvAck, RecvNak, RecvKeepAlive,
                SendPdus, Ack
  <2> QED BY <2>1
<1> QED BY <1>2, <1>3, <1>4, <1>5 DEF SenderNext

\* The numbers given out, and the next one.
LEMMA GivenGrows ==
    ASSUME STyped, SenderNext PROVE Given \subseteq Given' /\ next_seq_num \notin Given
<1>1. next_seq_num \in Nat
  BY LinkAssumption DEF STyped, SFields
<1>2. next_seq_num' = next_seq_num \/ next_seq_num' = next_seq_num + 1
  <2>1. CASE SenderUser
    BY <2>1 DEF SenderUser, PutRequest, PromptRequest, SSuspend, SResume, s_vars
  <2>2. CASE SenderFilestore
    BY <2>2 DEF SenderFilestore, DataSegmentReady, ChecksumReady
  <2>3. CASE SenderTimer
    BY <2>3 DEF SenderTimer, AckTimeout, SInactivity
  <2>4. CASE SenderReceives
    BY <2>4 DEF SenderReceives, SPduReceived, RecvFinished, RecvAck, RecvNak, RecvKeepAlive
  <2> QED BY <2>1, <2>2, <2>3, <2>4 DEF SenderNext
<1> QED BY <1>1, <1>2 DEF Given

\* No event leaves an Ack timer running for an EOF that was acknowledged.
LEMMA SenderKeepsAckTimer ==
    ASSUME STyped, AckTimerIsCurrent, SenderNext PROVE AckTimerIsCurrent'
<1>1. ASSUME NEW id, Forget(id), s_timers' \subseteq s_timers PROVE AckTimerIsCurrent'
  BY <1>1 DEF Forget, Restrict, AckTimerIsCurrent
<1>2. ASSUME UNCHANGED stx, s_timers' \subseteq s_timers PROVE AckTimerIsCurrent'
  BY <1>2 DEF AckTimerIsCurrent
<1>3. ASSUME NEW id \in DOMAIN stx, NEW t \in STx, stx' = [stx EXCEPT ![id] = t],
             t.state = "WaitingForEofAck" \/ <<id, "Ack">> \notin s_timers',
             \A x \in s_timers' : x \in s_timers \/ x[1] = id
      PROVE  AckTimerIsCurrent'
  BY <1>3 DEF AckTimerIsCurrent
<1>4. CASE SenderUser
  <2>1. ASSUME NEW size \in FileSizes, PutRequest(size) PROVE AckTimerIsCurrent'
    <3>1. /\ \A x \in DOMAIN stx' : x = next_seq_num \/ (x \in DOMAIN stx /\ stx'[x] = stx[x])
          /\ s_timers' = s_timers /\ <<next_seq_num, "Ack">> \notin s_timers
      BY <2>1 DEF PutRequest, Opened, STyped, SFields, Given
    <3> QED
      BY <3>1 DEF AckTimerIsCurrent
  <2>2. ASSUME NEW id, NEW kind, PromptRequest(id, kind) PROVE AckTimerIsCurrent'
    BY <1>2, <2>2 DEF PromptRequest, s_vars
  <2>3. ASSUME NEW id, SSuspend(id) PROVE AckTimerIsCurrent'
    <3>1. stx[id] \in STx /\ id \in DOMAIN stx /\ [stx[id] EXCEPT !.suspended = TRUE] \in STx
      BY <2>3 DEF SSuspend, STyped, SFields, STx
    <3> QED
      BY <1>3, <2>3, <3>1 DEF SSuspend, AllTimers
  <2>4. ASSUME NEW id, SResume(id) PROVE AckTimerIsCurrent'
    <3> DEFINE t == [stx[id] EXCEPT !.suspended = FALSE]
    <3>1. id \in DOMAIN stx /\ stx' = [stx EXCEPT ![id] = t]
      BY <2>4 DEF SResume
    <3>2. t \in STx /\ t.state = stx[id].state
      BY <3>1 DEF STyped, SFields, STx
    <3>3. \A x \in s_timers' : x \in s_timers \/ x[1] = id
      BY <2>4 DEF SResume, SendEof
    <3>4. t.state = "WaitingForEofAck" \/ <<id, "Ack">> \notin s_timers'
      BY <2>4, <3>1, <3>2 DEF SResume, AckTimerIsCurrent
    <3> HIDE DEF t
    <3> QED
      BY <1>3, <3>1, <3>2, <3>3, <3>4
  <2> QED
    BY <1>4, <2>1, <2>2, <2>3, <2>4, CfdpAssumption DEF SenderUser
<1>5. CASE SenderFilestore
  <2>1. ASSUME NEW id, NEW off, DataSegmentReady(id, off) PROVE AckTimerIsCurrent'
    <3>1. \A x \in DOMAIN stx' : x \in DOMAIN stx /\ stx'[x].state = stx[x].state
      BY <2>1 DEF DataSegmentReady, STyped, SFields, STx
    <3> QED
      BY <2>1, <3>1 DEF DataSegmentReady, AckTimerIsCurrent
  <2>2. ASSUME NEW id, ChecksumReady(id) PROVE AckTimerIsCurrent'
    <3>1. CASE id \in DOMAIN stx
      <4> DEFINE t == [stx[id] EXCEPT !.file_checksum = TRUE, !.state = "WaitingForEofAck"]
      <4>1. stx' = [stx EXCEPT ![id] = t] /\ \A x \in s_timers' : x \in s_timers \/ x[1] = id
        BY <2>2, <3>1 DEF ChecksumReady, SendEof
      <4>2. t \in STx /\ t.state = "WaitingForEofAck"
        BY <3>1 DEF STyped, SFields, STx, SState
      <4> HIDE DEF t
      <4> QED
        BY <1>3, <3>1, <4>1, <4>2
    <3>2. CASE id \notin DOMAIN stx
      BY <1>2, <2>2, <3>2 DEF ChecksumReady
    <3> QED
      BY <3>1, <3>2
  <2> QED
    BY <1>5, <2>1, <2>2 DEF SenderFilestore
<1>6. CASE SenderTimer
  <2>1. ASSUME NEW id, AckTimeout(id) PROVE AckTimerIsCurrent'
    <3>1. CASE id \in DOMAIN stx /\ stx' = [stx EXCEPT ![id].ack_retries = @ + 1]
      <4>1. /\ \A x \in DOMAIN stx' : x \in DOMAIN stx /\ stx'[x].state = stx[x].state
            /\ s_timers' \subseteq s_timers
        BY <2>1, <3>1 DEF AckTimeout, SendEof, STyped, SFields, STx
      <4> QED
        BY <4>1 DEF AckTimerIsCurrent
    <3> QED
      BY <1>1, <1>2, <2>1, <3>1 DEF AckTimeout
  <2>2. ASSUME NEW id, SInactivity(id) PROVE AckTimerIsCurrent'
    BY <1>1, <1>2, <2>2 DEF SInactivity
  <2> QED
    BY <1>6, <2>1, <2>2 DEF SenderTimer
<1>7. CASE SenderReceives
  <2>1. PICK p \in net : RecvFinished(p) \/ RecvAck(p) \/ RecvNak(p) \/ RecvKeepAlive(p)
    BY <1>7 DEF SenderReceives, SPduReceived
  <2>2. CASE RecvFinished(p)
    BY <1>1, <2>2 DEF RecvFinished
  <2>3. CASE RecvAck(p)
    <3> DEFINE t == [stx[p.id] EXCEPT !.state = "WaitingForFinishedPdu"]
    <3>1. /\ p.id \in DOMAIN stx /\ stx' = [stx EXCEPT ![p.id] = t]
          /\ <<p.id, "Ack">> \notin s_timers'
          /\ \A x \in s_timers' : x \in s_timers \/ x[1] = p.id
      BY <2>3 DEF RecvAck, TimersAfterAck
    <3>2. t \in STx
      BY <3>1 DEF STyped, SFields, STx, SState
    <3> HIDE DEF t
    <3> QED
      BY <1>3, <3>1, <3>2
  <2>4. CASE RecvNak(p)
    BY <1>2, <2>4 DEF RecvNak
  <2>5. CASE RecvKeepAlive(p)
    <3>1. \A x \in DOMAIN stx' : x \in DOMAIN stx /\ stx'[x].state = stx[x].state
      <4>1. CASE Forget(p.id)
        BY <4>1 DEF Forget, Restrict
      <4>2. CASE ~Forget(p.id)
        BY <2>5, <4>2 DEF RecvKeepAlive, STyped, SFields, STx
      <4> QED
        BY <4>1, <4>2
    <3> QED
      BY <2>5, <3>1 DEF RecvKeepAlive, AckTimerIsCurrent
  <2> QED
    BY <2>1, <2>2, <2>3, <2>4, <2>5
<1> QED
  BY <1>4, <1>5, <1>6, <1>7 DEF SenderNext
-----------------------------------------------------------------------------
\* The inductive invariant of both ends and the link.
CfdpInv ==
    /\ STyped /\ NetTyped /\ RTyped
    /\ LinkOwn /\ NaksFollowEof /\ ChunksSent /\ EofAfterAllData /\ AckTimerIsCurrent

\* The invariant holds before the first request.
LEMMA CfdpInvInit == Init => CfdpInv
<1> SUFFICES ASSUME Init PROVE CfdpInv
  OBVIOUS
<1>1. DOMAIN stx = {} /\ DOMAIN rtx = {}
  BY DEF Init, SInit, RInit
<1>2. \A p \in net : \/ p.t = "metadata" /\ p.size \in Nat
                     \/ p.t = "data" /\ p.off \in Nat /\ p.len \in Nat
                     \/ p.t = "keepalive" /\ p.progress \in Nat
  <2>1. \A parses : \A p \in FromPeerSender(parses) :
           \/ p.t = "metadata" /\ p.size \in Nat
           \/ p.t = "data" /\ p.off \in Nat /\ p.len \in Nat
    BY DEF FromPeerSender, Metadata, FileData
  <2>2. \A p \in PeerProgress : p.t = "keepalive" /\ p.progress \in Nat
    BY DEF PeerProgress, KeepAlive
  <2> QED
    BY <2>1, <2>2 DEF Init
<1>3. STyped
  <2>1. DOMAIN EmptyBag = {} /\ IsABag(EmptyBag)
    BY DEF EmptyBag, SetToBag, IsABag
  <2>2. Counted /\ Reading = {} /\ Summing = {}
    BY <2>1 DEF Init, SInit, Counted, Reading, Summing, BagToSet
  <2> QED
    BY <1>1, <1>2, <2>2, LinkAssumption DEF Init, SInit, STyped, SFields, Given
<1>4. NetTyped
  BY <1>2 DEF NetTyped
<1>5. RTyped /\ NaksFollowEof
  BY <1>1, <1>2 DEF Init, RInit, RTyped, NaksFollowEof
<1>6. ChunksSent /\ AckTimerIsCurrent
  BY <1>1 DEF ChunksSent, AckTimerIsCurrent
<1>7. EofAfterAllData
  BY <1>2 DEF EofAfterAllData
<1>8. LinkOwn
  BY DEF Init, PeerProgress, KeepAlive, LinkOwn
<1> QED
  BY <1>3, <1>4, <1>5, <1>6, <1>7, <1>8 DEF CfdpInv

\* A step that leaves the sender alone and sends neither data nor an EOF.
LEMMA ReceivingStep ==
    ASSUME CfdpInv, UNCHANGED <<s_vars, peer>>, RTyped', NaksFollowEof', net \subseteq net',
           \A p \in net' : p \in net \/ RPdu(p),
           \A p \in net' : p.t = "nak" => p \in net \/ (NakFollows(p) /\ p.id \in Given)
    PROVE  CfdpInv'
<1>1. /\ stx' = stx /\ reads' = reads /\ calcs' = calcs /\ s_timers' = s_timers
      /\ next_seq_num' = next_seq_num
  BY DEF s_vars
<1>2. \A p \in net' : p \in net \/ p.t \notin {"eof", "data"}
  BY DEF RPdu
<1>3. STyped' /\ Reading' = Reading /\ Summing' = Summing /\ Given' = Given
  <2>1. Counted' /\ Reading' = Reading /\ Summing' = Summing /\ Given' = Given
    BY <1>1, IdleView DEF CfdpInv, STyped, Given
  <2> QED
    BY <1>1, <1>2, <2>1 DEF CfdpInv, STyped, SFields
<1>4. NetTyped'
  BY DEF CfdpInv, NetTyped, RPdu
<1>5. ChunksSent' /\ EofAfterAllData'
  BY <1>1, <1>2, <1>3, QuietStep DEF CfdpInv, SameFiles
<1>6. AckTimerIsCurrent'
  BY <1>1 DEF CfdpInv, AckTimerIsCurrent
<1>7. LinkOwn'
  BY <1>2, <1>3 DEF CfdpInv, LinkOwn
<1> QED
  BY <1>3, <1>4, <1>5, <1>6, <1>7 DEF CfdpInv

\* What another receiver asks for before the EOF was sent.
LEMMA EarlyNakFollows ==
    ASSUME CfdpInv, peer = "receiver", NEW p \in net, p.t = "data", p.id = 0, NEW nak \in EarlyNaks(p)
    PROVE  /\ nak.t = "nak" /\ nak.id = 0 /\ 0 \in Given /\ NakFollows(nak)
           /\ \E a, b \in Nat : nak.segs = {<<a, b>>} /\ a <= p.off /\ a < b
<1>1. p.off \in Nat /\ p.len \in Nat /\ p.off + p.len \in Nat /\ 0 \in Given
  BY DEF CfdpInv, NetTyped, LinkOwn
<1>2. PICK g \in (0..p.off) \X (1..(p.off + p.len)) : g[1] < g[2] /\ nak = Nak(0, {g})
  BY DEF EarlyNaks
<1>3. nak.t = "nak" /\ nak.id = 0 /\ nak.segs = {g}
  BY <1>2 DEF Nak
<1>4. g[1] \in Nat /\ g[2] \in Nat /\ g = <<g[1], g[2]>> /\ g[1] <= p.off /\ g[2] <= p.off + p.len
  BY <1>1, <1>2
<1>5. ASSUME 0 \in DOMAIN stx PROVE AsksForSent(nak, stx[0].size)
  <2>1. Sent(net, 0, p.off + p.len, stx[0].size)
    BY <1>5 DEF CfdpInv, ChunksSent, TxSent
  <2>2. Sent(net, 0, g[2], stx[0].size)
    <3>1. \A off \in Nat : off < g[2] => off < p.off + p.len
      BY <1>1, <1>4
    <3> QED
      BY <2>1, <3>1 DEF Sent
  <2> QED
    BY <1>3, <1>4, <2>2 DEF AsksForSent
<1> QED
  BY <1>1, <1>2, <1>3, <1>4, <1>5 DEF NakFollows

\* Every event of either machine, or of a foreign peer, keeps the invariant.
LEMMA CfdpInvStep == CfdpInv /\ [Next]_vars => CfdpInv'
<1> SUFFICES ASSUME CfdpInv, [Next]_vars PROVE CfdpInv'
  OBVIOUS
<1>1. CASE SenderNext
  <2>1. STyped' /\ ChunksSent' /\ EofAfterAllData' /\ AckTimerIsCurrent'
    BY <1>1, SenderKeepsTypes, SenderKeepsChunks, SenderKeepsAckTimer DEF CfdpInv
  <2>2. net \subseteq net' /\ \A p \in net' : p \in net \/ SPdu(p)
    BY <1>1, SenderSends DEF CfdpInv, SSends
  <2>3. UNCHANGED r_vars
    BY <1>1 DEF SenderNext, SenderUser, SenderFilestore, SenderTimer, SenderReceives
  <2>4. NetTyped'
    BY <2>2 DEF CfdpInv, NetTyped, SPdu
  <2>5. RTyped'
    BY <2>3 DEF CfdpInv, RTyped, r_vars
  <2>6. NaksFollowEof'
    <3>1. \A id : EofSent(id) => EofSent(id)'
      BY <2>2 DEF EofSent
    <3>2. rtx' = rtx /\ r_timers' = r_timers
      BY <2>3 DEF r_vars
    <3> HIDE DEF EofSent
    <3> QED
      BY <3>1, <3>2 DEF CfdpInv, NaksFollowEof
  <2>7. LinkOwn'
    <3>1. peer' = peer
      BY <1>1 DEF SenderNext, SenderUser, SenderFilestore, SenderTimer, SenderReceives
    <3>2. \A p \in net' : p.t = "nak" => p \in net
      BY <2>2 DEF SPdu
    <3>3. \A p \in net' : p.t = "data" => p \in net \/ p.id \in Given
      BY <1>1, SenderOwn DEF CfdpInv
    <3>4. Given \subseteq Given'
      BY <1>1, GivenGrows DEF CfdpInv
    <3> QED
      BY <3>1, <3>2, <3>3, <3>4 DEF CfdpInv, LinkOwn
  <2> QED
    BY <2>1, <2>4, <2>5, <2>6, <2>7 DEF CfdpInv
<1>2. CASE ReceiverNext
  <2>1. RStepOK
    BY <1>2, ReceiverStep DEF CfdpInv
  <2>2. UNCHANGED <<s_vars, peer>>
    BY <1>2 DEF ReceiverNext, ReceiverUser, ReceiverFilestore, ReceiverTimer, ReceiverReceives
  <2>3. NaksFollowEof'
    <3>1. \A id : EofSent(id) => EofSent(id)'
      BY <2>1 DEF RStepOK, EofSent
    <3> QED
      BY <2>1, <3>1 DEF RStepOK, CfdpInv, NaksFollowEof
  <2>4. \A p \in net' : p.t = "nak" => p \in net \/ (NakFollows(p) /\ p.id \in Given)
    <3>1. \A id : EofSent(id) => id \in Given
      BY DEF CfdpInv, STyped, SFields, EofSent
    <3> QED
      BY <2>1, <3>1 DEF RStepOK, NakFollows
  <2> QED
    BY <2>1, <2>2, <2>3, <2>4, ReceivingStep DEF RStepOK
<1>3. CASE PeerReceiver
  <2>1. /\ UNCHANGED <<s_vars, r_vars, peer>> /\ net \subseteq net'
        /\ \A p \in net' : p \in net \/ RPdu(p)
        /\ \A p \in net' : p.t = "nak" => p \in net \/ (NakFollows(p) /\ p.id \in Given)
    <3>1. UNCHANGED <<s_vars, r_vars, peer>> /\ peer = "receiver"
      BY <1>3 DEF PeerReceiver
    <3>2. CASE EofSent(0) /\ net' = net \cup PeerAnswers
      <4>1. \A p \in PeerAnswers : RPdu(p) /\ p.id = 0
        BY DEF PeerAnswers, RPdu, Ack, Finished, Nak
      <4>2. 0 \in Given
        BY <3>2 DEF CfdpInv, STyped, SFields, EofSent
      <4> QED
        BY <3>1, <3>2, <4>1, <4>2 DEF NakFollows
    <3>3. ASSUME NEW p \in net, p.id = 0, p.t = "data", NEW nak \in EarlyNaks(p), net' = net \cup {nak}
          PROVE  /\ net \subseteq net' /\ \A q \in net' : q \in net \/ RPdu(q)
                 /\ \A q \in net' : q.t = "nak" => q \in net \/ (NakFollows(q) /\ q.id \in Given)
      <4>1. nak.t = "nak" /\ nak.id = 0 /\ 0 \in Given /\ NakFollows(nak)
        BY <3>1, <3>3, EarlyNakFollows
      <4> QED
        BY <3>1, <3>3, <4>1 DEF RPdu
    <3> QED
      BY <1>3, <3>1, <3>2, <3>3 DEF PeerReceiver, SendPdus, EofSent
  <2>2. RTyped'
    BY <2>1 DEF CfdpInv, RTyped, r_vars
  <2>3. NaksFollowEof'
    <3>1. \A id : EofSent(id) => EofSent(id)'
      BY <2>1 DEF EofSent
    <3> QED
      BY <2>1, <3>1 DEF CfdpInv, NaksFollowEof, r_vars
  <2> QED
    BY <2>1, <2>2, <2>3, ReceivingStep
<1>4. CASE UNCHANGED vars
  <2>1. UNCHANGED <<s_vars, r_vars, net, peer>>
    BY <1>4 DEF vars
  <2>2. RTyped' /\ NaksFollowEof'
    BY <2>1 DEF CfdpInv, RTyped, NaksFollowEof, EofSent, r_vars
  <2> QED
    BY <2>1, <2>2, ReceivingStep
<1> QED
  BY <1>1, <1>2, <1>3, <1>4 DEF Next

\* CfdpInv holds in every reachable state, for every number of transactions and chunks and
\* every order, loss and repetition of PDUs, timers and answers of the filestore.
THEOREM CfdpInductive == Spec => []CfdpInv
<1> QED
  BY CfdpInvInit, CfdpInvStep, PTL DEF Spec

\* The sender keeps its types for every number of transactions, table size,
\* file size and limit: stx, the timers, the reads and the checksums under way.
THEOREM CfdpSenderType == Spec => []STypeOK
<1>1. CfdpInv => STypeOK
  BY SenderTypes DEF CfdpInv
<1> QED
  BY <1>1, CfdpInductive, PTL

\* send_eof only after every chunk went out, however suspensions, resumptions,
\* NAKs before and after the EOF, timeouts and the filestore's answers interleave
\* and however many chains of reads of one file they start beside one another.
THEOREM CfdpEofAfterAllData == Spec => []EofAfterAllData
<1>1. CfdpInv => EofAfterAllData
  BY DEF CfdpInv
<1> QED
  BY <1>1, CfdpInductive, PTL

\* The Ack timer never outlives the acknowledgement of its EOF.
THEOREM CfdpAckTimer == Spec => []AckTimerIsCurrent
<1>1. CfdpInv => AckTimerIsCurrent
  BY DEF CfdpInv
<1> QED
  BY <1>1, CfdpInductive, PTL
-----------------------------------------------------------------------------
\* The default handler and Abandon close the transaction.
Closes == FaultHandler \in {"Cancel", "Abandon"}

\* The timers of a receiving transaction follow its state, from the first PDU on
\* that starts them.
Watched(id) ==
    /\ ~rtx[id].suspended /\ rtx[id].state = "ReceivingFileData" /\ id \notin refused =>
          <<id, "Inactivity">> \in r_timers
    /\ ~rtx[id].suspended /\ rtx[id].state = "WaitingForNakData" =>
          <<id, "Nak">> \in r_timers
    /\ rtx[id].state = "VerifyingChecksum" => id \in verifying

TimersFollowState == \A id \in DOMAIN rtx : Watched(id)

\* A step of one transaction does not disturb the others.
LEMMA WatchedStep ==
    ASSUME TimersFollowState, NEW id,
           \A x \in DOMAIN rtx' : x # id => x \in DOMAIN rtx /\ rtx'[x] = rtx[x],
           \A x : x # id => /\ <<x, "Inactivity">> \in r_timers' <=> <<x, "Inactivity">> \in r_timers
                            /\ <<x, "Nak">> \in r_timers' <=> <<x, "Nak">> \in r_timers
                            /\ x \in verifying' <=> x \in verifying
                            /\ x \in refused => x \in refused',
           id \in DOMAIN rtx' => Watched(id)'
    PROVE  TimersFollowState'
<1>1. ASSUME NEW x \in DOMAIN rtx', x # id PROVE Watched(x)'
  BY <1>1 DEF TimersFollowState, Watched
<1>2. \A x \in DOMAIN rtx' : Watched(x)'
  BY <1>1
<1> QED
  BY <1>2 DEF TimersFollowState, Watched

\* The timers of the others stay as they are.
LEMMA OtherTimers ==
    ASSUME NEW id, NEW types
    PROVE  \A x, k : x # id => /\ <<x, k>> \in RStart(id, types) <=> <<x, k>> \in r_timers
                               /\ <<x, k>> \in RStop(id, types) <=> <<x, k>> \in r_timers
  BY DEF RStart, RStop

\* A fault that removes its transaction leaves every other one watched.
LEMMA FaultWatched ==
    ASSUME Closes, TimersFollowState, NEW id \in DOMAIN rtx, NEW types,
           HandleFault(id, RStop(id, types)) \/ HandleFault(id, r_timers),
           verifying' \in {verifying, verifying \ {id}}, refused' \in {refused, refused \ {id}}
    PROVE  TimersFollowState'
<1>1. rtx' = Restrict(rtx, DOMAIN rtx \ {id}) /\ r_timers' \in {RStop(id, types), r_timers}
  BY DEF Closes, HandleFault
<1>2. /\ \A x \in DOMAIN rtx' : x \in DOMAIN rtx /\ rtx'[x] = rtx[x]
      /\ id \notin DOMAIN rtx'
  BY <1>1 DEF Restrict
<1>3. \A x, k : x # id => (<<x, k>> \in r_timers' <=> <<x, k>> \in r_timers)
  BY <1>1, OtherTimers
<1> QED
  BY <1>2, <1>3, WatchedStep

\* Every event of the receiver leaves each transaction the timer of its state.
LEMMA ReceiverKeepsTimers ==
    ASSUME Closes, RTyped, TimersFollowState, ReceiverNext PROVE TimersFollowState'
<1>1. CASE ReceiverUser
  <2>1. PICK id : RSuspend(id) \/ RResume(id)
    BY <1>1 DEF ReceiverUser
  <2>2. RTx(rtx[id]) /\ id \in DOMAIN rtx
    BY <2>1 DEF RTyped, RSuspend, RResume
  <2>3. CASE RSuspend(id)
    <3>1. /\ DOMAIN rtx' = DOMAIN rtx /\ rtx'[id].suspended /\ rtx'[id].state = rtx[id].state
          /\ \A x \in DOMAIN rtx' : x # id => rtx'[x] = rtx[x]
      BY <2>2, <2>3 DEF RSuspend, RTx, IsRecord
    <3>2. Watched(id)'
      BY <2>2, <2>3, <3>1 DEF Watched, RSuspend, TimersFollowState
    <3>3. \A x, k : x # id => (<<x, k>> \in r_timers' <=> <<x, k>> \in r_timers)
      BY <2>3, OtherTimers DEF RSuspend
    <3> QED
      BY <2>3, <3>1, <3>2, <3>3, WatchedStep DEF RSuspend
  <2>4. CASE RResume(id)
    <3>1. /\ DOMAIN rtx' = DOMAIN rtx /\ rtx'[id].state = rtx[id].state
          /\ \A x \in DOMAIN rtx' : x # id => rtx'[x] = rtx[x]
      BY <2>2, <2>4 DEF RResume, RTx, IsRecord
    <3>2. Watched(id)'
      BY <2>2, <2>4, <3>1 DEF Watched, RResume, TimersFollowState, RStart
    <3>3. \A x, k : x # id => (<<x, k>> \in r_timers' <=> <<x, k>> \in r_timers)
      BY <2>4, OtherTimers DEF RResume
    <3> QED
      BY <2>4, <3>1, <3>2, <3>3, WatchedStep DEF RResume
  <2> QED
    BY <2>1, <2>3, <2>4
<1>2. CASE ReceiverFilestore
  <2>1. ASSUME NEW w \in writes, FileDataWritten(w) PROVE TimersFollowState'
    <3>1. \A x \in DOMAIN rtx' : /\ x \in DOMAIN rtx /\ rtx'[x].state = rtx[x].state
                                 /\ rtx'[x].suspended = rtx[x].suspended
      BY <2>1 DEF FileDataWritten, RTyped, RTx, IsRecord
    <3>2. r_timers' = r_timers /\ verifying' = verifying /\ refused' = refused
      BY <2>1 DEF FileDataWritten
    <3> QED
      BY <3>1, <3>2 DEF TimersFollowState, Watched
  <2>2. ASSUME NEW id, NEW valid \in BOOLEAN, ChecksumVerified(id, valid)
        PROVE  TimersFollowState'
    <3>1. CASE /\ id \in DOMAIN rtx => rtx[id].state # "VerifyingChecksum"
               /\ UNCHANGED <<rtx, r_timers, net>>
      BY <2>2, <3>1 DEF ChecksumVerified, TimersFollowState, Watched
    <3>2. CASE id \in DOMAIN rtx /\ HandleFault(id, r_timers)
      BY <2>2, <3>2, FaultWatched DEF ChecksumVerified
    <3>3. CASE rtx' = Restrict(rtx, DOMAIN rtx \ {id}) /\ UNCHANGED r_timers
      BY <2>2, <3>3 DEF ChecksumVerified, TimersFollowState, Watched, Restrict
    <3> QED
      BY <2>2, <3>1, <3>2, <3>3 DEF ChecksumVerified
  <2> QED
    BY <1>2, <2>1, <2>2 DEF ReceiverFilestore
<1>3. CASE ReceiverTimer
  <2>1. ASSUME NEW id, NakTimeout(id) PROVE TimersFollowState'
    <3>1. CASE id \notin DOMAIN rtx
      BY <2>1, <3>1 DEF NakTimeout, RStop, TimersFollowState, Watched
    <3>2. CASE id \in DOMAIN rtx /\ HandleFault(id, RStop(id, {"Nak"}))
      BY <2>1, <3>2, FaultWatched DEF NakTimeout
    <3>3. CASE /\ id \in DOMAIN rtx
               /\ rtx' = [rtx EXCEPT ![id].nak_retries = @ + 1, ![id].state = "WaitingForNakData"]
               /\ UNCHANGED r_timers
      <4>1. RTx(rtx[id])
        BY <3>3 DEF RTyped
      <4>2. /\ rtx'[id].state = "WaitingForNakData" /\ DOMAIN rtx' = DOMAIN rtx
            /\ \A x \in DOMAIN rtx' : x # id => rtx'[x] = rtx[x]
        BY <3>3, <4>1 DEF RTx, IsRecord
      <4>3. Watched(id)'
        BY <2>1, <3>3, <4>2 DEF Watched, NakTimeout
      <4> QED
        BY <2>1, <3>3, <4>2, <4>3, WatchedStep DEF NakTimeout
    <3> QED
      BY <2>1, <3>1, <3>2, <3>3 DEF NakTimeout
  <2>2. ASSUME NEW id, RInactivity(id) PROVE TimersFollowState'
    <3>1. CASE id \in DOMAIN rtx
      BY <2>2, <3>1, FaultWatched DEF RInactivity
    <3>2. CASE id \notin DOMAIN rtx
      BY <2>2, <3>2 DEF RInactivity, RStop, TimersFollowState, Watched
    <3> QED
      BY <3>1, <3>2
  <2>3. ASSUME NEW id, KeepAliveTimeout(id) PROVE TimersFollowState'
    BY <2>3 DEF KeepAliveTimeout, RStop, TimersFollowState, Watched
  <2> QED
    BY <1>3, <2>1, <2>2, <2>3 DEF ReceiverTimer
<1>4. CASE ReceiverReceives
  <2>1. PICK p \in net : \/ RecvMetadata(p) \/ RecvFileData(p) \/ RecvEof(p)
                         \/ RecvStrayEof(p) \/ RecvPrompt(p)
    BY <1>4 DEF ReceiverReceives, RPduReceived
  <2>2. CASE RecvMetadata(p)
    <3> DEFINE t == [size |-> p.size, suspended |-> FALSE, progress |-> 0,
                     nak_retries |-> 0, ranges |-> <<>>, state |-> "ReceivingFileData"]
    <3>1. t.state = "ReceivingFileData" /\ rtx' = Opened(rtx, p.id, t)
      BY <2>2 DEF RecvMetadata
    <3> HIDE DEF t
    <3>2. rtx'[p.id] = t /\ \A x \in DOMAIN rtx' : x # p.id => x \in DOMAIN rtx /\ rtx'[x] = rtx[x]
      BY <3>1 DEF Opened
    <3>3. Watched(p.id)'
      BY <2>2, <3>1, <3>2 DEF Watched, RecvMetadata, RStart
    <3>4. \A x, k : x # p.id => (<<x, k>> \in r_timers' <=> <<x, k>> \in r_timers)
      BY <2>2, OtherTimers DEF RecvMetadata
    <3> QED
      BY <2>2, <3>2, <3>3, <3>4, WatchedStep DEF RecvMetadata
  <2>3. CASE RecvFileData(p)
    <3>1. Watched(p.id)'
      BY <2>3 DEF Watched, RecvFileData, RestartInactivity, RStart, RStop, TimersFollowState
    <3>2. \A x, k : x # p.id => (<<x, k>> \in r_timers' <=> <<x, k>> \in r_timers)
      BY <2>3, OtherTimers DEF RecvFileData, RestartInactivity
    <3> QED
      BY <2>3, <3>1, <3>2, WatchedStep DEF RecvFileData
  <2>4. CASE RecvEof(p)
    <3>1. p.id \in DOMAIN rtx /\ RTx(rtx[p.id])
      BY <2>4 DEF RecvEof, RTyped
    <3>2. refused' = refused \ {p.id}
      BY <2>4 DEF RecvEof
    <3>3. CASE HandleFault(p.id, RStop(p.id, {"Inactivity"})) /\ UNCHANGED verifying
      BY <3>1, <3>3, <3>2, FaultWatched
    <3>4. ASSUME NEW s \in {"VerifyingChecksum", "WaitingForNakData"},
                 rtx' = [rtx EXCEPT ![p.id].state = s],
                 s = "VerifyingChecksum" => verifying' = verifying \cup {p.id},
                 s = "WaitingForNakData" => verifying' = verifying /\ <<p.id, "Nak">> \in r_timers',
                 \A x, k : x # p.id => (<<x, k>> \in r_timers' <=> <<x, k>> \in r_timers)
          PROVE  TimersFollowState'
      <4>1. /\ DOMAIN rtx' = DOMAIN rtx /\ rtx'[p.id].state = s
            /\ \A x \in DOMAIN rtx' : x # p.id => rtx'[x] = rtx[x]
        BY <3>1, <3>4 DEF RTx, IsRecord
      <4>2. Watched(p.id)'
        BY <3>4, <4>1 DEF Watched
      <4>3. \A x : x # p.id => (x \in verifying' <=> x \in verifying)
        BY <3>4
      <4> QED
        BY <3>4, <3>2, <4>1, <4>2, <4>3, WatchedStep
    <3>5. \A x, k : x # p.id => (<<x, k>> \in RStop(p.id, {"Inactivity"}) <=> <<x, k>> \in r_timers)
      BY OtherTimers
    <3>6. CASE /\ rtx' = [rtx EXCEPT ![p.id].state = "VerifyingChecksum"]
               /\ r_timers' = RStop(p.id, {"Inactivity"})
               /\ verifying' = verifying \cup {p.id}
      BY <3>4, <3>5, <3>6
    <3>7. CASE /\ rtx' = [rtx EXCEPT ![p.id].state = "WaitingForNakData"]
               /\ r_timers' = RStop(p.id, {"Inactivity"}) \cup {<<p.id, "Nak">>}
               /\ UNCHANGED verifying
      <4>1. \A x, k : x # p.id => (<<x, k>> \in r_timers' <=> <<x, k>> \in r_timers)
        BY <3>5, <3>7
      <4>2. <<p.id, "Nak">> \in r_timers'
        BY <3>7
      <4> QED
        BY <3>4, <3>7, <4>1, <4>2
    <3> QED
      BY <2>4, <3>3, <3>6, <3>7 DEF RecvEof
  <2>5. CASE UNCHANGED r_vars
    BY <2>5 DEF r_vars, TimersFollowState, Watched
  <2> QED
    BY <2>1, <2>2, <2>3, <2>4, <2>5 DEF RecvStrayEof, RecvPrompt
<1> QED
  BY <1>1, <1>2, <1>3, <1>4 DEF ReceiverNext

\* When a fault closes a transaction, which it does by default, every
\* transaction of the receiver that is not suspended has a timer or a checksum
\* under way that ends it, whatever is lost and whoever goes away, unless its
\* Metadata was refused after it was opened and no later event started a timer.
THEOREM CfdpReceiverWatched ==
    ASSUME FaultHandler \in {"Cancel", "Abandon"}
    PROVE  Spec => []ReceiverIsWatched
<1>1. Closes
  BY DEF Closes
<1>2. Init => TimersFollowState
  BY DEF Init, RInit, TimersFollowState, Watched
<1>3. CfdpInv /\ TimersFollowState /\ [Next]_vars => TimersFollowState'
  <2> SUFFICES ASSUME CfdpInv, TimersFollowState, [Next]_vars PROVE TimersFollowState'
    OBVIOUS
  <2>1. CASE ReceiverNext
    BY <1>1, <2>1, ReceiverKeepsTimers DEF CfdpInv
  <2>2. CASE SenderNext \/ PeerReceiver \/ UNCHANGED vars
    <3>1. UNCHANGED r_vars
      BY <2>2 DEF SenderNext, SenderUser, SenderFilestore, SenderTimer, SenderReceives,
                  PeerReceiver, vars
    <3> QED
      BY <3>1 DEF r_vars, TimersFollowState, Watched
  <2> QED
    BY <2>1, <2>2 DEF Next
<1>4. CfdpInv /\ TimersFollowState => ReceiverIsWatched
  BY DEF CfdpInv, RTyped, RTx, IsRecord, RState, TimersFollowState, Watched, ReceiverIsWatched
<1> QED
  BY <1>2, <1>3, <1>4, CfdpInductive, PTL DEF Spec

-----------------------------------------------------------------------------
(* The SegmentTracker.                                                     *)

Pairs == Nat \X Nat

\* The documented invariant of the array, for any two ranges; no range is empty.
Apart(r) == \A i, j \in 1 .. Len(r) : i < j => r[i][2] < r[j][1]
RangesOK(r) ==
    /\ r \in Seq(Pairs) /\ Len(r) <= MAX_GAPS
    /\ \A i \in 1 .. Len(r) : r[i][1] < r[i][2]
    /\ Apart(r)

\* The function by which Scan is defined, up to n.
Scans(g, r, o, l, n) ==
    g = [i \in 0 .. n |-> IF i = 0 THEN [s |-> o, e |-> o + l, kept |-> <<>>]
                          ELSE Merge(g[i - 1], r[i])]

\* There is such a function.
LEMMA ScanExists ==
    ASSUME NEW r, NEW o, NEW l, NEW n \in Nat
    PROVE  \E g : Scans(g, r, o, l, n)
<1> DEFINE B == {k \in Nat : ~\E g : Scans(g, r, o, l, k)}
           z == [s |-> o, e |-> o + l, kept |-> <<>>]
<1> SUFFICES B = {}
  OBVIOUS
<1> SUFFICES ASSUME B # {} PROVE FALSE
  OBVIOUS
<1>1. B \subseteq Nat
  OBVIOUS
<1> HIDE DEF B
<1>2. PICK k \in B : \A y \in B : k <= y
  BY <1>1, LeastNat
<1>3. k \in Nat /\ ~\E g : Scans(g, r, o, l, k)
  BY DEF B
<1> HIDE DEF z
<1>4. CASE k = 0
  <2> DEFINE g == [i \in 0 .. 0 |-> z]
  <2>1. g = [i \in 0 .. 0 |-> IF i = 0 THEN z ELSE Merge(g[i - 1], r[i])]
    OBVIOUS
  <2>2. Scans(g, r, o, l, 0)
    BY <2>1 DEF Scans, z
  <2> QED BY <1>3, <1>4, <2>2
<1>5. CASE k # 0
  <2>1. k - 1 \in Nat /\ k - 1 < k
    BY <1>3, <1>5
  <2>2. k - 1 \notin B
    BY <1>2, <1>3, <2>1
  <2>3. PICK h : Scans(h, r, o, l, k - 1)
    BY <2>1, <2>2 DEF B
  <2>4. h = [i \in 0 .. k - 1 |-> IF i = 0 THEN z ELSE Merge(h[i - 1], r[i])]
    BY <2>3 DEF Scans, z
  <2> DEFINE g == [i \in 0 .. k |-> IF i < k THEN h[i] ELSE Merge(h[k - 1], r[k])]
  <2>5. ASSUME NEW i \in 0 .. k PROVE g[i] = IF i = 0 THEN z ELSE Merge(g[i - 1], r[i])
    <3>1. CASE i = 0
      BY <1>3, <1>5, <2>4, <3>1
    <3>2. CASE i # 0 /\ i < k
      <4>1. i \in 0 .. k - 1 /\ i - 1 \in 0 .. k /\ i - 1 < k /\ i \in 0 .. k
        BY <1>3, <3>2
      <4>2. h[i] = Merge(h[i - 1], r[i])
        BY <2>4, <3>2, <4>1
      <4>3. g[i] = h[i] /\ g[i - 1] = h[i - 1]
        BY <3>2, <4>1
      <4> QED BY <3>2, <4>2, <4>3
    <3>3. CASE i = k
      <4>1. k - 1 \in 0 .. k /\ k - 1 < k /\ k \in 0 .. k /\ ~(k < k)
        BY <1>3, <1>5
      <4>2. g[k - 1] = h[k - 1] /\ g[k] = Merge(h[k - 1], r[k])
        BY <4>1
      <4> QED BY <1>5, <3>3, <4>2
    <3> QED BY <1>3, <3>1, <3>2, <3>3
  <2>6. g = [i \in 0 .. k |-> IF i = 0 THEN z ELSE Merge(g[i - 1], r[i])]
    BY <2>5
  <2>7. Scans(g, r, o, l, k)
    BY <2>6 DEF Scans, z
  <2> QED BY <1>3, <2>7
<1> QED BY <1>4, <1>5

\* Scan is its last value.
LEMMA ScanIs ==
    ASSUME NEW r, Len(r) \in Nat, NEW o, NEW l
    PROVE  \E g : Scans(g, r, o, l, Len(r)) /\ Scan(r, o, l) = g[Len(r)]
<1> DEFINE f == CHOOSE g : Scans(g, r, o, l, Len(r))
<1>1. Scans(f, r, o, l, Len(r))
  BY ScanExists
<1>2. Scan(r, o, l) = f[Len(r)]
  BY DEF Scan, Scans
<1> QED BY <1>1, <1>2

\* What the scan has found after n ranges: s..e holds the segment and touches
\* nothing that was kept, and claims nothing but the segment and the ranges.
ScanInv(r, o, l, n, a) ==
    /\ a \in [s : Nat, e : Nat, kept : Seq(Pairs)]
    /\ a.s <= o /\ o + l <= a.e
    /\ Len(a.kept) <= n
    /\ \A k \in 1 .. Len(a.kept) : \E i \in 1 .. n : a.kept[k] = r[i]
    /\ Apart(a.kept)
    /\ \A k \in 1 .. Len(a.kept) : a.kept[k][2] < a.s \/ a.kept[k][1] > a.e
    /\ \A x \in a.s .. (a.e - 1) :
          x \in o .. (o + l - 1) \/ \E i \in 1 .. n : x \in r[i][1] .. (r[i][2] - 1)

\* The union of two intervals that touch is the interval around them.
LEMMA TouchingIntervals ==
    ASSUME NEW a \in Nat, NEW b \in Nat, NEW c \in Nat, NEW d \in Nat, NEW s \in Nat, NEW e \in Nat,
           s = a \/ s = c, e = b \/ e = d, d >= a, c <= b, NEW y \in s .. (e - 1)
    PROVE  y \in a .. (b - 1) \/ y \in c .. (d - 1)
  OBVIOUS

\* One range more.
LEMMA ScanInvStep ==
    ASSUME NEW r, RangesOK(r), NEW o \in Nat, NEW l \in Nat, l # 0,
           NEW n \in Nat, n < Len(r), NEW a, ScanInv(r, o, l, n, a)
    PROVE  ScanInv(r, o, l, n + 1, Merge(a, r[n + 1]))
<1> DEFINE x == r[n + 1]
           m == Merge(a, x)
<1>1. /\ r \in Seq(Pairs) /\ Len(r) \in Nat
      /\ \A i \in 1 .. Len(r) : r[i] \in Pairs /\ r[i][1] \in Nat /\ r[i][2] \in Nat /\ r[i][1] < r[i][2]
  <2>1. r \in Seq(Pairs) /\ Len(r) \in Nat /\ \A i \in 1 .. Len(r) : r[i] \in Pairs
    BY DEF RangesOK
  <2> QED BY <2>1 DEF RangesOK, Pairs
<1>2. n + 1 \in 1 .. Len(r) /\ \A i \in 1 .. n : i \in 1 .. n + 1 /\ i \in 1 .. Len(r) /\ i < n + 1
  BY <1>1
<1>3. x \in Pairs /\ x[1] \in Nat /\ x[2] \in Nat /\ x[1] < x[2]
  BY <1>1, <1>2
<1>4. \A i \in 1 .. n : r[i][2] < x[1]
  BY <1>2 DEF RangesOK, Apart
<1>5. /\ a \in [s : Nat, e : Nat, kept : Seq(Pairs)]
      /\ a.s \in Nat /\ a.e \in Nat /\ a.kept \in Seq(Pairs) /\ Len(a.kept) \in Nat
      /\ a.s <= o /\ o + l <= a.e /\ Len(a.kept) <= n
  BY DEF ScanInv
<1>6. \A k \in 1 .. Len(a.kept) : \E i \in 1 .. n : a.kept[k] = r[i]
  BY DEF ScanInv
<1>7. Apart(a.kept)
  BY DEF ScanInv
<1>8. \A k \in 1 .. Len(a.kept) : a.kept[k][2] < a.s \/ a.kept[k][1] > a.e
  BY DEF ScanInv
<1>9. \A y \in a.s .. (a.e - 1) :
          y \in o .. (o + l - 1) \/ \E i \in 1 .. n : y \in r[i][1] .. (r[i][2] - 1)
  BY DEF ScanInv
<1>10. \A k \in 1 .. Len(a.kept) :
          /\ a.kept[k][1] \in Nat /\ a.kept[k][2] \in Nat
          /\ a.kept[k][1] < a.kept[k][2] /\ a.kept[k][2] < x[1]
  BY <1>1, <1>2, <1>4, <1>6
<1> HIDE DEF x
<1>11. CASE Disjoint(a, x)
  <2> DEFINE kept == Append(a.kept, x)
             N == Len(a.kept)
  <2>1. m = [a EXCEPT !.kept = kept]
    BY <1>11 DEF Merge
  <2>2. kept \in Seq(Pairs) /\ Len(kept) = N + 1 /\ kept[N + 1] = x
        /\ \A k \in 1 .. N : kept[k] = a.kept[k]
    BY <1>3, <1>5
  <2>3. m \in [s : Nat, e : Nat, kept : Seq(Pairs)] /\ m.s = a.s /\ m.e = a.e /\ m.kept = kept
    BY <1>5, <2>1, <2>2
  <2> HIDE DEF m, kept
  <2>4. \A k \in 1 .. N + 1 : k = N + 1 \/ k \in 1 .. N
    BY <1>5
  <2>5. \A k \in 1 .. N + 1 : \E i \in 1 .. n + 1 : kept[k] = r[i]
    <3>1. kept[N + 1] = r[n + 1] /\ n + 1 \in 1 .. n + 1
      BY <2>2 DEF x
    <3>2. \A k \in 1 .. N : \E i \in 1 .. n + 1 : kept[k] = r[i]
      BY <1>2, <1>6, <2>2
    <3> QED BY <2>4, <3>1, <3>2
  <2>6. Apart(kept)
    <3> SUFFICES ASSUME NEW i \in 1 .. N + 1, NEW j \in 1 .. N + 1, i < j
                 PROVE  kept[i][2] < kept[j][1]
      BY <2>2 DEF Apart
    <3>1. i \in 1 .. N
      BY <1>5
    <3>2. CASE j = N + 1
      BY <1>10, <2>2, <3>1, <3>2
    <3>3. CASE j \in 1 .. N
      BY <1>7, <2>2, <3>1, <3>3 DEF Apart
    <3> QED BY <2>4, <3>2, <3>3
  <2>7. \A k \in 1 .. N + 1 : kept[k][2] < a.s \/ kept[k][1] > a.e
    BY <1>8, <1>11, <2>2, <2>4 DEF Disjoint
  <2>8. \A y \in a.s .. (a.e - 1) :
          y \in o .. (o + l - 1) \/ \E i \in 1 .. n + 1 : y \in r[i][1] .. (r[i][2] - 1)
    BY <1>2, <1>9
  <2>9. Len(kept) <= n + 1
    BY <1>5, <2>2
  <2>10. ScanInv(r, o, l, n + 1, m)
    BY <1>5, <2>2, <2>3, <2>5, <2>6, <2>7, <2>8, <2>9 DEF ScanInv
  <2> QED BY <2>10 DEF m, x
<1>12. CASE ~Disjoint(a, x)
  <2> DEFINE s == IF x[1] < a.s THEN x[1] ELSE a.s
             e == IF x[2] > a.e THEN x[2] ELSE a.e
  <2>1. m = [a EXCEPT !.s = s, !.e = e]
    BY <1>12 DEF Merge
  <2>2. s \in Nat /\ e \in Nat /\ s <= a.s /\ a.e <= e /\ s <= x[1] /\ x[2] <= e
        /\ (s = a.s \/ s = x[1]) /\ (e = a.e \/ e = x[2])
    BY <1>3, <1>5
  <2>3. m \in [s : Nat, e : Nat, kept : Seq(Pairs)] /\ m.s = s /\ m.e = e /\ m.kept = a.kept
    BY <1>5, <2>1, <2>2
  <2>4. x[2] >= a.s /\ x[1] <= a.e
    BY <1>3, <1>5, <1>12 DEF Disjoint
  <2> HIDE DEF m, s, e
  <2>5. ASSUME NEW k \in 1 .. Len(a.kept) PROVE a.kept[k][2] < s \/ a.kept[k][1] > e
    <3>1. a.kept[k][1] < x[1] /\ a.kept[k][2] < x[1]
      BY <1>3, <1>10, SMTT(40)
    <3>2. ~(a.kept[k][1] > a.e)
      BY <1>3, <1>5, <1>10, <2>4, <3>1, SMTT(40)
    <3>3. a.kept[k][2] < a.s
      BY <1>8, <3>2
    <3> QED BY <2>2, <3>1, <3>3
  <2>6. ASSUME NEW y \in s .. (e - 1)
        PROVE  y \in o .. (o + l - 1) \/ \E i \in 1 .. n + 1 : y \in r[i][1] .. (r[i][2] - 1)
    <3>1. y \in a.s .. (a.e - 1) \/ y \in x[1] .. (x[2] - 1)
      <4>1. /\ a.s \in Nat /\ a.e \in Nat /\ x[1] \in Nat /\ x[2] \in Nat /\ s \in Nat /\ e \in Nat
            /\ s = a.s \/ s = x[1]
            /\ e = a.e \/ e = x[2]
            /\ x[2] >= a.s /\ x[1] <= a.e /\ y \in s .. (e - 1)
        BY <1>3, <1>5, <2>2, <2>4
      <4>2. PICK a1 \in Nat, a2 \in Nat, x1 \in Nat, x2 \in Nat, s1 \in Nat, e1 \in Nat :
                a1 = a.s /\ a2 = a.e /\ x1 = x[1] /\ x2 = x[2] /\ s1 = s /\ e1 = e
        BY <4>1
      <4>3. y \in a1 .. (a2 - 1) \/ y \in x1 .. (x2 - 1)
        <5>1. (s1 = a1 \/ s1 = x1) /\ (e1 = a2 \/ e1 = x2) /\ x2 >= a1 /\ x1 <= a2
          BY <4>1, <4>2, Zenon
        <5>2. y \in s1 .. (e1 - 1)
          BY <4>1, <4>2, Zenon
        <5> QED BY <5>1, <5>2, TouchingIntervals
      <4> QED BY <4>2, <4>3
    <3>2. CASE y \in a.s .. (a.e - 1)
      BY <1>2, <1>9, <3>2
    <3>3. CASE y \in x[1] .. (x[2] - 1)
      BY <3>3 DEF x
    <3> QED BY <3>1, <3>2, <3>3
  <2>7. \A k \in 1 .. Len(a.kept) : \E i \in 1 .. n + 1 : a.kept[k] = r[i]
    BY <1>2, <1>6
  <2>8. s <= o /\ o + l <= e /\ Len(a.kept) <= n + 1
    BY <1>5, <2>2
  <2>9. ScanInv(r, o, l, n + 1, m)
    BY <1>7, <2>3, <2>5, <2>6, <2>7, <2>8 DEF ScanInv
  <2> QED BY <2>9 DEF m, x
<1> QED BY <1>11, <1>12

\* The whole scan.
LEMMA ScanIsSound ==
    ASSUME NEW r, RangesOK(r), NEW o \in Nat, NEW l \in Nat, l # 0
    PROVE  ScanInv(r, o, l, Len(r), Scan(r, o, l))
<1> DEFINE N == Len(r)
<1>1. N \in Nat
  BY DEF RangesOK
<1>2. PICK g : Scans(g, r, o, l, N) /\ Scan(r, o, l) = g[N]
  BY <1>1, ScanIs
<1>3. g = [i \in 0 .. N |-> IF i = 0 THEN [s |-> o, e |-> o + l, kept |-> <<>>]
                            ELSE Merge(g[i - 1], r[i])]
  BY <1>2 DEF Scans
<1> HIDE DEF N
<1> DEFINE B == {k \in 0 .. N : ~ScanInv(r, o, l, k, g[k])}
<1> SUFFICES ASSUME B # {} PROVE FALSE
  BY <1>1, <1>2 DEF N
<1>4. B \subseteq Nat
  BY <1>1
<1> HIDE DEF B
<1>5. PICK k \in B : \A y \in B : k <= y
  BY <1>4, LeastNat
<1>6. k \in 0 .. N /\ ~ScanInv(r, o, l, k, g[k])
  BY DEF B
<1>7. CASE k = 0
  <2> DEFINE a == [s |-> o, e |-> o + l, kept |-> <<>>]
  <2>1. g[0] = a
    BY <1>3, <1>6, <1>7
  <2>2. a \in [s : Nat, e : Nat, kept : Seq(Pairs)] /\ a.s = o /\ a.e = o + l /\ a.kept = <<>>
    OBVIOUS
  <2> HIDE DEF a
  <2>3. ScanInv(r, o, l, 0, a)
    BY <2>2 DEF ScanInv, Apart
  <2> QED BY <1>6, <1>7, <2>1, <2>3
<1>8. CASE k # 0
  <2>1. k - 1 \in Nat /\ k - 1 < N /\ k - 1 \in 0 .. N /\ k - 1 < k /\ (k - 1) + 1 = k /\ k \in Nat
    BY <1>1, <1>6, <1>8
  <2>2. ~(k <= k - 1)
    BY <2>1
  <2>3. ScanInv(r, o, l, k - 1, g[k - 1])
    BY <1>5, <2>1, <2>2 DEF B
  <2>4. g[k] = Merge(g[k - 1], r[k])
    BY <1>3, <1>6, <1>8
  <2>5. ScanInv(r, o, l, (k - 1) + 1, Merge(g[k - 1], r[(k - 1) + 1]))
    BY <2>1, <2>3, ScanInvStep DEF N
  <2> QED BY <1>6, <2>1, <2>4, <2>5
<1> QED BY <1>7, <1>8

\* Any two ranges are apart, in one order or the other.
Separate(u) == \A i, j \in 1 .. Len(u) : i # j => u[i][2] < u[j][1] \/ u[j][2] < u[i][1]
NonEmpty(u) == \A i \in 1 .. Len(u) : u[i][1] < u[i][2]

\* The ranges have the places 1, 2, ... up to their number, by their starts.
LEMMA PlacesCount ==
    ASSUME NEW u \in Seq(Pairs)
    PROVE  /\ Len(u) \in Nat
           /\ \A i \in 1 .. Len(u) : Place(u, i) \in 1 .. Len(u)
           /\ \A i, j \in 1 .. Len(u) : Place(u, i) < Place(u, j) => u[i][1] <= u[j][1]
           /\ \A k \in 1 .. Len(u) : \E i \in 1 .. Len(u) : Place(u, i) = k
<1> DEFINE n == Len(u)
           S == 1 .. n
           Before(j, i) == u[j][1] < u[i][1] \/ (u[j][1] = u[i][1] /\ j <= i)
           UpTo(i) == {j \in S : Before(j, i)}
<1>1. n \in Nat /\ DOMAIN u = S /\ \A i \in S : u[i] \in Pairs
  OBVIOUS
<1>2. \A i \in S : i \in Int /\ u[i][1] \in Int
  BY <1>1 DEF Pairs
<1>3. \A i \in S : Place(u, i) = Cardinality(UpTo(i))
  BY <1>1 DEF Place
<1>4. IsFiniteSet(S) /\ Cardinality(S) = n
  <2>1. 1 \in Int /\ n \in Int /\ n >= 0
    BY <1>1
  <2> QED BY <2>1, FS_Interval, SMTT(40)
<1>5. \A T : T \subseteq S => IsFiniteSet(T) /\ Cardinality(T) \in Nat /\ Cardinality(T) <= n
  BY <1>4, FS_Subset, FS_CardinalityType
<1> HIDE DEF n, S
<1>6. \A i \in S : i \in UpTo(i) /\ UpTo(i) \subseteq S
  BY <1>2
<1>7. ASSUME NEW i \in S PROVE Place(u, i) \in 1 .. n
  <2>1. UpTo(i) # {} /\ UpTo(i) \subseteq S
    BY <1>6
  <2>2. Cardinality(UpTo(i)) # 0
    BY <1>5, <2>1, FS_EmptySet
  <2> HIDE DEF UpTo
  <2> QED BY <1>1, <1>3, <1>5, <2>1, <2>2
<1>8. ASSUME NEW i \in S, NEW j \in S, Before(i, j) PROVE UpTo(i) \subseteq UpTo(j)
  BY <1>2, <1>8
<1>9. \A i, j \in S : Before(i, j) \/ Before(j, i)
  BY <1>2
<1>10. \A i, j \in S : Before(i, j) /\ i # j => j \notin UpTo(i) /\ j \in UpTo(j)
  BY <1>2
<1>11. \A i, j \in S : Before(i, j) => u[i][1] <= u[j][1]
  BY <1>2
<1> HIDE DEF UpTo, Before
<1>12. ASSUME NEW i \in S, NEW j \in S, Before(i, j) PROVE Place(u, i) <= Place(u, j)
  <2>1. UpTo(i) \subseteq UpTo(j) /\ IsFiniteSet(UpTo(j))
    BY <1>5, <1>6, <1>8, <1>12
  <2> QED BY <1>3, <2>1, FS_Subset
<1>13. ASSUME NEW i \in S, NEW j \in S, Before(i, j), i # j PROVE Place(u, i) # Place(u, j)
  <2>1. UpTo(i) \subseteq UpTo(j) /\ IsFiniteSet(UpTo(j)) /\ UpTo(i) # UpTo(j)
    BY <1>5, <1>6, <1>8, <1>10, <1>13
  <2>2. Cardinality(UpTo(j)) # Cardinality(UpTo(i))
    BY <2>1, FS_Subset
  <2> QED BY <1>3, <2>2
<1>14. \A i, j \in S : Place(u, i) = Place(u, j) => i = j
  BY <1>9, <1>13
<1>15. ASSUME NEW i \in S, NEW j \in S, Place(u, i) < Place(u, j) PROVE u[i][1] <= u[j][1]
  <2>1. ~(Place(u, j) <= Place(u, i))
    BY <1>7, <1>15
  <2> QED BY <1>9, <1>11, <1>12, <2>1
<1>16. ASSUME NEW k \in 1 .. n PROVE \E i \in S : Place(u, i) = k
  <2> DEFINE f == [i \in S |-> Place(u, i)]
  <2>1. f \in Injection(S, 1 .. n)
    <3>1. f \in [S -> 1 .. n]
      BY <1>7
    <3>2. \A i, j \in S : f[i] = f[j] => i = j
      BY <1>14
    <3> HIDE DEF f
    <3> QED BY <3>1, <3>2 DEF Injection, IsInjective
  <2>2. IsFiniteSet(1 .. n) /\ Cardinality(1 .. n) = n
    BY <1>4 DEF S
  <2>3. f \in Surjection(S, 1 .. n)
    BY <1>4, <2>1, <2>2, FS_Injection
  <2> QED BY <2>3 DEF Surjection
<1> QED
  BY <1>1, <1>7, <1>15, <1>16 DEF n, S

\* Sorted, they are the same ranges, in order.
LEMMA SortOK ==
    ASSUME NEW u \in Seq(Pairs), Separate(u), NonEmpty(u)
    PROVE  /\ SortByStart(u) \in Seq(Pairs) /\ Len(SortByStart(u)) = Len(u)
           /\ \A k \in 1 .. Len(u) : \E i \in 1 .. Len(u) : SortByStart(u)[k] = u[i]
           /\ Apart(SortByStart(u))
<1> DEFINE n == Len(u)
           q == SortByStart(u)
           Id(k) == CHOOSE i \in 1 .. n : Place(u, i) = k
<1>1. n \in Nat /\ DOMAIN u = 1 .. n /\ \A i \in 1 .. n : u[i] \in Pairs
  OBVIOUS
<1>2. q = [k \in 1 .. n |-> u[Id(k)]]
  BY <1>1 DEF SortByStart
<1>3. \A k \in 1 .. n : Id(k) \in 1 .. n /\ Place(u, Id(k)) = k
  BY PlacesCount
<1> HIDE DEF Id, q
<1>4. q \in [1 .. n -> Pairs]
  BY <1>1, <1>2, <1>3
<1>5. q \in Seq(Pairs) /\ Len(q) = n
  BY <1>1, <1>4
<1>6. \A k \in 1 .. n : \E i \in 1 .. n : q[k] = u[i]
  BY <1>2, <1>3
<1>7. ASSUME NEW k \in 1 .. n, NEW m \in 1 .. n, k < m PROVE q[k][2] < q[m][1]
  <2>1. PICK i \in 1 .. n : i = Id(k)
    BY <1>3
  <2>2. PICK j \in 1 .. n : j = Id(m)
    BY <1>3
  <2>3. q[k] = u[i] /\ q[m] = u[j] /\ Place(u, i) = k /\ Place(u, j) = m
    BY <1>2, <1>3, <2>1, <2>2
  <2>4. i # j /\ u[i][1] <= u[j][1]
    <3>1. i # j /\ Place(u, i) < Place(u, j)
      BY <1>7, <2>3
    <3> QED BY <3>1, PlacesCount
  <2>5. u[i][1] \in Nat /\ u[i][2] \in Nat /\ u[j][1] \in Nat /\ u[j][2] \in Nat
    BY <1>1 DEF Pairs
  <2>6. u[j][1] < u[j][2] /\ (u[i][2] < u[j][1] \/ u[j][2] < u[i][1])
    BY <2>4 DEF Separate, NonEmpty
  <2> QED BY <2>3, <2>4, <2>5, <2>6
<1> QED
  BY <1>5, <1>6, <1>7 DEF q, Apart

\* The offsets covered, by the indices of the ranges.
LEMMA CoveredIs ==
    ASSUME NEW r \in Seq(Pairs), NEW x
    PROVE  x \in Covered(r) <=> \E i \in 1 .. Len(r) : x \in r[i][1] .. (r[i][2] - 1)
<1>1. DOMAIN r = 1 .. Len(r)
  OBVIOUS
<1> QED BY <1>1 DEF Covered, Range

\* add_segment keeps the array sorted and its ranges apart, and claims nothing
\* but what it claimed before and the segment.
LEMMA AddSegmentOK ==
    ASSUME NEW r, RangesOK(r), NEW o \in Nat, NEW l \in Nat
    PROVE  /\ RangesOK(AddSegment(r, o, l))
           /\ Covered(AddSegment(r, o, l)) \subseteq Covered(r) \cup (o .. (o + l - 1))
<1> DEFINE m == Scan(r, o, l)
           u == Append(m.kept, <<m.s, m.e>>)
           q == SortByStart(u)
<1>1. CASE l = 0 \/ Len(m.kept) = MAX_GAPS
  BY <1>1 DEF AddSegment
<1>2. CASE ~(l = 0 \/ Len(m.kept) = MAX_GAPS)
  <2>1. AddSegment(r, o, l) = q
    BY <1>2 DEF AddSegment
  <2>2. ScanInv(r, o, l, Len(r), m)
    BY <1>2, ScanIsSound
  <2>3. r \in Seq(Pairs) /\ Len(r) \in Nat /\ Len(r) <= MAX_GAPS
        /\ \A i \in 1 .. Len(r) : r[i] \in Pairs /\ r[i][1] < r[i][2]
    BY DEF RangesOK
  <2> HIDE DEF m, q
  <2> DEFINE k == m.kept
             N == Len(k)
  <2>4. /\ k \in Seq(Pairs) /\ N \in Nat /\ N <= Len(r) /\ m.s \in Nat /\ m.e \in Nat
        /\ m.s <= o /\ o + l <= m.e
    BY <2>2 DEF ScanInv
  <2>5. <<m.s, m.e>> \in Pairs
    BY <2>4 DEF Pairs
  <2>6. /\ u \in Seq(Pairs) /\ Len(u) = N + 1 /\ u[N + 1] = <<m.s, m.e>>
        /\ \A i \in 1 .. N : u[i] = k[i]
    BY <2>4, <2>5
  <2>7. u[N + 1][1] = m.s /\ u[N + 1][2] = m.e
    BY <2>6
  <2>8. \A i \in 1 .. N + 1 : i = N + 1 \/ i \in 1 .. N
    BY <2>4
  <2>9. \A i \in 1 .. N : k[i][1] < k[i][2] /\ (k[i][2] < m.s \/ k[i][1] > m.e)
        /\ \E j \in 1 .. Len(r) : k[i] = r[j]
    BY <2>2, <2>3 DEF ScanInv
  <2>10. Apart(k)
    BY <2>2 DEF ScanInv
  <2>11. \A i \in 1 .. N : k[i][1] \in Nat /\ k[i][2] \in Nat
    <3>1. \A i \in 1 .. N : k[i] \in Pairs
      BY <2>4
    <3> QED BY <3>1 DEF Pairs
  <2>20. MAX_GAPS \in Nat /\ N # MAX_GAPS
    BY <1>2, TrackerAssumption
  <2> HIDE DEF u, k, N
  <2>12. NonEmpty(u)
    <3>1. m.s < m.e
      BY <1>2, <2>4
    <3> QED BY <2>6, <2>7, <2>8, <2>9, <3>1 DEF NonEmpty
  <2>13. Separate(u)
    <3>1. ASSUME NEW i \in 1 .. N + 1, NEW j \in 1 .. N + 1, i < j
          PROVE  u[i][2] < u[j][1] \/ u[j][2] < u[i][1]
      <4>1. i \in 1 .. N
        BY <2>4, <2>8, <3>1
      <4>2. CASE j = N + 1
        BY <2>4, <2>6, <2>7, <2>9, <2>11, <4>1, <4>2
      <4>3. CASE j \in 1 .. N
        BY <2>6, <2>10, <3>1, <4>1, <4>3 DEF Apart, N
      <4> QED BY <2>8, <4>2, <4>3
    <3>2. \A i, j \in 1 .. N + 1 : i # j => i < j \/ j < i
      BY <2>4
    <3> QED BY <2>6, <3>1, <3>2 DEF Separate
  <2>14. /\ q \in Seq(Pairs) /\ Len(q) = N + 1 /\ Apart(q)
         /\ \A i \in 1 .. N + 1 : \E j \in 1 .. N + 1 : q[i] = u[j]
    BY <2>6, <2>12, <2>13, SortOK DEF q
  <2>15. Len(q) <= MAX_GAPS
    BY <2>3, <2>4, <2>14, <2>20
  <2>16. \A i \in 1 .. Len(q) : q[i][1] < q[i][2]
    BY <2>6, <2>12, <2>14 DEF NonEmpty
  <2>17. RangesOK(q)
    BY <2>14, <2>15, <2>16 DEF RangesOK
  <2>18. ASSUME NEW x \in Covered(q) PROVE x \in Covered(r) \cup (o .. (o + l - 1))
    <3>1. PICK i \in 1 .. N + 1 : x \in q[i][1] .. (q[i][2] - 1)
      BY <2>14, CoveredIs
    <3>2. PICK j \in 1 .. N + 1 : q[i] = u[j]
      BY <2>14
    <3>3. CASE j = N + 1
      <4>1. x \in m.s .. (m.e - 1)
        BY <2>7, <3>1, <3>2, <3>3
      <4>2. x \in o .. (o + l - 1) \/ \E h \in 1 .. Len(r) : x \in r[h][1] .. (r[h][2] - 1)
        BY <2>2, <4>1 DEF ScanInv
      <4> QED BY <2>3, <4>2, CoveredIs
    <3>4. CASE j \in 1 .. N
      <4>1. PICK h \in 1 .. Len(r) : k[j] = r[h]
        BY <2>9, <3>4
      <4>2. q[i] = r[h]
        BY <2>6, <3>2, <3>4, <4>1
      <4> QED BY <2>3, <3>1, <4>2, CoveredIs
    <3> QED BY <2>8, <3>3, <3>4
  <2> QED BY <2>1, <2>17, <2>18
<1> QED BY <1>1, <1>2

-----------------------------------------------------------------------------
\* The types of the receiver, and what its trackers and files say of each other.
TxOK(t, written) ==
    /\ t.size \in Nat /\ t.nak_retries \in 0..NakLimit
    /\ RangesOK(t.ranges) /\ Covered(t.ranges) \subseteq written

RTimers == {"Nak", "Inactivity", "KeepAlive"}
TrackInv ==
    /\ \A p \in net : p.t \in {"data", "metadata"} => p.id \in Ids
    /\ \A w \in writes : w.id \in Ids
    /\ file \in [Ids -> SUBSET Nat]
    /\ DOMAIN rtx \subseteq Ids
    /\ \A id \in DOMAIN rtx : TxOK(rtx[id], file[id])
    /\ r_timers \subseteq Ids \X RTimers
    /\ verifying \subseteq Ids /\ refused \subseteq Ids

\* They make the type invariant and the property.
LEMMA TrackerFollows == CfdpInv /\ TrackInv => RTypeOK /\ TrackerIsSound
<1> SUFFICES ASSUME CfdpInv, TrackInv PROVE RTypeOK /\ TrackerIsSound
  OBVIOUS
<1>1. ASSUME NEW id \in DOMAIN rtx
      PROVE  /\ rtx[id] \in
                 [size : Nat, suspended : BOOLEAN, progress : Nat, nak_retries : 0..NakLimit,
                  ranges : Seq(Nat \X Nat), state : RState]
             /\ RangesOK(rtx[id].ranges) /\ Covered(rtx[id].ranges) \subseteq file[id]
  <2>1. RTx(rtx[id]) /\ TxOK(rtx[id], file[id])
    BY DEF CfdpInv, RTyped, TrackInv
  <2>2. rtx[id].ranges \in Seq(Nat \X Nat)
    BY <2>1 DEF TxOK, RangesOK, Pairs
  <2> QED BY <2>1, <2>2 DEF RTx, IsRecord, TxOK
<1>2. RTypeOK
  BY <1>1 DEF CfdpInv, RTyped, TrackInv, RTypeOK, RState, RTimers
<1>3. ASSUME NEW r, RangesOK(r), NEW i \in 1..(Len(r) - 1) PROVE r[i][2] < r[i + 1][1]
  <2>1. Len(r) \in Nat
    BY <1>3 DEF RangesOK
  <2>2. i \in 1 .. Len(r) /\ i + 1 \in 1 .. Len(r) /\ i < i + 1
    BY <2>1
  <2> QED BY <1>3, <2>2 DEF RangesOK, Apart
<1>4. \A id \in DOMAIN rtx : RangesOK(rtx[id].ranges) /\ Covered(rtx[id].ranges) \subseteq file[id]
  BY <1>1
<1>5. TrackerIsSound
  BY <1>3, <1>4 DEF TrackerIsSound, RangesOK
<1> QED BY <1>2, <1>5

\* A step that changes the ranges and the size of no transaction.
LEMMA TrackKept ==
    ASSUME TrackInv, file' = file,
           \A p \in net' : p \in net \/ p.t \notin {"data", "metadata"},
           \A w \in writes' : w \in writes \/ w.id \in Ids,
           \A x \in DOMAIN rtx' :
              /\ x \in DOMAIN rtx /\ rtx'[x].size = rtx[x].size
              /\ rtx'[x].ranges = rtx[x].ranges /\ rtx'[x].nak_retries \in 0..NakLimit,
           r_timers' \subseteq Ids \X RTimers, verifying' \subseteq Ids, refused' \subseteq refused
    PROVE  TrackInv'
<1>1. \A x \in DOMAIN rtx' : x \in Ids /\ TxOK(rtx'[x], file'[x])
  BY DEF TrackInv, TxOK
<1>2. \A p \in net' : p.t \in {"data", "metadata"} => p.id \in Ids
  BY DEF TrackInv
<1>3. \A w \in writes' : w.id \in Ids
  BY DEF TrackInv
<1> QED BY <1>1, <1>2, <1>3 DEF TrackInv, Ids, TxOK

\* A fault changes no ranges.
LEMMA FaultTracks ==
    ASSUME RTyped, TrackInv, NEW id \in DOMAIN rtx, NEW timers, timers \subseteq r_timers,
           HandleFault(id, timers)
    PROVE  /\ r_timers' \subseteq Ids \X RTimers
           /\ \A x \in DOMAIN rtx' :
                 /\ x \in DOMAIN rtx /\ rtx'[x].size = rtx[x].size
                 /\ rtx'[x].ranges = rtx[x].ranges /\ rtx'[x].nak_retries \in 0..NakLimit
<1>1. r_timers' \subseteq Ids \X RTimers
  BY DEF HandleFault, TrackInv
<1>2. \A x \in DOMAIN rtx : rtx[x].nak_retries \in 0..NakLimit
  BY DEF TrackInv, TxOK
<1>3. CASE rtx' = Restrict(rtx, DOMAIN rtx \ {id})
  BY <1>1, <1>2, <1>3 DEF Restrict
<1>4. CASE rtx' = rtx
  BY <1>1, <1>2, <1>4
<1>5. CASE rtx' = [rtx EXCEPT ![id].suspended = TRUE]
  <2>1. RTx(rtx[id])
    BY DEF RTyped
  <2>2. /\ rtx'[id].size = rtx[id].size /\ rtx'[id].ranges = rtx[id].ranges
        /\ rtx'[id].nak_retries = rtx[id].nak_retries
    BY <1>5, <2>1 DEF RTx, IsRecord
  <2> QED BY <1>1, <1>2, <1>5, <2>2
<1> QED BY <1>3, <1>4, <1>5 DEF HandleFault

\* Metadata opens a transaction with nothing received.
LEMMA MetadataTracks ==
    ASSUME NetTyped, TrackInv, NEW p \in net, RecvMetadata(p) PROVE TrackInv'
<1> DEFINE t == [size |-> p.size, suspended |-> FALSE, progress |-> 0,
                 nak_retries |-> 0, ranges |-> <<>>, state |-> "ReceivingFileData"]
<1>1. p.id \in Ids /\ p.size \in Nat
  BY DEF RecvMetadata, NetTyped, TrackInv
<1>2. RangesOK(<<>>) /\ Covered(<<>>) = {}
  BY TrackerAssumption DEF RangesOK, Apart, Covered, Range
<1>3. ASSUME NEW f PROVE TxOK(t, f)
  BY <1>1, <1>2, ReceiverAssumption DEF TxOK
<1>4. rtx' = Opened(rtx, p.id, t) /\ writes' = writes /\ net' = net /\ file' = file
      /\ verifying' = verifying
  BY DEF RecvMetadata
<1> HIDE DEF t
<1>5. /\ DOMAIN rtx' = DOMAIN rtx \cup {p.id} /\ rtx'[p.id] = t
      /\ \A x \in DOMAIN rtx : x # p.id => rtx'[x] = rtx[x]
  BY <1>4 DEF Opened
<1>6. r_timers' \subseteq Ids \X RTimers
  BY <1>1 DEF RecvMetadata, RStart, TrackInv, RTimers
<1>7. \A x \in DOMAIN rtx' : x \in Ids /\ TxOK(rtx'[x], file[x])
  BY <1>1, <1>3, <1>5 DEF TrackInv
<1>8. refused' \subseteq Ids
  BY <1>1 DEF RecvMetadata, TrackInv
<1> QED
  BY <1>4, <1>6, <1>7, <1>8 DEF TrackInv, Ids, TxOK

\* A finished write is in the file before its range is in the tracker.
LEMMA WrittenTracks ==
    ASSUME RTyped, TrackInv, NEW w \in writes, FileDataWritten(w) PROVE TrackInv'
<1> DEFINE span == w.off .. (w.off + w.len - 1)
<1>1. w.off \in Nat /\ w.len \in Nat /\ w.id \in Ids
  BY DEF RTyped, TrackInv
<1>2. /\ writes' = writes \ {w} /\ net' = net /\ r_timers' = r_timers /\ verifying' = verifying
      /\ refused' = refused
      /\ file' = [file EXCEPT ![w.id] = file[w.id] \cup span]
  BY DEF FileDataWritten
<1>3. span \subseteq Nat
  BY <1>1
<1> HIDE DEF span
<1>4. /\ file' \in [Ids -> SUBSET Nat]
      /\ file'[w.id] = file[w.id] \cup span
      /\ \A x \in Ids : x # w.id => file'[x] = file[x]
  BY <1>1, <1>2, <1>3 DEF TrackInv
<1>5. \A x \in Ids : file[x] \subseteq file'[x]
  BY <1>4
<1>6. CASE w.id \notin DOMAIN rtx
  <2>1. rtx' = rtx
    BY <1>6 DEF FileDataWritten
  <2>2. \A x \in DOMAIN rtx : TxOK(rtx[x], file'[x])
    BY <1>5 DEF TrackInv, TxOK
  <2> QED BY <1>2, <1>4, <2>1, <2>2 DEF TrackInv, Ids, TxOK
<1>7. CASE w.id \in DOMAIN rtx
  <2> DEFINE old == rtx[w.id].ranges
             new == AddSegment(old, w.off, w.len)
  <2>1. rtx' = [rtx EXCEPT ![w.id] = [rtx[w.id] EXCEPT !.progress = w.off + w.len,
                                                       !.ranges = new]]
    BY <1>7 DEF FileDataWritten, RTyped, RTx, IsRecord
  <2>2. TxOK(rtx[w.id], file[w.id]) /\ RTx(rtx[w.id])
    BY <1>7 DEF TrackInv, RTyped
  <2>3. RangesOK(new) /\ Covered(new) \subseteq Covered(old) \cup span
    BY <1>1, <2>2, AddSegmentOK DEF TxOK, span
  <2> HIDE DEF new
  <2>4. /\ DOMAIN rtx' = DOMAIN rtx /\ rtx'[w.id].ranges = new /\ rtx'[w.id].size = rtx[w.id].size
        /\ rtx'[w.id].nak_retries = rtx[w.id].nak_retries
        /\ \A x \in DOMAIN rtx : x # w.id => rtx'[x] = rtx[x]
    BY <1>7, <2>1, <2>2 DEF RTx, IsRecord
  <2>5. TxOK(rtx'[w.id], file'[w.id])
    BY <1>4, <2>2, <2>3, <2>4 DEF TxOK
  <2>6. ASSUME NEW x \in DOMAIN rtx, x # w.id PROVE TxOK(rtx'[x], file'[x])
    BY <1>5, <2>4, <2>6 DEF TrackInv, TxOK
  <2>7. \A x \in DOMAIN rtx' : TxOK(rtx'[x], file'[x])
    BY <2>4, <2>5, <2>6
  <2> QED BY <1>2, <1>4, <2>4, <2>7 DEF TrackInv, Ids, TxOK
<1> QED BY <1>6, <1>7

\* Every event of the receiver.
LEMMA ReceiverTracks ==
    ASSUME CfdpInv, TrackInv, ReceiverNext PROVE TrackInv'
<1>1. RStepOK /\ RTyped /\ NetTyped /\ \A id : RTx(rtx[id]) \/ id \notin DOMAIN rtx
  BY ReceiverStep DEF CfdpInv, RTyped
<1>2. \A p \in net' : p \in net \/ p.t \notin {"data", "metadata"}
  BY <1>1 DEF RStepOK, RPdu
<1>3. \A x \in DOMAIN rtx : rtx[x].nak_retries \in 0..NakLimit
  BY DEF TrackInv, TxOK
<1>4. r_timers \subseteq Ids \X RTimers /\ verifying \subseteq Ids /\ DOMAIN rtx \subseteq Ids
  BY DEF TrackInv
<1>5. CASE ReceiverUser
  <2>1. PICK id : RSuspend(id) \/ RResume(id)
    BY <1>5 DEF ReceiverUser
  <2>2. id \in DOMAIN rtx /\ \E b \in BOOLEAN : rtx' = [rtx EXCEPT ![id].suspended = b]
    BY <2>1 DEF RSuspend, RResume
  <2>3. /\ DOMAIN rtx' = DOMAIN rtx /\ rtx'[id].size = rtx[id].size
        /\ rtx'[id].ranges = rtx[id].ranges /\ rtx'[id].nak_retries = rtx[id].nak_retries
        /\ \A x \in DOMAIN rtx : x # id => rtx'[x] = rtx[x]
    BY <1>1, <2>2 DEF RTx, IsRecord
  <2>4. r_timers' \subseteq Ids \X RTimers /\ verifying' = verifying /\ writes' = writes /\ file' = file
        /\ refused' \subseteq refused
    BY <1>4, <2>1, <2>2 DEF RSuspend, RResume, RStop, RStart, RTimers
  <2> QED BY <1>2, <1>3, <1>4, <2>3, <2>4, TrackKept
<1>6. CASE ReceiverFilestore
  <2>1. CASE \E w \in writes : FileDataWritten(w)
    BY <1>1, <2>1, WrittenTracks
  <2>2. ASSUME NEW id, NEW valid, ChecksumVerified(id, valid) PROVE TrackInv'
    <3>1. writes' = writes /\ file' = file /\ verifying' \subseteq Ids /\ refused' = refused
      BY <1>4, <2>2 DEF ChecksumVerified
    <3>2. /\ r_timers' \subseteq Ids \X RTimers
          /\ \A x \in DOMAIN rtx' :
                 /\ x \in DOMAIN rtx /\ rtx'[x].size = rtx[x].size
                 /\ rtx'[x].ranges = rtx[x].ranges /\ rtx'[x].nak_retries \in 0..NakLimit
      <4>1. CASE rtx' = rtx /\ r_timers' = r_timers
        BY <1>3, <1>4, <4>1
      <4>2. CASE id \in DOMAIN rtx /\ HandleFault(id, r_timers)
        BY <1>1, <4>2, FaultTracks
      <4>3. CASE rtx' = Restrict(rtx, DOMAIN rtx \ {id}) /\ r_timers' = r_timers
        BY <1>3, <1>4, <4>3 DEF Restrict
      <4> QED BY <2>2, <4>1, <4>2, <4>3 DEF ChecksumVerified
    <3> QED BY <1>2, <3>1, <3>2, TrackKept
  <2> QED BY <1>6, <2>1, <2>2 DEF ReceiverFilestore
<1>7. CASE ReceiverTimer
  <2>1. PICK id \in Ids : NakTimeout(id) \/ RInactivity(id) \/ KeepAliveTimeout(id)
    BY <1>7 DEF ReceiverTimer
  <2>2. writes' = writes /\ file' = file /\ verifying' = verifying /\ refused' = refused
    BY <2>1 DEF NakTimeout, RInactivity, KeepAliveTimeout
  <2>3. /\ r_timers' \subseteq Ids \X RTimers
        /\ \A x \in DOMAIN rtx' :
                 /\ x \in DOMAIN rtx /\ rtx'[x].size = rtx[x].size
                 /\ rtx'[x].ranges = rtx[x].ranges /\ rtx'[x].nak_retries \in 0..NakLimit
    <3>1. CASE rtx' = rtx /\ r_timers' \subseteq r_timers
      BY <1>3, <1>4, <3>1
    <3>2. CASE id \in DOMAIN rtx /\ \E types : HandleFault(id, RStop(id, types))
      BY <1>1, <3>2, FaultTracks DEF RStop
    <3>3. CASE /\ id \in DOMAIN rtx /\ rtx[id].nak_retries < NakLimit /\ r_timers' = r_timers
               /\ rtx' = [rtx EXCEPT ![id].nak_retries = @ + 1, ![id].state = "WaitingForNakData"]
      <4>1. /\ DOMAIN rtx' = DOMAIN rtx /\ rtx'[id].size = rtx[id].size
            /\ rtx'[id].ranges = rtx[id].ranges /\ rtx'[id].nak_retries = rtx[id].nak_retries + 1
            /\ \A x \in DOMAIN rtx : x # id => rtx'[x] = rtx[x]
        BY <1>1, <3>3 DEF RTx, IsRecord
      <4>2. rtx'[id].nak_retries \in 0..NakLimit
        BY <1>3, <3>3, <4>1, ReceiverAssumption
      <4> QED BY <1>3, <1>4, <3>3, <4>1, <4>2
    <3> QED BY <2>1, <3>1, <3>2, <3>3 DEF NakTimeout, RInactivity, KeepAliveTimeout, RStop
  <2> QED BY <1>2, <1>4, <2>2, <2>3, TrackKept
<1>8. CASE ReceiverReceives
  <2>1. PICK p \in net :
            RecvMetadata(p) \/ RecvFileData(p) \/ RecvEof(p) \/ RecvStrayEof(p) \/ RecvPrompt(p)
    BY <1>8 DEF ReceiverReceives, RPduReceived
  <2>2. CASE RecvMetadata(p)
    BY <1>1, <2>2, MetadataTracks
  <2>3. CASE RecvFileData(p)
    <3>1. p.id \in Ids /\ writes' = writes \cup {p} /\ rtx' = rtx /\ file' = file
          /\ verifying' = verifying /\ refused' \subseteq refused
      BY <2>3 DEF RecvFileData, TrackInv
    <3>2. r_timers' \subseteq Ids \X RTimers
      BY <1>4, <2>3, <3>1 DEF RecvFileData, RestartInactivity, RStop, RStart, RTimers
    <3> QED BY <1>2, <1>3, <1>4, <3>1, <3>2, TrackKept
  <2>4. CASE RecvEof(p)
    <3>1. p.id \in DOMAIN rtx /\ p.id \in Ids /\ writes' = writes /\ file' = file
      BY <1>4, <2>4 DEF RecvEof
    <3>2. verifying' \subseteq Ids /\ refused' \subseteq refused
      BY <1>4, <2>4, <3>1 DEF RecvEof
    <3>3. /\ r_timers' \subseteq Ids \X RTimers
          /\ \A x \in DOMAIN rtx' :
                 /\ x \in DOMAIN rtx /\ rtx'[x].size = rtx[x].size
                 /\ rtx'[x].ranges = rtx[x].ranges /\ rtx'[x].nak_retries \in 0..NakLimit
      <4>1. CASE HandleFault(p.id, RStop(p.id, {"Inactivity"}))
        BY <1>1, <3>1, <4>1, FaultTracks DEF RStop
      <4>2. CASE /\ \E s : rtx' = [rtx EXCEPT ![p.id].state = s]
                 /\ r_timers' \subseteq r_timers \cup {<<p.id, "Nak">>}
        <5>1. /\ DOMAIN rtx' = DOMAIN rtx /\ rtx'[p.id].size = rtx[p.id].size
              /\ rtx'[p.id].ranges = rtx[p.id].ranges
              /\ rtx'[p.id].nak_retries = rtx[p.id].nak_retries
              /\ \A x \in DOMAIN rtx : x # p.id => rtx'[x] = rtx[x]
          BY <1>1, <3>1, <4>2 DEF RTx, IsRecord
        <5>2. r_timers' \subseteq Ids \X RTimers
          BY <1>4, <3>1, <4>2 DEF RTimers
        <5> QED BY <1>3, <5>1, <5>2
      <4> QED BY <2>4, <4>1, <4>2 DEF RecvEof, RStop
    <3> QED BY <1>2, <3>1, <3>2, <3>3, TrackKept
  <2>5. CASE RecvStrayEof(p) \/ RecvPrompt(p)
    <3>1. UNCHANGED r_vars
      BY <2>5 DEF RecvStrayEof, RecvPrompt
    <3> QED BY <1>2, <1>3, <1>4, <3>1, TrackKept DEF r_vars
  <2> QED BY <2>1, <2>2, <2>3, <2>4, <2>5
<1> QED BY <1>5, <1>6, <1>7, <1>8 DEF ReceiverNext

\* Every step keeps the trackers sound.
LEMMA TrackInvStep == CfdpInv /\ TrackInv /\ [Next]_vars => TrackInv'
<1> SUFFICES ASSUME CfdpInv, TrackInv, [Next]_vars PROVE TrackInv'
  OBVIOUS
<1>1. CASE ReceiverNext
  BY <1>1, ReceiverTracks
<1>2. ASSUME UNCHANGED r_vars, \A p \in net' : p \in net \/ p.t \notin {"data", "metadata"} \/ p.id \in Ids
      PROVE  TrackInv'
  BY <1>2 DEF TrackInv, r_vars, Ids, TxOK
<1>3. CASE SenderNext
  <2>1. UNCHANGED r_vars
    BY <1>3 DEF SenderNext, SenderUser, SenderFilestore, SenderTimer, SenderReceives
  <2> QED BY <1>2, <1>3, <2>1, SenderOwn DEF CfdpInv
<1>4. CASE PeerReceiver
  <2>1. /\ UNCHANGED r_vars
        /\ \/ net' = net \cup PeerAnswers
           \/ \E p \in net : \E nak \in EarlyNaks(p) : net' = net \cup {nak}
    BY <1>4 DEF PeerReceiver, SendPdus
  <2>2. \A p \in PeerAnswers : p.t \notin {"data", "metadata"}
    BY DEF PeerAnswers, Ack, Finished, Nak
  <2>3. \A p : \A nak \in EarlyNaks(p) : nak.t \notin {"data", "metadata"}
    BY DEF EarlyNaks, Nak
  <2> QED BY <1>2, <2>1, <2>2, <2>3
<1>5. CASE UNCHANGED vars
  BY <1>2, <1>5 DEF vars
<1> QED BY <1>1, <1>3, <1>4, <1>5 DEF Next

\* Before the first PDU nothing is tracked.
LEMMA TrackInvInit == Init => TrackInv
<1> SUFFICES ASSUME Init PROVE TrackInv
  OBVIOUS
<1>1. \A p \in net : p.t \in {"data", "metadata"} => p.id = 0
  <2>1. \A parses : \A p \in FromPeerSender(parses) : p.id = 0
    BY DEF FromPeerSender, Metadata, FileData
  <2>2. \A p \in PeerProgress : p.t = "keepalive"
    BY DEF PeerProgress, KeepAlive
  <2> QED BY <2>1, <2>2 DEF Init
<1>2. 0 \in Ids
  BY LinkAssumption DEF Ids
<1>3. DOMAIN rtx = {}
  BY DEF Init, RInit
<1> QED BY <1>1, <1>2, <1>3 DEF Init, RInit, TrackInv

\* TrackInv holds in every reachable state.
LEMMA CfdpTracks == Spec => []TrackInv
<1> QED BY TrackInvInit, TrackInvStep, CfdpInductive, PTL DEF Spec

\* Both machines keep their types, the receiver's transactions, timers, writes
\* and files included, for every value of the constants.
THEOREM CfdpTypes == Spec => []CfdpTypeOK
<1>1. CfdpInv /\ TrackInv => CfdpTypeOK
  BY TrackerFollows, SenderTypes DEF CfdpInv, CfdpTypeOK
<1> QED BY <1>1, CfdpInductive, CfdpTracks, PTL

\* add_segment, in whatever order the filestore finishes the writes: the array
\* stays sorted, its ranges apart and within MAX_GAPS, and the tracker claims no
\* byte that is not in the destination file.
THEOREM CfdpTrackerIsSound == Spec => []TrackerIsSound
<1>1. CfdpInv /\ TrackInv => TrackerIsSound
  BY TrackerFollows
<1> QED BY <1>1, CfdpInductive, CfdpTracks, PTL

-----------------------------------------------------------------------------
(* Every NAK asks for something, so the sender is never left without work. *)

\* What the argument needs of the constants: room for a hole behind the first
\* range, offsets that fit, and a peer that asks for a chunk of its file.
NaksCanAsk ==
    /\ MAX_GAPS > 1
    /\ \A size \in FileSizes : size < U64Max
    /\ 0 \notin SizesWithPeer

\* One of the requested ranges starts within the file.
Readable(segs, size) ==
    \E g \in segs : g[1] \in Nat /\ g[2] \in Nat /\ g[1] <= size /\ g[1] < g[2]

\* get_missing_ranges always has one, whatever was received.
LEMMA MissingReadable ==
    ASSUME MAX_GAPS > 1, NEW r, RangesOK(r), NEW size \in Nat, size < U64Max,
           \A i \in 1 .. Len(r) : r[i][2] <= size, NEW announced
    PROVE  Readable(MissingRanges(r, announced), size)
<1> DEFINE pad == [i \in 1..(MAX_GAPS - Len(r)) |-> <<U64Max, U64Max>>]
           slots == r \o pad
           Before(i) == IF i = 1 THEN 0 ELSE slots[i - 1][2]
           holes == {<<Before(i), slots[i][1]>> : i \in {j \in 1..MAX_GAPS : slots[j][1] > Before(j)}}
<1>1. MAX_GAPS \in Nat /\ U64Max \in Nat /\ r \in Seq(Pairs) /\ Len(r) \in Nat /\ Len(r) <= MAX_GAPS
  BY TrackerAssumption DEF RangesOK
<1>2. holes \subseteq MissingRanges(r, announced)
  BY DEF MissingRanges
<1>3. MAX_GAPS - Len(r) \in Nat /\ <<U64Max, U64Max>> \in Pairs
  BY <1>1 DEF Pairs
<1>4. pad \in Seq(Pairs) /\ Len(pad) = MAX_GAPS - Len(r)
      /\ \A i \in 1 .. (MAX_GAPS - Len(r)) : pad[i] = <<U64Max, U64Max>>
  <2>1. PICK k \in Nat : k = MAX_GAPS - Len(r)
    BY <1>3
  <2>2. PICK x \in Pairs : x = <<U64Max, U64Max>>
    BY <1>3
  <2>3. pad = [i \in 1 .. k |-> x]
    BY <2>1, <2>2
  <2> HIDE DEF pad
  <2>4. pad \in Seq(Pairs) /\ Len(pad) = k /\ \A i \in 1 .. k : pad[i] = x
    BY <2>3
  <2> QED BY <2>1, <2>2, <2>4
<1> HIDE DEF pad
<1>5. /\ \A i \in 1 .. Len(r) : slots[i] = r[i]
      /\ \A i \in 1 .. MAX_GAPS : i > Len(r) => slots[i] = <<U64Max, U64Max>>
  <2>1. \A i \in 1 .. Len(r) + Len(pad) : slots[i] = IF i <= Len(r) THEN r[i] ELSE pad[i - Len(r)]
    BY <1>1, <1>4, ConcatProperties
  <2>2. \A i \in 1 .. Len(r) : i \in 1 .. Len(r) + Len(pad) /\ i <= Len(r)
    BY <1>1, <1>3, <1>4
  <2>3. \A i \in 1 .. MAX_GAPS : i > Len(r) => /\ i \in 1 .. Len(r) + Len(pad) /\ ~(i <= Len(r))
                                              /\ i - Len(r) \in 1 .. (MAX_GAPS - Len(r))
    BY <1>1, <1>3, <1>4
  <2> QED BY <1>4, <2>1, <2>2, <2>3
<1> HIDE DEF slots
<1>6. \A i \in 1 .. MAX_GAPS : slots[i][1] > Before(i) => <<Before(i), slots[i][1]>> \in holes
  OBVIOUS
<1>7. 1 \in 1 .. MAX_GAPS /\ 2 \in 1 .. MAX_GAPS /\ Before(1) = 0 /\ Before(2) = slots[1][2]
  BY <1>1
<1> HIDE DEF holes, Before
<1>8. \A a, b \in Nat : <<a, b>> \in holes /\ a <= size /\ a < b =>
          Readable(MissingRanges(r, announced), size)
  BY <1>2 DEF Readable
<1>9. \A i \in 1 .. Len(r) : r[i][1] \in Nat /\ r[i][2] \in Nat /\ r[i][2] <= size
  <2>1. \A i \in 1 .. Len(r) : r[i] \in Pairs
    BY <1>1
  <2> QED BY <2>1 DEF Pairs
<1>10. CASE Len(r) = 0
  <2>1. slots[1][1] = U64Max /\ U64Max > 0
    BY <1>1, <1>5, <1>7, <1>10
  <2>2. <<0, U64Max>> \in holes
    BY <1>6, <1>7, <2>1
  <2> QED BY <1>1, <1>8, <2>1, <2>2
<1>11. CASE Len(r) # 0 /\ r[1][1] # 0
  <2>1. 1 \in 1 .. Len(r)
    BY <1>1, <1>11
  <2>2. slots[1][1] = r[1][1] /\ r[1][1] \in Nat /\ r[1][1] > 0
    BY <1>5, <1>9, <1>11, <2>1
  <2>3. <<0, r[1][1]>> \in holes
    BY <1>6, <1>7, <2>2
  <2> QED BY <1>8, <2>2, <2>3
<1>12. CASE Len(r) = 1 /\ r[1][1] = 0
  <2>1. 1 \in 1 .. Len(r) /\ 2 > Len(r)
    BY <1>12
  <2>2. slots[1][2] = r[1][2] /\ r[1][2] \in Nat /\ r[1][2] <= size /\ slots[2][1] = U64Max
    BY <1>5, <1>7, <1>9, <2>1
  <2>3. slots[2][1] > Before(2)
    BY <1>1, <1>7, <2>2
  <2> QED BY <1>1, <1>6, <1>7, <1>8, <2>2, <2>3
<1>13. CASE Len(r) > 1
  <2>1. 1 \in 1 .. Len(r) /\ 2 \in 1 .. Len(r) /\ 1 < 2
    BY <1>1, <1>13
  <2>2. /\ slots[1][2] = r[1][2] /\ r[1][2] \in Nat /\ r[1][2] <= size
        /\ slots[2][1] = r[2][1] /\ r[2][1] \in Nat
    BY <1>5, <1>7, <1>9, <2>1
  <2>3. r[1][2] < r[2][1]
    BY <2>1 DEF RangesOK, Apart
  <2>4. slots[2][1] > Before(2)
    BY <1>7, <2>2, <2>3
  <2> QED BY <1>6, <1>7, <1>8, <2>2, <2>3, <2>4
<1>14. Len(r) = 0 \/ Len(r) = 1 \/ Len(r) > 1
  <2>1. \A k \in Nat : k = 0 \/ k = 1 \/ k > 1
    OBVIOUS
  <2> QED BY <1>1, <2>1
<1> QED BY <1>10, <1>11, <1>12, <1>13, <1>14

\* What is sent, written and asked for of a transaction lies within its file.
FitsTx(id) ==
    LET size == stx[id].size
    IN  /\ stx[id].progress <= size
        /\ \A r \in Reading : r[1] = id => r[2] <= size
        /\ \A p \in net : p.t = "data" /\ p.id = id => p.off + p.len <= size
        /\ \A w \in writes : w.id = id => w.off + w.len <= size
        /\ file[id] \subseteq 0..(size - 1)
        /\ \A p \in net : p.t = "nak" /\ p.id = id => Readable(p.segs, size)
        /\ peer = "receiver" => size \in SizesWithPeer

\* Nothing is there of a transaction number that was not given out.
NothingYet ==
    /\ peer = "sender" => next_seq_num = 0
    /\ peer # "sender" =>
          /\ \A p \in net : p.t = "data" => p.id \in Given
          /\ \A w \in writes : w.id \in Given
          /\ \A id \in Ids : id \notin Given => file[id] = {}

FilesFit == NothingYet /\ \A id \in DOMAIN stx : FitsTx(id)

\* What a step of the sender does to its transactions.
SFitOK ==
    \A x \in DOMAIN stx' :
        /\ stx'[x].progress <= stx'[x].size
        /\ \A r \in Reading' : r[1] = x => r[2] <= stx'[x].size
        /\ \A p \in net' : p.t = "data" /\ p.id = x => p.off + p.len <= stx'[x].size
        /\ \/ x \in DOMAIN stx /\ stx'[x].size = stx[x].size
           \/ x = next_seq_num /\ (peer = "receiver" => stx'[x].size \in SizesWithPeer)

\* The part of EofIsCovered about one transaction.
EofWork(id) ==
    stx[id].state = "WaitingForEofAck" /\ ~stx[id].suspended =>
        \/ <<id, "Ack">> \in s_timers
        \/ \E r \in Reading : r[1] = id
        \/ id \in Summing

\* A step that sends no data and asks for nothing beyond the file.
LEMMA SameSizes ==
    ASSUME FilesFit, SameFiles,
           \A p \in net' : p.t = "data" => p \in net,
           \A r \in Reading' : r \in Reading \/ (r[1] \in DOMAIN stx /\ r[2] <= stx[r[1]].size)
    PROVE  SFitOK
<1> SUFFICES ASSUME NEW x \in DOMAIN stx'
             PROVE  /\ stx'[x].progress <= stx'[x].size
                    /\ \A r \in Reading' : r[1] = x => r[2] <= stx'[x].size
                    /\ \A p \in net' : p.t = "data" /\ p.id = x => p.off + p.len <= stx'[x].size
                    /\ x \in DOMAIN stx /\ stx'[x].size = stx[x].size
  BY DEF SFitOK
<1>1. x \in DOMAIN stx /\ stx'[x].size = stx[x].size /\ stx'[x].progress = stx[x].progress
  BY DEF SameFiles
<1>2. FitsTx(x)
  BY <1>1 DEF FilesFit
<1> QED BY <1>1, <1>2 DEF FitsTx

\* A step of one transaction leaves the work of the others.
LEMMA OtherWork ==
    ASSUME EofIsCovered, NEW id,
           \A x \in DOMAIN stx' : x # id => x \in DOMAIN stx /\ stx'[x] = stx[x],
           \A x : x # id /\ <<x, "Ack">> \in s_timers => <<x, "Ack">> \in s_timers',
           \A r \in Reading : r[1] # id => r \in Reading',
           \A x \in Summing : x # id => x \in Summing',
           id \in DOMAIN stx' => EofWork(id)'
    PROVE  EofIsCovered'
<1>1. ASSUME NEW x \in DOMAIN stx', x # id PROVE EofWork(x)'
  <2>1. EofWork(x) /\ x \in DOMAIN stx /\ stx'[x] = stx[x]
    BY <1>1 DEF EofIsCovered, EofWork
  <2> QED BY <1>1, <2>1 DEF EofWork
<1>2. \A x \in DOMAIN stx' : EofWork(x)'
  BY <1>1
<1> QED BY <1>2 DEF EofIsCovered, EofWork

\* A new file.
LEMMA PutFits ==
    ASSUME STyped, FilesFit, EofIsCovered, peer # "sender", NEW size \in FileSizes,
           peer = "receiver" => size \in SizesWithPeer, PutRequest(size)
    PROVE  SFitOK /\ EofIsCovered'
<1> PICK n : n = next_seq_num
  OBVIOUS
<1> DEFINE t == [size |-> size, suspended |-> FALSE, progress |-> 0, ack_retries |-> 0,
                 file_checksum |-> FALSE, last_receiver_progress |-> 0,
                 state |-> "SendingFileData"]
<1>1. t.size = size /\ t.progress = 0 /\ t.state = "SendingFileData" /\ size \in Nat
  BY SenderAssumption
<1>2. s_timers' = s_timers /\ Summing' = Summing /\ n \in Nat /\ n \notin Given
  BY LinkAssumption DEF PutRequest, STyped, SFields, Given, Summing
<1>3. CASE stx' = stx /\ Reading' = Reading /\ net' = net
  BY <1>2, <1>3, SameSizes DEF SameFiles, EofIsCovered
<1>4. CASE /\ stx' = Opened(stx, n, t) /\ net' = net \cup {Metadata(n, 0, TRUE)}
           /\ Reading' = Reading \cup {<<n, 0>>}
  <2> HIDE DEF t
  <2>1. n \notin DOMAIN stx /\ DOMAIN stx' = DOMAIN stx \cup {n} /\ stx'[n] = t
        /\ \A x \in DOMAIN stx : stx'[x] = stx[x]
    BY <1>2, <1>4 DEF Opened, STyped, SFields
  <2>2. \A p \in net' : p.t = "data" => p \in net /\ p.id \in Given
    BY <1>4 DEF Metadata, FilesFit, NothingYet
  <2>3. \A r \in Reading' : r \in Reading \/ (r[1] = n /\ r[2] = 0)
    BY <1>4
  <2>4. \A r \in Reading : r[1] \in Given
    BY DEF STyped, SFields
  <2>5. ASSUME NEW x \in DOMAIN stx
        PROVE  /\ stx'[x].progress <= stx'[x].size
               /\ \A r \in Reading' : r[1] = x => r[2] <= stx'[x].size
               /\ \A p \in net' : p.t = "data" /\ p.id = x => p.off + p.len <= stx'[x].size
               /\ stx'[x].size = stx[x].size
    <3>1. FitsTx(x)
      BY DEF FilesFit
    <3> QED BY <2>1, <2>2, <2>3, <3>1 DEF FitsTx
  <2>6. /\ stx'[n].progress <= stx'[n].size
        /\ \A r \in Reading' : r[1] = n => r[2] <= stx'[n].size
        /\ \A p \in net' : p.t = "data" => p.id # n
        /\ stx'[n].size = size
    BY <1>1, <1>2, <2>1, <2>2, <2>3, <2>4
  <2>7. SFitOK
    BY <2>1, <2>5, <2>6 DEF SFitOK
  <2>8. EofWork(n)'
    BY <1>1, <2>1 DEF EofWork
  <2>9. EofIsCovered'
    BY <1>2, <1>4, <2>1, <2>8, OtherWork
  <2> QED BY <2>7, <2>9
<1> QED BY <1>3, <1>4, PutView DEF SendPdus, STyped

\* A chunk read: the next read, or the checksum.
LEMMA DataFits ==
    ASSUME STyped, FilesFit, EofIsCovered, NEW id, NEW off, DataSegmentReady(id, off)
    PROVE  SFitOK /\ EofIsCovered'
<1> DEFINE len  == IF off < stx[id].size THEN 1 ELSE 0
<1>1. s_timers' = s_timers /\ off \in Nat /\ <<id, off>> \in Reading
  BY DEF DataSegmentReady, STyped, SFields
<1>2. \A r \in Reading : r[1] # id => r \in Reading'
  <2>1. Reading \ {<<id, off>>} \subseteq Reading'
    BY DataView DEF STyped
  <2> QED BY <2>1
<1>3. CASE /\ id \notin DOMAIN stx \/ stx[id].suspended
           /\ Reading' \subseteq Reading /\ Summing' = Summing /\ UNCHANGED <<stx, net>>
  <2>2. id \in DOMAIN stx' => EofWork(id)'
    BY <1>3 DEF EofWork
  <2>3. EofIsCovered'
    BY <1>1, <1>3, <1>2, <2>2, OtherWork
  <2> QED BY <1>3, <2>3, SameSizes DEF SameFiles
<1>4. CASE /\ id \in DOMAIN stx /\ ~stx[id].suspended
           /\ SendPdus({FileData(id, off, len)})
           /\ stx' = [stx EXCEPT ![id].progress = off + len]
           /\ \/ Summing' = Summing \cup {id} /\ Reading' \subseteq Reading
              \/ /\ Summing' = Summing /\ <<id, off + len>> \in Reading'
                 /\ Reading' \subseteq Reading \cup {<<id, off + len>>}
  <2>1. /\ SendPdus({FileData(id, off, len)})
        /\ stx' = [stx EXCEPT ![id].progress = off + len]
        /\ \/ Summing' = Summing \cup {id} /\ Reading' \subseteq Reading
           \/ /\ Summing' = Summing /\ <<id, off + len>> \in Reading'
              /\ Reading' \subseteq Reading \cup {<<id, off + len>>}
    BY <1>4
  <2>2. stx[id] \in STx /\ FitsTx(id)
    BY <1>4 DEF STyped, SFields, FilesFit
  <2>3. stx[id].size \in Nat
    BY <2>2, SenderAssumption DEF STx
  <2>4. off <= stx[id].size
    BY <1>1, <2>2 DEF FitsTx
  <2>5. len \in Nat /\ off + len \in Nat /\ off + len <= stx[id].size
    BY <1>1, <2>3, <2>4
  <2> HIDE DEF len
  <2>6. /\ DOMAIN stx' = DOMAIN stx /\ stx'[id].size = stx[id].size
        /\ stx'[id].progress = off + len
        /\ \A x \in DOMAIN stx : x # id => stx'[x] = stx[x]
    BY <1>4, <2>1, <2>2 DEF STx
  <2>7. \A p \in net' : p \in net \/ (p.id = id /\ p.off = off /\ p.len = len)
    BY <2>1 DEF SendPdus, FileData
  <2>8. \A r \in Reading' : r \in Reading \/ (r[1] = id /\ r[2] = off + len)
    BY <2>1
  <2>9. SFitOK
    <3> SUFFICES ASSUME NEW x \in DOMAIN stx
                 PROVE  /\ stx'[x].progress <= stx'[x].size
                        /\ \A r \in Reading' : r[1] = x => r[2] <= stx'[x].size
                        /\ \A p \in net' : p.t = "data" /\ p.id = x => p.off + p.len <= stx'[x].size
                        /\ stx'[x].size = stx[x].size
      BY <2>6 DEF SFitOK
    <3>1. FitsTx(x) /\ stx'[x].size = stx[x].size
      BY <2>6 DEF FilesFit
    <3>2. stx'[x].progress <= stx'[x].size
      BY <2>5, <2>6, <3>1 DEF FitsTx
    <3>3. \A r \in Reading' : r[1] = x => r[2] <= stx'[x].size
      BY <2>5, <2>8, <3>1 DEF FitsTx
    <3>4. \A p \in net' : p.t = "data" /\ p.id = x => p.off + p.len <= stx'[x].size
      BY <2>5, <2>7, <3>1 DEF FitsTx
    <3> QED BY <3>1, <3>2, <3>3, <3>4
  <2>10. EofWork(id)'
    <3>1. (\E r \in Reading' : r[1] = id) \/ id \in Summing'
      <4>1. <<id, off + len>>[1] = id
        OBVIOUS
      <4>2. <<id, off + len>> \in Reading' \/ id \in Summing'
        BY <2>1
      <4> QED BY <4>1, <4>2
    <3> QED BY <3>1 DEF EofWork
  <2>11. EofIsCovered'
    BY <1>1, <1>2, <2>1, <2>6, <2>10, OtherWork
  <2> QED BY <2>9, <2>11
<1> QED BY <1>3, <1>4, DataView DEF STyped

\* The steps that change other fields of a transaction, or forget it.
LEMMA FieldsFit ==
    ASSUME STyped, FilesFit, EofIsCovered, NEW id,
           \/ SendEof(id)
           \/ /\ \A p \in net' : p.t = "data" => p \in net
              /\ \A x : x # id /\ <<x, "Ack">> \in s_timers => <<x, "Ack">> \in s_timers',
           \A r \in Reading' : r \in Reading \/ (r[1] \in DOMAIN stx /\ r[2] <= stx[r[1]].size),
           \A r \in Reading : r \in Reading',
           \A x \in Summing : x # id => x \in Summing',
           SameFiles, \A x \in DOMAIN stx' : x # id => stx'[x] = stx[x],
           id \in DOMAIN stx' => EofWork(id)'
    PROVE  SFitOK /\ EofIsCovered'
<1>1. /\ \A p \in net' : p.t = "data" => p \in net
      /\ \A x : x # id /\ <<x, "Ack">> \in s_timers => <<x, "Ack">> \in s_timers'
  BY DEF SendEof, SendPdus, Eof
<1>2. \A x \in DOMAIN stx' : x \in DOMAIN stx
  BY DEF SameFiles
<1> QED BY <1>1, <1>2, SameSizes, OtherWork

\* A transaction with the Ack timer has its work.
LEMMA TimerIsWork ==
    ASSUME NEW id, SendEof(id) PROVE EofWork(id)'
  BY DEF SendEof, EofWork

\* A forgotten transaction needs none.
LEMMA ForgetFits ==
    ASSUME STyped, FilesFit, EofIsCovered, NEW id, Forget(id), Reading' = Reading, Summing' = Summing,
           \A p \in net' : p.t = "data" => p \in net,
           \A x : x # id /\ <<x, "Ack">> \in s_timers => <<x, "Ack">> \in s_timers'
    PROVE  SFitOK /\ EofIsCovered'
<1>1. SameFiles /\ \A x \in DOMAIN stx' : stx'[x] = stx[x]
  BY ForgetFiles
<1>2. id \notin DOMAIN stx'
  BY DEF Forget, Restrict
<1> QED BY <1>1, <1>2, FieldsFit

\* A step that changes one transaction, but neither its size nor its progress.
LEMMA ChangeFits ==
    ASSUME STyped, FilesFit, EofIsCovered, NEW id \in DOMAIN stx, NEW t \in STx,
           stx' = [stx EXCEPT ![id] = t],
           t.size = stx[id].size, t.progress = stx[id].progress,
           \/ SendEof(id)
           \/ /\ \A p \in net' : p.t = "data" => p \in net
              /\ \A x : x # id /\ <<x, "Ack">> \in s_timers => <<x, "Ack">> \in s_timers'
              /\ \/ t.state # "WaitingForEofAck" \/ t.suspended
                 \/ /\ t.state = stx[id].state /\ t.suspended = stx[id].suspended
                    /\ s_timers' = s_timers /\ Summing' = Summing,
           \A r \in Reading' : r \in Reading \/ (r[1] = id /\ r[2] <= t.size),
           \A r \in Reading : r \in Reading',
           \A x \in Summing : x # id => x \in Summing'
    PROVE  SFitOK /\ EofIsCovered'
<1>1. SameFiles /\ stx'[id] = t /\ \A x \in DOMAIN stx' : x # id => stx'[x] = stx[x]
  BY ChangeFiles
<1>2. EofWork(id)'
  <2>1. CASE SendEof(id)
    BY <2>1, TimerIsWork
  <2>2. CASE t.state # "WaitingForEofAck" \/ t.suspended
    BY <1>1, <2>2 DEF EofWork
  <2>3. CASE /\ t.state = stx[id].state /\ t.suspended = stx[id].suspended
             /\ s_timers' = s_timers /\ Summing' = Summing
    <3>1. EofWork(id)
      BY DEF EofIsCovered, EofWork
    <3> QED BY <1>1, <2>3, <3>1 DEF EofWork
  <2> QED BY <2>1, <2>2, <2>3
<1>3. \A r \in Reading' : r \in Reading \/ (r[1] \in DOMAIN stx /\ r[2] <= stx[r[1]].size)
  OBVIOUS
<1> QED BY <1>1, <1>2, <1>3, FieldsFit

\* Nothing of the sender's state changes.
LEMMA IdleFits ==
    ASSUME STyped, FilesFit, EofIsCovered, UNCHANGED s_vars,
           \A p \in net' : p.t = "data" => p \in net
    PROVE  SFitOK /\ EofIsCovered'
<1>1. Reading' = Reading /\ Summing' = Summing
  BY DEF s_vars, Reading, Summing
<1>2. SFitOK
  BY <1>1, SameSizes DEF SameFiles, s_vars
<1> QED BY <1>2, <1>1 DEF EofIsCovered, s_vars

\* Every event of the sender but a put request and a chunk read.
LEMMA OtherFits ==
    ASSUME STyped, FilesFit, EofIsCovered, NEW id,
           \/ ChecksumReady(id) \/ AckTimeout(id) \/ SInactivity(id)
           \/ \E kind : PromptRequest(id, kind)
           \/ SSuspend(id) \/ SResume(id)
    PROVE  SFitOK /\ EofIsCovered'
<1>1. id \in DOMAIN stx => stx[id] \in STx /\ FitsTx(id)
  BY DEF STyped, SFields, FilesFit
<1>2. CASE ChecksumReady(id)
  <2>1. CASE id \in DOMAIN stx
    <3> DEFINE t == [stx[id] EXCEPT !.file_checksum = TRUE, !.state = "WaitingForEofAck"]
    <3>1. /\ stx' = [stx EXCEPT ![id] = t] /\ SendEof(id) /\ Reading' = Reading
          /\ \A x \in Summing : x # id => x \in Summing'
      BY <1>2, <2>1, ChecksumView DEF ChecksumReady, STyped
    <3>2. t \in STx /\ t.size = stx[id].size /\ t.progress = stx[id].progress
      BY <1>1, <2>1 DEF STx, SState
    <3> HIDE DEF t
    <3> QED BY <2>1, <3>1, <3>2, ChangeFits
  <2>2. CASE id \notin DOMAIN stx
    <3>1. /\ UNCHANGED <<stx, s_timers, net>> /\ Reading' = Reading
          /\ \A x \in Summing : x # id => x \in Summing'
      BY <1>2, <2>2, ChecksumView DEF ChecksumReady, STyped
    <3> QED BY <2>2, <3>1, FieldsFit DEF SameFiles
  <2> QED BY <2>1, <2>2
<1>3. CASE AckTimeout(id)
  <2>1. Reading' = Reading /\ Summing' = Summing
    BY <1>3 DEF AckTimeout, Reading, Summing
  <2>2. CASE id \notin DOMAIN stx /\ s_timers' = s_timers \ {<<id, "Ack">>} /\ stx' = stx /\ net' = net
    BY <2>1, <2>2, FieldsFit DEF SameFiles
  <2>3. CASE Forget(id) /\ s_timers' = s_timers \ {<<id, "Ack">>} /\ net' = net
    BY <2>1, <2>3, ForgetFits
  <2>4. CASE id \in DOMAIN stx /\ ~AckLimitReached(id)
    <3> DEFINE t == [stx[id] EXCEPT !.ack_retries = stx[id].ack_retries + 1]
    <3>1. /\ stx' = [stx EXCEPT ![id] = t]
          /\ \/ SendEof(id)
             \/ /\ stx[id].state # "WaitingForEofAck" /\ s_timers' = s_timers \ {<<id, "Ack">>}
                /\ net' = net
      BY <1>3, <2>4 DEF AckTimeout
    <3>2. t \in STx /\ t.size = stx[id].size /\ t.progress = stx[id].progress
          /\ t.state = stx[id].state
      BY <1>1, <2>4, SenderAssumption DEF STx, AckLimitReached
    <3> HIDE DEF t
    <3> QED BY <2>1, <2>4, <3>1, <3>2, ChangeFits
  <2> QED BY <1>3, <2>2, <2>3, <2>4 DEF AckTimeout
<1>4. CASE SInactivity(id)
  <2>1. Reading' = Reading /\ Summing' = Summing /\ net' = net /\ s_timers' = s_timers \ {<<id, "Inactivity">>}
    BY <1>4 DEF SInactivity, Reading, Summing
  <2>2. CASE Forget(id)
    BY <2>1, <2>2, ForgetFits
  <2>3. CASE stx' = stx
    <3>1. \A x : <<x, "Ack">> \in s_timers => <<x, "Ack">> \in s_timers'
      BY <2>1
    <3>2. EofIsCovered'
      BY <2>1, <2>3, <3>1 DEF EofIsCovered
    <3> QED BY <2>1, <2>3, <3>2, SameSizes DEF SameFiles
  <2> QED BY <1>4, <2>2, <2>3 DEF SInactivity
<1>5. CASE \E kind : PromptRequest(id, kind)
  BY <1>5, IdleFits DEF PromptRequest, SendPdus, Prompt
<1>6. CASE SSuspend(id)
  <2> DEFINE t == [stx[id] EXCEPT !.suspended = TRUE]
  <2>1. /\ id \in DOMAIN stx /\ stx' = [stx EXCEPT ![id] = t] /\ net' = net
        /\ Reading' = Reading /\ Summing' = Summing
        /\ \A x : x # id /\ <<x, "Ack">> \in s_timers => <<x, "Ack">> \in s_timers'
    BY <1>6 DEF SSuspend, AllTimers, Reading, Summing
  <2>2. t \in STx /\ t.size = stx[id].size /\ t.progress = stx[id].progress /\ t.suspended
    BY <1>1, <2>1 DEF STx
  <2> HIDE DEF t
  <2> QED BY <2>1, <2>2, ChangeFits
<1>7. CASE SResume(id)
  <2> DEFINE t == [stx[id] EXCEPT !.suspended = FALSE]
  <2>1. id \in DOMAIN stx /\ stx' = [stx EXCEPT ![id] = t] /\ Summing' = Summing
    BY <1>7 DEF SResume, Summing
  <2>2. t \in STx /\ t.size = stx[id].size /\ t.progress = stx[id].progress
        /\ t.state = stx[id].state
    BY <1>1, <2>1 DEF STx
  <2> HIDE DEF t
  <2>3. CASE /\ stx[id].state = "SendingFileData"
             /\ Reading' = Reading \cup {<<id, stx[id].progress>>}
             /\ UNCHANGED <<s_timers, net>>
    <3>1. \A r \in Reading' : r \in Reading \/ (r[1] = id /\ r[2] <= t.size)
      BY <1>1, <2>1, <2>2, <2>3 DEF FitsTx
    <3> QED BY <2>1, <2>2, <2>3, <3>1, ChangeFits
  <2>4. CASE SendEof(id) /\ Reading' = Reading
    BY <2>1, <2>2, <2>4, ChangeFits
  <2>5. CASE /\ stx[id].state = "WaitingForFinishedPdu"
             /\ s_timers' = s_timers \cup {<<id, "Inactivity">>}
             /\ Reading' = Reading /\ net' = net
    BY <2>1, <2>2, <2>5, ChangeFits
  <2> QED BY <1>7, <2>3, <2>4, <2>5, ResumeView DEF STyped
<1> QED BY <1>2, <1>3, <1>4, <1>5, <1>6, <1>7

\* A PDU read by the sender; a NAK stops the Ack timer and has reads instead.
LEMMA PduFits ==
    ASSUME STyped, FilesFit, EofIsCovered, NEW p \in net,
           RecvFinished(p) \/ RecvAck(p) \/ RecvNak(p) \/ RecvKeepAlive(p)
    PROVE  SFitOK /\ EofIsCovered'
<1>1. p.id \in DOMAIN stx => stx[p.id] \in STx /\ FitsTx(p.id)
  BY DEF STyped, SFields, FilesFit
<1>2. CASE RecvFinished(p)
  <2>1. /\ Forget(p.id) /\ Reading' = Reading /\ Summing' = Summing
        /\ s_timers' = s_timers \ AllTimers(p.id) /\ net' = net \cup {Ack(p.id, "Finished")}
    BY <1>2 DEF RecvFinished, SendPdus, Reading, Summing
  <2>2. \A x : x # p.id /\ <<x, "Ack">> \in s_timers => <<x, "Ack">> \in s_timers'
    BY <2>1 DEF AllTimers
  <2>3. \A q \in net' : q.t = "data" => q \in net
    BY <2>1 DEF Ack
  <2> QED BY <2>1, <2>2, <2>3, ForgetFits
<1>3. CASE RecvAck(p)
  <2> DEFINE t == [stx[p.id] EXCEPT !.state = "WaitingForFinishedPdu"]
  <2>1. /\ p.id \in DOMAIN stx /\ stx' = [stx EXCEPT ![p.id] = t] /\ net' = net
        /\ Reading' = Reading /\ Summing' = Summing /\ s_timers' = TimersAfterAck(p.id)
    BY <1>3 DEF RecvAck, Reading, Summing
  <2>2. t \in STx /\ t.size = stx[p.id].size /\ t.progress = stx[p.id].progress
        /\ t.state # "WaitingForEofAck"
    BY <1>1, <2>1 DEF STx, SState
  <2>3. \A x : x # p.id /\ <<x, "Ack">> \in s_timers => <<x, "Ack">> \in s_timers'
    BY <2>1 DEF TimersAfterAck
  <2> HIDE DEF t
  <2> QED BY <2>1, <2>2, <2>3, ChangeFits
<1>4. CASE RecvNak(p)
  <2> DEFINE size == stx[p.id].size
             asked == Requested(p.id, p.segs)
  <2>1. /\ p.id \in DOMAIN stx /\ p.t = "nak"
        /\ s_timers' = s_timers \ {<<p.id, "Ack">>}
        /\ Reading' = Reading \cup ({p.id} \X asked)
        /\ stx' = stx /\ Summing' = Summing /\ net' = net
    BY <1>4, NakView DEF RecvNak, STyped
  <2>2. size \in Nat /\ Readable(p.segs, size)
    BY <1>1, <2>1, SenderAssumption DEF STx, FitsTx
  <2>3. asked = {off \in 0..size : \E g \in p.segs :
                    g[1] <= off /\ off < g[2] /\ (off = g[1] \/ off < size)}
    BY DEF Requested
  <2> HIDE DEF size, asked
  <2>4. \A off \in asked : off <= size
    BY <2>2, <2>3
  <2>5. PICK g \in p.segs : g[1] \in Nat /\ g[2] \in Nat /\ g[1] <= size /\ g[1] < g[2]
    BY <2>2 DEF Readable
  <2>6. g[1] \in asked
    BY <2>2, <2>3, <2>5
  <2>7. \A r \in Reading' : r \in Reading \/ (r[1] = p.id /\ r[2] \in asked)
    BY <2>1
  <2>8. <<p.id, g[1]>> \in Reading' /\ <<p.id, g[1]>>[1] = p.id
    BY <2>1, <2>6
  <2>9. EofWork(p.id)'
    BY <2>1, <2>8 DEF EofWork
  <2>10. \A r \in Reading' : r \in Reading \/ (r[1] \in DOMAIN stx /\ r[2] <= stx[r[1]].size)
    BY <2>1, <2>4, <2>7 DEF size
  <2>11. SameFiles /\ \A r \in Reading : r \in Reading'
    BY <2>1 DEF SameFiles
  <2>12. \A x : x # p.id /\ <<x, "Ack">> \in s_timers => <<x, "Ack">> \in s_timers'
    BY <2>1
  <2> QED BY <2>1, <2>9, <2>10, <2>11, <2>12, FieldsFit
<1>5. CASE RecvKeepAlive(p)
  <2>1. /\ p.id \in DOMAIN stx /\ s_timers' = s_timers /\ Reading' = Reading /\ Summing' = Summing
        /\ net' = net
    BY <1>5 DEF RecvKeepAlive, Reading, Summing
  <2>2. CASE Forget(p.id)
    BY <2>1, <2>2, ForgetFits
  <2>3. ASSUME NEW last, stx' = [stx EXCEPT ![p.id].last_receiver_progress = last]
        PROVE  SFitOK /\ EofIsCovered'
    <3>1. /\ DOMAIN stx' = DOMAIN stx /\ \A x \in DOMAIN stx : x # p.id => stx'[x] = stx[x]
          /\ stx'[p.id].size = stx[p.id].size /\ stx'[p.id].progress = stx[p.id].progress
          /\ stx'[p.id].state = stx[p.id].state /\ stx'[p.id].suspended = stx[p.id].suspended
      BY <1>1, <2>1, <2>3 DEF STx
    <3>2. SameFiles
      BY <3>1 DEF SameFiles
    <3>3. EofWork(p.id)'
      BY <2>1, <3>1 DEF EofIsCovered, EofWork
    <3> QED BY <2>1, <3>1, <3>2, <3>3, FieldsFit
  <2> QED BY <1>5, <2>2, <2>3 DEF RecvKeepAlive
<1> QED BY <1>2, <1>3, <1>4, <1>5

\* Every event of the sender.
LEMMA SenderFits ==
    ASSUME STyped, FilesFit, EofIsCovered, SenderNext PROVE SFitOK /\ EofIsCovered'
<1>1. CASE SenderUser
  <2>1. ASSUME NEW size, PutRequest(size), peer # "sender",
               IF peer = "receiver" THEN size \in SizesWithPeer ELSE size \in FileSizes
        PROVE  SFitOK /\ EofIsCovered'
    BY <2>1, CfdpAssumption, PutFits
  <2> QED BY <1>1, <2>1, OtherFits DEF SenderUser
<1>2. CASE SenderFilestore
  BY <1>2, DataFits, OtherFits DEF SenderFilestore
<1>3. CASE SenderTimer
  BY <1>3, OtherFits DEF SenderTimer
<1>4. CASE SenderReceives
  BY <1>4, PduFits DEF SenderReceives, SPduReceived
<1> QED BY <1>1, <1>2, <1>3, <1>4 DEF SenderNext

\* The sender's events keep what is sent, written and asked for within the files.
LEMMA SenderKeepsFit ==
    ASSUME CfdpInv, CfdpInv', TrackInv, FilesFit, SFitOK, SenderNext PROVE FilesFit'
<1>1. writes' = writes /\ file' = file /\ peer' = peer /\ peer # "sender"
  BY DEF SenderNext, SenderUser, SenderFilestore, SenderTimer, SenderReceives, r_vars
<1>2. \A p \in net' : p.t = "nak" => p \in net
  BY SenderSends DEF CfdpInv, SSends, SPdu
<1>3. Given \subseteq Given' /\ next_seq_num \notin Given
  BY GivenGrows DEF CfdpInv
<1>4. \A p \in net' : p.t = "data" => p \in net \/ p.id \in Given
  BY SenderOwn DEF CfdpInv
<1>5. NothingYet'
  BY <1>1, <1>3, <1>4 DEF FilesFit, NothingYet, Ids
<1>6. ASSUME NEW x \in DOMAIN stx' PROVE FitsTx(x)'
  <2>1. /\ stx'[x].progress <= stx'[x].size
        /\ \A r \in Reading' : r[1] = x => r[2] <= stx'[x].size
        /\ \A p \in net' : p.t = "data" /\ p.id = x => p.off + p.len <= stx'[x].size
        /\ \/ x \in DOMAIN stx /\ stx'[x].size = stx[x].size
           \/ x = next_seq_num /\ (peer = "receiver" => stx'[x].size \in SizesWithPeer)
    BY DEF SFitOK
  <2>2. /\ \A w \in writes : w.id = x => w.off + w.len <= stx'[x].size
        /\ file[x] \subseteq 0..(stx'[x].size - 1)
        /\ \A p \in net : p.t = "nak" /\ p.id = x => Readable(p.segs, stx'[x].size)
        /\ peer = "receiver" => stx'[x].size \in SizesWithPeer
    <3>1. CASE x \in DOMAIN stx /\ stx'[x].size = stx[x].size
      BY <3>1 DEF FilesFit, FitsTx
    <3>2. CASE x = next_seq_num /\ (peer = "receiver" => stx'[x].size \in SizesWithPeer)
      <4>1. x \notin Given /\ x \in Ids
        <5>1. x \in Given' /\ next_seq_num' \in 0..MaxPuts
          BY DEF CfdpInv, STyped, SFields
        <5>2. x \in 0..(next_seq_num' - 1)
          BY <5>1 DEF Given
        <5>3. x \in 0..(MaxPuts - 1)
          BY <5>1, <5>2, LinkAssumption
        <5> QED BY <1>3, <3>2, <5>3 DEF Ids
      <4>2. file[x] = {} /\ \A w \in writes : w.id # x
        BY <1>1, <4>1 DEF FilesFit, NothingYet
      <4>3. \A p \in net : p.t = "nak" => p.id \in Given
        BY <1>1 DEF CfdpInv, LinkOwn
      <4> QED BY <3>2, <4>1, <4>2, <4>3
    <3> QED BY <2>1, <3>1, <3>2
  <2> QED BY <1>1, <1>2, <2>1, <2>2 DEF FitsTx
<1> QED BY <1>5, <1>6 DEF FilesFit

\* What the receiver does to the link, the writes and the files.
RDoes ==
    /\ \A p \in net' : p.t = "nak" => p \in net \/
          \E id \in DOMAIN rtx : p = Nak(id, MissingRanges(rtx[id].ranges, rtx[id].size))
    /\ \A w \in writes' : w \in writes \/ (w \in net /\ w.t = "data")
    /\ file' = file \/
          \E w \in writes : file' = [file EXCEPT ![w.id] = file[w.id] \cup (w.off..(w.off + w.len - 1))]

\* By event: only an EOF and the Nak timer send a NAK, only file data starts a
\* write, and only a finished write changes a file.
LEMMA ReceiverDoes == ASSUME ReceiverNext PROVE RDoes
<1>1. \A id, dir, cond, n : Ack(id, dir).t # "nak" /\ Finished(id, cond).t # "nak" /\ KeepAlive(id, n).t # "nak"
  BY DEF Ack, Finished, KeepAlive
<1>2. CASE ReceiverUser
  BY <1>2 DEF ReceiverUser, RSuspend, RResume, RDoes
<1>3. CASE ReceiverFilestore
  <2>1. CASE \E w \in writes : FileDataWritten(w)
    BY <2>1 DEF FileDataWritten, RDoes
  <2>2. ASSUME NEW id, NEW valid, ChecksumVerified(id, valid) PROVE RDoes
    BY <1>1, <2>2 DEF ChecksumVerified, SendPdus, RDoes
  <2> QED BY <1>3, <2>1, <2>2 DEF ReceiverFilestore
<1>4. CASE ReceiverTimer
  <2>1. ASSUME NEW id, NakTimeout(id) PROVE RDoes
    BY <2>1 DEF NakTimeout, SendPdus, RDoes
  <2>2. ASSUME NEW id, RInactivity(id) PROVE RDoes
    BY <2>2 DEF RInactivity, RDoes
  <2>3. ASSUME NEW id, KeepAliveTimeout(id) PROVE RDoes
    BY <1>1, <2>3 DEF KeepAliveTimeout, SendPdus, RDoes
  <2> QED BY <1>4, <2>1, <2>2, <2>3 DEF ReceiverTimer
<1>5. CASE ReceiverReceives
  <2>1. ASSUME NEW p \in net, RecvMetadata(p) \/ RecvFileData(p) PROVE RDoes
    BY <2>1 DEF RecvMetadata, RecvFileData, RDoes
  <2>2. ASSUME NEW p \in net, RecvEof(p) PROVE RDoes
    BY <1>1, <2>2 DEF RecvEof, SendPdus, RDoes
  <2>3. ASSUME NEW p \in net, RecvStrayEof(p) \/ RecvPrompt(p) PROVE RDoes
    BY <1>1, <2>3 DEF RecvStrayEof, RecvPrompt, SendPdus, RDoes, r_vars
  <2> QED BY <1>5, <2>1, <2>2, <2>3 DEF ReceiverReceives, RPduReceived
<1> QED BY <1>2, <1>3, <1>4, <1>5 DEF ReceiverNext

\* The receiver's events: a NAK it sends has a range that starts within the file,
\* since what it has received of it does.
LEMMA ReceiverKeepsFit ==
    ASSUME NaksCanAsk, CfdpInv, TrackInv, FilesFit, ReceiverNext PROVE FilesFit'
<1>1. UNCHANGED s_vars /\ peer' = peer
  BY DEF ReceiverNext, ReceiverUser, ReceiverFilestore, ReceiverTimer, ReceiverReceives
<1>2. /\ next_seq_num' = next_seq_num /\ stx' = stx /\ Reading' = Reading /\ Given' = Given
  BY <1>1 DEF s_vars, Given, Reading
<1>3. RDoes
  BY ReceiverDoes
<1>4. \A p \in net' : p.t = "data" => p \in net
  BY ReceiverStep DEF CfdpInv, RStepOK, RPdu
<1>5. \A w \in writes : w.off \in Nat /\ w.len \in Nat /\ w.id \in Ids
  BY DEF CfdpInv, RTyped, TrackInv
<1>6. NothingYet'
  <2> SUFFICES ASSUME peer # "sender"
               PROVE  \A id \in Ids : id \notin Given => file'[id] = {}
    BY <1>1, <1>2, <1>3, <1>4 DEF FilesFit, NothingYet, RDoes, Ids
  <2>1. \A w \in writes : w.id \in Given
    BY DEF FilesFit, NothingYet
  <2>2. \A id \in Ids : id \notin Given => file[id] = {}
    BY DEF FilesFit, NothingYet
  <2>3. file \in [Ids -> SUBSET Nat]
    BY DEF TrackInv
  <2> QED BY <1>3, <2>1, <2>2, <2>3 DEF RDoes
<1>7. ASSUME NEW x \in DOMAIN stx PROVE FitsTx(x)'
  <2> PICK size : size = stx[x].size
    OBVIOUS
  <2>1. size \in Nat /\ size < U64Max /\ x \in Ids
    <3>1. x \in Given /\ stx[x] \in STx /\ next_seq_num \in 0..MaxPuts
      BY DEF CfdpInv, STyped, SFields
    <3>2. size \in FileSizes /\ x \in Ids
      BY <3>1, LinkAssumption DEF STx, Given, Ids
    <3> QED BY <3>2, SenderAssumption DEF NaksCanAsk
  <2>2. FitsTx(x)
    BY DEF FilesFit
  <2>3. \A w \in writes' : w.id = x => w.off + w.len <= size
    BY <1>3, <2>2 DEF RDoes, FitsTx
  <2>4. file'[x] \subseteq 0..(size - 1)
    <3>1. file[x] \subseteq 0..(size - 1) /\ file \in [Ids -> SUBSET Nat]
      BY <2>2 DEF FitsTx, TrackInv
    <3>2. CASE file' = file
      BY <3>1, <3>2
    <3>3. ASSUME NEW w \in writes,
                 file' = [file EXCEPT ![w.id] = file[w.id] \cup (w.off..(w.off + w.len - 1))]
          PROVE  file'[x] \subseteq 0..(size - 1)
      <4>1. CASE w.id # x
        BY <2>1, <3>1, <3>3, <4>1
      <4>2. CASE w.id = x
        <5>1. w.off \in Nat /\ w.len \in Nat /\ w.off + w.len <= size
          BY <1>5, <2>2, <4>2 DEF FitsTx
        <5>2. w.off..(w.off + w.len - 1) \subseteq 0..(size - 1)
          BY <2>1, <5>1
        <5> HIDE DEF FitsTx
        <5>3. file'[x] = file[x] \cup (w.off..(w.off + w.len - 1))
          BY <2>1, <3>1, <3>3, <4>2
        <5> QED BY <3>1, <5>2, <5>3
      <4> QED BY <4>1, <4>2
    <3> QED BY <1>3, <3>2, <3>3 DEF RDoes
  <2>5. ASSUME NEW p \in net', p.t = "nak", p.id = x PROVE Readable(p.segs, size)
    <3>1. CASE p \in net
      BY <2>2, <2>5, <3>1 DEF FitsTx
    <3>2. ASSUME NEW id \in DOMAIN rtx, p = Nak(id, MissingRanges(rtx[id].ranges, rtx[id].size))
          PROVE  Readable(p.segs, size)
      <4> DEFINE r == rtx[x].ranges
      <4>1. id = x /\ p.segs = MissingRanges(r, rtx[x].size)
        BY <2>5, <3>2 DEF Nak
      <4>2. RangesOK(r) /\ Covered(r) \subseteq file[x]
        BY <4>1 DEF TrackInv, TxOK
      <4>3. ASSUME NEW i \in 1 .. Len(r) PROVE r[i][2] <= size
        <5>1. r \in Seq(Pairs) /\ r[i] \in Pairs /\ r[i][1] < r[i][2]
          BY <4>2 DEF RangesOK
        <5>2. r[i][1] \in Nat /\ r[i][2] \in Nat
          BY <5>1 DEF Pairs
        <5>3. r[i][2] - 1 \in r[i][1] .. (r[i][2] - 1)
          BY <5>1, <5>2
        <5>4. r[i][2] - 1 \in Covered(r)
          BY <5>1, <5>3, CoveredIs
        <5>5. r[i][2] - 1 \in 0..(size - 1)
          BY <2>2, <4>2, <5>4 DEF FitsTx
        <5> QED BY <2>1, <5>2, <5>5
      <4> HIDE DEF r
      <4> QED BY <2>1, <4>1, <4>2, <4>3, MissingReadable DEF NaksCanAsk
    <3> QED BY <1>3, <2>5, <3>1, <3>2 DEF RDoes
  <2> QED BY <1>1, <1>2, <1>4, <2>2, <2>3, <2>4, <2>5 DEF FitsTx
<1> QED BY <1>2, <1>6, <1>7 DEF FilesFit

\* Another implementation asks for chunks that its file has.
LEMMA PeerKeepsFit ==
    ASSUME NaksCanAsk, CfdpInv, TrackInv, FilesFit, PeerReceiver PROVE FilesFit'
<1>1. /\ peer = "receiver" /\ peer' = peer
      /\ next_seq_num' = next_seq_num /\ stx' = stx /\ Reading' = Reading /\ Given' = Given
      /\ writes' = writes /\ file' = file
  BY DEF PeerReceiver, s_vars, r_vars, Given, Reading
<1>2. \A q \in net' : q \in net \/
          /\ q.t # "data"
          /\ q.t = "nak" => q.segs = {<<0, 1>>} \/ q.segs = {<<1, U64Max>>} \/
                \E p \in net : /\ p.t = "data" /\ p.id = 0 /\ q.id = 0
                               /\ \E a, b \in Nat : q.segs = {<<a, b>>} /\ a <= p.off /\ a < b
  <2>1. CASE net' = net \cup PeerAnswers
    <3>1. \A p \in PeerAnswers : p.t # "data" /\
              (p.t = "nak" => p.segs = {<<0, 1>>} \/ p.segs = {<<1, U64Max>>})
      BY DEF PeerAnswers, Ack, Finished, Nak
    <3> QED BY <2>1, <3>1
  <2>2. ASSUME NEW p \in net, p.t = "data", p.id = 0, NEW nak \in EarlyNaks(p), net' = net \cup {nak}
        PROVE  \A q \in net' : q \in net \/
                   /\ q.t # "data"
                   /\ q.t = "nak" => q.segs = {<<0, 1>>} \/ q.segs = {<<1, U64Max>>} \/
                         \E r \in net : /\ r.t = "data" /\ r.id = 0 /\ q.id = 0
                                        /\ \E a, b \in Nat : q.segs = {<<a, b>>} /\ a <= r.off /\ a < b
    <3>1. /\ nak.t = "nak" /\ nak.id = 0
          /\ \E a, b \in Nat : nak.segs = {<<a, b>>} /\ a <= p.off /\ a < b
      BY <1>1, <2>2, EarlyNakFollows
    <3> QED BY <2>2, <3>1
  <2> QED BY <2>1, <2>2 DEF PeerReceiver, SendPdus
<1>3. NothingYet'
  BY <1>1, <1>2 DEF FilesFit, NothingYet, Ids
<1>4. ASSUME NEW x \in DOMAIN stx PROVE FitsTx(x)'
  <2> PICK size : size = stx[x].size
    OBVIOUS
  <2>1. FitsTx(x) /\ size \in SizesWithPeer
    BY <1>1 DEF FilesFit, FitsTx
  <2>2. size \in Nat /\ size > 0 /\ size < U64Max /\ U64Max \in Nat
    <3>1. size \in FileSizes /\ size # 0
      BY <2>1, CfdpAssumption DEF NaksCanAsk
    <3> QED BY <3>1, SenderAssumption, TrackerAssumption DEF NaksCanAsk
  <2>3. Readable({<<0, 1>>}, size) /\ Readable({<<1, U64Max>>}, size)
    BY <2>2 DEF Readable
  <2>4. ASSUME NEW q \in net', q.t = "nak", q.id = x PROVE Readable(q.segs, size)
    <3>1. ASSUME NEW p \in net, p.t = "data", p.id = 0, q.id = 0, NEW a \in Nat, NEW b \in Nat,
                 q.segs = {<<a, b>>}, a <= p.off, a < b
          PROVE  Readable(q.segs, size)
      <4>1. p.off \in Nat /\ p.len \in Nat /\ p.off + p.len <= size
        BY <2>1, <2>4, <3>1 DEF CfdpInv, NetTyped, FitsTx
      <4>2. a <= size
        BY <2>2, <3>1, <4>1
      <4> QED BY <3>1, <4>2 DEF Readable
    <3> QED BY <1>2, <2>1, <2>3, <2>4, <3>1 DEF FitsTx
  <2> QED BY <1>1, <1>2, <2>1, <2>4 DEF FitsTx
<1> QED BY <1>1, <1>3, <1>4 DEF FilesFit

\* send_eof and handle_nak: a transaction that waits for the ACK of its EOF has
\* the Ack timer, a read or the checksum under way, when the array has room for a
\* hole behind its first range (the code's MAX_GAPS is 4), offsets fit in u64 and
\* another implementation asks for chunks its file has.
THEOREM CfdpEofIsCovered ==
    ASSUME NaksCanAsk
    PROVE  Spec => []EofIsCovered
<1> DEFINE Inv == FilesFit /\ EofIsCovered
<1>1. Init => Inv
  <2> SUFFICES ASSUME Init PROVE Inv
    OBVIOUS
  <2>1. DOMAIN stx = {} /\ next_seq_num = 0 /\ writes = {} /\ \A id \in Ids : file[id] = {}
    BY DEF Init, SInit, RInit
  <2>2. peer # "sender" => \A p \in net : p.t # "data"
    BY DEF Init, PeerProgress, KeepAlive
  <2> QED BY <2>1, <2>2 DEF FilesFit, NothingYet, EofIsCovered
<1>2. CfdpInv /\ CfdpInv' /\ TrackInv /\ Inv /\ [Next]_vars => Inv'
  <2> SUFFICES ASSUME CfdpInv, CfdpInv', TrackInv, FilesFit, EofIsCovered, [Next]_vars
               PROVE  FilesFit' /\ EofIsCovered'
    OBVIOUS
  <2>1. CASE SenderNext
    BY <2>1, SenderFits, SenderKeepsFit DEF CfdpInv
  <2>2. CASE ReceiverNext
    <3>1. UNCHANGED s_vars
      BY <2>2 DEF ReceiverNext, ReceiverUser, ReceiverFilestore, ReceiverTimer, ReceiverReceives
    <3> QED BY <2>2, <3>1, ReceiverKeepsFit DEF EofIsCovered, s_vars, Reading, Summing
  <2>3. CASE PeerReceiver
    <3>1. UNCHANGED s_vars
      BY <2>3 DEF PeerReceiver
    <3> QED BY <2>3, <3>1, PeerKeepsFit DEF EofIsCovered, s_vars, Reading, Summing
  <2>4. CASE UNCHANGED vars
    BY <2>4 DEF vars, s_vars, r_vars, FilesFit, NothingYet, FitsTx, Given, EofIsCovered, Reading, Summing
  <2> QED BY <2>1, <2>2, <2>3, <2>4 DEF Next
<1>3. Inv => EofIsCovered
  OBVIOUS
<1> QED BY <1>1, <1>2, <1>3, CfdpInductive, CfdpTracks, PTL DEF Spec

-----------------------------------------------------------------------------
(* The messages of a job and what is under way between two nodes.          *)

\* The reducer of a job is none of its mappers.
ReducerApart == \A j \in Jobs : JobPlan[j].reducer \notin Range(JobPlan[j].mappers)

SubmitMsg(j) == [op |-> "SubmitJob", job |-> j]
DoneMsg(j) == [op |-> "PhaseDone", job |-> j]
ResultMsg(j) == [op |-> "DataChunk", job |-> j]
ChunkMsg(c) == [op |-> "DataChunk", job |-> c[2], chunk |-> c]

Chunks == Satellites \X Jobs \X Nat

AssignMsg(j, s) == Assignments(j)[s].msg
AssignTo(j, s) == Assignments(j)[s].to

Message ==
    UNION { {SubmitMsg(j) : j \in Jobs}, {DoneMsg(j) : j \in Jobs}, {ResultMsg(j) : j \in Jobs},
            {ChunkMsg(c) : c \in Chunks},
            UNION { {AssignMsg(j, s) : s \in DOMAIN Assignments(j)} : j \in Jobs } }

Packet == [seq : Nat, msg : Message]

\* The messages in flight and in the inbox of one pipe, and that they are all different.
Held(f, b) == {f[k].msg : k \in 1 .. Len(f)} \cup {b[k] : k \in 1 .. Len(b)}

Different(f, b) ==
    /\ \A k, l \in 1 .. Len(f) : f[k].msg = f[l].msg => k = l
    /\ \A k, l \in 1 .. Len(b) : b[k] = b[l] => k = l
    /\ \A k \in 1 .. Len(f), l \in 1 .. Len(b) : f[k].msg # b[l]

way == [n \in Senders |-> [m \in Satellites |-> Held(flight[n][m], inbox[m][n])]]

\* A step adds at most the messages of more, triples of a sender, a reader and a message.
Adds(more) ==
    \A n \in Senders, m \in Satellites : \A y \in way'[n][m] :
        y \in way[n][m] \/ <<n, m, y>> \in more

\* A pipe is well typed and holds no message twice.
PipeOK(f, b) == f \in Seq(Packet) /\ b \in Seq(Message) /\ Different(f, b)

\* A message that is sent is one more in the pipe.
LEMMA PipeSend ==
    ASSUME NEW f, NEW b, PipeOK(f, b), NEW q \in Nat, NEW x \in Message, x \notin Held(f, b)
    PROVE  LET g == Append(f, [seq |-> q, msg |-> x])
           IN  PipeOK(g, b) /\ \A y \in Held(g, b) : y \in Held(f, b) \/ y = x
<1> DEFINE p == [seq |-> q, msg |-> x]
           g == Append(f, p)
<1>1. p \in Packet /\ p.msg = x
  BY DEF Packet
<1> HIDE DEF p
<1>2. g \in Seq(Packet) /\ Len(g) = Len(f) + 1 /\ Len(f) \in Nat /\ b \in Seq(Message) /\ Len(b) \in Nat
  BY <1>1 DEF PipeOK
<1>3. \A k \in 1 .. Len(g) : (k \in 1 .. Len(f) /\ g[k] = f[k]) \/ (k = Len(f) + 1 /\ g[k] = p)
  BY <1>1, <1>2 DEF PipeOK
<1> HIDE DEF g
<1>4. \A k \in 1 .. Len(f) : f[k].msg # x
  BY DEF Held
<1>5. \A l \in 1 .. Len(b) : b[l] # x
  BY DEF Held
<1>6. Different(g, b)
  <2>1. \A k, l \in 1 .. Len(g) : g[k].msg = g[l].msg => k = l
    BY <1>1, <1>3, <1>4 DEF PipeOK, Different
  <2>2. \A k \in 1 .. Len(g), l \in 1 .. Len(b) : g[k].msg # b[l]
    BY <1>1, <1>3, <1>5 DEF PipeOK, Different
  <2> QED BY <2>1, <2>2 DEF PipeOK, Different
<1>7. \A y \in Held(g, b) : y \in Held(f, b) \/ y = x
  BY <1>1, <1>3 DEF Held
<1> QED BY <1>2, <1>6, <1>7 DEF PipeOK, g, p

\* A pipe of which some packets of the flight are left, in order.
LEMMA PipeCut ==
    ASSUME NEW f, NEW b, PipeOK(f, b), NEW k \in 0 .. Len(f)
    PROVE  PipeOK(SubSeq(f, 1, k), b) /\ Held(SubSeq(f, 1, k), b) \subseteq Held(f, b)
<1> DEFINE g == SubSeq(f, 1, k)
<1>1. g \in Seq(Packet) /\ Len(g) = k /\ k <= Len(f) /\ k \in Nat /\ Len(f) \in Nat
  BY DEF PipeOK
<1>2. \A l \in 1 .. k : g[l] = f[l] /\ l \in 1 .. Len(f)
  BY <1>1 DEF PipeOK
<1> HIDE DEF g
<1>3. Different(g, b)
  <2>1. \A i, l \in 1 .. Len(g) : g[i].msg = g[l].msg => i = l
    BY <1>1, <1>2 DEF PipeOK, Different
  <2>2. \A i \in 1 .. Len(g), l \in 1 .. Len(b) : g[i].msg # b[l]
    BY <1>1, <1>2 DEF PipeOK, Different
  <2> QED BY <2>1, <2>2 DEF PipeOK, Different
<1>4. Held(g, b) \subseteq Held(f, b)
  BY <1>1, <1>2 DEF Held
<1> QED BY <1>1, <1>3, <1>4 DEF PipeOK, g

\* A packet arrives and is dropped, or its message goes to the inbox.
LEMMA PipeArrive ==
    ASSUME NEW f, NEW b, PipeOK(f, b), f # <<>>
    PROVE  /\ PipeOK(Tail(f), b) /\ Held(Tail(f), b) \subseteq Held(f, b)
           /\ PipeOK(Tail(f), Append(b, Head(f).msg))
           /\ Held(Tail(f), Append(b, Head(f).msg)) \subseteq Held(f, b)
<1> DEFINE g == Tail(f)
           x == f[1].msg
           d == Append(b, x)
<1>1. /\ g \in Seq(Packet) /\ Len(g) = Len(f) - 1 /\ Len(f) \in Nat \ {0}
      /\ b \in Seq(Message) /\ Len(b) \in Nat /\ Head(f) = f[1]
  BY DEF PipeOK
<1>2. \A l \in 1 .. Len(g) : g[l] = f[l + 1] /\ l + 1 \in 1 .. Len(f) /\ l + 1 # 1
  BY <1>1 DEF PipeOK
<1>3. 1 \in 1 .. Len(f) /\ f[1] \in Packet
  BY <1>1 DEF PipeOK
<1>4. x \in Message
  BY <1>3 DEF Packet
<1> HIDE DEF g, x
<1>5. d \in Seq(Message) /\ Len(d) = Len(b) + 1
  BY <1>1, <1>4
<1>6. \A l \in 1 .. Len(d) : (l \in 1 .. Len(b) /\ d[l] = b[l]) \/ (l = Len(b) + 1 /\ d[l] = x)
  BY <1>1, <1>4, <1>5
<1> HIDE DEF d
<1>7. Different(g, b) /\ Held(g, b) \subseteq Held(f, b)
  <2>1. \A i, l \in 1 .. Len(g) : g[i].msg = g[l].msg => i = l
    <3> SUFFICES ASSUME NEW i \in 1 .. Len(g), NEW l \in 1 .. Len(g), g[i].msg = g[l].msg
                 PROVE  i = l
      OBVIOUS
    <3>1. i + 1 \in 1 .. Len(f) /\ l + 1 \in 1 .. Len(f) /\ f[i + 1].msg = f[l + 1].msg
      BY <1>2
    <3>2. i + 1 = l + 1
      BY <3>1 DEF PipeOK, Different
    <3> QED BY <3>2, <1>1
  <2>2. \A i \in 1 .. Len(g), l \in 1 .. Len(b) : g[i].msg # b[l]
    BY <1>1, <1>2 DEF PipeOK, Different
  <2>3. Held(g, b) \subseteq Held(f, b)
    <3>1. \A k \in 1 .. Len(g) : g[k].msg \in Held(f, b)
      BY <1>2 DEF Held
    <3>2. \A l \in 1 .. Len(b) : b[l] \in Held(f, b)
      BY DEF Held
    <3> QED BY <3>1, <3>2 DEF Held
  <2> QED BY <2>1, <2>2, <2>3 DEF PipeOK, Different
<1>8. \A l \in 1 .. Len(g) : g[l].msg # x
  BY <1>2, <1>3 DEF PipeOK, Different, x
<1>9. \A l \in 1 .. Len(b) : b[l] # x
  BY <1>3 DEF PipeOK, Different, x
<1>10. Different(g, d)
  <2>1. \A k, l \in 1 .. Len(g) : g[k].msg = g[l].msg => k = l
    BY <1>7 DEF Different
  <2>2. \A k, l \in 1 .. Len(d) : d[k] = d[l] => k = l
    BY <1>6, <1>9 DEF PipeOK, Different
  <2>3. \A k \in 1 .. Len(g), l \in 1 .. Len(d) : g[k].msg # d[l]
    BY <1>6, <1>7, <1>8 DEF Different
  <2> QED BY <2>1, <2>2, <2>3 DEF Different
<1>11. Held(g, d) \subseteq Held(f, b)
  <2> SUFFICES ASSUME NEW y \in Held(g, d) PROVE y \in Held(f, b)
    OBVIOUS
  <2>1. CASE \E k \in 1 .. Len(g) : y = g[k].msg
    BY <2>1, <1>2 DEF Held
  <2>2. CASE \E l \in 1 .. Len(d) : y = d[l]
    <3>1. PICK l \in 1 .. Len(d) : y = d[l]
      BY <2>2
    <3>2. CASE l \in 1 .. Len(b) /\ d[l] = b[l]
      BY <3>1, <3>2 DEF Held
    <3>3. CASE d[l] = x
      BY <3>1, <3>3, <1>3 DEF Held, x
    <3> QED BY <3>2, <3>3, <1>6
  <2> QED BY <2>1, <2>2 DEF Held
<1>12. PipeOK(g, b) /\ PipeOK(g, d)
  BY <1>1, <1>5, <1>7, <1>10 DEF PipeOK
<1> QED BY <1>1, <1>7, <1>11, <1>12 DEF g, d, x

\* A message that is read is no longer in the pipe.
LEMMA PipeTake ==
    ASSUME NEW f, NEW b, PipeOK(f, b), b # <<>>
    PROVE  /\ PipeOK(f, Tail(b)) /\ Held(f, Tail(b)) \subseteq Held(f, b)
           /\ Head(b) \in Held(f, b) /\ Head(b) \notin Held(f, Tail(b))
<1> DEFINE d == Tail(b)
<1>1. /\ d \in Seq(Message) /\ Len(d) = Len(b) - 1 /\ Len(b) \in Nat \ {0}
      /\ f \in Seq(Packet) /\ Len(f) \in Nat /\ Head(b) = b[1]
  BY DEF PipeOK
<1>2. \A l \in 1 .. Len(d) : d[l] = b[l + 1] /\ l + 1 \in 1 .. Len(b) /\ l + 1 # 1
  BY <1>1 DEF PipeOK
<1>3. 1 \in 1 .. Len(b)
  BY <1>1
<1> HIDE DEF d
<1>4. Different(f, d) /\ Held(f, d) \subseteq Held(f, b)
  BY <1>1, <1>2, SMTT(40) DEF PipeOK, Different, Held
<1>5. b[1] \in Held(f, b)
  BY <1>3 DEF Held
<1>6. b[1] \notin Held(f, d)
  BY <1>2, <1>3 DEF Held, PipeOK, Different
<1> QED BY <1>1, <1>4, <1>5, <1>6 DEF PipeOK, d

\* All pipes are in order.
PipesOK ==
    /\ next_seq \in [Senders -> [Satellites -> Nat]]
    /\ flight \in [Senders -> [Satellites -> Seq(Packet)]]
    /\ inbox \in [Satellites -> [Senders -> Seq(Message)]]
    /\ \A n \in Senders, m \in Satellites : PipeOK(flight[n][m], inbox[m][n])

\* What is under way on one pipe.
LEMMA WayAt ==
    ASSUME NEW n \in Senders, NEW m \in Satellites
    PROVE  /\ way[n][m] = Held(flight[n][m], inbox[m][n])
           /\ way'[n][m] = Held(flight'[n][m], inbox'[m][n])
  BY DEF way

\* Some pipes change, each as one of the lemmas above says.
LEMMA PipesMove ==
    ASSUME PipesOK, NEW more,
           next_seq' \in [Senders -> [Satellites -> Nat]],
           flight' \in [Senders -> [Satellites -> Seq(Packet)]],
           inbox' \in [Satellites -> [Senders -> Seq(Message)]],
           \A n \in Senders, m \in Satellites :
              /\ PipeOK(flight'[n][m], inbox'[m][n])
              /\ \A y \in Held(flight'[n][m], inbox'[m][n]) :
                    y \in Held(flight[n][m], inbox[m][n]) \/ <<n, m, y>> \in more
    PROVE  PipesOK' /\ Adds(more)
<1>1. PipesOK'
  BY DEF PipesOK
<1>2. Adds(more)
  <2> SUFFICES ASSUME NEW n \in Senders, NEW m \in Satellites, NEW y \in way'[n][m]
               PROVE  y \in way[n][m] \/ <<n, m, y>> \in more
    BY DEF Adds
  <2> QED BY WayAt
<1> QED BY <1>1, <1>2

\* The pipe from a to b changes to f in flight and d in the inbox.
LEMMA PipeMoves ==
    ASSUME PipesOK, NEW a \in Senders, NEW b \in Satellites, NEW f, NEW d, NEW more,
           next_seq' \in [Senders -> [Satellites -> Nat]],
           flight' = [flight EXCEPT ![a][b] = f], inbox' = [inbox EXCEPT ![b][a] = d],
           PipeOK(f, d),
           \A y \in Held(f, d) : y \in Held(flight[a][b], inbox[b][a]) \/ <<a, b, y>> \in more
    PROVE  PipesOK' /\ Adds(more)
<1>1. f \in Seq(Packet) /\ d \in Seq(Message)
  BY DEF PipeOK
<1>2. /\ flight' \in [Senders -> [Satellites -> Seq(Packet)]]
      /\ inbox' \in [Satellites -> [Senders -> Seq(Message)]]
  BY <1>1 DEF PipesOK
<1>3. ASSUME NEW n \in Senders, NEW m \in Satellites
      PROVE  /\ PipeOK(flight'[n][m], inbox'[m][n])
             /\ \A y \in Held(flight'[n][m], inbox'[m][n]) :
                   y \in Held(flight[n][m], inbox[m][n]) \/ <<n, m, y>> \in more
  <2>1. CASE n = a /\ m = b
    <3>1. flight'[n][m] = f /\ inbox'[m][n] = d
      BY <2>1 DEF PipesOK
    <3> QED BY <2>1, <3>1
  <2>2. CASE ~(n = a /\ m = b)
    <3>1. flight'[n][m] = flight[n][m] /\ inbox'[m][n] = inbox[m][n]
      BY <2>2 DEF PipesOK
    <3> QED BY <3>1 DEF PipesOK
  <2> QED BY <2>1, <2>2
<1> QED BY <1>2, <1>3, PipesMove

\* One end of a pipe stays as it is.
LEMMA PipeStays ==
    ASSUME PipesOK, NEW a \in Senders, NEW b \in Satellites
    PROVE  /\ flight = [flight EXCEPT ![a][b] = flight[a][b]]
           /\ inbox = [inbox EXCEPT ![b][a] = inbox[b][a]]
           /\ PipeOK(flight[a][b], inbox[b][a])
  BY DEF PipesOK

\* EndpointSender::send.
LEMMA SendMoves ==
    ASSUME PipesOK, NEW a \in Senders, NEW b \in Satellites, NEW x \in Message,
           flight' = [flight EXCEPT ![a][b] = Append(@, [seq |-> next_seq[a][b], msg |-> x])],
           next_seq' \in [Senders -> [Satellites -> Nat]], inbox' = inbox, x \notin way[a][b]
    PROVE  PipesOK' /\ Adds({<<a, b, x>>})
<1> DEFINE f == Append(flight[a][b], [seq |-> next_seq[a][b], msg |-> x])
<1>1. next_seq[a][b] \in Nat
  BY DEF PipesOK
<1>2. x \notin Held(flight[a][b], inbox[b][a])
  BY WayAt
<1>3. /\ PipeOK(f, inbox[b][a])
      /\ \A y \in Held(f, inbox[b][a]) : y \in Held(flight[a][b], inbox[b][a]) \/ y = x
  BY <1>1, <1>2, PipeStays, PipeSend
<1>4. flight' = [flight EXCEPT ![a][b] = f] /\ inbox' = [inbox EXCEPT ![b][a] = inbox[b][a]]
  BY PipeStays
<1> HIDE DEF f
<1> QED BY <1>3, <1>4, PipeMoves

\* EndpointSender::drop.
LEMMA DropMoves ==
    ASSUME PipesOK, NEW a \in Senders, NEW b \in Satellites, DropSender(a, b)
    PROVE  PipesOK' /\ Adds({})
<1>1. PICK k \in 0 .. Len(flight[a][b]) : flight' = [flight EXCEPT ![a][b] = SubSeq(@, 1, k)]
  BY DEF DropSender
<1> DEFINE f == SubSeq(flight[a][b], 1, k)
<1>2. next_seq' \in [Senders -> [Satellites -> Nat]] /\ inbox' = inbox
  BY DEF DropSender, PipesOK
<1>3. PipeOK(f, inbox[b][a]) /\ Held(f, inbox[b][a]) \subseteq Held(flight[a][b], inbox[b][a])
  BY PipeStays, PipeCut
<1>4. flight' = [flight EXCEPT ![a][b] = f] /\ inbox' = [inbox EXCEPT ![b][a] = inbox[b][a]]
  BY <1>1, <1>2, PipeStays
<1> HIDE DEF f
<1> QED BY <1>2, <1>3, <1>4, PipeMoves

\* The endpoint receives a packet.
LEMMA ArriveMoves ==
    ASSUME PipesOK, NEW a \in Senders, NEW b \in Satellites, Arrive(a, b)
    PROVE  PipesOK' /\ Adds({})
<1> DEFINE f == Tail(flight[a][b])
           d == Append(inbox[b][a], Head(flight[a][b]).msg)
<1>1. /\ flight[a][b] # <<>> /\ flight' = [flight EXCEPT ![a][b] = f]
      /\ next_seq' = next_seq
      /\ inbox' = inbox \/ inbox' = [inbox EXCEPT ![b][a] = d]
  BY DEF Arrive
<1>2. next_seq' \in [Senders -> [Satellites -> Nat]]
  BY <1>1 DEF PipesOK
<1>3. /\ PipeOK(f, inbox[b][a]) /\ Held(f, inbox[b][a]) \subseteq Held(flight[a][b], inbox[b][a])
      /\ PipeOK(f, d) /\ Held(f, d) \subseteq Held(flight[a][b], inbox[b][a])
  BY <1>1, PipeStays, PipeArrive
<1> HIDE DEF f, d
<1>4. CASE inbox' = inbox
  <2>1. inbox' = [inbox EXCEPT ![b][a] = inbox[b][a]]
    BY <1>4, PipeStays
  <2> QED BY <1>1, <1>2, <1>3, <2>1, PipeMoves
<1>5. CASE inbox' = [inbox EXCEPT ![b][a] = d]
  BY <1>1, <1>2, <1>3, <1>5, PipeMoves
<1> QED BY <1>1, <1>4, <1>5

\* The message x was on the pipe from m to n and was read.
Taken(n, m, x) == x \in way[m][n] /\ x \notin way'[m][n]

\* The listener hands over a message.
LEMMA TakeMoves ==
    ASSUME PipesOK, NEW b \in Satellites, NEW a \in Senders, Take(b, a),
           flight' = flight, next_seq' = next_seq
    PROVE  PipesOK' /\ Adds({}) /\ Taken(b, a, Head(inbox[b][a]))
<1> DEFINE d == Tail(inbox[b][a])
<1>1. inbox[b][a] # <<>> /\ inbox' = [inbox EXCEPT ![b][a] = d]
  BY DEF Take
<1>2. next_seq' \in [Senders -> [Satellites -> Nat]]
  BY DEF PipesOK
<1>3. /\ PipeOK(flight[a][b], d) /\ Held(flight[a][b], d) \subseteq Held(flight[a][b], inbox[b][a])
      /\ Head(inbox[b][a]) \in Held(flight[a][b], inbox[b][a])
      /\ Head(inbox[b][a]) \notin Held(flight[a][b], d)
  BY <1>1, PipeStays, PipeTake
<1>4. flight' = [flight EXCEPT ![a][b] = flight[a][b]]
  BY PipeStays
<1> HIDE DEF d
<1>5. PipesOK' /\ Adds({})
  BY <1>1, <1>2, <1>3, <1>4, PipeMoves
<1>6. flight'[a][b] = flight[a][b] /\ inbox'[b][a] = d
  BY <1>1 DEF PipesOK
<1> QED BY <1>3, <1>5, <1>6, WayAt DEF Taken

\* An update of one entry of a matrix, read back.
LEMMA EntryUpdated ==
    ASSUME NEW S, NEW T, NEW R, NEW g \in [S -> [T -> R]], NEW s \in S, NEW t \in T, NEW v
    PROVE  /\ [g EXCEPT ![s][t] = v][s][t] = v
           /\ \A i \in S, j \in T :
                 ~(i = s /\ j = t) => [g EXCEPT ![s][t] = v][i][j] = g[i][j]
  OBVIOUS

\* The listener hands over a message, which is sent on to another node.
LEMMA PassMoves ==
    ASSUME PipesOK, NEW n \in Satellites, NEW a \in Senders, NEW b \in Satellites, NEW x,
           Take(n, a), x = Head(inbox[n][a]), b # n, x \notin way[n][b],
           flight' = [flight EXCEPT ![n][b] = Append(@, [seq |-> next_seq[n][b], msg |-> x])],
           next_seq' = [next_seq EXCEPT ![n][b] = @ + 1]
    PROVE  PipesOK' /\ Adds({<<n, b, x>>}) /\ Taken(n, a, x)
<1> DEFINE d == Tail(inbox[n][a])
           f == Append(flight[n][b], [seq |-> next_seq[n][b], msg |-> x])
<1>1. inbox[n][a] # <<>> /\ inbox' = [inbox EXCEPT ![n][a] = d] /\ n \in Senders
  BY DEF Take, Senders
<1>2. next_seq' \in [Senders -> [Satellites -> Nat]] /\ next_seq[n][b] \in Nat
  <2>1. next_seq \in [Senders -> [Satellites -> Nat]]
    BY DEF PipesOK
  <2>2. next_seq[n] \in [Satellites -> Nat] /\ next_seq[n][b] \in Nat
    BY <1>1, <2>1
  <2> QED BY <1>1, <2>1, <2>2
<1>3. PipeOK(flight[a][n], inbox[n][a]) /\ PipeOK(flight[n][b], inbox[b][n])
  BY <1>1, PipeStays
<1>4. /\ PipeOK(flight[a][n], d) /\ Held(flight[a][n], d) \subseteq Held(flight[a][n], inbox[n][a])
      /\ x \in Held(flight[a][n], inbox[n][a]) /\ x \notin Held(flight[a][n], d)
  BY <1>1, <1>3, PipeTake
<1>5. x \in Message
  <2>1. Head(inbox[n][a]) \in Message
    BY <1>1, <1>3 DEF PipeOK
  <2> QED BY <2>1
<1>6. x \notin Held(flight[n][b], inbox[b][n])
  BY <1>1, WayAt
<1>7. /\ PipeOK(f, inbox[b][n])
      /\ \A y \in Held(f, inbox[b][n]) : y \in Held(flight[n][b], inbox[b][n]) \/ y = x
  BY <1>2, <1>3, <1>5, <1>6, PipeSend
<1>8. flight' = [flight EXCEPT ![n][b] = f]
  OBVIOUS
<1> HIDE DEF d, f
<1>9. d \in Seq(Message) /\ f \in Seq(Packet)
  BY <1>4, <1>7 DEF PipeOK
<1>10. /\ flight' \in [Senders -> [Satellites -> Seq(Packet)]]
       /\ inbox' \in [Satellites -> [Senders -> Seq(Message)]]
  <2>1. flight' \in [Senders -> [Satellites -> Seq(Packet)]]
    <3>1. flight \in [Senders -> [Satellites -> Seq(Packet)]]
      BY DEF PipesOK
    <3> HIDE DEF Packet
    <3>2. [flight EXCEPT ![n][b] = f] \in [Senders -> [Satellites -> Seq(Packet)]]
      BY <1>9, <3>1
    <3> QED BY <1>8, <3>2
  <2>2. inbox' \in [Satellites -> [Senders -> Seq(Message)]]
    BY <1>1, <1>9 DEF PipesOK
  <2> QED BY <2>1, <2>2
<1> DEFINE F == [flight EXCEPT ![n][b] = f]
           B == [inbox EXCEPT ![n][a] = d]
<1>u. /\ F[n][b] = f
      /\ \A i \in Senders, m \in Satellites : ~(i = n /\ m = b) => F[i][m] = flight[i][m]
      /\ B[n][a] = d
      /\ \A m \in Satellites, i \in Senders : ~(m = n /\ i = a) => B[m][i] = inbox[m][i]
  <2>1. /\ flight \in [Senders -> [Satellites -> Seq(Packet)]]
        /\ inbox \in [Satellites -> [Senders -> Seq(Message)]]
    BY DEF PipesOK
  <2>2. n \in Senders
    BY <1>1
  <2> HIDE DEF Packet, Message
  <2> QED BY <2>1, <2>2, EntryUpdated
<1>v. flight' = F /\ inbox' = B
  BY <1>1, <1>8
<1> HIDE DEF F, B
<1>11. flight'[a][n] = flight[a][n] /\ inbox'[n][a] = d
  BY <1>u, <1>v
<1>12. ASSUME NEW i \in Senders, NEW m \in Satellites
       PROVE  /\ PipeOK(flight'[i][m], inbox'[m][i])
              /\ \A y \in Held(flight'[i][m], inbox'[m][i]) :
                    y \in Held(flight[i][m], inbox[m][i]) \/ <<i, m, y>> \in {<<n, b, x>>}
  <2>1. CASE i = a /\ m = n
    BY <1>4, <1>11, <2>1
  <2>2. CASE i = n /\ m = b
    <3>1. flight'[i][m] = f /\ inbox'[m][i] = inbox[b][n]
      <4>1. F[n][b] = f
        BY <1>u
      <4>2. B[b][n] = inbox[b][n]
        BY <1>1, <1>u
      <4>3. flight'[n][b] = f /\ inbox'[b][n] = inbox[b][n]
        BY <1>v, <4>1, <4>2, Zenon
      <4> QED BY <2>2, <4>3, Zenon
    <3> QED BY <1>7, <2>2, <3>1
  <2>3. CASE ~(i = a /\ m = n) /\ ~(i = n /\ m = b)
    <3>1. flight'[i][m] = flight[i][m] /\ inbox'[m][i] = inbox[m][i]
      <4>1. F[i][m] = flight[i][m]
        BY <1>u, <2>3
      <4>2. B[m][i] = inbox[m][i]
        BY <1>u, <2>3
      <4> QED BY <1>v, <4>1, <4>2, Zenon
    <3> QED BY <3>1 DEF PipesOK
  <2> QED BY <2>1, <2>2, <2>3
<1>13. PipesOK' /\ Adds({<<n, b, x>>})
  BY <1>2, <1>10, <1>12, PipesMove
<1>14. way[a][n] = Held(flight[a][n], inbox[n][a]) /\ way'[a][n] = Held(flight'[a][n], inbox'[n][a])
  BY WayAt
<1> QED BY <1>4, <1>11, <1>13, <1>14 DEF Taken

-----------------------------------------------------------------------------
(* The invariant.                                                          *)

Plan(j) == JobPlan[j]

\* Satellite n works for job j in a role.
Busy(role, n, j) == node[n].role = role /\ node[n].job = j
Ended(role, n, j) == <<role, n, j>> \in ended

\* Where a message of each kind may be, and what must have happened before.
SubmitAt(n, m, x) ==
    \E j \in Jobs : x = SubmitMsg(j) /\ n = Ground /\ m = Plan(j).coordinator

AssignAt(n, m, x) ==
    \E j \in Jobs : \E s \in DOMAIN Assignments(j) :
        x = AssignMsg(j, s) /\ n = Plan(j).coordinator /\ m = AssignTo(j, s)

FromCollector(j, n, m) ==
    \E i \in DOMAIN Plan(j).collectors : n = Plan(j).collectors[i] /\ m = MapperOf(j, i)
FromMapper(j, n, m) == n \in Range(Plan(j).mappers) /\ m = Plan(j).reducer

DoneAt(n, m, x) ==
    \E j \in Jobs :
        /\ x = DoneMsg(j)
        /\ \/ FromCollector(j, n, m) /\ Ended("collect", n, j)
           \/ FromMapper(j, n, m) /\ Ended("map", n, j)

\* a chunk is on its way to the mapper, or, mapped, to the reducer
ChunkAt(n, m, x) ==
    \E j \in Jobs : \E i \in DOMAIN Plan(j).collectors, k \in Nat :
        LET c == <<Plan(j).collectors[i], j, k>> IN
        /\ x = ChunkMsg(c) /\ c \in collected
        /\ \/ n = c[1] /\ m = MapperOf(j, i) /\ c \notin mapped
           \/ /\ n = MapperOf(j, i) /\ m = Plan(j).reducer
              /\ c \in mapped /\ c \notin Range(reduced[j])

ResultAt(n, m, x) ==
    \E j \in Jobs : /\ x = ResultMsg(j) /\ n = Plan(j).reducer /\ m = Plan(j).coordinator
                    /\ Ended("reduce", n, j)

MessageAt(n, m, x) ==
    SubmitAt(n, m, x) \/ AssignAt(n, m, x) \/ DoneAt(n, m, x) \/ ChunkAt(n, m, x) \/ ResultAt(n, m, x)

MessagesInPlace ==
    \A n \in Senders, m \in Satellites : \A x \in way[n][m] : MessageAt(n, m, x)

\* The roles have the parameters of the plan.
Coordinates(n) ==
    /\ node[n] \in [role : {"coordinate"}, job : Jobs, step : Nat, waiting : BOOLEAN]
    /\ n = Plan(node[n].job).coordinator
    /\ node[n].step \in DOMAIN Assignments(node[n].job)
Collects(n) ==
    /\ node[n] \in [role : {"collect"}, job : Jobs, next : Satellites, chunks : Nat]
    /\ FromCollector(node[n].job, n, node[n].next)
Maps(n) ==
    /\ node[n] \in [role : {"map"}, job : Jobs, next : Satellites, count : Nat, done : Nat]
    /\ FromMapper(node[n].job, n, node[n].next)
    /\ node[n].count =
          Cardinality({i \in DOMAIN Plan(node[n].job).collectors : MapperOf(node[n].job, i) = n})
Reduces(n) ==
    /\ node[n] \in [role : {"reduce"}, job : Jobs, next : Satellites, count : Nat, done : Nat]
    /\ n = Plan(node[n].job).reducer /\ node[n].next = Plan(node[n].job).coordinator
    /\ node[n].count = Len(Plan(node[n].job).mappers)

RoleOK(n) ==
    \/ node[n] = Idle
    \/ node[n] \in [role : {"flush"}, next : Satellites]
    \/ Coordinates(n) \/ Collects(n) \/ Maps(n) \/ Reduces(n)

RolesFollowPlan ==
    /\ node = [n \in Satellites |-> node[n]]
    /\ \A n \in Satellites : RoleOK(n)

\* A role that is at work has not ended.
Work == {"collect", "map", "reduce"}
WorkNotEnded ==
    \A n \in Satellites, j \in Jobs, role \in Work : Busy(role, n, j) => ~Ended(role, n, j)

\* A role nobody has begun yet.
Unborn(role, n, j) ==
    /\ ~Busy(role, n, j) /\ ~Ended(role, n, j)
    /\ role = "collect" => \A k \in Nat : <<n, j, k>> \notin collected

\* The coordinator has assignment s of job j still to send.
Unsent(j, s) ==
    LET c == Plan(j).coordinator IN
    \/ <<Ground, j>> \notin ended
    \/ SubmitMsg(j) \in way[Ground][c]
    \/ Busy("coordinate", c, j) /\ (node[c].step < s \/ (node[c].step = s /\ ~node[c].waiting))

RoleOf(op) ==
    CASE op = "AssignCollector" -> "collect" [] op = "AssignMapper" -> "map" [] OTHER -> "reduce"

UnderWay(j, s) == AssignMsg(j, s) \in way[Plan(j).coordinator][AssignTo(j, s)]

\* Each job is submitted, and each of its roles assigned, only once.
SubmittedOnce(j) ==
    LET c == Plan(j).coordinator IN
    /\ <<Ground, j>> \notin ended => SubmitMsg(j) \notin way[Ground][c]
    /\ <<Ground, j>> \notin ended \/ SubmitMsg(j) \in way[Ground][c] => ~Busy("coordinate", c, j)
AssignedOnce(j) ==
    \A s \in DOMAIN Assignments(j) :
        /\ Unsent(j, s) => ~UnderWay(j, s)
        /\ Unsent(j, s) \/ UnderWay(j, s) => Unborn(RoleOf(AssignMsg(j, s).op), AssignTo(j, s), j)
AllOnce == \A j \in Jobs : SubmittedOnce(j) /\ AssignedOnce(j)

\* A collector numbers its chunks; what was mapped was collected.
ChunksNumbered ==
    /\ collected \subseteq Chunks /\ mapped \subseteq collected
    /\ \A n \in Satellites, j \in Jobs, k \in Nat :
          Busy("collect", n, j) /\ <<n, j, k>> \in collected => k < node[n].chunks

\* The PhaseDones counted so far came from different collectors, or mappers.
CollectorsCounted(n, j) ==
    \E D \in SUBSET {i \in DOMAIN Plan(j).collectors : MapperOf(j, i) = n} :
        /\ Cardinality(D) = node[n].done
        /\ \A i \in D : /\ Ended("collect", Plan(j).collectors[i], j)
                        /\ DoneMsg(j) \notin way[Plan(j).collectors[i]][n]
MappersCounted(n, j) ==
    \E D \in SUBSET (DOMAIN Plan(j).mappers) :
        /\ Cardinality(D) = node[n].done
        /\ \A k \in D : /\ Ended("map", Plan(j).mappers[k], j)
                        /\ DoneMsg(j) \notin way[Plan(j).mappers[k]][n]
DonesCounted ==
    \A n \in Satellites, j \in Jobs :
        /\ Busy("map", n, j) /\ j \notin failed => CollectorsCounted(n, j)
        /\ Busy("reduce", n, j) => MappersCounted(n, j)

\* the parts of PhasesInOrder
MapsFollow ==
    \A j \in Jobs : \A i \in DOMAIN Plan(j).collectors :
        Ended("map", MapperOf(j, i), j) /\ j \notin failed => Ended("collect", Plan(j).collectors[i], j)
ReduceFollows ==
    \A j \in Jobs : Ended("reduce", Plan(j).reducer, j) =>
        \A k \in DOMAIN Plan(j).mappers : Ended("map", Plan(j).mappers[k], j)
ResultsAreMapped ==
    /\ reduced \in [Jobs -> Seq(Chunks)]
    /\ \A j \in Jobs : IsInjective(reduced[j]) /\ Range(reduced[j]) \subseteq mapped

JobInv ==
    /\ PipesOK /\ MessagesInPlace /\ RolesFollowPlan /\ WorkNotEnded /\ AllOnce
    /\ ChunksNumbered /\ DonesCounted
    /\ MapsFollow /\ ReduceFollows /\ ResultsAreMapped

-----------------------------------------------------------------------------
(* The plan and its assignments.                                           *)

\* What plan() returns.
LEMMA PlanFacts ==
    ASSUME NEW j \in Jobs
    PROVE  /\ Plan(j).collectors \in Seq(Satellites) /\ IsInjective(Plan(j).collectors)
           /\ Plan(j).mappers \in Seq(Satellites) /\ IsInjective(Plan(j).mappers)
           /\ Plan(j).coordinator \in Satellites /\ Plan(j).reducer \in Satellites
           /\ \A i \in DOMAIN Plan(j).collectors :
                 /\ JobPlan[j].assignment[i] \in DOMAIN Plan(j).mappers
                 /\ Plan(j).collectors[i] \in Satellites
                 /\ MapperOf(j, i) \in Range(Plan(j).mappers)
                 /\ MapperOf(j, i) \in Satellites
           /\ \A k \in DOMAIN Plan(j).mappers : Plan(j).mappers[k] \in Satellites
           /\ Range(Plan(j).mappers) \subseteq Satellites
<1> USE DEF Plan
<1>1. /\ JobPlan[j].collectors \in Seq(Satellites) /\ IsInjective(JobPlan[j].collectors)
      /\ JobPlan[j].mappers \in Seq(Satellites) /\ IsInjective(JobPlan[j].mappers)
      /\ JobPlan[j].coordinator \in Satellites /\ JobPlan[j].reducer \in Satellites
      /\ JobPlan[j].assignment \in [DOMAIN JobPlan[j].collectors -> DOMAIN JobPlan[j].mappers]
  BY PlanAssumption DEF PlanAssumption
<1>2. \A i \in DOMAIN JobPlan[j].collectors : JobPlan[j].collectors[i] \in Satellites
  BY <1>1
<1>3. \A k \in DOMAIN JobPlan[j].mappers : JobPlan[j].mappers[k] \in Satellites
  BY <1>1
<1>4. \A i \in DOMAIN JobPlan[j].collectors : JobPlan[j].assignment[i] \in DOMAIN JobPlan[j].mappers
  BY <1>1
<1>5. \A i \in DOMAIN JobPlan[j].collectors :
         MapperOf(j, i) \in Range(JobPlan[j].mappers) /\ MapperOf(j, i) \in Satellites
  BY <1>3, <1>4 DEF MapperOf, Range
<1> QED BY <1>1, <1>2, <1>3, <1>4, <1>5 DEF Range

CollectMsg(j, i) == [op |-> "AssignCollector", job |-> j, next |-> MapperOf(j, i)]
MapMsg(j, k) ==
    [op |-> "AssignMapper", job |-> j, next |-> JobPlan[j].reducer, count |-> CollectorCount(j, k)]
ReduceMsg(j) ==
    [op |-> "AssignReducer", job |-> j, next |-> JobPlan[j].coordinator,
     count |-> Len(JobPlan[j].mappers)]

\* The assignments: collectors, mappers, reducer.
ToCollector(j, s) ==
    /\ s \in DOMAIN Plan(j).collectors
    /\ AssignTo(j, s) = Plan(j).collectors[s] /\ AssignMsg(j, s) = CollectMsg(j, s)
ToMapper(j, s, k) ==
    /\ k \in DOMAIN Plan(j).mappers
    /\ AssignTo(j, s) = Plan(j).mappers[k] /\ AssignMsg(j, s) = MapMsg(j, k)
ToReducer(j, s) ==
    /\ s = Len(Plan(j).collectors) + Len(Plan(j).mappers) + 1
    /\ AssignTo(j, s) = Plan(j).reducer /\ AssignMsg(j, s) = ReduceMsg(j)
AssignmentIs(j, s) ==
    ToCollector(j, s) \/ ToMapper(j, s, s - Len(Plan(j).collectors)) \/ ToReducer(j, s)

\* The messages of coordinator::run in their order, by their place in it.
LEMMA AssignmentKinds ==
    ASSUME NEW j \in Jobs
    PROVE  /\ DOMAIN Assignments(j) = 1 .. (Len(Plan(j).collectors) + Len(Plan(j).mappers) + 1)
           /\ Len(Plan(j).collectors) \in Nat /\ Len(Plan(j).mappers) \in Nat
           /\ Len(Assignments(j)) = Len(Plan(j).collectors) + Len(Plan(j).mappers) + 1
           /\ \A s \in DOMAIN Assignments(j) : AssignmentIs(j, s)
<1> DEFINE a == Len(Plan(j).collectors)
           b == Len(Plan(j).mappers)
           A == [i \in DOMAIN Plan(j).collectors |->
                    [to |-> Plan(j).collectors[i], msg |-> CollectMsg(j, i)]]
           B == [k \in DOMAIN Plan(j).mappers |->
                    [to |-> Plan(j).mappers[k], msg |-> MapMsg(j, k)]]
           c == [to |-> Plan(j).reducer, msg |-> ReduceMsg(j)]
           S == {A[i] : i \in 1 .. a} \cup {B[k] : k \in 1 .. b} \cup {c}
<1>1. Assignments(j) = A \o B \o <<c>>
  BY DEF Assignments, CollectMsg, MapMsg, ReduceMsg, Plan, MapperOf
<1>2. /\ a \in Nat /\ DOMAIN Plan(j).collectors = 1 .. a
      /\ b \in Nat /\ DOMAIN Plan(j).mappers = 1 .. b
  BY PlanFacts
<1>3. /\ \A i \in 1 .. a : A[i].to = Plan(j).collectors[i] /\ A[i].msg = CollectMsg(j, i)
      /\ \A k \in 1 .. b : B[k].to = Plan(j).mappers[k] /\ B[k].msg = MapMsg(j, k)
      /\ c.to = Plan(j).reducer /\ c.msg = ReduceMsg(j)
  BY <1>2
<1>4. DOMAIN A = 1 .. a /\ DOMAIN B = 1 .. b
  BY <1>2
<1>5. A = [i \in 1 .. a |-> A[i]] /\ B = [k \in 1 .. b |-> B[k]]
  BY <1>2
<1> HIDE DEF A, B, c, a, b
<1>6. A \in [1 .. a -> S] /\ B \in [1 .. b -> S] /\ c \in S
  <2>1. \A i \in 1 .. a : A[i] \in S
    OBVIOUS
  <2>2. \A k \in 1 .. b : B[k] \in S
    OBVIOUS
  <2> HIDE DEF S
  <2>3. A \in [1 .. a -> S]
    BY <2>1, <1>5
  <2>4. B \in [1 .. b -> S]
    BY <2>2, <1>5
  <2>5. c \in S
    BY DEF S
  <2> QED BY <2>3, <2>4, <2>5
<1> HIDE DEF S
<1>7. A \in Seq(S) /\ B \in Seq(S) /\ <<c>> \in Seq(S) /\ Len(A) = a /\ Len(B) = b
  <2>1. A \in Seq(S) /\ B \in Seq(S)
    BY <1>2, <1>6, SeqDef
  <2>2. Len(A) = a /\ Len(B) = b
    BY <1>2, <1>4, <2>1, LenProperties
  <2> QED BY <1>6, <2>1, <2>2
<1>8. /\ A \o B \in Seq(S) /\ Len(A \o B) = a + b
      /\ \A i \in 1 .. a + b : (A \o B)[i] = IF i <= a THEN A[i] ELSE B[i - a]
  BY <1>2, <1>7, ConcatProperties
<1> DEFINE AB == A \o B
<1> HIDE DEF AB
<1>9. /\ AB \o <<c>> \in Seq(S) /\ Len(AB \o <<c>>) = a + b + 1
      /\ \A i \in 1 .. a + b + 1 : (AB \o <<c>>)[i] = IF i <= a + b THEN AB[i] ELSE <<c>>[i - (a + b)]
  <2>1. AB \in Seq(S) /\ Len(AB) = a + b /\ <<c>> \in Seq(S) /\ Len(<<c>>) = 1
    BY <1>7, <1>8 DEF AB
  <2> QED BY <2>1, ConcatProperties
<1>10. DOMAIN Assignments(j) = 1 .. a + b + 1 /\ Len(Assignments(j)) = a + b + 1
  BY <1>1, <1>9 DEF AB
<1>11. ASSUME NEW s \in DOMAIN Assignments(j) PROVE AssignmentIs(j, s)
  <2>1. s \in 1 .. a + b + 1
    BY <1>10
  <2>2. CASE s \in 1 .. a
    <3>1. Assignments(j)[s] = A[s]
      BY <1>1, <1>2, <1>8, <1>9, <2>2 DEF AB
    <3> QED BY <1>2, <1>3, <2>2, <3>1 DEF AssignmentIs, ToCollector, ToReducer, AssignTo, AssignMsg
  <2>3. CASE s - a \in 1 .. b
    <3>1. Assignments(j)[s] = B[s - a]
      BY <1>1, <1>2, <1>8, <1>9, <2>1, <2>3 DEF AB
    <3>2. s - a \in DOMAIN Plan(j).mappers
      BY <1>2, <2>3
    <3>3. AssignTo(j, s) = Plan(j).mappers[s - a] /\ AssignMsg(j, s) = MapMsg(j, s - a)
      BY <1>3, <2>3, <3>1 DEF AssignTo, AssignMsg
    <3> QED BY <3>2, <3>3 DEF AssignmentIs, ToMapper, a
  <2>4. CASE s = a + b + 1
    <3>1. Assignments(j)[s] = c
      BY <1>1, <1>2, <1>9, <2>4 DEF AB
    <3> QED BY <1>3, <2>4, <3>1 DEF AssignmentIs, ToCollector, ToReducer, AssignTo, AssignMsg, a, b
  <2> QED BY <1>2, <2>1, <2>2, <2>3, <2>4
<1> QED BY <1>2, <1>10, <1>11 DEF a, b

\* The fields that tell the assignments apart.
LEMMA AssignmentFields ==
    ASSUME NEW j, NEW i
    PROVE  /\ CollectMsg(j, i).op = "AssignCollector" /\ CollectMsg(j, i).job = j
           /\ MapMsg(j, i).op = "AssignMapper" /\ MapMsg(j, i).job = j
           /\ ReduceMsg(j).op = "AssignReducer" /\ ReduceMsg(j).job = j
  BY DEF CollectMsg, MapMsg, ReduceMsg

\* The operation of an assignment tells whom it is for.
LEMMA AssignmentByOp ==
    ASSUME NEW j \in Jobs, NEW s \in DOMAIN Assignments(j)
    PROVE  /\ AssignMsg(j, s).op \in {"AssignCollector", "AssignMapper", "AssignReducer"}
           /\ AssignMsg(j, s).op = "AssignCollector" => ToCollector(j, s)
           /\ AssignMsg(j, s).op = "AssignMapper" => ToMapper(j, s, s - Len(Plan(j).collectors))
           /\ AssignMsg(j, s).op = "AssignReducer" => ToReducer(j, s)
           /\ AssignMsg(j, s).job = j
<1>1. AssignmentIs(j, s)
  BY AssignmentKinds
<1>2. CASE ToCollector(j, s)
  BY <1>2, AssignmentFields DEF ToCollector
<1>3. CASE ToMapper(j, s, s - Len(Plan(j).collectors))
  BY <1>3, AssignmentFields DEF ToMapper
<1>4. CASE ToReducer(j, s)
  <2>1. ReduceMsg(j).op = "AssignReducer" /\ ReduceMsg(j).job = j
    BY DEF ReduceMsg
  <2> QED BY <1>4, <2>1 DEF ToReducer
<1> QED BY <1>1, <1>2, <1>3, <1>4 DEF AssignmentIs

\* An assignment as a message; two of one job to one node are for different roles.
LEMMA AssignmentFacts ==
    ASSUME NEW j \in Jobs, NEW s \in DOMAIN Assignments(j)
    PROVE  /\ AssignTo(j, s) \in Satellites
           /\ AssignMsg(j, s).op \in {"AssignCollector", "AssignMapper", "AssignReducer"}
           /\ AssignMsg(j, s).job = j
           /\ AssignMsg(j, s) \in Message
           /\ RoleOf(AssignMsg(j, s).op) \in Work
<1>2. AssignTo(j, s) \in Satellites
  <2>1. /\ \A i \in DOMAIN Plan(j).collectors : Plan(j).collectors[i] \in Satellites
        /\ \A k \in DOMAIN Plan(j).mappers : Plan(j).mappers[k] \in Satellites
        /\ Plan(j).reducer \in Satellites
    BY PlanFacts
  <2>2. CASE AssignMsg(j, s).op = "AssignCollector"
    BY <2>1, <2>2, AssignmentByOp DEF ToCollector
  <2>3. CASE AssignMsg(j, s).op = "AssignMapper"
    BY <2>1, <2>3, AssignmentByOp DEF ToMapper
  <2>4. CASE AssignMsg(j, s).op = "AssignReducer"
    BY <2>1, <2>4, AssignmentByOp DEF ToReducer
  <2> QED BY <2>2, <2>3, <2>4, AssignmentByOp
<1>3. /\ AssignMsg(j, s).op \in {"AssignCollector", "AssignMapper", "AssignReducer"}
      /\ AssignMsg(j, s).job = j
  BY AssignmentByOp
<1>4. AssignMsg(j, s) \in Message
  BY DEF Message
<1>5. RoleOf(AssignMsg(j, s).op) \in Work
  BY <1>3 DEF RoleOf, Work
<1> QED BY <1>2, <1>3, <1>4, <1>5

\* No node gets two assignments of a job for the same role.
LEMMA AssignmentsApart ==
    ASSUME NEW j \in Jobs, NEW s \in DOMAIN Assignments(j), NEW t \in DOMAIN Assignments(j),
           AssignTo(j, s) = AssignTo(j, t),
           RoleOf(AssignMsg(j, s).op) = RoleOf(AssignMsg(j, t).op)
    PROVE  s = t
<1>2. /\ AssignMsg(j, s).op = AssignMsg(j, t).op
  BY AssignmentFacts DEF RoleOf
<1>3. IsInjective(Plan(j).collectors) /\ IsInjective(Plan(j).mappers)
  BY PlanFacts
<1>4. /\ s \in Int /\ t \in Int
      /\ Len(Plan(j).collectors) \in Nat /\ Len(Plan(j).mappers) \in Nat
  BY AssignmentKinds
<1>5. CASE AssignMsg(j, s).op = "AssignCollector"
  <2>1. /\ s \in DOMAIN Plan(j).collectors /\ AssignTo(j, s) = Plan(j).collectors[s]
    BY <1>5, AssignmentByOp DEF ToCollector
  <2>2. /\ t \in DOMAIN Plan(j).collectors /\ AssignTo(j, t) = Plan(j).collectors[t]
    <3>1. AssignMsg(j, t).op = "AssignCollector"
      BY <1>2, <1>5
    <3>2. ToCollector(j, t)
      BY <3>1, AssignmentByOp
    <3> QED BY <3>2 DEF ToCollector
  <2> QED BY <1>3, <2>1, <2>2 DEF IsInjective
<1>6. CASE AssignMsg(j, s).op = "AssignMapper"
  <2>1. /\ s - Len(Plan(j).collectors) \in DOMAIN Plan(j).mappers
        /\ t - Len(Plan(j).collectors) \in DOMAIN Plan(j).mappers
        /\ Plan(j).mappers[s - Len(Plan(j).collectors)] = Plan(j).mappers[t - Len(Plan(j).collectors)]
    <3>1. /\ s - Len(Plan(j).collectors) \in DOMAIN Plan(j).mappers
          /\ AssignTo(j, s) = Plan(j).mappers[s - Len(Plan(j).collectors)]
      BY <1>6, AssignmentByOp DEF ToMapper
    <3>2. /\ t - Len(Plan(j).collectors) \in DOMAIN Plan(j).mappers
          /\ AssignTo(j, t) = Plan(j).mappers[t - Len(Plan(j).collectors)]
      BY <1>2, <1>6, AssignmentByOp DEF ToMapper
    <3> QED BY <3>1, <3>2
  <2>2. s - Len(Plan(j).collectors) = t - Len(Plan(j).collectors)
    BY <1>3, <2>1 DEF IsInjective
  <2> QED BY <1>4, <2>2
<1>7. CASE AssignMsg(j, s).op = "AssignReducer"
  BY <1>2, <1>7, AssignmentByOp DEF ToReducer
<1> QED BY <1>5, <1>6, <1>7, AssignmentFacts

-----------------------------------------------------------------------------
(* What most steps leave as it is.                                         *)

\* The operation tells the kind of a message.
LEMMA MessageByOp ==
    ASSUME NEW n, NEW m, NEW x, MessageAt(n, m, x)
    PROVE  /\ x.job \in Jobs
           /\ x.op = "SubmitJob" => SubmitAt(n, m, x)
           /\ x.op \in {"AssignCollector", "AssignMapper", "AssignReducer"} => AssignAt(n, m, x)
           /\ x.op = "PhaseDone" => DoneAt(n, m, x)
           /\ x.op = "DataChunk" => ChunkAt(n, m, x) \/ ResultAt(n, m, x)
           /\ x.op \in {"SubmitJob", "AssignCollector", "AssignMapper", "AssignReducer",
                        "PhaseDone", "DataChunk"}
<1>1. CASE SubmitAt(n, m, x)
  <2>1. x.op = "SubmitJob" /\ x.job \in Jobs
    BY <1>1 DEF SubmitAt, SubmitMsg
  <2> QED BY <1>1, <2>1
<1>2. CASE AssignAt(n, m, x)
  <2>1. PICK j \in Jobs : \E s \in DOMAIN Assignments(j) : x = AssignMsg(j, s)
    BY <1>2 DEF AssignAt
  <2>2. x.op \in {"AssignCollector", "AssignMapper", "AssignReducer"} /\ x.job = j
    BY <2>1, AssignmentFacts
  <2> QED BY <1>2, <2>2
<1>3. CASE DoneAt(n, m, x)
  <2>1. x.op = "PhaseDone" /\ x.job \in Jobs
    BY <1>3 DEF DoneAt, DoneMsg
  <2> QED BY <1>3, <2>1
<1>4. CASE ChunkAt(n, m, x)
  <2>1. PICK j \in Jobs : \E i \in DOMAIN Plan(j).collectors, k \in Nat :
            x = ChunkMsg(<<Plan(j).collectors[i], j, k>>)
    BY <1>4 DEF ChunkAt
  <2>2. x.op = "DataChunk" /\ x.job = j
    BY <2>1 DEF ChunkMsg
  <2> QED BY <1>4, <2>2
<1>5. CASE ResultAt(n, m, x)
  <2>1. x.op = "DataChunk" /\ x.job \in Jobs
    BY <1>5 DEF ResultAt, ResultMsg
  <2> QED BY <1>5, <2>1
<1> QED BY <1>1, <1>2, <1>3, <1>4, <1>5 DEF MessageAt

\* A message stays where it may be as chunks are collected and roles end.
LEMMA MessageStays ==
    ASSUME NEW n, NEW m, NEW x, MessageAt(n, m, x),
           ended \subseteq ended', collected \subseteq collected', mapped' = mapped, reduced' = reduced
    PROVE  MessageAt(n, m, x)'
<1>1. SubmitAt(n, m, x) => SubmitAt(n, m, x)'
  BY DEF SubmitAt
<1>2. AssignAt(n, m, x) => AssignAt(n, m, x)'
  BY DEF AssignAt
<1>3. DoneAt(n, m, x) => DoneAt(n, m, x)'
  BY DEF DoneAt, Ended
<1>4. ChunkAt(n, m, x) => ChunkAt(n, m, x)'
  BY DEF ChunkAt
<1>5. ResultAt(n, m, x) => ResultAt(n, m, x)'
  BY DEF ResultAt, Ended
<1> QED BY <1>1, <1>2, <1>3, <1>4, <1>5 DEF MessageAt

\* The messages stay in place when those that a step adds are.
LEMMA MessagesKept ==
    ASSUME MessagesInPlace, NEW more, Adds(more),
           ended \subseteq ended', collected \subseteq collected', mapped' = mapped, reduced' = reduced,
           \A n, m, x : <<n, m, x>> \in more => MessageAt(n, m, x)'
    PROVE  MessagesInPlace'
<1> SUFFICES ASSUME NEW n \in Senders, NEW m \in Satellites, NEW x \in way'[n][m]
             PROVE  MessageAt(n, m, x)'
  BY DEF MessagesInPlace
<1>1. x \in way[n][m] \/ <<n, m, x>> \in more
  BY DEF Adds
<1>2. CASE x \in way[n][m]
  <2>1. MessageAt(n, m, x)
    BY <1>2 DEF MessagesInPlace
  <2> QED BY <2>1, MessageStays
<1> QED BY <1>1, <1>2

\* No role is begun: a satellite that is busy, or ended, was busy.
NoneBegins ==
    /\ \A n \in Satellites : node'[n].role = "coordinate" => node'[n] = node[n]
    /\ \A n \in Satellites, j \in Jobs, role \in Work :
          Busy(role, n, j)' \/ Ended(role, n, j)' => Busy(role, n, j) \/ Ended(role, n, j)
    /\ \A n \in Satellites, j \in Jobs, k \in Nat :
          <<n, j, k>> \in collected' => <<n, j, k>> \in collected \/ Busy("collect", n, j)
    /\ \A j \in Jobs : <<Ground, j>> \in ended' <=> <<Ground, j>> \in ended

\* A step that begins no role and gives no order keeps every role assigned at most once.
LEMMA OnceKept ==
    ASSUME AllOnce, NEW more, Adds(more), NoneBegins,
           \A n, m, x : <<n, m, x>> \in more => x.op \in {"DataChunk", "PhaseDone"}
    PROVE  AllOnce'
<1> SUFFICES ASSUME NEW j \in Jobs PROVE SubmittedOnce(j)' /\ AssignedOnce(j)'
  BY DEF AllOnce
<1> DEFINE c == Plan(j).coordinator
<1>1. c \in Satellites /\ Ground \in Senders /\ c \in Senders
  BY PlanFacts DEF Senders
<1>2. SubmittedOnce(j) /\ AssignedOnce(j)
  BY DEF AllOnce
<1>3. SubmitMsg(j) \in way'[Ground][c] => SubmitMsg(j) \in way[Ground][c]
  <2>1. SubmitMsg(j).op = "SubmitJob"
    BY DEF SubmitMsg
  <2> QED BY <1>1, <2>1 DEF Adds
<1>4. ASSUME NEW s \in DOMAIN Assignments(j), UnderWay(j, s)' PROVE UnderWay(j, s)
  <2>1. AssignMsg(j, s).op \notin {"DataChunk", "PhaseDone"} /\ AssignTo(j, s) \in Satellites
    BY AssignmentFacts
  <2> HIDE DEF c
  <2>2. AssignMsg(j, s) \in way'[c][AssignTo(j, s)]
    BY <1>4 DEF UnderWay, c
  <2>3. AssignMsg(j, s) \in way[c][AssignTo(j, s)]
    BY <1>1, <2>1, <2>2 DEF Adds
  <2> QED BY <2>3 DEF UnderWay, c
<1>5. Busy("coordinate", c, j)' => Busy("coordinate", c, j) /\ node'[c] = node[c]
  BY <1>1 DEF NoneBegins, Busy
<1>6. <<Ground, j>> \in ended' <=> <<Ground, j>> \in ended
  BY DEF NoneBegins
<1>7. \A s \in DOMAIN Assignments(j) : Unsent(j, s)' => Unsent(j, s)
  BY <1>3, <1>5, <1>6 DEF Unsent
<1>8. ASSUME NEW n \in Satellites, NEW role \in Work, Unborn(role, n, j)
      PROVE  Unborn(role, n, j)'
  <2>1. ~Busy(role, n, j)' /\ ~Ended(role, n, j)'
    BY <1>8 DEF NoneBegins, Unborn
  <2>2. ASSUME role = "collect", NEW k \in Nat PROVE <<n, j, k>> \notin collected'
    BY <1>8, <2>2 DEF NoneBegins, Unborn
  <2> QED BY <2>1, <2>2 DEF Unborn
<1>9. SubmittedOnce(j)'
  BY <1>2, <1>3, <1>5, <1>6 DEF SubmittedOnce
<1>10. ASSUME NEW s \in DOMAIN Assignments(j)
       PROVE  /\ Unsent(j, s)' => ~UnderWay(j, s)'
              /\ Unsent(j, s)' \/ UnderWay(j, s)' =>
                    Unborn(RoleOf(AssignMsg(j, s).op), AssignTo(j, s), j)'
  <2>1. RoleOf(AssignMsg(j, s).op) \in Work /\ AssignTo(j, s) \in Satellites
    BY AssignmentFacts
  <2>2. /\ Unsent(j, s) => ~UnderWay(j, s)
        /\ Unsent(j, s) \/ UnderWay(j, s) => Unborn(RoleOf(AssignMsg(j, s).op), AssignTo(j, s), j)
    BY <1>2 DEF AssignedOnce
  <2> QED BY <1>4, <1>7, <1>8, <2>1, <2>2
<1>11. AssignedOnce(j)'
  BY <1>10 DEF AssignedOnce
<1> QED BY <1>9, <1>11

\* A satellite in a role has its place in the plan.
LEMMA BusyPlace ==
    ASSUME RolesFollowPlan, NEW n \in Satellites, NEW j \in Jobs
    PROVE  /\ Busy("coordinate", n, j) => Coordinates(n)
           /\ Busy("collect", n, j) => Collects(n) /\ FromCollector(j, n, node[n].next)
           /\ Busy("map", n, j) => /\ Maps(n) /\ n \in Range(Plan(j).mappers)
                                   /\ node[n].next = Plan(j).reducer
           /\ Busy("reduce", n, j) => Reduces(n) /\ n = Plan(j).reducer
<1>1. RoleOK(n)
  BY DEF RolesFollowPlan
<1>2. Idle.role = "idle"
  BY DEF Idle
<1> QED
  BY <1>1, <1>2 DEF RoleOK, Busy, Coordinates, Collects, Maps, Reduces, FromMapper

\* A PhaseDone is sent by a role that has not ended.
DonesSent(more) ==
    \A n \in Senders, m \in Satellites, j \in Jobs :
        <<n, m, DoneMsg(j)>> \in more =>
            \/ FromCollector(j, n, m) /\ ~Ended("collect", n, j)
            \/ FromMapper(j, n, m) /\ ~Ended("map", n, j)

\* What is counted stays: a role goes on as it was, or ends.
RolesGoOn(n, j) ==
    /\ Busy("map", n, j)' /\ j \notin failed' => Busy("map", n, j) /\ node'[n].done = node[n].done
    /\ Busy("reduce", n, j)' => Busy("reduce", n, j) /\ node'[n].done = node[n].done

\* The PhaseDones a mapper has counted stay those of different collectors that ended.
LEMMA MapCountKept ==
    ASSUME DonesCounted, RolesFollowPlan, ReducerApart, NEW more, Adds(more), DonesSent(more),
           ended \subseteq ended', failed \subseteq failed',
           NEW n \in Satellites, NEW j \in Jobs,
           Busy("map", n, j), j \notin failed', node'[n].done = node[n].done
    PROVE  CollectorsCounted(n, j)'
<1>1. PICK D \in SUBSET {i \in DOMAIN Plan(j).collectors : MapperOf(j, i) = n} :
        /\ Cardinality(D) = node[n].done
        /\ \A i \in D : /\ Ended("collect", Plan(j).collectors[i], j)
                        /\ DoneMsg(j) \notin way[Plan(j).collectors[i]][n]
  <2>1. CollectorsCounted(n, j)
    BY DEF DonesCounted
  <2> QED BY <2>1 DEF CollectorsCounted
<1>2. n \in Range(Plan(j).mappers) /\ n # Plan(j).reducer
  BY BusyPlace DEF ReducerApart, Plan
<1>3. ASSUME NEW i \in D
      PROVE  /\ Ended("collect", Plan(j).collectors[i], j)'
             /\ DoneMsg(j) \notin way'[Plan(j).collectors[i]][n]
  <2> DEFINE a == Plan(j).collectors[i]
  <2>1. a \in Satellites /\ a \in Senders
    BY PlanFacts DEF Senders
  <2>2. Ended("collect", a, j) /\ DoneMsg(j) \notin way[a][n]
    BY <1>1
  <2> HIDE DEF a
  <2>3. Ended("collect", a, j)'
    BY <2>2 DEF Ended
  <2>4. DoneMsg(j) \notin way'[a][n]
    <3> SUFFICES ASSUME DoneMsg(j) \in way'[a][n] PROVE FALSE
      OBVIOUS
    <3>1. <<a, n, DoneMsg(j)>> \in more
      BY <2>1, <2>2 DEF Adds
    <3> QED BY <1>2, <2>1, <2>2, <3>1 DEF DonesSent, FromMapper
  <2> QED BY <2>3, <2>4 DEF a
<1> QED BY <1>1, <1>3 DEF CollectorsCounted

\* The PhaseDones a reducer has counted stay those of different mappers that ended.
LEMMA ReduceCountKept ==
    ASSUME DonesCounted, RolesFollowPlan, ReducerApart, NEW more, Adds(more), DonesSent(more),
           ended \subseteq ended',
           NEW n \in Satellites, NEW j \in Jobs, Busy("reduce", n, j), node'[n].done = node[n].done
    PROVE  MappersCounted(n, j)'
<1>1. PICK D \in SUBSET (DOMAIN Plan(j).mappers) :
        /\ Cardinality(D) = node[n].done
        /\ \A k \in D : /\ Ended("map", Plan(j).mappers[k], j)
                        /\ DoneMsg(j) \notin way[Plan(j).mappers[k]][n]
  <2>1. MappersCounted(n, j)
    BY DEF DonesCounted
  <2> QED BY <2>1 DEF MappersCounted
<1>2. n = Plan(j).reducer /\ n \notin Range(Plan(j).mappers)
  BY BusyPlace DEF ReducerApart, Plan
<1>3. ASSUME NEW k \in D
      PROVE  /\ Ended("map", Plan(j).mappers[k], j)'
             /\ DoneMsg(j) \notin way'[Plan(j).mappers[k]][n]
  <2> DEFINE a == Plan(j).mappers[k]
  <2>1. a \in Satellites /\ a \in Senders
    BY PlanFacts DEF Senders
  <2>2. Ended("map", a, j) /\ DoneMsg(j) \notin way[a][n]
    BY <1>1
  <2> HIDE DEF a
  <2>3. Ended("map", a, j)'
    BY <2>2 DEF Ended
  <2>4. DoneMsg(j) \notin way'[a][n]
    <3> SUFFICES ASSUME DoneMsg(j) \in way'[a][n] PROVE FALSE
      OBVIOUS
    <3>1. <<a, n, DoneMsg(j)>> \in more
      BY <2>1, <2>2 DEF Adds
    <3>2. ~FromCollector(j, a, n)
      BY <1>2, PlanFacts DEF FromCollector
    <3> QED BY <2>1, <2>2, <3>1, <3>2 DEF DonesSent
  <2> QED BY <2>3, <2>4 DEF a
<1> QED BY <1>1, <1>3 DEF MappersCounted

\* So the counts stay right when every role goes on as it was, or ends.
LEMMA CountsKept ==
    ASSUME DonesCounted, RolesFollowPlan, ReducerApart, NEW more, Adds(more), DonesSent(more),
           ended \subseteq ended', failed \subseteq failed',
           \A n \in Satellites, j \in Jobs : RolesGoOn(n, j)
    PROVE  DonesCounted'
<1> SUFFICES ASSUME NEW n \in Satellites, NEW j \in Jobs
             PROVE  /\ Busy("map", n, j)' /\ j \notin failed' => CollectorsCounted(n, j)'
                    /\ Busy("reduce", n, j)' => MappersCounted(n, j)'
  BY DEF DonesCounted
<1>1. RolesGoOn(n, j)
  OBVIOUS
<1> QED BY <1>1, MapCountKept, ReduceCountKept DEF RolesGoOn

-----------------------------------------------------------------------------
(* Steps that begin no role and map and reduce nothing.                    *)

\* What such a step has to show.
LEMMA WorkerStep ==
    ASSUME JobInv, PipesOK', NEW more, Adds(more), NoneBegins,
           ended \subseteq ended', collected \subseteq collected', collected' \subseteq Chunks,
           mapped' = mapped, reduced' = reduced,
           \A n, m, x : <<n, m, x>> \in more =>
              x.op \in {"DataChunk", "PhaseDone"} /\ MessageAt(n, m, x)',
           RolesFollowPlan', WorkNotEnded', DonesCounted', MapsFollow', ReduceFollows',
           \A n \in Satellites, j \in Jobs, k \in Nat :
              Busy("collect", n, j)' /\ <<n, j, k>> \in collected' => k < node'[n].chunks
    PROVE  JobInv'
<1>1. MessagesInPlace'
  BY MessagesKept DEF JobInv
<1>2. AllOnce'
  BY OnceKept DEF JobInv
<1>3. ChunksNumbered'
  BY DEF JobInv, ChunksNumbered
<1>4. ResultsAreMapped'
  BY DEF JobInv, ResultsAreMapped
<1> QED BY <1>1, <1>2, <1>3, <1>4 DEF JobInv

\* The role tells the kind of a satellite.
LEMMA RoleKind ==
    ASSUME RolesFollowPlan, NEW n \in Satellites
    PROVE  /\ node[n].role = "coordinate" => Coordinates(n)
           /\ node[n].role = "collect" => Collects(n)
           /\ node[n].role = "map" => Maps(n)
           /\ node[n].role = "reduce" => Reduces(n)
           /\ node[n].role = "flush" => node[n].next \in Satellites
<1>1. RoleOK(n)
  BY DEF RolesFollowPlan
<1>2. Idle.role = "idle"
  BY DEF Idle
<1> QED BY <1>1, <1>2 DEF RoleOK, Coordinates, Collects, Maps, Reduces

\* The numbers of the senders stay numbers.
LEMMA SeqTypes ==
    ASSUME PipesOK, NEW n \in Senders, NEW m \in Satellites
    PROVE  /\ [next_seq EXCEPT ![n][m] = @ + 1] \in [Senders -> [Satellites -> Nat]]
           /\ [next_seq EXCEPT ![n][m] = 0] \in [Senders -> [Satellites -> Nat]]
<1>1. next_seq \in [Senders -> [Satellites -> Nat]]
  BY DEF PipesOK
<1>2. next_seq[n][m] + 1 \in Nat
  BY <1>1
<1> QED BY <1>1, <1>2

\* The role of one satellite changes.
LEMMA NodeChange ==
    ASSUME RolesFollowPlan, NEW n \in Satellites, NEW r, node' = [node EXCEPT ![n] = r], RoleOK(n)'
    PROVE  /\ RolesFollowPlan' /\ node'[n] = r
           /\ \A i \in Satellites \ {n} : node'[i] = node[i]
<1>1. node = [i \in Satellites |-> node[i]]
  BY DEF RolesFollowPlan
<1>2. node'[n] = r /\ \A i \in Satellites \ {n} : node'[i] = node[i]
  BY <1>1
<1>3. node' = [i \in Satellites |-> node'[i]]
  BY <1>1
<1>4. \A i \in Satellites \ {n} : RoleOK(i) => RoleOK(i)'
  BY <1>2 DEF RoleOK, Coordinates, Collects, Maps, Reduces
<1> QED BY <1>2, <1>3, <1>4 DEF RolesFollowPlan

\* The value of node[n] after a change.
LEMMA NodeValue ==
    ASSUME RolesFollowPlan, NEW n \in Satellites, NEW r, node' = [node EXCEPT ![n] = r]
    PROVE  node'[n] = r /\ \A i \in Satellites \ {n} : node'[i] = node[i]
<1>1. node = [i \in Satellites |-> node[i]]
  BY DEF RolesFollowPlan
<1> QED BY <1>1

\* The phases in order, when no role ends but those for which it is shown.
LEMMA FollowKept ==
    ASSUME MapsFollow, ReduceFollows, ended' = ended, failed \subseteq failed'
    PROVE  MapsFollow' /\ ReduceFollows'
  BY DEF MapsFollow, ReduceFollows, Ended

\* A satellite becomes idle, or nothing but messages changes.
LEMMA QuietJobStep ==
    ASSUME JobInv, ReducerApart, PipesOK', Adds({}), UNCHANGED job_history,
           node' = node \/ \E n \in Satellites : node' = [node EXCEPT ![n] = Idle]
    PROVE  JobInv'
<1>1. RolesFollowPlan /\ AllOnce /\ WorkNotEnded /\ ChunksNumbered /\ DonesCounted /\ MapsFollow /\ ReduceFollows
  BY DEF JobInv
<1>2. /\ ended' = ended /\ collected' = collected /\ mapped' = mapped /\ reduced' = reduced
      /\ failed' = failed
  BY DEF job_history
<1>3. RolesFollowPlan' /\ \A i \in Satellites : node'[i] = node[i] \/ node'[i] = Idle
  <2>1. CASE node' = node
    <3>1. \A i \in Satellites : RoleOK(i) => RoleOK(i)'
      BY <2>1 DEF RoleOK, Coordinates, Collects, Maps, Reduces
    <3>2. RolesFollowPlan'
      BY <1>1, <2>1, <3>1 DEF RolesFollowPlan
    <3> QED BY <2>1, <3>2
  <2>2. CASE \E n \in Satellites : node' = [node EXCEPT ![n] = Idle]
    <3> PICK n \in Satellites : node' = [node EXCEPT ![n] = Idle]
      BY <2>2
    <3>1. node'[n] = Idle
      BY <1>1, NodeValue
    <3>2. RoleOK(n)'
      BY <3>1 DEF RoleOK
    <3> QED BY <1>1, <3>2, NodeChange
  <2> QED BY <2>1, <2>2
<1>4. \A i \in Satellites : node'[i] = node[i] \/ node'[i].role = "idle"
  BY <1>3 DEF Idle
<1>5. NoneBegins
  BY <1>2, <1>4 DEF NoneBegins, Busy, Ended, Work
<1>6. WorkNotEnded'
  BY <1>1, <1>2, <1>4 DEF WorkNotEnded, Busy, Ended, Work
<1>7. DonesSent({})
  BY DEF DonesSent
<1>8. \A i \in Satellites, j \in Jobs : RolesGoOn(i, j)
  BY <1>4 DEF RolesGoOn, Busy
<1>9. DonesCounted'
  BY <1>1, <1>2, <1>7, <1>8, CountsKept
<1>10. MapsFollow' /\ ReduceFollows'
  BY <1>1, <1>2, FollowKept
<1>11. \A i \in Satellites, j \in Jobs, k \in Nat :
          Busy("collect", i, j)' /\ <<i, j, k>> \in collected' => k < node'[i].chunks
  BY <1>1, <1>2, <1>4 DEF ChunksNumbered, Busy
<1>12. collected' \subseteq Chunks
  BY <1>1, <1>2 DEF ChunksNumbered
<1> QED BY <1>2, <1>3, <1>5, <1>6, <1>9, <1>10, <1>11, <1>12, WorkerStep

\* Chunks and results are told apart.
LEMMA ChunkFields ==
    ASSUME NEW c
    PROVE  /\ ChunkMsg(c).op = "DataChunk" /\ ChunkMsg(c).chunk = c /\ ChunkMsg(c).job = c[2]
           /\ \A j : ChunkMsg(c) # ResultMsg(j)
<1>1. DOMAIN ChunkMsg(c) = {"op", "job", "chunk"}
  BY DEF ChunkMsg
<1>2. \A j : DOMAIN ResultMsg(j) = {"op", "job"}
  BY DEF ResultMsg
<1>3. \A j : ChunkMsg(c) # ResultMsg(j)
  BY <1>1, <1>2
<1> QED BY <1>3 DEF ChunkMsg

\* Where a chunk is under way, it was collected.
LEMMA ChunkPlace ==
    ASSUME NEW n, NEW m, NEW c, MessageAt(n, m, ChunkMsg(c))
    PROVE  \E j \in Jobs : \E i \in DOMAIN Plan(j).collectors, k \in Nat :
              /\ c = <<Plan(j).collectors[i], j, k>> /\ c \in collected
              /\ \/ n = c[1] /\ m = MapperOf(j, i) /\ c \notin mapped
                 \/ /\ n = MapperOf(j, i) /\ m = Plan(j).reducer
                    /\ c \in mapped /\ c \notin Range(reduced[j])
<1>1. ChunkMsg(c).op = "DataChunk" /\ \A j : ChunkMsg(c) # ResultMsg(j)
  BY ChunkFields
<1>2. ChunkAt(n, m, ChunkMsg(c))
  BY <1>1, MessageByOp DEF ResultAt
<1>3. PICK j \in Jobs : \E i \in DOMAIN Plan(j).collectors, k \in Nat :
          LET d == <<Plan(j).collectors[i], j, k>> IN
          /\ ChunkMsg(c) = ChunkMsg(d) /\ d \in collected
          /\ \/ n = d[1] /\ m = MapperOf(j, i) /\ d \notin mapped
             \/ /\ n = MapperOf(j, i) /\ m = Plan(j).reducer
                /\ d \in mapped /\ d \notin Range(reduced[j])
  BY <1>2 DEF ChunkAt
<1>4. PICK i \in DOMAIN Plan(j).collectors, k \in Nat :
          LET d == <<Plan(j).collectors[i], j, k>> IN
          /\ ChunkMsg(c) = ChunkMsg(d) /\ d \in collected
          /\ \/ n = d[1] /\ m = MapperOf(j, i) /\ d \notin mapped
             \/ /\ n = MapperOf(j, i) /\ m = Plan(j).reducer
                /\ d \in mapped /\ d \notin Range(reduced[j])
  BY <1>3
<1>5. c = <<Plan(j).collectors[i], j, k>>
  BY <1>4, ChunkFields
<1> QED BY <1>4, <1>5

\* Collect: a new chunk on its way to the mapper.
LEMMA CollectKeeps ==
    ASSUME JobInv, ReducerApart, NEW n \in Satellites, Collect(n)
    PROVE  JobInv'
<1>0. PICK j, b, k, c : j = node[n].job /\ b = node[n].next /\ k = node[n].chunks /\ c = <<n, j, k>>
  OBVIOUS
<1>1. RolesFollowPlan /\ AllOnce /\ WorkNotEnded /\ ChunksNumbered /\ DonesCounted /\ MapsFollow
      /\ ReduceFollows /\ PipesOK /\ MessagesInPlace
  BY DEF JobInv
<1>2. Collects(n)
  BY <1>1, RoleKind DEF Collect
<1>3. j \in Jobs /\ b \in Satellites /\ k \in Nat /\ Busy("collect", n, j) /\ FromCollector(j, n, b)
  BY <1>0, <1>2 DEF Collects, Busy
<1>4. /\ flight' = [flight EXCEPT ![n][b] = Append(@, [seq |-> next_seq[n][b], msg |-> ChunkMsg(c)])]
      /\ next_seq' = [next_seq EXCEPT ![n][b] = @ + 1] /\ inbox' = inbox
      /\ node' = [node EXCEPT ![n] = [node[n] EXCEPT !.chunks = @ + 1]]
      /\ collected' = collected \cup {c} /\ mapped' = mapped /\ reduced' = reduced
      /\ ended' = ended /\ failed' = failed
  BY <1>0 DEF Collect, Send, ChunkMsg
<1>5. c \notin collected
  BY <1>0, <1>1, <1>3 DEF ChunksNumbered
<1>6. n \in Senders /\ c \in Chunks
  BY <1>0, <1>3 DEF Senders, Chunks
<1>7. ChunkMsg(c) \in Message
  BY <1>6 DEF Message
<1>8. ChunkMsg(c) \notin way[n][b]
  <2> SUFFICES ASSUME ChunkMsg(c) \in way[n][b] PROVE FALSE
    OBVIOUS
  <2>1. MessageAt(n, b, ChunkMsg(c))
    BY <1>1, <1>3, <1>6 DEF MessagesInPlace
  <2> QED BY <1>5, <2>1, ChunkPlace
<1>9. next_seq' \in [Senders -> [Satellites -> Nat]]
  BY <1>1, <1>3, <1>4, <1>6, SeqTypes
<1> DEFINE more == {<<n, b, ChunkMsg(c)>>}
<1>10. PipesOK' /\ Adds(more)
  BY <1>1, <1>3, <1>4, <1>6, <1>7, <1>8, <1>9, SendMoves
<1>11. node'[n] = [node[n] EXCEPT !.chunks = @ + 1] /\ \A i \in Satellites \ {n} : node'[i] = node[i]
  BY <1>1, <1>4, NodeValue
<1>12. /\ node'[n].role = "collect" /\ node'[n].job = j /\ node'[n].next = b /\ node'[n].chunks = k + 1
       /\ node'[n] \in [role : {"collect"}, job : Jobs, next : Satellites, chunks : Nat]
  BY <1>0, <1>2, <1>11 DEF Collects
<1>13. RoleOK(n)'
  BY <1>0, <1>3, <1>12 DEF RoleOK, Collects
<1>14. RolesFollowPlan'
  BY <1>1, <1>4, <1>13, NodeChange
<1>15. \A i \in Satellites : \A role, jj : Busy(role, i, jj)' <=> Busy(role, i, jj)
  BY <1>3, <1>11, <1>12 DEF Busy
<1>16. NoneBegins
  <2>1. \A i \in Satellites : node'[i].role = "coordinate" => node'[i] = node[i]
    BY <1>11, <1>12
  <2>2. \A i \in Satellites, jj \in Jobs, kk \in Nat :
           <<i, jj, kk>> \in collected' => <<i, jj, kk>> \in collected \/ Busy("collect", i, jj)
    BY <1>0, <1>3, <1>4
  <2> QED BY <1>4, <1>15, <2>1, <2>2 DEF NoneBegins, Ended
<1>17. WorkNotEnded'
  BY <1>1, <1>4, <1>15 DEF WorkNotEnded, Ended
<1>18. MessageAt(n, b, ChunkMsg(c))'
  <2>1. PICK i \in DOMAIN Plan(j).collectors : n = Plan(j).collectors[i] /\ b = MapperOf(j, i)
    BY <1>3, SMTT(40) DEF FromCollector
  <2>2. c \in collected' /\ c \notin mapped' /\ c = <<Plan(j).collectors[i], j, k>> /\ c[1] = n
    BY <1>0, <1>1, <1>4, <1>5, <2>1 DEF ChunksNumbered
  <2>3. \E i0 \in DOMAIN Plan(j).collectors, k0 \in Nat :
           LET d == <<Plan(j).collectors[i0], j, k0>> IN
           /\ ChunkMsg(c) = ChunkMsg(d) /\ d \in collected'
           /\ n = d[1] /\ b = MapperOf(j, i0) /\ d \notin mapped'
    BY <1>3, <2>1, <2>2
  <2>4. ChunkAt(n, b, ChunkMsg(c))'
    BY <1>3, <2>3 DEF ChunkAt
  <2> QED BY <2>4 DEF MessageAt
<1>19. ChunkMsg(c).op = "DataChunk"
  BY ChunkFields
<1>20. DonesSent(more)
  BY <1>19 DEF DonesSent, DoneMsg
<1>21. \A i \in Satellites, jj \in Jobs : RolesGoOn(i, jj)
  BY <1>11, <1>12, <1>15 DEF RolesGoOn, Busy
<1>22. DonesCounted'
  BY <1>1, <1>4, <1>10, <1>20, <1>21, CountsKept
<1>23. MapsFollow' /\ ReduceFollows'
  BY <1>1, <1>4, FollowKept
<1>24. \A i \in Satellites, jj \in Jobs, kk \in Nat :
          Busy("collect", i, jj)' /\ <<i, jj, kk>> \in collected' => kk < node'[i].chunks
  <2> SUFFICES ASSUME NEW i \in Satellites, NEW jj \in Jobs, NEW kk \in Nat,
                      Busy("collect", i, jj)', <<i, jj, kk>> \in collected'
               PROVE  kk < node'[i].chunks
    OBVIOUS
  <2>1. CASE i = n
    <3>1. jj = j
      BY <1>12, <2>1 DEF Busy
    <3>2. <<i, jj, kk>> \in collected => kk < k
      BY <1>0, <1>1, <1>3, <2>1, <3>1 DEF ChunksNumbered
    <3>3. <<i, jj, kk>> = c => kk = k
      BY <1>0
    <3> QED BY <1>3, <1>4, <1>12, <2>1, <3>2, <3>3
  <2>2. CASE i # n
    <3>1. <<i, jj, kk>> \in collected /\ node'[i] = node[i] /\ Busy("collect", i, jj)
      BY <1>0, <1>4, <1>11, <1>15, <2>2
    <3> QED BY <1>1, <3>1 DEF ChunksNumbered
  <2> QED BY <2>1, <2>2
<1>25. collected' \subseteq Chunks
  BY <1>1, <1>4, <1>6 DEF ChunksNumbered
<1>26. \A a, m, x : <<a, m, x>> \in more => x.op \in {"DataChunk", "PhaseDone"} /\ MessageAt(a, m, x)'
  <2>1. \A a, m, x : <<a, m, x>> \in more => a = n /\ m = b /\ x = ChunkMsg(c)
    OBVIOUS
  <2> QED BY <1>18, <1>19, <2>1
<1> HIDE DEF more
<1> QED
  BY <1>4, <1>10, <1>14, <1>16, <1>17, <1>22, <1>23, <1>24, <1>25, <1>26, WorkerStep

\* A role that ends: the satellite is in none afterwards.
LEMMA EndFrame ==
    ASSUME JobInv, NEW n \in Satellites, NEW role \in Work, NEW j \in Jobs, Busy(role, n, j),
           ended' = ended \cup {<<role, n, j>>}, UNCHANGED <<collected, failed>>,
           node'[n].role \in {"idle", "flush"},
           \A i \in Satellites \ {n} : node'[i] = node[i]
    PROVE  /\ NoneBegins /\ WorkNotEnded'
           /\ \A i \in Satellites, jj \in Jobs : RolesGoOn(i, jj)
           /\ \A i \in Satellites, jj \in Jobs, k \in Nat :
                 Busy("collect", i, jj)' /\ <<i, jj, k>> \in collected' => k < node'[i].chunks
<1>1. WorkNotEnded /\ ChunksNumbered
  BY DEF JobInv
<1>2. ASSUME NEW i \in Satellites, NEW r \in Work \cup {"coordinate"}, NEW jj, Busy(r, i, jj)'
      PROVE  i # n /\ node'[i] = node[i] /\ Busy(r, i, jj)
  <2>1. i # n
    BY <1>2 DEF Busy, Work
  <2> QED BY <1>2, <2>1 DEF Busy
<1>3. ASSUME NEW i \in Satellites, NEW r \in Work, NEW jj \in Jobs, Ended(r, i, jj)'
      PROVE  Ended(r, i, jj) \/ (r = role /\ i = n /\ jj = j)
  BY <1>3 DEF Ended
<1>4. NoneBegins
  <2>1. \A i \in Satellites : node'[i].role = "coordinate" => node'[i] = node[i]
    BY DEF Work
  <2>2. ASSUME NEW i \in Satellites, NEW jj \in Jobs, NEW r \in Work, Busy(r, i, jj)' \/ Ended(r, i, jj)'
        PROVE  Busy(r, i, jj) \/ Ended(r, i, jj)
    BY <1>2, <1>3, <2>2
  <2>3. \A jj \in Jobs : <<Ground, jj>> # <<role, n, j>>
    OBVIOUS
  <2>4. \A jj \in Jobs : <<Ground, jj>> \in ended' <=> <<Ground, jj>> \in ended
    BY <2>3
  <2> QED BY <2>1, <2>2, <2>4 DEF NoneBegins
<1>5. WorkNotEnded'
  <2> SUFFICES ASSUME NEW i \in Satellites, NEW jj \in Jobs, NEW r \in Work, Busy(r, i, jj)'
               PROVE  ~Ended(r, i, jj)'
    BY DEF WorkNotEnded
  <2> QED BY <1>1, <1>2, <1>3 DEF WorkNotEnded
<1>6. \A i \in Satellites, jj \in Jobs : RolesGoOn(i, jj)
  BY <1>2 DEF RolesGoOn, Work
<1>7. ASSUME NEW i \in Satellites, NEW jj \in Jobs, NEW k \in Nat,
             Busy("collect", i, jj)', <<i, jj, k>> \in collected'
      PROVE  k < node'[i].chunks
  <2>1. node'[i] = node[i] /\ Busy("collect", i, jj)
    BY <1>2, <1>7 DEF Work
  <2> QED BY <1>1, <1>7, <2>1 DEF ChunksNumbered
<1> QED BY <1>4, <1>5, <1>6, <1>7

\* A PhaseDone under way was sent by a role that ended.
LEMMA DonePlace ==
    ASSUME NEW n, NEW m, NEW j, MessageAt(n, m, DoneMsg(j))
    PROVE  \/ FromCollector(j, n, m) /\ Ended("collect", n, j)
           \/ FromMapper(j, n, m) /\ Ended("map", n, j)
<1>1. DoneMsg(j).op = "PhaseDone" /\ DoneMsg(j).job = j
  BY DEF DoneMsg
<1>2. DoneAt(n, m, DoneMsg(j))
  BY <1>1, MessageByOp
<1>3. PICK jj \in Jobs :
        /\ DoneMsg(j) = DoneMsg(jj)
        /\ \/ FromCollector(jj, n, m) /\ Ended("collect", n, jj)
           \/ FromMapper(jj, n, m) /\ Ended("map", n, jj)
  BY <1>2 DEF DoneAt
<1>4. jj = j
  BY <1>1, <1>3 DEF DoneMsg
<1> QED BY <1>3, <1>4

\* SpaceCompTx::done, by a collector or a mapper.
LEMMA SignalDoneKeeps ==
    ASSUME JobInv, ReducerApart, NEW n \in Satellites, NEW j \in Jobs, NEW role \in {"collect", "map"},
           Busy(role, n, j), SignalDone(n), UNCHANGED <<collected, mapped, reduced, failed>>,
           MapsFollow', ReduceFollows'
    PROVE  JobInv'
<1>1. RolesFollowPlan /\ WorkNotEnded /\ ChunksNumbered /\ DonesCounted /\ PipesOK /\ MessagesInPlace
  BY DEF JobInv
<1>2. PICK b \in Satellites : b = node[n].next
  BY <1>1, RoleKind DEF Busy, Collects, Maps
<1>3. /\ role = "collect" => FromCollector(j, n, b)
      /\ role = "map" => FromMapper(j, n, b)
  BY <1>1, <1>2, BusyPlace DEF FromMapper
<1>4. node[n].role = role /\ node[n].job = j /\ role \in Work
  BY DEF Busy, Work
<1>5. /\ flight' = [flight EXCEPT ![n][b] = Append(@, [seq |-> next_seq[n][b], msg |-> DoneMsg(j)])]
      /\ next_seq' = [next_seq EXCEPT ![n][b] = @ + 1] /\ inbox' = inbox
      /\ node' = [node EXCEPT ![n] = [role |-> "flush", next |-> b]]
      /\ ended' = ended \cup {<<role, n, j>>}
  BY <1>2, <1>4 DEF SignalDone, Send, DoneMsg
<1>6. n \in Senders /\ DoneMsg(j) \in Message /\ DoneMsg(j).op = "PhaseDone"
  BY DEF Senders, Message, DoneMsg
<1>7. ~Ended(role, n, j)
  BY <1>1, <1>4 DEF WorkNotEnded
<1>8. FromCollector(j, n, b) => ~FromMapper(j, n, b)
  BY PlanFacts DEF FromCollector, FromMapper, ReducerApart, Plan
<1>9. DoneMsg(j) \notin way[n][b]
  <2> SUFFICES ASSUME DoneMsg(j) \in way[n][b] PROVE FALSE
    OBVIOUS
  <2>1. MessageAt(n, b, DoneMsg(j))
    BY <1>1, <1>6 DEF MessagesInPlace
  <2> QED BY <1>3, <1>7, <1>8, <2>1, DonePlace
<1>10. next_seq' \in [Senders -> [Satellites -> Nat]]
  BY <1>1, <1>5, <1>6, SeqTypes
<1> DEFINE more == {<<n, b, DoneMsg(j)>>}
<1>11. PipesOK' /\ Adds(more)
  BY <1>1, <1>5, <1>6, <1>9, <1>10, SendMoves
<1>12. node'[n] = [role |-> "flush", next |-> b] /\ \A i \in Satellites \ {n} : node'[i] = node[i]
  BY <1>1, <1>5, NodeValue
<1>13. RoleOK(n)'
  BY <1>12 DEF RoleOK
<1>14. RolesFollowPlan'
  BY <1>1, <1>5, <1>13, NodeChange
<1>15. /\ NoneBegins /\ WorkNotEnded'
       /\ \A i \in Satellites, jj \in Jobs : RolesGoOn(i, jj)
       /\ \A i \in Satellites, jj \in Jobs, k \in Nat :
             Busy("collect", i, jj)' /\ <<i, jj, k>> \in collected' => k < node'[i].chunks
  <2>1. node'[n].role \in {"idle", "flush"}
    BY <1>12
  <2> QED BY <1>4, <1>5, <1>12, <2>1, EndFrame
<1>16. Ended(role, n, j)'
  BY <1>5 DEF Ended
<1>17. MessageAt(n, b, DoneMsg(j))'
  BY <1>3, <1>16 DEF MessageAt, DoneAt
<1>18. \A a, m, x : <<a, m, x>> \in more => a = n /\ m = b /\ x = DoneMsg(j)
  OBVIOUS
<1> HIDE DEF more
<1>19. DonesSent(more)
  <2> SUFFICES ASSUME NEW a, NEW m, NEW jj \in Jobs, <<a, m, DoneMsg(jj)>> \in more
               PROVE  \/ FromCollector(jj, a, m) /\ ~Ended("collect", a, jj)
                      \/ FromMapper(jj, a, m) /\ ~Ended("map", a, jj)
    BY DEF DonesSent
  <2>1. a = n /\ m = b /\ DoneMsg(jj) = DoneMsg(j)
    BY <1>18
  <2>2. jj = j
    BY <2>1 DEF DoneMsg
  <2> QED BY <1>3, <1>7, <2>1, <2>2
<1>20. DonesCounted'
  BY <1>1, <1>5, <1>11, <1>15, <1>19, CountsKept
<1>21. collected' \subseteq Chunks
  BY <1>1 DEF ChunksNumbered
<1>22. \A a, m, x : <<a, m, x>> \in more => x.op \in {"DataChunk", "PhaseDone"} /\ MessageAt(a, m, x)'
  BY <1>6, <1>17, <1>18
<1> QED
  BY <1>5, <1>11, <1>14, <1>15, <1>20, <1>21, <1>22, WorkerStep

\* a role that is not a mapper's, or the reducer's, ends
LEMMA CollectDoneKeeps ==
    ASSUME JobInv, ReducerApart, NEW n \in Satellites, CollectDone(n)
    PROVE  JobInv'
<1>1. RolesFollowPlan /\ MapsFollow /\ ReduceFollows
  BY DEF JobInv
<1>2. Collects(n) /\ node[n].role = "collect"
  BY <1>1, RoleKind DEF CollectDone
<1>3. PICK j \in Jobs : j = node[n].job
  BY <1>2 DEF Collects
<1>4. ended' = ended \cup {<<"collect", n, j>>} /\ failed' = failed
  BY <1>2, <1>3 DEF CollectDone, SignalDone
<1>5. MapsFollow' /\ ReduceFollows'
  <2>1. \A m, jj : Ended("map", m, jj)' <=> Ended("map", m, jj)
    BY <1>4 DEF Ended
  <2>2. \A m, jj : Ended("reduce", m, jj)' <=> Ended("reduce", m, jj)
    BY <1>4 DEF Ended
  <2>3. \A m, jj : Ended("collect", m, jj) => Ended("collect", m, jj)'
    BY <1>4 DEF Ended
  <2> QED BY <1>1, <1>4, <2>1, <2>2, <2>3 DEF MapsFollow, ReduceFollows
<1>6. Busy("collect", n, j)
  BY <1>2, <1>3 DEF Busy
<1>7. SignalDone(n) /\ UNCHANGED <<collected, mapped, reduced, failed>>
  BY DEF CollectDone
<1> QED BY <1>5, <1>6, <1>7, SignalDoneKeeps

\* A mapper that counted all its collectors ends after them.
LEMMA MapDoneKeeps ==
    ASSUME JobInv, ReducerApart, NEW n \in Satellites, MapDone(n)
    PROVE  JobInv'
<1>1. RolesFollowPlan /\ MapsFollow /\ ReduceFollows /\ DonesCounted
  BY DEF JobInv
<1>2. Maps(n) /\ node[n].role = "map"
  BY <1>1, RoleKind DEF MapDone
<1>3. PICK j \in Jobs : j = node[n].job
  BY <1>2 DEF Maps
<1>4. ended' = ended \cup {<<"map", n, j>>} /\ failed' = failed
  BY <1>2, <1>3 DEF MapDone, SignalDone
<1>5. Busy("map", n, j)
  BY <1>2, <1>3 DEF Busy
<1>6. \A m, jj : /\ Ended("map", m, jj)' => Ended("map", m, jj) \/ (m = n /\ jj = j)
                 /\ Ended("map", m, jj) => Ended("map", m, jj)'
  BY <1>4 DEF Ended
<1>7. \A m, jj : Ended("reduce", m, jj)' <=> Ended("reduce", m, jj)
  BY <1>4 DEF Ended
<1>8. \A m, jj : Ended("collect", m, jj)' <=> Ended("collect", m, jj)
  BY <1>4 DEF Ended
<1>9. ASSUME j \notin failed, NEW i \in DOMAIN Plan(j).collectors, MapperOf(j, i) = n
      PROVE  Ended("collect", Plan(j).collectors[i], j)
  <2> DEFINE all == {k \in DOMAIN Plan(j).collectors : MapperOf(j, k) = n}
  <2>1. PICK D \in SUBSET all :
          /\ Cardinality(D) = node[n].done
          /\ \A k \in D : Ended("collect", Plan(j).collectors[k], j)
    <3>1. CollectorsCounted(n, j)
      BY <1>1, <1>5, <1>9 DEF DonesCounted
    <3> QED BY <3>1 DEF CollectorsCounted
  <2>2. IsFiniteSet(all)
    <3>1. all \subseteq 1 .. Len(Plan(j).collectors) /\ Len(Plan(j).collectors) \in Nat
      BY PlanFacts
    <3>2. IsFiniteSet(1 .. Len(Plan(j).collectors))
      BY <3>1, FS_Interval
    <3> QED BY <3>1, <3>2, FS_Subset
  <2>3. Cardinality(all) = node[n].count
    BY <1>2, <1>3 DEF Maps
  <2>4. node[n].count <= node[n].done /\ node[n].count \in Nat /\ node[n].done \in Nat
    BY <1>2 DEF MapDone, Receiving, Maps
  <2>5. i \in all
    BY <1>9
  <2> HIDE DEF all
  <2>6. Cardinality(D) <= Cardinality(all) /\ (Cardinality(all) = Cardinality(D) => all = D)
    BY <2>2, FS_Subset
  <2>7. all = D
    BY <2>1, <2>3, <2>4, <2>6
  <2> QED BY <2>1, <2>5, <2>7
<1>10. MapsFollow'
  <2> SUFFICES ASSUME NEW jj \in Jobs, NEW i \in DOMAIN Plan(jj).collectors,
                      Ended("map", MapperOf(jj, i), jj)', jj \notin failed'
               PROVE  Ended("collect", Plan(jj).collectors[i], jj)'
    BY DEF MapsFollow
  <2>1. CASE Ended("map", MapperOf(jj, i), jj)
    BY <1>1, <1>4, <1>8, <2>1 DEF MapsFollow
  <2>2. CASE MapperOf(jj, i) = n /\ jj = j
    BY <1>4, <1>8, <1>9, <2>2
  <2> QED BY <1>6, <2>1, <2>2
<1>11. ReduceFollows'
  BY <1>1, <1>6, <1>7 DEF ReduceFollows
<1>12. SignalDone(n) /\ UNCHANGED <<collected, mapped, reduced, failed>>
  BY DEF MapDone
<1> QED BY <1>5, <1>10, <1>11, <1>12, SignalDoneKeeps

\* A result under way is that of a reducer that ended.
LEMMA ResultPlace ==
    ASSUME NEW n, NEW m, NEW j, MessageAt(n, m, ResultMsg(j))
    PROVE  n = Plan(j).reducer /\ Ended("reduce", n, j)
<1>1. ResultMsg(j).op = "DataChunk" /\ ResultMsg(j).job = j
  BY DEF ResultMsg
<1>2. ~ChunkAt(n, m, ResultMsg(j))
  BY ChunkFields DEF ChunkAt
<1>3. ResultAt(n, m, ResultMsg(j))
  BY <1>1, <1>2, MessageByOp
<1>4. PICK jj \in Jobs : ResultMsg(j) = ResultMsg(jj) /\ n = Plan(jj).reducer /\ Ended("reduce", n, jj)
  BY <1>3 DEF ResultAt
<1>5. jj = j
  BY <1>1, <1>4 DEF ResultMsg
<1> QED BY <1>4, <1>5

\* The reducer ends after all mappers; its result may be cut off.
LEMMA ReduceReturnKeeps ==
    ASSUME JobInv, ReducerApart, NEW n \in Satellites, ReduceReturn(n)
    PROVE  JobInv'
<1>1. RolesFollowPlan /\ WorkNotEnded /\ ChunksNumbered /\ DonesCounted /\ PipesOK /\ MessagesInPlace
      /\ MapsFollow /\ ReduceFollows
  BY DEF JobInv
<1>2. Reduces(n) /\ node[n].role = "reduce"
  BY <1>1, RoleKind DEF ReduceReturn
<1>3. PICK j \in Jobs, b \in Satellites : j = node[n].job /\ b = node[n].next
  BY <1>2 DEF Reduces
<1>4. n = Plan(j).reducer /\ b = Plan(j).coordinator
  BY <1>2, <1>3 DEF Reduces
<1>5. Busy("reduce", n, j) /\ "reduce" \in Work
  BY <1>2, <1>3, SMTT(40) DEF Busy, Work
<1> DEFINE p == [seq |-> next_seq[n][b], msg |-> ResultMsg(j)]
<1>6. /\ \E k \in 0 .. 1 : flight' = [flight EXCEPT ![n][b] = @ \o SubSeq(<<p>>, 1, k)]
      /\ next_seq' = [next_seq EXCEPT ![n][b] = 0] /\ inbox' = inbox
      /\ node' = [node EXCEPT ![n] = Idle]
      /\ ended' = ended \cup {<<"reduce", n, j>>}
      /\ UNCHANGED <<collected, mapped, reduced, failed>>
  BY <1>3 DEF ReduceReturn, ResultMsg
<1>7. n \in Senders /\ ResultMsg(j) \in Message /\ ResultMsg(j).op = "DataChunk"
  BY DEF Senders, Message, ResultMsg
<1>8. ~Ended("reduce", n, j)
  BY <1>1, <1>5 DEF WorkNotEnded
<1>9. ResultMsg(j) \notin way[n][b]
  <2> SUFFICES ASSUME ResultMsg(j) \in way[n][b] PROVE FALSE
    OBVIOUS
  <2>1. MessageAt(n, b, ResultMsg(j))
    BY <1>1, <1>7 DEF MessagesInPlace
  <2> QED BY <1>8, <2>1, ResultPlace
<1>10. next_seq' \in [Senders -> [Satellites -> Nat]]
  BY <1>1, <1>6, <1>7, SeqTypes
<1> DEFINE more == {<<n, b, ResultMsg(j)>>}
<1>11. PipesOK' /\ Adds(more)
  <2>1. PICK k \in 0 .. 1 : flight' = [flight EXCEPT ![n][b] = @ \o SubSeq(<<p>>, 1, k)]
    BY <1>6
  <2>2. p \in Packet /\ flight[n][b] \in Seq(Packet)
    BY <1>1, <1>7 DEF PipesOK, Packet
  <2>3. CASE k = 0
    <3>1. SubSeq(<<p>>, 1, 0) = <<>>
      OBVIOUS
    <3> HIDE DEF p
    <3>2. flight[n][b] \o SubSeq(<<p>>, 1, k) = flight[n][b]
      BY <2>2, <2>3, <3>1
    <3>3. flight' = [flight EXCEPT ![n][b] = flight[n][b]]
      BY <2>1, <3>2
    <3>4. inbox' = [inbox EXCEPT ![b][n] = inbox[b][n]]
      BY <1>1, <1>6, <1>7, PipeStays
    <3> HIDE DEF more
    <3> QED BY <1>1, <1>7, <1>10, <3>3, <3>4, PipeStays, PipeMoves, ZenonT(60)
  <2>4. CASE k = 1
    <3>1. SubSeq(<<p>>, 1, 1) = <<p>>
      <4> HIDE DEF p
      <4>1. <<p>> \in Seq(Packet) /\ Len(<<p>>) = 1
        BY <2>2
      <4>2. SubSeq(<<p>>, 1, Len(<<p>>)) = <<p>>
        BY <4>1, SubSeqFull
      <4> QED BY <4>1, <4>2
    <3>2. flight[n][b] \o <<p>> = Append(flight[n][b], p)
      BY <2>2
    <3>3. flight' = [flight EXCEPT ![n][b] = Append(flight[n][b], p)]
      BY <2>1, <2>4, <3>1, <3>2
    <3> QED BY <1>1, <1>6, <1>7, <1>9, <1>10, <3>3, SendMoves
  <2> QED BY <2>3, <2>4
<1> HIDE DEF p
<1>12. node'[n] = Idle /\ \A i \in Satellites \ {n} : node'[i] = node[i]
  BY <1>1, <1>6, NodeValue
<1>13. RoleOK(n)'
  BY <1>12 DEF RoleOK
<1>14. RolesFollowPlan'
  BY <1>1, <1>6, <1>13, NodeChange
<1>15. /\ NoneBegins /\ WorkNotEnded'
       /\ \A i \in Satellites, jj \in Jobs : RolesGoOn(i, jj)
       /\ \A i \in Satellites, jj \in Jobs, k \in Nat :
             Busy("collect", i, jj)' /\ <<i, jj, k>> \in collected' => k < node'[i].chunks
  <2>1. node'[n].role \in {"idle", "flush"}
    BY <1>12 DEF Idle
  <2> QED BY <1>5, <1>6, <1>12, <2>1, EndFrame
<1>16. Ended("reduce", n, j)'
  BY <1>6 DEF Ended
<1>17. MessageAt(n, b, ResultMsg(j))'
  BY <1>4, <1>16 DEF MessageAt, ResultAt
<1>18. \A a, m, x : <<a, m, x>> \in more => a = n /\ m = b /\ x = ResultMsg(j)
  OBVIOUS
<1> HIDE DEF more
<1>19. DonesSent(more)
  BY <1>7, <1>18 DEF DonesSent, DoneMsg
<1>20. DonesCounted'
  BY <1>1, <1>6, <1>11, <1>15, <1>19, CountsKept
<1>21. collected' \subseteq Chunks
  BY <1>1, <1>6 DEF ChunksNumbered
<1>22. \A a, m, x : <<a, m, x>> \in more => x.op \in {"DataChunk", "PhaseDone"} /\ MessageAt(a, m, x)'
  BY <1>7, <1>17, <1>18
<1>23. \A m, jj : Ended("map", m, jj)' <=> Ended("map", m, jj)
  BY <1>6 DEF Ended
<1>24. \A m, jj : Ended("collect", m, jj)' <=> Ended("collect", m, jj)
  BY <1>6 DEF Ended
<1>25. \A m, jj : Ended("reduce", m, jj)' => Ended("reduce", m, jj) \/ (m = n /\ jj = j)
  BY <1>6 DEF Ended
<1>26. \A k \in DOMAIN Plan(j).mappers : Ended("map", Plan(j).mappers[k], j)
  <2> DEFINE all == DOMAIN Plan(j).mappers
  <2>1. PICK D \in SUBSET all :
          Cardinality(D) = node[n].done /\ \A k \in D : Ended("map", Plan(j).mappers[k], j)
    <3>1. MappersCounted(n, j)
      BY <1>1, <1>5 DEF DonesCounted
    <3> QED BY <3>1 DEF MappersCounted
  <2>2. all = 1 .. Len(Plan(j).mappers) /\ Len(Plan(j).mappers) \in Nat
    BY PlanFacts
  <2>3. node[n].count = Len(Plan(j).mappers) /\ node[n].count <= node[n].done /\ node[n].done \in Nat
    <3>1. /\ node[n] \in [role : {"reduce"}, job : Jobs, next : Satellites, count : Nat, done : Nat]
          /\ node[n].count = Len(Plan(j).mappers)
      BY <1>2, <1>3 DEF Reduces
    <3>2. node[n].role = "reduce" /\ node[n].count \in Nat /\ node[n].done \in Nat
      BY <3>1
    <3>3. ~(node[n].done < node[n].count)
      BY <3>2 DEF ReduceReturn, Receiving
    <3> QED BY <3>1, <3>2, <3>3
  <2> HIDE DEF all
  <2>4. IsFiniteSet(all) /\ Cardinality(all) = Len(Plan(j).mappers)
    <3>1. PICK c \in Nat : c = Len(Plan(j).mappers)
      BY <2>2
    <3>2. IsFiniteSet(1 .. c) /\ Cardinality(1 .. c) = c
      BY FS_Interval
    <3>3. all = 1 .. c
      BY <2>2, <3>1
    <3> QED BY <3>1, <3>2, <3>3
  <2>5. Cardinality(D) <= Cardinality(all) /\ (Cardinality(all) = Cardinality(D) => all = D)
    BY <2>4, FS_Subset
  <2>6. all = D
    BY <2>1, <2>2, <2>3, <2>4, <2>5
  <2> QED BY <2>1, <2>6 DEF all
<1>27. MapsFollow' /\ ReduceFollows'
  BY <1>1, <1>6, <1>23, <1>24, <1>25, <1>26 DEF MapsFollow, ReduceFollows
<1> QED
  BY <1>6, <1>11, <1>14, <1>15, <1>20, <1>21, <1>22, <1>27, WorkerStep

-----------------------------------------------------------------------------
(* Steps that read a message.                                              *)

\* The message read is one that may be where it is.
LEMMA ReadMessage ==
    ASSUME JobInv, NEW n \in Satellites, NEW m \in Senders, Take(n, m)
    PROVE  MessageAt(m, n, Head(inbox[n][m]))
<1>1. inbox[n][m] # <<>> /\ PipeOK(flight[m][n], inbox[n][m])
  BY DEF Take, JobInv, PipesOK
<1>2. Head(inbox[n][m]) \in way[m][n]
  BY <1>1, PipeTake, WayAt
<1> QED BY <1>2 DEF JobInv, MessagesInPlace

\* One more PhaseDone is counted: the set of its senders grows.
LEMMA OneMore ==
    ASSUME NEW n \in Nat, NEW D \in SUBSET (1 .. n), NEW i \in (1 .. n) \ D
    PROVE  Cardinality(D \cup {i}) = Cardinality(D) + 1
<1>1. IsFiniteSet(1 .. n)
  BY FS_Interval
<1>2. IsFiniteSet(D)
  BY <1>1, FS_Subset
<1> QED BY <1>2, FS_AddElement

\* SpaceCompRx counts a PhaseDone.
LEMMA CountDoneKeeps ==
    ASSUME JobInv, ReducerApart, NEW n \in Satellites, NEW m \in Senders, CountDone(n, m)
    PROVE  JobInv'
<1>1. RolesFollowPlan /\ WorkNotEnded /\ ChunksNumbered /\ DonesCounted /\ PipesOK /\ MessagesInPlace
      /\ MapsFollow /\ ReduceFollows
  BY DEF JobInv
<1>2. Maps(n) \/ Reduces(n)
  BY <1>1, RoleKind DEF CountDone, Receiving
<1>3. PICK j \in Jobs : j = node[n].job
  BY <1>2 DEF Maps, Reduces
<1>4. PICK x : x = Head(inbox[n][m])
  OBVIOUS
<1>5. /\ x.op = "PhaseDone" /\ x.job = j
      /\ node' = [node EXCEPT ![n] = [node[n] EXCEPT !.done = @ + 1]]
      /\ flight' = flight /\ next_seq' = next_seq
      /\ UNCHANGED job_history
  BY <1>3, <1>4 DEF CountDone, ForThisJob
<1>6. UNCHANGED <<collected, mapped, reduced, ended, failed>>
  BY <1>5 DEF job_history
<1>7. Take(n, m)
  BY DEF CountDone
<1>8. PipesOK' /\ Adds({}) /\ Taken(n, m, x)
  BY <1>1, <1>4, <1>5, <1>7, TakeMoves
<1>9. MessageAt(m, n, x)
  BY <1>4, <1>7, ReadMessage
<1>10. x = DoneMsg(j)
  <2>1. DoneAt(m, n, x)
    BY <1>5, <1>9, MessageByOp
  <2>2. PICK jj \in Jobs : x = DoneMsg(jj)
    BY <2>1 DEF DoneAt
  <2>3. jj = j
    BY <1>5, <2>2 DEF DoneMsg
  <2> QED BY <2>2, <2>3
<1>11. \/ FromCollector(j, m, n) /\ Ended("collect", m, j)
       \/ FromMapper(j, m, n) /\ Ended("map", m, j)
  BY <1>9, <1>10, DonePlace
<1>12. DoneMsg(j) \in way[m][n] /\ DoneMsg(j) \notin way'[m][n]
  BY <1>8, <1>10 DEF Taken
<1>13. node'[n] = [node[n] EXCEPT !.done = @ + 1] /\ \A i \in Satellites \ {n} : node'[i] = node[i]
  BY <1>1, <1>5, NodeValue
<1>14. /\ node'[n].role = node[n].role /\ node'[n].job = j /\ node'[n].next = node[n].next
       /\ node'[n].count = node[n].count /\ node'[n].done = node[n].done + 1
       /\ node[n].role \in {"map", "reduce"} /\ node[n].done \in Nat
  BY <1>2, <1>3, <1>13 DEF Maps, Reduces
<1>15. (Maps(n) => Maps(n)') /\ (Reduces(n) => Reduces(n)')
  BY <1>3, <1>13, <1>14 DEF Maps, Reduces
<1>16. RoleOK(n)'
  BY <1>2, <1>15 DEF RoleOK
<1>17. RolesFollowPlan'
  BY <1>1, <1>5, <1>16, NodeChange
<1>18. \A i \in Satellites : \A r, jj : Busy(r, i, jj)' <=> Busy(r, i, jj)
  BY <1>3, <1>13, <1>14 DEF Busy
<1>19. NoneBegins
  <2>1. \A i \in Satellites : node'[i].role = "coordinate" => node'[i] = node[i]
    BY <1>13, <1>14
  <2> QED BY <1>6, <1>18, <2>1 DEF NoneBegins, Ended
<1>20. WorkNotEnded'
  BY <1>1, <1>6, <1>18 DEF WorkNotEnded, Ended
<1>21. MapsFollow' /\ ReduceFollows'
  BY <1>1, <1>6, FollowKept
<1>22. \A i \in Satellites, jj \in Jobs, k \in Nat :
          Busy("collect", i, jj)' /\ <<i, jj, k>> \in collected' => k < node'[i].chunks
  BY <1>1, <1>6, <1>13, <1>14, <1>18 DEF ChunksNumbered, Busy
<1>23. collected' \subseteq Chunks
  BY <1>1, <1>6 DEF ChunksNumbered
<1>24. DonesSent({})
  BY DEF DonesSent
<1>25. ASSUME Busy("map", n, j), j \notin failed PROVE CollectorsCounted(n, j)'
  <2>1. PICK D \in SUBSET {i \in DOMAIN Plan(j).collectors : MapperOf(j, i) = n} :
          /\ Cardinality(D) = node[n].done
          /\ \A i \in D : /\ Ended("collect", Plan(j).collectors[i], j)
                          /\ DoneMsg(j) \notin way[Plan(j).collectors[i]][n]
    <3>1. CollectorsCounted(n, j)
      BY <1>1, <1>25 DEF DonesCounted
    <3> QED BY <3>1 DEF CollectorsCounted
  <2>2. n \in Range(Plan(j).mappers) /\ n # Plan(j).reducer
    BY <1>1, <1>25, BusyPlace DEF ReducerApart, Plan
  <2>3. FromCollector(j, m, n) /\ Ended("collect", m, j)
    BY <1>11, <2>2 DEF FromMapper
  <2>4. PICK a \in DOMAIN Plan(j).collectors : m = Plan(j).collectors[a] /\ n = MapperOf(j, a)
    BY <2>3 DEF FromCollector
  <2>5. a \notin D
    BY <1>12, <2>1, <2>4
  <2>6. PICK l \in Nat : DOMAIN Plan(j).collectors = 1 .. l
    BY PlanFacts
  <2>7. Cardinality(D \cup {a}) = node[n].done + 1
    BY <2>1, <2>4, <2>5, <2>6, OneMore
  <2>8. ASSUME NEW i \in D \cup {a}
        PROVE  /\ Ended("collect", Plan(j).collectors[i], j)
               /\ DoneMsg(j) \notin way'[Plan(j).collectors[i]][n]
    <3>1. Plan(j).collectors[i] \in Senders
      BY <2>1, <2>4, PlanFacts DEF Senders
    <3>2. CASE i = a
      BY <1>12, <2>3, <2>4, <3>2
    <3>3. CASE i \in D
      BY <1>8, <2>1, <3>1, <3>3 DEF Adds
    <3> QED BY <3>2, <3>3
  <2>9. D \cup {a} \in SUBSET {i \in DOMAIN Plan(j).collectors : MapperOf(j, i) = n}
    BY <2>1, <2>4
  <2>10. \A i \in D \cup {a} : Ended("collect", Plan(j).collectors[i], j)'
    BY <1>6, <2>8 DEF Ended
  <2> QED BY <1>14, <2>7, <2>8, <2>9, <2>10 DEF CollectorsCounted
<1>26. ASSUME Busy("reduce", n, j) PROVE MappersCounted(n, j)'
  <2>1. PICK D \in SUBSET (DOMAIN Plan(j).mappers) :
          /\ Cardinality(D) = node[n].done
          /\ \A k \in D : /\ Ended("map", Plan(j).mappers[k], j)
                          /\ DoneMsg(j) \notin way[Plan(j).mappers[k]][n]
    <3>1. MappersCounted(n, j)
      BY <1>1, <1>26 DEF DonesCounted
    <3> QED BY <3>1 DEF MappersCounted
  <2>2. n = Plan(j).reducer /\ n \notin Range(Plan(j).mappers)
    BY <1>1, <1>26, BusyPlace DEF ReducerApart, Plan
  <2>3. m \in Range(Plan(j).mappers) /\ Ended("map", m, j)
    BY <1>11, <2>2, PlanFacts DEF FromMapper, FromCollector
  <2>4. PICK a \in DOMAIN Plan(j).mappers : m = Plan(j).mappers[a]
    BY <2>3 DEF Range
  <2>5. a \notin D
    BY <1>12, <2>1, <2>4
  <2>6. PICK l \in Nat : DOMAIN Plan(j).mappers = 1 .. l
    BY PlanFacts
  <2>7. Cardinality(D \cup {a}) = node[n].done + 1
    BY <2>1, <2>4, <2>5, <2>6, OneMore
  <2>8. ASSUME NEW i \in D \cup {a}
        PROVE  /\ Ended("map", Plan(j).mappers[i], j)
               /\ DoneMsg(j) \notin way'[Plan(j).mappers[i]][n]
    <3>1. Plan(j).mappers[i] \in Senders
      BY <2>1, <2>4, PlanFacts DEF Senders
    <3>2. CASE i = a
      BY <1>12, <2>3, <2>4, <3>2
    <3>3. CASE i \in D
      BY <1>8, <2>1, <3>1, <3>3 DEF Adds
    <3> QED BY <3>2, <3>3
  <2>9. \A i \in D \cup {a} : Ended("map", Plan(j).mappers[i], j)'
    BY <1>6, <2>8 DEF Ended
  <2> QED BY <1>14, <2>1, <2>4, <2>7, <2>8, <2>9 DEF MappersCounted
<1>27. DonesCounted'
  <2> SUFFICES ASSUME NEW i \in Satellites, NEW jj \in Jobs
               PROVE  /\ Busy("map", i, jj)' /\ jj \notin failed' => CollectorsCounted(i, jj)'
                      /\ Busy("reduce", i, jj)' => MappersCounted(i, jj)'
    BY DEF DonesCounted
  <2>1. CASE i = n
    <3>1. Busy("map", i, jj)' \/ Busy("reduce", i, jj)' => jj = j
      BY <1>14, <2>1 DEF Busy
    <3> QED BY <1>6, <1>18, <1>25, <1>26, <2>1, <3>1
  <2>2. CASE i # n
    <3>1. node'[i].done = node[i].done
      BY <1>13, <2>2
    <3> QED BY <1>1, <1>6, <1>8, <1>18, <1>24, <3>1, MapCountKept, ReduceCountKept
  <2> QED BY <2>1, <2>2
<1> QED
  BY <1>6, <1>8, <1>17, <1>19, <1>20, <1>21, <1>22, <1>23, <1>27, WorkerStep

\* app.map failed: the job is marked, the role goes on to its end.
LEMMA MapErrorKeeps ==
    ASSUME JobInv, ReducerApart, NEW n \in Satellites, NEW m \in Senders, MapError(n, m)
    PROVE  JobInv'
<1>1. RolesFollowPlan /\ WorkNotEnded /\ ChunksNumbered /\ DonesCounted /\ PipesOK /\ MessagesInPlace
      /\ MapsFollow /\ ReduceFollows
  BY DEF JobInv
<1>2. Maps(n) /\ node[n].role = "map"
  BY <1>1, RoleKind DEF MapError
<1>3. PICK j \in Jobs : j = node[n].job
  BY <1>2 DEF Maps
<1>4. /\ node' = [node EXCEPT ![n] = [node[n] EXCEPT !.done = node[n].count]]
      /\ flight' = flight /\ next_seq' = next_seq /\ failed' = failed \cup {j}
      /\ UNCHANGED <<collected, mapped, reduced, ended>>
  BY <1>3 DEF MapError
<1>5. Take(n, m)
  BY DEF MapError
<1>6. PipesOK' /\ Adds({})
  BY <1>1, <1>4, <1>5, TakeMoves
<1>7. node'[n] = [node[n] EXCEPT !.done = node[n].count] /\ \A i \in Satellites \ {n} : node'[i] = node[i]
  BY <1>1, <1>4, NodeValue
<1>8. /\ node'[n].role = "map" /\ node'[n].job = j /\ node'[n].next = node[n].next
      /\ node'[n].count = node[n].count /\ node'[n].done = node[n].count /\ node[n].count \in Nat
  BY <1>2, <1>3, <1>7 DEF Maps
<1>9. Maps(n)'
  BY <1>2, <1>3, <1>7, <1>8 DEF Maps
<1>10. RoleOK(n)'
  BY <1>9 DEF RoleOK
<1>11. RolesFollowPlan'
  BY <1>1, <1>4, <1>10, NodeChange
<1>12. \A i \in Satellites : \A r, jj : Busy(r, i, jj)' <=> Busy(r, i, jj)
  BY <1>2, <1>3, <1>7, <1>8 DEF Busy
<1>13. NoneBegins
  <2>1. \A i \in Satellites : node'[i].role = "coordinate" => node'[i] = node[i]
    BY <1>7, <1>8
  <2> QED BY <1>4, <1>12, <2>1 DEF NoneBegins, Ended
<1>14. WorkNotEnded'
  BY <1>1, <1>4, <1>12 DEF WorkNotEnded, Ended
<1>15. MapsFollow' /\ ReduceFollows'
  BY <1>1, <1>4, FollowKept
<1>16. \A i \in Satellites, jj \in Jobs, k \in Nat :
          Busy("collect", i, jj)' /\ <<i, jj, k>> \in collected' => k < node'[i].chunks
  BY <1>1, <1>4, <1>7, <1>8, <1>12 DEF ChunksNumbered, Busy
<1>17. collected' \subseteq Chunks
  BY <1>1, <1>4 DEF ChunksNumbered
<1>18. DonesSent({})
  BY DEF DonesSent
<1>19. \A i \in Satellites, jj \in Jobs : RolesGoOn(i, jj)
  BY <1>4, <1>7, <1>8, <1>12 DEF RolesGoOn, Busy
<1>20. DonesCounted'
  BY <1>1, <1>4, <1>6, <1>18, <1>19, CountsKept
<1> QED
  BY <1>4, <1>6, <1>11, <1>13, <1>14, <1>15, <1>16, <1>17, <1>20, WorkerStep

\* Steps that change neither a role nor what has ended.
LEMMA ChunkStep ==
    ASSUME JobInv, ReducerApart, UNCHANGED <<node, collected, ended, failed>>,
           NEW more, Adds(more),
           \A n, m, x : <<n, m, x>> \in more => x.op = "DataChunk"
    PROVE  /\ RolesFollowPlan' /\ WorkNotEnded' /\ AllOnce' /\ DonesCounted'
           /\ MapsFollow' /\ ReduceFollows'
           /\ collected' \subseteq Chunks
           /\ \A n \in Satellites, j \in Jobs, k \in Nat :
                 Busy("collect", n, j)' /\ <<n, j, k>> \in collected' => k < node'[n].chunks
<1>1. RolesFollowPlan /\ WorkNotEnded /\ AllOnce /\ ChunksNumbered /\ DonesCounted
      /\ MapsFollow /\ ReduceFollows
  BY DEF JobInv
<1>2. /\ node' = node /\ ended' = ended /\ collected' = collected /\ failed' = failed
  OBVIOUS
<1>3. \A i \in Satellites : RoleOK(i) => RoleOK(i)'
  BY <1>2 DEF RoleOK, Coordinates, Collects, Maps, Reduces
<1>4. RolesFollowPlan'
  BY <1>1, <1>2, <1>3 DEF RolesFollowPlan
<1>5. NoneBegins
  BY <1>2 DEF NoneBegins, Busy, Ended
<1>6. AllOnce'
  BY <1>1, <1>5, OnceKept
<1>7. DonesSent(more)
  BY DEF DonesSent, DoneMsg
<1>8. \A i \in Satellites, j \in Jobs : RolesGoOn(i, j)
  BY <1>2 DEF RolesGoOn, Busy
<1>9. DonesCounted'
  BY <1>1, <1>2, <1>7, <1>8, CountsKept
<1>10. MapsFollow' /\ ReduceFollows'
  BY <1>1, <1>2, FollowKept
<1>11. WorkNotEnded'
  BY <1>1, <1>2 DEF WorkNotEnded, Busy, Ended
<1>12. /\ collected' \subseteq Chunks
       /\ \A n \in Satellites, j \in Jobs, k \in Nat :
             Busy("collect", n, j)' /\ <<n, j, k>> \in collected' => k < node'[n].chunks
  BY <1>1, <1>2 DEF ChunksNumbered, Busy
<1> QED BY <1>4, <1>6, <1>9, <1>10, <1>11, <1>12

\* A message other than the chunk c does not depend on what became of c.
LEMMA OtherMessage ==
    ASSUME NEW n, NEW m, NEW y, MessageAt(n, m, y), NEW c, y # ChunkMsg(c),
           UNCHANGED <<ended, collected>>,
           \A d : d # c => (d \in mapped' <=> d \in mapped),
           \A j \in Jobs : \A d : d # c => (d \in Range(reduced'[j]) <=> d \in Range(reduced[j]))
    PROVE  MessageAt(n, m, y)'
<1>1. SubmitAt(n, m, y) => SubmitAt(n, m, y)'
  BY DEF SubmitAt
<1>2. AssignAt(n, m, y) => AssignAt(n, m, y)'
  BY DEF AssignAt
<1>3. DoneAt(n, m, y) => DoneAt(n, m, y)'
  BY DEF DoneAt, Ended
<1>4. ASSUME ChunkAt(n, m, y) PROVE ChunkAt(n, m, y)'
  <2>1. PICK j \in Jobs : \E i \in DOMAIN Plan(j).collectors, k \in Nat :
          LET d == <<Plan(j).collectors[i], j, k>> IN
          /\ y = ChunkMsg(d) /\ d \in collected
          /\ \/ n = d[1] /\ m = MapperOf(j, i) /\ d \notin mapped
             \/ /\ n = MapperOf(j, i) /\ m = Plan(j).reducer
                /\ d \in mapped /\ d \notin Range(reduced[j])
    BY <1>4 DEF ChunkAt
  <2>2. PICK i \in DOMAIN Plan(j).collectors, k \in Nat :
          LET d == <<Plan(j).collectors[i], j, k>> IN
          /\ y = ChunkMsg(d) /\ d \in collected
          /\ \/ n = d[1] /\ m = MapperOf(j, i) /\ d \notin mapped
             \/ /\ n = MapperOf(j, i) /\ m = Plan(j).reducer
                /\ d \in mapped /\ d \notin Range(reduced[j])
    BY <2>1
  <2>3. PICK d : d = <<Plan(j).collectors[i], j, k>>
    OBVIOUS
  <2>4. d # c /\ d \in collected'
    BY <2>2, <2>3
  <2>5. \/ n = d[1] /\ m = MapperOf(j, i) /\ d \notin mapped'
        \/ /\ n = MapperOf(j, i) /\ m = Plan(j).reducer
           /\ d \in mapped' /\ d \notin Range(reduced'[j])
    BY <2>2, <2>3, <2>4
  <2> QED BY <2>2, <2>3, <2>4, <2>5 DEF ChunkAt
<1>5. ResultAt(n, m, y) => ResultAt(n, m, y)'
  BY DEF ResultAt, Ended
<1> QED BY <1>1, <1>2, <1>3, <1>4, <1>5 DEF MessageAt

\* What a role reads as data of its job is a chunk, on the way to a mapper or to the reducer.
LEMMA ChunkRead ==
    ASSUME JobInv, ReducerApart, NEW n \in Satellites, NEW m \in Senders, NEW j \in Jobs,
           NEW x, MessageAt(m, n, x), x.op = "DataChunk", x.job = j,
           Busy("map", n, j) \/ Busy("reduce", n, j)
    PROVE  \E i \in DOMAIN Plan(j).collectors, k \in Nat, c \in collected :
              /\ c = <<Plan(j).collectors[i], j, k>> /\ x = ChunkMsg(c) /\ c \in collected
              /\ Busy("map", n, j) => m = c[1] /\ n = MapperOf(j, i) /\ c \notin mapped
              /\ Busy("reduce", n, j) => /\ m = MapperOf(j, i) /\ n = Plan(j).reducer
                                         /\ c \in mapped /\ c \notin Range(reduced[j])
<1>1. RolesFollowPlan /\ WorkNotEnded /\ ReduceFollows
  BY DEF JobInv
<1>2. ~ResultAt(m, n, x)
  <2> SUFFICES ASSUME ResultAt(m, n, x) PROVE FALSE
    OBVIOUS
  <2>1. PICK jj \in Jobs : /\ x = ResultMsg(jj) /\ m = Plan(jj).reducer
                           /\ Ended("reduce", m, jj)
    BY DEF ResultAt
  <2>2. jj = j
    BY <2>1 DEF ResultMsg
  <2>3. \A k \in DOMAIN Plan(j).mappers : Ended("map", Plan(j).mappers[k], j)
    BY <1>1, <2>1, <2>2 DEF ReduceFollows
  <2>4. CASE Busy("map", n, j)
    <3>1. n \in Range(Plan(j).mappers)
      BY <1>1, <2>4, BusyPlace
    <3>2. Ended("map", n, j)
      BY <2>3, <3>1 DEF Range
    <3> QED BY <1>1, <2>4, <3>2 DEF WorkNotEnded, Work
  <2>5. CASE Busy("reduce", n, j)
    <3>1. n = Plan(j).reducer
      BY <1>1, <2>5, BusyPlace
    <3> QED BY <1>1, <2>1, <2>2, <2>5, <3>1 DEF WorkNotEnded, Work
  <2> QED BY <2>4, <2>5
<1>3. ChunkAt(m, n, x)
  BY <1>2, MessageByOp
<1>4. PICK jx \in Jobs : \E i \in DOMAIN Plan(jx).collectors, k \in Nat :
          x = ChunkMsg(<<Plan(jx).collectors[i], jx, k>>)
  BY <1>3 DEF ChunkAt
<1>5. PICK c : x = ChunkMsg(c)
  BY <1>4
<1>6. PICK jj \in Jobs : \E i \in DOMAIN Plan(jj).collectors, k \in Nat :
              /\ c = <<Plan(jj).collectors[i], jj, k>> /\ c \in collected
              /\ \/ m = c[1] /\ n = MapperOf(jj, i) /\ c \notin mapped
                 \/ /\ m = MapperOf(jj, i) /\ n = Plan(jj).reducer
                    /\ c \in mapped /\ c \notin Range(reduced[jj])
  BY <1>5, ChunkPlace
<1>7. PICK i \in DOMAIN Plan(jj).collectors, k \in Nat :
              /\ c = <<Plan(jj).collectors[i], jj, k>> /\ c \in collected
              /\ \/ m = c[1] /\ n = MapperOf(jj, i) /\ c \notin mapped
                 \/ /\ m = MapperOf(jj, i) /\ n = Plan(jj).reducer
                    /\ c \in mapped /\ c \notin Range(reduced[jj])
  BY <1>6
<1>8. jj = j
  <2>1. x.job = c[2]
    BY <1>5, ChunkFields
  <2> QED BY <1>7, <2>1
<1>9. Busy("map", n, j) => n # Plan(j).reducer
  BY <1>1, BusyPlace DEF ReducerApart, Plan
<1>10. Busy("reduce", n, j) => n # MapperOf(j, i)
  <2>1. Busy("reduce", n, j) => n \notin Range(Plan(j).mappers)
    BY <1>1, BusyPlace DEF ReducerApart, Plan
  <2>2. MapperOf(j, i) \in Range(Plan(j).mappers)
    BY <1>7, <1>8, PlanFacts
  <2> QED BY <2>1, <2>2
<1> QED BY <1>5, <1>7, <1>8, <1>9, <1>10

\* Two places of the same chunk have the same collector.
LEMMA OneCollector ==
    ASSUME NEW j \in Jobs, NEW i \in DOMAIN Plan(j).collectors, NEW k,
           NEW jj \in Jobs, NEW ii \in DOMAIN Plan(jj).collectors, NEW kk,
           <<Plan(j).collectors[i], j, k>> = <<Plan(jj).collectors[ii], jj, kk>>
    PROVE  jj = j /\ ii = i
<1>1. jj = j /\ Plan(j).collectors[i] = Plan(j).collectors[ii]
  OBVIOUS
<1> QED BY <1>1, PlanFacts DEF IsInjective

\* app.map: a chunk in, a chunk out.
LEMMA MapChunkKeeps ==
    ASSUME JobInv, ReducerApart, NEW n \in Satellites, NEW m \in Senders, MapChunk(n, m)
    PROVE  JobInv'
<1>1. RolesFollowPlan /\ ChunksNumbered /\ PipesOK /\ MessagesInPlace /\ ResultsAreMapped
  BY DEF JobInv
<1>2. Maps(n) /\ node[n].role = "map"
  BY <1>1, RoleKind DEF MapChunk
<1>0. PICK x : x = Head(inbox[n][m])
  OBVIOUS
<1>3. PICK j \in Jobs, b \in Satellites :
        j = node[n].job /\ b = node[n].next /\ x = Head(inbox[n][m])
  BY <1>0, <1>2 DEF Maps
<1>4. /\ x.op = "DataChunk" /\ x.job = j /\ Take(n, m)
      /\ flight' = [flight EXCEPT ![n][b] = Append(@, [seq |-> next_seq[n][b], msg |-> x])]
      /\ next_seq' = [next_seq EXCEPT ![n][b] = @ + 1]
      /\ mapped' = mapped \cup {x.chunk}
      /\ UNCHANGED <<node, collected, reduced, ended, failed>>
  BY <1>3 DEF MapChunk, ForThisJob
<1>5. Busy("map", n, j)
  BY <1>2, <1>3 DEF Busy
<1>6. b = Plan(j).reducer /\ b \notin Range(Plan(j).mappers) /\ b # n
  BY <1>1, <1>3, <1>5, BusyPlace DEF ReducerApart, Plan
<1>7. MessageAt(m, n, x)
  BY <1>3, <1>4, ReadMessage
<1>8. PICK i \in DOMAIN Plan(j).collectors, k \in Nat, c \in collected :
        /\ c = <<Plan(j).collectors[i], j, k>> /\ x = ChunkMsg(c) /\ c \in collected
        /\ m = c[1] /\ n = MapperOf(j, i) /\ c \notin mapped
  BY <1>4, <1>5, <1>7, ChunkRead
<1>9. x.chunk = c /\ mapped' = mapped \cup {c}
  BY <1>4, <1>8, ChunkFields
<1>10. n \in Senders
  BY DEF Senders
<1>11. x \notin way[n][b]
  <2> SUFFICES ASSUME x \in way[n][b] PROVE FALSE
    OBVIOUS
  <2>1. MessageAt(n, b, ChunkMsg(c))
    BY <1>1, <1>8, <1>10 DEF MessagesInPlace
  <2>2. PICK jj \in Jobs : \E ii \in DOMAIN Plan(jj).collectors, kk \in Nat :
           c = <<Plan(jj).collectors[ii], jj, kk>> /\ (b = MapperOf(jj, ii) \/ c \in mapped)
    BY <2>1, ChunkPlace
  <2>3. PICK ii \in DOMAIN Plan(jj).collectors, kk \in Nat :
           c = <<Plan(jj).collectors[ii], jj, kk>> /\ b = MapperOf(jj, ii)
    BY <1>8, <2>2
  <2>4. jj = j /\ ii = i
    BY <1>8, <2>3, OneCollector
  <2>5. b \in Range(Plan(j).mappers)
    BY <2>3, <2>4, PlanFacts, SMTT(40)
  <2> QED BY <1>6, <2>5
<1> DEFINE more == {<<n, b, x>>}
<1>12. PipesOK' /\ Adds(more) /\ Taken(n, m, x)
  BY <1>1, <1>3, <1>4, <1>6, <1>11, PassMoves
<1>13. \A p, q, y : <<p, q, y>> \in more => p = n /\ q = b /\ y = x
  OBVIOUS
<1> HIDE DEF more
<1>14. /\ RolesFollowPlan' /\ WorkNotEnded' /\ AllOnce' /\ DonesCounted'
       /\ MapsFollow' /\ ReduceFollows'
       /\ collected' \subseteq Chunks
       /\ \A a \in Satellites, jj \in Jobs, kk \in Nat :
             Busy("collect", a, jj)' /\ <<a, jj, kk>> \in collected' => kk < node'[a].chunks
  <2>1. \A p, q, y : <<p, q, y>> \in more => y.op = "DataChunk"
    BY <1>4, <1>13
  <2> QED BY <1>4, <1>12, <2>1, ChunkStep
<1>15. ChunksNumbered'
  BY <1>1, <1>4, <1>8, <1>9, <1>14 DEF ChunksNumbered
<1>16. ResultsAreMapped'
  BY <1>1, <1>4, <1>9 DEF ResultsAreMapped
<1>17. MessageAt(n, b, x)'
  <2>1. c \notin Range(reduced'[j])
    BY <1>1, <1>4, <1>8 DEF ResultsAreMapped
  <2>2. c \in mapped' /\ c \in collected'
    BY <1>4, <1>8, <1>9
  <2>3. ChunkAt(n, b, x)'
    BY <1>6, <1>8, <2>1, <2>2 DEF ChunkAt
  <2> QED BY <2>3 DEF MessageAt
<1>18. MessagesInPlace'
  <2> SUFFICES ASSUME NEW p \in Senders, NEW q \in Satellites, NEW y \in way'[p][q]
               PROVE  MessageAt(p, q, y)'
    BY DEF MessagesInPlace
  <2>1. y \in way[p][q] \/ (p = n /\ q = b /\ y = x)
    BY <1>12, <1>13 DEF Adds
  <2>2. CASE y \in way[p][q] /\ y # x
    <3>1. MessageAt(p, q, y)
      BY <1>1, <2>2 DEF MessagesInPlace
    <3>2. \A d : d # c => (d \in mapped' <=> d \in mapped)
      BY <1>9
    <3> QED BY <1>4, <1>8, <2>2, <3>1, <3>2, OtherMessage
  <2>3. CASE y \in way[p][q] /\ y = x
    <3>1. MessageAt(p, q, ChunkMsg(c))
      BY <1>1, <1>8, <2>3 DEF MessagesInPlace
    <3>2. PICK jj \in Jobs : \E ii \in DOMAIN Plan(jj).collectors, kk \in Nat :
             c = <<Plan(jj).collectors[ii], jj, kk>> /\ p = c[1] /\ q = MapperOf(jj, ii)
      BY <1>8, <3>1, ChunkPlace
    <3>3. PICK ii \in DOMAIN Plan(jj).collectors, kk \in Nat :
             c = <<Plan(jj).collectors[ii], jj, kk>> /\ p = c[1] /\ q = MapperOf(jj, ii)
      BY <3>2
    <3>4. jj = j /\ ii = i
      BY <1>8, <3>3, OneCollector
    <3>5. p = m /\ q = n
      BY <1>8, <3>3, <3>4
    <3> QED BY <1>12, <2>3, <3>5 DEF Taken
  <2> QED BY <1>17, <2>1, <2>2, <2>3
<1> QED BY <1>12, <1>14, <1>15, <1>16, <1>18 DEF JobInv

\* app.reduce reads a chunk.
LEMMA ReduceChunkKeeps ==
    ASSUME JobInv, ReducerApart, NEW n \in Satellites, NEW m \in Senders, ReduceChunk(n, m)
    PROVE  JobInv'
<1>1. RolesFollowPlan /\ ChunksNumbered /\ PipesOK /\ MessagesInPlace /\ ResultsAreMapped
  BY DEF JobInv
<1>2. Reduces(n) /\ node[n].role = "reduce"
  BY <1>1, RoleKind DEF ReduceChunk
<1>0. PICK x : x = Head(inbox[n][m])
  OBVIOUS
<1>3. PICK j \in Jobs : j = node[n].job /\ x = Head(inbox[n][m])
  BY <1>0, <1>2, SMTT(40) DEF Reduces
<1>4. /\ x.op = "DataChunk" /\ x.job = j /\ Take(n, m)
      /\ flight' = flight /\ next_seq' = next_seq
      /\ reduced' = [reduced EXCEPT ![j] = Append(@, x.chunk)]
      /\ UNCHANGED <<node, collected, mapped, ended, failed>>
  BY <1>3 DEF ReduceChunk, ForThisJob
<1>5. Busy("reduce", n, j)
  BY <1>2, <1>3 DEF Busy
<1>6. MessageAt(m, n, x)
  BY <1>3, <1>4, ReadMessage
<1>7. PICK i \in DOMAIN Plan(j).collectors, k \in Nat, c \in collected :
        /\ c = <<Plan(j).collectors[i], j, k>> /\ x = ChunkMsg(c) /\ c \in collected
        /\ m = MapperOf(j, i) /\ n = Plan(j).reducer
        /\ c \in mapped /\ c \notin Range(reduced[j])
  BY <1>4, <1>5, <1>6, ChunkRead
<1>8. x.chunk = c
  BY <1>7, ChunkFields
<1>9. PipesOK' /\ Adds({}) /\ Taken(n, m, x)
  BY <1>1, <1>3, <1>4, TakeMoves
<1>10. /\ RolesFollowPlan' /\ WorkNotEnded' /\ AllOnce' /\ DonesCounted'
       /\ MapsFollow' /\ ReduceFollows'
       /\ collected' \subseteq Chunks
       /\ \A a \in Satellites, jj \in Jobs, kk \in Nat :
             Busy("collect", a, jj)' /\ <<a, jj, kk>> \in collected' => kk < node'[a].chunks
  BY <1>4, <1>9, ChunkStep
<1>11. ChunksNumbered'
  BY <1>1, <1>4, <1>10 DEF ChunksNumbered
<1> DEFINE s == reduced[j]
           t == Append(s, c)
<1>12. /\ reduced' = [reduced EXCEPT ![j] = t] /\ reduced \in [Jobs -> Seq(Chunks)]
       /\ s \in Seq(Chunks) /\ c \in Chunks /\ IsInjective(s) /\ c \notin Range(s)
       /\ Range(s) \subseteq mapped
  BY <1>1, <1>4, <1>7, <1>8 DEF ResultsAreMapped, ChunksNumbered
<1> HIDE DEF s
<1>13. /\ t \in Seq(Chunks) /\ Len(t) = Len(s) + 1 /\ Len(s) \in Nat
       /\ DOMAIN s = 1 .. Len(s) /\ DOMAIN t = 1 .. Len(s) + 1
       /\ \A a \in 1 .. Len(s) : t[a] = s[a]
       /\ t[Len(s) + 1] = c
  BY <1>12
<1> HIDE DEF t
<1>14. IsInjective(t) /\ \A d : d \in Range(t) <=> d \in Range(s) \/ d = c
  <2>1. \A a \in 1 .. Len(s) : s[a] # c
    BY <1>12, <1>13 DEF Range
  <2>2. \A a \in DOMAIN t : (a \in DOMAIN s /\ t[a] = s[a]) \/ (a = Len(s) + 1 /\ t[a] = c)
    BY <1>13
  <2>3. IsInjective(t)
    BY <1>12, <1>13, <2>1, <2>2 DEF IsInjective
  <2>4. \A d : d \in Range(t) <=> d \in Range(s) \/ d = c
    BY <1>13, <2>2 DEF Range
  <2> QED BY <2>3, <2>4
<1>15. reduced' \in [Jobs -> Seq(Chunks)] /\ reduced'[j] = t /\ \A jj \in Jobs \ {j} : reduced'[jj] = reduced[jj]
  BY <1>12, <1>13
<1>16. ResultsAreMapped'
  <2> SUFFICES ASSUME NEW jj \in Jobs
               PROVE  IsInjective(reduced'[jj]) /\ Range(reduced'[jj]) \subseteq mapped'
    BY <1>15 DEF ResultsAreMapped
  <2>1. CASE jj = j
    BY <1>4, <1>7, <1>12, <1>14, <1>15, <2>1
  <2>2. CASE jj # j
    BY <1>1, <1>4, <1>15, <2>2 DEF ResultsAreMapped
  <2> QED BY <2>1, <2>2
<1>17. MessagesInPlace'
  <2> SUFFICES ASSUME NEW p \in Senders, NEW q \in Satellites, NEW y \in way'[p][q]
               PROVE  MessageAt(p, q, y)'
    BY DEF MessagesInPlace
  <2>1. y \in way[p][q]
    BY <1>9 DEF Adds
  <2>2. MessageAt(p, q, y)
    BY <1>1, <2>1 DEF MessagesInPlace
  <2>3. CASE y # x
    <3>1. \A jj \in Jobs : \A d : d # c => (d \in Range(reduced'[jj]) <=> d \in Range(reduced[jj]))
      BY <1>14, <1>15 DEF s
    <3> QED BY <1>4, <1>7, <2>2, <2>3, <3>1, OtherMessage
  <2>4. CASE y = x
    <3>1. PICK jj \in Jobs : \E ii \in DOMAIN Plan(jj).collectors, kk \in Nat :
             /\ c = <<Plan(jj).collectors[ii], jj, kk>>
             /\ p = MapperOf(jj, ii) /\ q = Plan(jj).reducer
      BY <1>7, <2>2, <2>4, ChunkPlace
    <3>2. PICK ii \in DOMAIN Plan(jj).collectors, kk \in Nat :
             /\ c = <<Plan(jj).collectors[ii], jj, kk>>
             /\ p = MapperOf(jj, ii) /\ q = Plan(jj).reducer
      BY <3>1
    <3>3. jj = j /\ ii = i
      BY <1>7, <3>2, OneCollector
    <3>4. p = m /\ q = n
      BY <1>7, <3>2, <3>3
    <3> QED BY <1>9, <2>4, <3>4 DEF Taken
  <2> QED BY <2>3, <2>4
<1> QED BY <1>9, <1>10, <1>11, <1>16, <1>17 DEF JobInv

-----------------------------------------------------------------------------
(* Steps that only move messages, or end a role that signals nothing.      *)

\* A message is read, and its reader is or becomes idle.
LEMMA TakeKeeps ==
    ASSUME JobInv, ReducerApart, NEW n \in Satellites, NEW m \in Senders, Take(n, m),
           UNCHANGED <<next_seq, flight, job_history>>,
           node' = node \/ node' = [node EXCEPT ![n] = Idle]
    PROVE  JobInv'
<1>1. PipesOK' /\ Adds({})
  BY TakeMoves DEF JobInv
<1>2. UNCHANGED job_history
  OBVIOUS
<1> QED BY <1>1, <1>2, QuietJobStep

\* A sender is dropped, and its node becomes idle.
LEMMA DropKeeps ==
    ASSUME JobInv, ReducerApart, NEW n \in Satellites, NEW m \in Satellites, DropSender(n, m),
           node' = [node EXCEPT ![n] = Idle], UNCHANGED job_history
    PROVE  JobInv'
<1>1. n \in Senders
  BY DEF Senders
<1>2. PipesOK' /\ Adds({})
  BY <1>1, DropMoves DEF JobInv
<1> QED BY <1>2, QuietJobStep

\* A packet arrives at the endpoint of its receiver.
LEMMA ArriveKeeps ==
    ASSUME JobInv, ReducerApart, NEW n \in Senders, NEW m \in Satellites, Arrive(n, m)
    PROVE  JobInv'
<1>1. PipesOK' /\ Adds({})
  BY ArriveMoves DEF JobInv
<1>2. node' = node /\ UNCHANGED job_history
  BY DEF Arrive
<1> QED BY <1>1, <1>2, QuietJobStep

\* SpaceCompRx swallows a message that is not of its job, or no data.
LEMMA SkipKeeps ==
    ASSUME JobInv, ReducerApart, NEW n \in Satellites, NEW m \in Senders, Skip(n, m)
    PROVE  JobInv'
  BY TakeKeeps DEF Skip

\* A collector returns without a signal.
LEMMA CollectReturnKeeps ==
    ASSUME JobInv, ReducerApart, NEW n \in Satellites, CollectReturn(n)
    PROVE  JobInv'
<1>1. node[n].next \in Satellites
  BY RoleKind DEF CollectReturn, Collects, JobInv
<1> QED BY <1>1, DropKeeps DEF CollectReturn

\* A collector or mapper whose data was all acknowledged leaves its role.
LEMMA LeaveRoleKeeps ==
    ASSUME JobInv, ReducerApart, NEW n \in Satellites, LeaveRole(n)
    PROVE  JobInv'
<1>1. node[n].next \in Satellites
  BY RoleKind DEF LeaveRole, JobInv
<1> QED BY <1>1, DropKeeps DEF LeaveRole

\* Nothing changes.
LEMMA StutterKeeps ==
    ASSUME JobInv, ReducerApart, UNCHANGED job_vars
    PROVE  JobInv'
<1>1. /\ node' = node /\ UNCHANGED job_history
      /\ next_seq' = next_seq /\ flight' = flight /\ inbox' = inbox
  BY DEF job_vars, net_vars
<1>2. PipesOK
  BY DEF JobInv
<1>3. PipesOK' /\ Adds({})
  <2>1. /\ next_seq' \in [Senders -> [Satellites -> Nat]]
        /\ flight' \in [Senders -> [Satellites -> Seq(Packet)]]
        /\ inbox' \in [Satellites -> [Senders -> Seq(Message)]]
    BY <1>1, <1>2 DEF PipesOK
  <2>2. \A n \in Senders, m \in Satellites : PipeOK(flight'[n][m], inbox'[m][n])
    BY <1>1, <1>2 DEF PipesOK
  <2>3. \A n \in Senders, m \in Satellites : \A y \in Held(flight'[n][m], inbox'[m][n]) :
           y \in Held(flight[n][m], inbox[m][n]) \/ <<n, m, y>> \in {}
    BY <1>1
  <2> QED BY <1>2, <2>1, <2>2, <2>3, PipesMove
<1> QED BY <1>1, <1>3, QuietJobStep

-----------------------------------------------------------------------------
(* Jobs are submitted and their roles assigned.                            *)

\* The kinds of the messages that are not made by collectors, mappers and reducers.
Orders == {"SubmitJob", "AssignCollector", "AssignMapper", "AssignReducer"}

\* What a step that only gives orders has to show.
LEMMA OrderStep ==
    ASSUME JobInv, ReducerApart, PipesOK', NEW more, Adds(more), AllOnce', RolesFollowPlan',
           UNCHANGED <<collected, mapped, reduced, failed>>, ended \subseteq ended',
           \A role \in Work, n \in Satellites, j \in Jobs : Ended(role, n, j)' => Ended(role, n, j),
           \A n \in Satellites : node'[n] = node[n] \/ node'[n].role \notin Work,
           \A n, m, x : <<n, m, x>> \in more => x.op \in Orders /\ MessageAt(n, m, x)'
    PROVE  JobInv'
<1>1. RolesFollowPlan /\ WorkNotEnded /\ ChunksNumbered /\ DonesCounted /\ MapsFollow /\ ReduceFollows
  BY DEF JobInv
<1>2. /\ collected' = collected /\ mapped' = mapped /\ reduced' = reduced /\ failed' = failed
  OBVIOUS
<1>3. MessagesInPlace'
  BY <1>2, MessagesKept DEF JobInv
<1>4. WorkNotEnded'
  BY <1>1 DEF WorkNotEnded, Busy
<1>5. ChunksNumbered'
  BY <1>1, <1>2 DEF ChunksNumbered, Busy, Work
<1>6. DonesSent(more)
  BY DEF DonesSent, DoneMsg, Orders
<1>7. \A n \in Satellites, j \in Jobs : RolesGoOn(n, j)
  BY DEF RolesGoOn, Busy, Work
<1>8. DonesCounted'
  BY <1>1, <1>2, <1>6, <1>7, CountsKept
<1>9. MapsFollow'
  <2> SUFFICES ASSUME NEW j \in Jobs, NEW i \in DOMAIN Plan(j).collectors,
                      Ended("map", MapperOf(j, i), j)', j \notin failed'
               PROVE  Ended("collect", Plan(j).collectors[i], j)'
    BY DEF MapsFollow
  <2>1. Ended("map", MapperOf(j, i), j)
    BY PlanFacts DEF Work
  <2>2. Ended("collect", Plan(j).collectors[i], j)
    BY <1>1, <1>2, <2>1 DEF MapsFollow
  <2> QED BY <2>2 DEF Ended
<1>10. ReduceFollows'
  <2> SUFFICES ASSUME NEW j \in Jobs, Ended("reduce", Plan(j).reducer, j)',
                      NEW k \in DOMAIN Plan(j).mappers
               PROVE  Ended("map", Plan(j).mappers[k], j)'
    BY DEF ReduceFollows
  <2>1. Ended("reduce", Plan(j).reducer, j)
    BY PlanFacts DEF Work
  <2>2. Ended("map", Plan(j).mappers[k], j)
    BY <1>1, <2>1 DEF ReduceFollows
  <2> QED BY <2>2 DEF Ended
<1>11. ResultsAreMapped'
  BY <1>2 DEF JobInv, ResultsAreMapped
<1> QED BY <1>3, <1>4, <1>5, <1>8, <1>9, <1>10, <1>11 DEF JobInv

\* Each role is still assigned only once.
LEMMA OnceStep ==
    ASSUME AllOnce, \A j \in Jobs : SubmittedOnce(j)',
           \A role \in Work, n \in Satellites, j \in Jobs :
              Unborn(role, n, j) => Unborn(role, n, j)',
           \A j \in Jobs : \A s \in DOMAIN Assignments(j) :
              /\ Unsent(j, s)' => Unsent(j, s) /\ ~UnderWay(j, s)'
              /\ UnderWay(j, s)' => UnderWay(j, s) \/ Unsent(j, s)
    PROVE  AllOnce'
<1> SUFFICES ASSUME NEW j \in Jobs, NEW s \in DOMAIN Assignments(j)
             PROVE  /\ Unsent(j, s)' => ~UnderWay(j, s)'
                    /\ Unsent(j, s)' \/ UnderWay(j, s)' =>
                          Unborn(RoleOf(AssignMsg(j, s).op), AssignTo(j, s), j)'
  BY DEF AllOnce, AssignedOnce
<1>1. RoleOf(AssignMsg(j, s).op) \in Work /\ AssignTo(j, s) \in Satellites
  BY AssignmentFacts
<1>2. Unsent(j, s) \/ UnderWay(j, s) => Unborn(RoleOf(AssignMsg(j, s).op), AssignTo(j, s), j)
  BY DEF AllOnce, AssignedOnce
<1> QED BY <1>1, <1>2

\* What nobody began is still not begun.
LEMMA UnbornStays ==
    ASSUME \A n \in Satellites : node'[n] = node[n] \/ node'[n].role \notin Work,
           collected' = collected,
           \A role \in Work, n \in Satellites, j \in Jobs : Ended(role, n, j)' => Ended(role, n, j)
    PROVE  \A role \in Work, n \in Satellites, j \in Jobs :
              Unborn(role, n, j) => Unborn(role, n, j)'
<1> SUFFICES ASSUME NEW role \in Work, NEW n \in Satellites, NEW j \in Jobs, Unborn(role, n, j)
             PROVE  Unborn(role, n, j)'
  OBVIOUS
<1>1. ~Busy(role, n, j)'
  BY DEF Unborn, Busy
<1>2. ~Ended(role, n, j)'
  BY DEF Unborn
<1> QED BY <1>1, <1>2 DEF Unborn

\* The kinds of the messages that give orders.
LEMMA OrderOps ==
    ASSUME NEW j
    PROVE  SubmitMsg(j).op = "SubmitJob" /\ SubmitMsg(j).job = j /\ SubmitMsg(j).op \in Orders
  BY DEF SubmitMsg, Orders

\* A job is submitted.
LEMMA SubmitKeeps ==
    ASSUME JobInv, ReducerApart, NEW j \in Jobs, Submit(j)
    PROVE  JobInv'
<1> DEFINE c == Plan(j).coordinator
           x == SubmitMsg(j)
           more == {<<Ground, c, x>>}
<1>1. /\ <<Ground, j>> \notin ended /\ ended' = ended \cup {<<Ground, j>>} /\ Send(Ground, c, x)
      /\ UNCHANGED <<node, collected, mapped, reduced, failed>>
  BY DEF Submit, SubmitMsg, Plan
<1>2. c \in Satellites /\ Ground \in Senders
  BY PlanFacts DEF Senders
<1>3. x \in Message /\ x.op = "SubmitJob" /\ x.job = j /\ x.op \in Orders
  BY OrderOps DEF Message
<1>4. SubmittedOnce(j) /\ AllOnce /\ PipesOK /\ RolesFollowPlan
  BY DEF JobInv, AllOnce
<1>5. x \notin way[Ground][c]
  BY <1>1, <1>4 DEF SubmittedOnce
<1>6. MessageAt(Ground, c, x)'
  BY DEF MessageAt, SubmitAt
<1> HIDE DEF c, x
<1>7. PipesOK' /\ Adds(more)
  BY <1>1, <1>2, <1>3, <1>4, <1>5, SendMoves, SeqTypes DEF Send
<1>8. \A p, q, y : <<p, q, y>> \in more => p = Ground /\ q = c /\ y = x
  OBVIOUS
<1> HIDE DEF more
<1>9. /\ \A i \in Jobs : <<Ground, i>> \notin ended' => <<Ground, i>> \notin ended
      /\ \A i \in Jobs : i # j => (<<Ground, i>> \in ended' <=> <<Ground, i>> \in ended)
      /\ <<Ground, j>> \in ended'
  BY <1>1
<1>10. \A role, n, i : Ended(role, n, i)' => Ended(role, n, i)
  BY <1>1 DEF Ended
<1>11. \A i \in Jobs : SubmitMsg(i) \in way'[Ground][Plan(i).coordinator] =>
                          SubmitMsg(i) \in way[Ground][Plan(i).coordinator] \/ i = j
  <2> SUFFICES ASSUME NEW i \in Jobs, SubmitMsg(i) \in way'[Ground][Plan(i).coordinator]
               PROVE  SubmitMsg(i) \in way[Ground][Plan(i).coordinator] \/ i = j
    OBVIOUS
  <2>1. Plan(i).coordinator \in Satellites
    BY PlanFacts
  <2>2. \/ SubmitMsg(i) \in way[Ground][Plan(i).coordinator]
        \/ <<Ground, Plan(i).coordinator, SubmitMsg(i)>> \in more
    BY <1>2, <1>7, <2>1 DEF Adds
  <2>3. SubmitMsg(i).job = i
    BY OrderOps
  <2> QED BY <1>3, <1>8, <2>2, <2>3
<1>12. \A i, n, role : Busy(role, n, i)' <=> Busy(role, n, i)
  BY <1>1 DEF Busy
<1>13. ASSUME NEW i \in Jobs PROVE SubmittedOnce(i)'
  <2>1. SubmittedOnce(i)
    BY <1>4 DEF AllOnce
  <2> QED BY <1>1, <1>9, <1>11, <1>12, <2>1 DEF SubmittedOnce
<1>14. ASSUME NEW i \in Jobs, NEW s \in DOMAIN Assignments(i)
       PROVE  /\ Unsent(i, s)' => Unsent(i, s)
              /\ UnderWay(i, s)' => UnderWay(i, s)
  <2>1. Unsent(i, s)' => Unsent(i, s)
    BY <1>1, <1>9, <1>11, <1>12 DEF Unsent
  <2>2. /\ Plan(i).coordinator \in Senders /\ AssignTo(i, s) \in Satellites
        /\ AssignMsg(i, s).op # "SubmitJob"
    BY PlanFacts, AssignmentFacts DEF Senders
  <2>3. UnderWay(i, s)' => UnderWay(i, s)
    BY <1>3, <1>7, <1>8, <2>2 DEF UnderWay, Adds
  <2> QED BY <2>1, <2>3
<1>15. \A role \in Work, n \in Satellites, i \in Jobs : Unborn(role, n, i) => Unborn(role, n, i)'
  BY <1>1, <1>10, UnbornStays
<1>16. \A i \in Jobs : \A s \in DOMAIN Assignments(i) : Unsent(i, s) => ~UnderWay(i, s)
  BY <1>4 DEF AllOnce, AssignedOnce
<1>17. AllOnce'
  BY <1>4, <1>13, <1>14, <1>15, <1>16, OnceStep
<1>18. RolesFollowPlan'
  <2>1. \A i \in Satellites : RoleOK(i) => RoleOK(i)'
    BY <1>1 DEF RoleOK, Coordinates, Collects, Maps, Reduces
  <2> QED BY <1>1, <1>4, <2>1 DEF RolesFollowPlan
<1> QED BY <1>1, <1>3, <1>6, <1>7, <1>8, <1>10, <1>17, <1>18, OrderStep

\* The coordinator sends an assignment.
LEMMA AssignKeeps ==
    ASSUME JobInv, ReducerApart, NEW n \in Satellites, Assign(n)
    PROVE  JobInv'
<1>1. AllOnce /\ PipesOK /\ RolesFollowPlan
  BY DEF JobInv
<1>2. Coordinates(n)
  BY <1>1, RoleKind DEF Assign
<1> PICK j \in Jobs : node[n].job = j
  BY <1>2 DEF Coordinates
<1> PICK s \in DOMAIN Assignments(j) : node[n].step = s
  BY <1>2 DEF Coordinates
<1>3. /\ node[n].job = j /\ node[n].step = s /\ node[n].role = "coordinate"
      /\ n = Plan(j).coordinator
  BY <1>2 DEF Coordinates
<1> DEFINE to == AssignTo(j, s)
           x == AssignMsg(j, s)
           more == {<<n, to, x>>}
           r == [node[n] EXCEPT !.waiting = TRUE]
<1>4. /\ ~node[n].waiting /\ Send(n, to, x) /\ UNCHANGED job_history
      /\ node' = [node EXCEPT ![n].waiting = TRUE]
  BY <1>3 DEF Assign, AssignTo, AssignMsg
<1>5. to \in Satellites /\ n \in Senders /\ x \in Message /\ x.job = j /\ x.op \in Orders
      /\ x.op # "SubmitJob"
  BY AssignmentFacts DEF Senders, Orders
<1>6. /\ r \in [role : {"coordinate"}, job : Jobs, step : Nat, waiting : BOOLEAN]
      /\ r.role = "coordinate" /\ r.job = j /\ r.step = s /\ r.waiting
  BY <1>2, <1>3 DEF Coordinates
<1>7. node' = [node EXCEPT ![n] = r]
  BY <1>4
<1>8. Unsent(j, s)
  BY <1>3, <1>4 DEF Unsent, Busy
<1>9. x \notin way[n][to]
  BY <1>1, <1>3, <1>8 DEF AllOnce, AssignedOnce, UnderWay
<1>10. MessageAt(n, to, x)'
  BY <1>3 DEF MessageAt, AssignAt
<1> HIDE DEF to, x, r
<1>11. PipesOK' /\ Adds(more)
  BY <1>1, <1>4, <1>5, <1>9, SendMoves, SeqTypes DEF Send
<1>12. \A p, q, y : <<p, q, y>> \in more => p = n /\ q = to /\ y = x
  OBVIOUS
<1> HIDE DEF more
<1>13. node'[n] = r /\ \A i \in Satellites \ {n} : node'[i] = node[i]
  BY <1>1, <1>7, NodeValue
<1>14. RolesFollowPlan'
  <2>1. Coordinates(n)'
    BY <1>3, <1>6, <1>13 DEF Coordinates
  <2>2. RoleOK(n)'
    BY <2>1 DEF RoleOK
  <2> QED BY <1>1, <1>7, <2>2, NodeChange
<1>15. /\ ended' = ended /\ collected' = collected
       /\ UNCHANGED <<collected, mapped, reduced, failed>>
  BY <1>4 DEF job_history
<1>16. \A role, i, k : Ended(role, i, k)' => Ended(role, i, k)
  BY <1>15 DEF Ended
<1>17. \A i \in Satellites : node'[i] = node[i] \/ node'[i].role \notin Work
  BY <1>6, <1>13 DEF Work
<1>18. \A i \in Satellites, k \in Jobs :
          Busy("coordinate", i, k)' <=> Busy("coordinate", i, k)
  BY <1>3, <1>6, <1>13 DEF Busy
<1>19. ASSUME NEW k \in Jobs
       PROVE  SubmitMsg(k) \in way'[Ground][Plan(k).coordinator] =>
                 SubmitMsg(k) \in way[Ground][Plan(k).coordinator]
  <2>1. Ground \in Senders /\ Plan(k).coordinator \in Satellites /\ SubmitMsg(k).op = "SubmitJob"
    BY PlanFacts, OrderOps DEF Senders
  <2>2. SubmitMsg(k) # x
    BY <1>5, <2>1
  <2>3. <<Ground, Plan(k).coordinator, SubmitMsg(k)>> \notin more
    BY <1>12, <2>2
  <2> QED BY <1>11, <2>1, <2>3 DEF Adds
<1>20. ASSUME NEW k \in Jobs PROVE SubmittedOnce(k)'
  <2>1. SubmittedOnce(k) /\ Plan(k).coordinator \in Satellites
    BY <1>1, PlanFacts DEF AllOnce
  <2> QED BY <1>15, <1>18, <1>19, <2>1 DEF SubmittedOnce
<1>21. ASSUME NEW k \in Jobs, NEW t \in DOMAIN Assignments(k), UnderWay(k, t)'
       PROVE  UnderWay(k, t) \/ (k = j /\ t = s)
  <2>1. /\ Plan(k).coordinator \in Senders /\ AssignTo(k, t) \in Satellites
        /\ AssignMsg(k, t).job = k
    BY PlanFacts, AssignmentFacts DEF Senders
  <2>2. UnderWay(k, t) \/ <<Plan(k).coordinator, AssignTo(k, t), AssignMsg(k, t)>> \in more
    BY <1>11, <1>21, <2>1 DEF UnderWay, Adds
  <2>3. CASE <<Plan(k).coordinator, AssignTo(k, t), AssignMsg(k, t)>> \in more
    <3>1. AssignTo(k, t) = to /\ AssignMsg(k, t) = x
      BY <1>12, <2>3
    <3>2. k = j
      BY <1>5, <2>1, <3>1
    <3>3. AssignTo(j, s) = AssignTo(j, t) /\ AssignMsg(j, s) = AssignMsg(j, t)
      BY <3>1, <3>2 DEF to, x
    <3>4. t = s
      BY <3>2, <3>3, AssignmentsApart
    <3> QED BY <3>2, <3>4
  <2> QED BY <2>2, <2>3
<1>22. ASSUME NEW k \in Jobs, NEW t \in DOMAIN Assignments(k), Unsent(k, t)'
       PROVE  Unsent(k, t) /\ ~(k = j /\ t = s)
  <2> DEFINE c == Plan(k).coordinator
  <2>1. c \in Satellites
    BY PlanFacts
  <2>2. CASE <<Ground, k>> \notin ended \/ SubmitMsg(k) \in way'[Ground][c]
    <3>1. <<Ground, k>> \notin ended \/ SubmitMsg(k) \in way[Ground][c]
      BY <1>19, <2>2
    <3>2. ~Busy("coordinate", c, k)
      BY <1>1, <3>1 DEF AllOnce, SubmittedOnce
    <3>3. k # j
      BY <1>3, <3>2 DEF Busy
    <3> QED BY <3>1, <3>3 DEF Unsent
  <2>3. CASE /\ Busy("coordinate", c, k)'
             /\ node'[c].step < t \/ (node'[c].step = t /\ ~node'[c].waiting)
    <3>1. CASE c = n
      <4>1. node'[c].step = s /\ node'[c].waiting
        BY <1>6, <1>13, <3>1
      <4>2. node[c].step = s
        BY <1>3, <3>1
      <4>3. Busy("coordinate", c, k) /\ s < t
        BY <1>18, <2>1, <2>3, <4>1
      <4>4. ~(s < s)
        BY <1>2, <1>3 DEF Coordinates
      <4> QED BY <4>2, <4>3, <4>4 DEF Unsent
    <3>2. CASE c # n
      <4>1. node'[c] = node[c] /\ k # j
        BY <1>3, <1>13, <2>1, <3>2
      <4> QED BY <1>18, <2>1, <2>3, <4>1 DEF Unsent
    <3> QED BY <3>1, <3>2
  <2> QED BY <1>15, <1>22, <2>2, <2>3 DEF Unsent
<1>23. \A k \in Jobs : \A t \in DOMAIN Assignments(k) : Unsent(k, t) => ~UnderWay(k, t)
  BY <1>1 DEF AllOnce, AssignedOnce
<1>24. \A role \in Work, i \in Satellites, k \in Jobs : Unborn(role, i, k) => Unborn(role, i, k)'
  BY <1>15, <1>16, <1>17, UnbornStays
<1>25. ASSUME NEW k \in Jobs, NEW t \in DOMAIN Assignments(k)
       PROVE  /\ Unsent(k, t)' => Unsent(k, t) /\ ~UnderWay(k, t)'
              /\ UnderWay(k, t)' => UnderWay(k, t) \/ Unsent(k, t)
  BY <1>8, <1>21, <1>22, <1>23
<1>26. AllOnce'
  BY <1>1, <1>20, <1>24, <1>25, OnceStep
<1> QED BY <1>5, <1>10, <1>11, <1>12, <1>14, <1>15, <1>16, <1>17, <1>26, OrderStep

\* A number of a range that is not its last has a successor there.
LEMMA NextInRange ==
    ASSUME NEW a \in Nat, NEW b \in Nat, NEW s \in 1 .. (a + b + 1), s # a + b + 1
    PROVE  s \in Nat /\ s + 1 \in 1 .. (a + b + 1)
  OBVIOUS

\* An assignment was received: the coordinator goes on to the next, or ends.
LEMMA AssignedKeeps ==
    ASSUME JobInv, ReducerApart, NEW n \in Satellites, Assigned(n)
    PROVE  JobInv'
<1>1. AllOnce /\ PipesOK /\ RolesFollowPlan
  BY DEF JobInv
<1>2. Coordinates(n)
  BY <1>1, RoleKind DEF Assigned
<1> PICK j \in Jobs : node[n].job = j
  BY <1>2 DEF Coordinates
<1> PICK s \in DOMAIN Assignments(j) : node[n].step = s
  BY <1>2 DEF Coordinates
<1>3. /\ node[n].job = j /\ node[n].step = s /\ node[n].role = "coordinate"
      /\ n = Plan(j).coordinator
  BY <1>2 DEF Coordinates
<1> DEFINE to == AssignTo(j, s)
           r == [node[n] EXCEPT !.step = s + 1, !.waiting = FALSE]
<1>4. /\ node[n].waiting /\ DropSender(n, to) /\ UNCHANGED job_history
      /\ s = Len(Assignments(j)) => node' = [node EXCEPT ![n] = Idle]
      /\ s # Len(Assignments(j)) => node' = [node EXCEPT ![n] = r]
  <2>1. node[n].waiting /\ DropSender(n, to) /\ UNCHANGED job_history
    BY <1>3 DEF Assigned, AssignTo
  <2>2. node' = [node EXCEPT ![n] = IF node[n].step = Len(Assignments(node[n].job)) THEN Idle
                                    ELSE [node[n] EXCEPT !.step = node[n].step + 1, !.waiting = FALSE]]
    BY DEF Assigned
  <2> QED BY <1>3, <2>1, <2>2
<1>5. to \in Satellites /\ n \in Senders
  BY AssignmentFacts DEF Senders
<1> HIDE DEF to
<1>6. CASE s = Len(Assignments(j))
  <2>1. node' = [node EXCEPT ![n] = Idle]
    BY <1>4, <1>6
  <2> QED BY <1>4, <1>5, <2>1, DropKeeps
<1>7. CASE s # Len(Assignments(j))
  <2>1. s \in Nat /\ s + 1 \in DOMAIN Assignments(j) /\ s + 1 \in Nat
    <3>1. /\ DOMAIN Assignments(j) = 1 .. (Len(Plan(j).collectors) + Len(Plan(j).mappers) + 1)
          /\ Len(Assignments(j)) = Len(Plan(j).collectors) + Len(Plan(j).mappers) + 1
          /\ Len(Plan(j).collectors) \in Nat /\ Len(Plan(j).mappers) \in Nat
      BY AssignmentKinds
    <3>2. /\ s \in 1 .. (Len(Plan(j).collectors) + Len(Plan(j).mappers) + 1)
          /\ s # Len(Plan(j).collectors) + Len(Plan(j).mappers) + 1
      BY <1>7, <3>1
    <3>3. s \in Nat /\ s + 1 \in 1 .. (Len(Plan(j).collectors) + Len(Plan(j).mappers) + 1)
      BY <3>1, <3>2, NextInRange
    <3>4. s + 1 \in DOMAIN Assignments(j)
      BY <3>1, <3>3, Zenon
    <3>5. s + 1 \in Nat
      BY <3>3
    <3> QED BY <3>3, <3>4, <3>5
  <2>2. /\ r \in [role : {"coordinate"}, job : Jobs, step : Nat, waiting : BOOLEAN]
        /\ r.role = "coordinate" /\ r.job = j /\ r.step = s + 1 /\ ~r.waiting
    BY <1>2, <1>3, <2>1 DEF Coordinates
  <2>3. node' = [node EXCEPT ![n] = r]
    BY <1>4, <1>7
  <2> HIDE DEF r
  <2>4. PipesOK' /\ Adds({})
    BY <1>1, <1>4, <1>5, DropMoves
  <2>5. node'[n] = r /\ \A i \in Satellites \ {n} : node'[i] = node[i]
    BY <1>1, <2>3, NodeValue
  <2>6. RolesFollowPlan'
    <3>1. Coordinates(n)'
      BY <1>3, <2>1, <2>2, <2>5 DEF Coordinates
    <3>2. RoleOK(n)'
      BY <3>1 DEF RoleOK
    <3> QED BY <1>1, <2>3, <3>2, NodeChange
  <2>7. /\ ended' = ended /\ collected' = collected
        /\ UNCHANGED <<collected, mapped, reduced, failed>>
    BY <1>4 DEF job_history
  <2>8. \A role, i, k : Ended(role, i, k)' => Ended(role, i, k)
    BY <2>7 DEF Ended
  <2>9. \A i \in Satellites : node'[i] = node[i] \/ node'[i].role \notin Work
    BY <2>2, <2>5 DEF Work
  <2>10. \A i \in Satellites, k \in Jobs :
            Busy("coordinate", i, k)' <=> Busy("coordinate", i, k)
    BY <1>3, <2>2, <2>5 DEF Busy
  <2>11. ASSUME NEW k \in Jobs
         PROVE  SubmitMsg(k) \in way'[Ground][Plan(k).coordinator] =>
                   SubmitMsg(k) \in way[Ground][Plan(k).coordinator]
    BY <2>4, PlanFacts DEF Adds, Senders
  <2>12. ASSUME NEW k \in Jobs PROVE SubmittedOnce(k)'
    <3>1. SubmittedOnce(k) /\ Plan(k).coordinator \in Satellites
      BY <1>1, PlanFacts DEF AllOnce
    <3> QED BY <2>7, <2>10, <2>11, <3>1 DEF SubmittedOnce
  <2>13. ASSUME NEW k \in Jobs, NEW t \in DOMAIN Assignments(k), UnderWay(k, t)'
         PROVE  UnderWay(k, t)
    <3>1. Plan(k).coordinator \in Senders /\ AssignTo(k, t) \in Satellites
      BY PlanFacts, AssignmentFacts DEF Senders
    <3> QED BY <2>4, <2>13, <3>1 DEF UnderWay, Adds
  <2>14. ASSUME NEW k \in Jobs, NEW t \in DOMAIN Assignments(k), Unsent(k, t)'
         PROVE  Unsent(k, t)
    <3> DEFINE c == Plan(k).coordinator
    <3>1. c \in Satellites /\ t \in Nat
      <4>1. DOMAIN Assignments(k) = 1 .. (Len(Plan(k).collectors) + Len(Plan(k).mappers) + 1)
        BY AssignmentKinds
      <4>2. t \in 1 .. (Len(Plan(k).collectors) + Len(Plan(k).mappers) + 1)
        BY <4>1
      <4>3. t \in Nat
        BY <4>2
      <4> QED BY <4>3, PlanFacts
    <3>2. CASE <<Ground, k>> \notin ended \/ SubmitMsg(k) \in way'[Ground][c]
      BY <2>11, <3>2 DEF Unsent
    <3>3. CASE /\ Busy("coordinate", c, k)'
               /\ node'[c].step < t \/ (node'[c].step = t /\ ~node'[c].waiting)
      <4>1. CASE c = n
        <5>1. node'[c].step = s + 1 /\ node[c].step = s
          BY <1>3, <2>2, <2>5, <4>1
        <5>2. s < t
          BY <2>1, <3>1, <3>3, <5>1
        <5> QED BY <2>10, <3>1, <3>3, <5>1, <5>2 DEF Unsent
      <4>2. CASE c # n
        <5>1. node'[c] = node[c]
          BY <2>5, <3>1, <4>2
        <5> QED BY <2>10, <3>1, <3>3, <5>1 DEF Unsent
      <4> QED BY <4>1, <4>2
    <3> QED BY <2>7, <2>14, <3>2, <3>3 DEF Unsent
  <2>15. \A k \in Jobs : \A t \in DOMAIN Assignments(k) : Unsent(k, t) => ~UnderWay(k, t)
    BY <1>1 DEF AllOnce, AssignedOnce
  <2>16. \A role \in Work, i \in Satellites, k \in Jobs :
            Unborn(role, i, k) => Unborn(role, i, k)'
    BY <2>7, <2>8, <2>9, UnbornStays
  <2>17. AllOnce'
    BY <1>1, <2>12, <2>13, <2>14, <2>15, <2>16, OnceStep
  <2> QED BY <2>4, <2>6, <2>7, <2>8, <2>9, <2>17, OrderStep
<1> QED BY <1>6, <1>7

-----------------------------------------------------------------------------
(* The dispatch loop reads an order.                                       *)

\* The collectors of a mapper are those that are assigned to its index.
LEMMA CountIsCollectors ==
    ASSUME NEW j \in Jobs, NEW k \in DOMAIN Plan(j).mappers
    PROVE  /\ CollectorCount(j, k) =
                 Cardinality({i \in DOMAIN Plan(j).collectors : MapperOf(j, i) = Plan(j).mappers[k]})
           /\ CollectorCount(j, k) \in Nat
<1> DEFINE C == DOMAIN Plan(j).collectors
           S == {i \in C : MapperOf(j, i) = Plan(j).mappers[k]}
           T == {i \in C : JobPlan[j].assignment[i] = k}
<1>1. ASSUME NEW i \in C PROVE MapperOf(j, i) = Plan(j).mappers[k] <=> JobPlan[j].assignment[i] = k
  <2>1. JobPlan[j].assignment[i] \in DOMAIN Plan(j).mappers /\ IsInjective(Plan(j).mappers)
    BY PlanFacts
  <2>2. MapperOf(j, i) = Plan(j).mappers[JobPlan[j].assignment[i]]
    BY DEF MapperOf, Plan
  <2> QED BY <2>1, <2>2 DEF IsInjective
<1>2. S = T
  BY <1>1
<1>3. CollectorCount(j, k) = Cardinality(T)
  BY DEF CollectorCount, Plan
<1>4. IsFiniteSet(C)
  <2>1. C = 1 .. Len(Plan(j).collectors) /\ Len(Plan(j).collectors) \in Nat
    BY PlanFacts
  <2> QED BY <2>1, FS_Interval
<1>5. T \subseteq C
  OBVIOUS
<1> HIDE DEF C, T
<1>6. IsFiniteSet(T)
  BY <1>4, <1>5, FS_Subset
<1>7. Cardinality(T) \in Nat
  BY <1>6, FS_CardinalityType
<1> QED BY <1>2, <1>3, <1>7 DEF C

\* A role begins with the parameters of the plan.
LEMMA RoleBegins ==
    ASSUME NEW j \in Jobs, NEW s \in DOMAIN Assignments(j), NEW n \in Satellites,
           n = AssignTo(j, s), node'[n] = Started(AssignMsg(j, s))
    PROVE  /\ RoleOK(n)' /\ Busy(RoleOf(AssignMsg(j, s).op), n, j)'
           /\ node'[n].role \in {"map", "reduce"} => node'[n].done = 0
<1>1. /\ Plan(j).reducer \in Satellites /\ Plan(j).coordinator \in Satellites
      /\ \A i \in DOMAIN Plan(j).collectors : MapperOf(j, i) \in Satellites
      /\ Len(Plan(j).mappers) \in Nat
  BY PlanFacts, AssignmentKinds
<1>2. CASE AssignMsg(j, s).op = "AssignCollector"
  <2>1. s \in DOMAIN Plan(j).collectors /\ n = Plan(j).collectors[s] /\ AssignMsg(j, s) = CollectMsg(j, s)
    BY <1>2, AssignmentByOp DEF ToCollector
  <2>2. node'[n] = [role |-> "collect", job |-> j, next |-> MapperOf(j, s), chunks |-> 0]
    BY <2>1 DEF Started, CollectMsg
  <2>3. FromCollector(j, n, MapperOf(j, s))
    BY <2>1 DEF FromCollector
  <2>4. Collects(n)'
    BY <1>1, <2>1, <2>2, <2>3 DEF Collects, FromCollector
  <2> QED BY <1>2, <2>2, <2>4 DEF RoleOK, RoleOf, Busy
<1>3. CASE AssignMsg(j, s).op = "AssignMapper"
  <2> DEFINE k == s - Len(Plan(j).collectors)
  <2>1. ToMapper(j, s, k)
    BY <1>3, AssignmentByOp
  <2> HIDE DEF k
  <2>2. k \in DOMAIN Plan(j).mappers /\ n = Plan(j).mappers[k] /\ AssignMsg(j, s) = MapMsg(j, k)
    BY <2>1 DEF ToMapper
  <2>3. node'[n] = [role |-> "map", job |-> j, next |-> Plan(j).reducer,
                    count |-> CollectorCount(j, k), done |-> 0]
    BY <2>2 DEF Started, MapMsg, Plan
  <2>4. FromMapper(j, n, Plan(j).reducer)
    BY <2>2 DEF FromMapper, Range
  <2>5. /\ CollectorCount(j, k) = Cardinality({i \in DOMAIN Plan(j).collectors : MapperOf(j, i) = n})
        /\ CollectorCount(j, k) \in Nat
    BY <2>2, CountIsCollectors
  <2>6. /\ node'[n] \in [role : {"map"}, job : Jobs, next : Satellites, count : Nat, done : Nat]
        /\ node'[n].job = j /\ node'[n].next = Plan(j).reducer /\ node'[n].count = CollectorCount(j, k)
        /\ node'[n].role = "map" /\ node'[n].done = 0
    BY <1>1, <2>3, <2>5
  <2>7. Maps(n)'
    BY <2>4, <2>5, <2>6 DEF Maps, FromMapper
  <2> QED BY <1>3, <2>6, <2>7 DEF RoleOK, RoleOf, Busy
<1>4. CASE AssignMsg(j, s).op = "AssignReducer"
  <2>1. n = Plan(j).reducer /\ AssignMsg(j, s) = ReduceMsg(j)
    BY <1>4, AssignmentByOp DEF ToReducer
  <2>2. node'[n] = [role |-> "reduce", job |-> j, next |-> Plan(j).coordinator,
                    count |-> Len(Plan(j).mappers), done |-> 0]
    BY <2>1 DEF Started, ReduceMsg, Plan
  <2>3. Reduces(n)'
    BY <1>1, <2>1, <2>2 DEF Reduces
  <2> QED BY <1>4, <2>2, <2>3 DEF RoleOK, RoleOf, Busy
<1> QED BY <1>2, <1>3, <1>4, AssignmentByOp

\* What the dispatch loop does when it reads a message.
LEMMA OrderRead ==
    ASSUME JobInv, NEW n \in Satellites, NEW m \in Senders, Dispatch(n, m),
           NEW x, x = Head(inbox[n][m])
    PROVE  /\ PipesOK' /\ Adds({}) /\ Taken(n, m, x) /\ MessageAt(m, n, x)
           /\ node' = [node EXCEPT ![n] = Started(x)]
           /\ node'[n] = Started(x) /\ node[n].role = "idle"
           /\ \A i \in Satellites \ {n} : node'[i] = node[i]
           /\ ended' = ended /\ collected' = collected
           /\ UNCHANGED <<collected, mapped, reduced, failed>>
<1>1. PipesOK /\ RolesFollowPlan
  BY DEF JobInv
<1>2. PipesOK' /\ Adds({}) /\ Taken(n, m, Head(inbox[n][m]))
  BY <1>1, TakeMoves DEF Dispatch
<1>3. MessageAt(m, n, Head(inbox[n][m]))
  BY ReadMessage DEF Dispatch
<1>4. node' = [node EXCEPT ![n] = Started(x)] /\ node[n].role = "idle"
  BY DEF Dispatch
<1>5. node'[n] = Started(x) /\ \A i \in Satellites \ {n} : node'[i] = node[i]
  BY <1>1, <1>4, NodeValue
<1>6. UNCHANGED job_history
  BY DEF Dispatch
<1> QED BY <1>2, <1>3, <1>4, <1>5, <1>6 DEF job_history

\* Submissions and assignments under way only become fewer.
LEMMA OrdersShrink ==
    ASSUME Adds({}), NEW k \in Jobs
    PROVE  /\ SubmitMsg(k) \in way'[Ground][Plan(k).coordinator] =>
                 SubmitMsg(k) \in way[Ground][Plan(k).coordinator]
           /\ \A t \in DOMAIN Assignments(k) : UnderWay(k, t)' => UnderWay(k, t)
<1>1. Ground \in Senders /\ Plan(k).coordinator \in Satellites /\ Plan(k).coordinator \in Senders
  BY PlanFacts DEF Senders
<1>2. ASSUME NEW t \in DOMAIN Assignments(k), UnderWay(k, t)' PROVE UnderWay(k, t)
  <2>1. AssignTo(k, t) \in Satellites
    BY AssignmentFacts
  <2> QED BY <1>1, <1>2, <2>1 DEF UnderWay, Adds
<1> QED BY <1>1, <1>2 DEF Adds

\* A job has a first assignment.
LEMMA OneInRange ==
    ASSUME NEW a \in Nat, NEW b \in Nat
    PROVE  1 \in 1 .. (a + b + 1)
  OBVIOUS

\* A SubmitJob is read: the satellite coordinates the job.
LEMMA DispatchSubmitKeeps ==
    ASSUME JobInv, ReducerApart, NEW n \in Satellites, NEW m \in Senders, Dispatch(n, m),
           Head(inbox[n][m]).op = "SubmitJob"
    PROVE  JobInv'
<1>1. AllOnce /\ RolesFollowPlan
  BY DEF JobInv
<1> PICK x : x = Head(inbox[n][m])
  OBVIOUS
<1>2. /\ PipesOK' /\ Adds({}) /\ Taken(n, m, x) /\ MessageAt(m, n, x)
      /\ node' = [node EXCEPT ![n] = Started(x)]
      /\ node'[n] = Started(x) /\ node[n].role = "idle"
      /\ \A i \in Satellites \ {n} : node'[i] = node[i]
      /\ ended' = ended /\ collected' = collected
      /\ UNCHANGED <<collected, mapped, reduced, failed>>
  BY OrderRead
<1>3. SubmitAt(m, n, x)
  BY <1>2, MessageByOp
<1> PICK j \in Jobs : x = SubmitMsg(j) /\ m = Ground /\ n = Plan(j).coordinator
  BY <1>3 DEF SubmitAt
<1> DEFINE r == [role |-> "coordinate", job |-> j, step |-> 1, waiting |-> FALSE]
<1>4. Started(x) = r
  <2>1. x.op = "SubmitJob" /\ x.job = j
    BY OrderOps
  <2> QED BY <2>1 DEF Started
<1>5. /\ r \in [role : {"coordinate"}, job : Jobs, step : Nat, waiting : BOOLEAN]
      /\ r.role = "coordinate" /\ r.job = j /\ r.step = 1 /\ ~r.waiting
  OBVIOUS
<1> HIDE DEF r
<1>6. RolesFollowPlan'
  <2>1. node'[n] = r
    BY <1>2, <1>4
  <2>2. 1 \in DOMAIN Assignments(j)
    <3>1. /\ DOMAIN Assignments(j) = 1 .. (Len(Plan(j).collectors) + Len(Plan(j).mappers) + 1)
          /\ Len(Plan(j).collectors) \in Nat /\ Len(Plan(j).mappers) \in Nat
      BY AssignmentKinds
    <3>2. 1 \in 1 .. (Len(Plan(j).collectors) + Len(Plan(j).mappers) + 1)
      BY <3>1, OneInRange
    <3> QED BY <3>1, <3>2, Zenon
  <2>3. Coordinates(n)'
    BY <1>5, <2>1, <2>2 DEF Coordinates
  <2>4. RoleOK(n)'
    BY <2>3 DEF RoleOK
  <2> QED BY <1>1, <1>2, <2>4, NodeChange
<1>7. SubmitMsg(j) \in way[Ground][n] /\ SubmitMsg(j) \notin way'[Ground][n]
  BY <1>2 DEF Taken
<1>8. \A role, i, k : Ended(role, i, k)' => Ended(role, i, k)
  BY <1>2 DEF Ended
<1>9. \A i \in Satellites : node'[i] = node[i] \/ node'[i].role \notin Work
  BY <1>2, <1>4, <1>5 DEF Work
<1>10. ASSUME NEW k \in Jobs
       PROVE  LET c == Plan(k).coordinator IN
              Busy("coordinate", c, k)' => (Busy("coordinate", c, k) /\ node'[c] = node[c]) \/ k = j
  <2>1. Plan(k).coordinator \in Satellites
    BY PlanFacts
  <2> QED BY <1>2, <1>4, <1>5, <2>1 DEF Busy
<1>11. ASSUME NEW k \in Jobs PROVE SubmittedOnce(k)'
  <2>1. SubmittedOnce(k) /\ SubmittedOnce(j)
    BY <1>1 DEF AllOnce
  <2>2. CASE k = j
    <3>1. <<Ground, j>> \in ended'
      BY <1>2, <1>7, <2>1 DEF SubmittedOnce
    <3> QED BY <1>7, <2>2, <3>1 DEF SubmittedOnce
  <2>3. CASE k # j
    BY <1>2, <1>10, <2>1, <2>3, OrdersShrink DEF SubmittedOnce
  <2> QED BY <2>2, <2>3
<1>12. \A t \in DOMAIN Assignments(j) : Unsent(j, t)
  BY <1>7 DEF Unsent
<1>13. ASSUME NEW k \in Jobs, NEW t \in DOMAIN Assignments(k), Unsent(k, t)' PROVE Unsent(k, t)
  <2>1. CASE k = j
    BY <1>12, <2>1
  <2>2. CASE k # j
    BY <1>2, <1>10, <1>13, <2>2, OrdersShrink DEF Unsent
  <2> QED BY <2>1, <2>2
<1>14. \A k \in Jobs : \A t \in DOMAIN Assignments(k) : Unsent(k, t) => ~UnderWay(k, t)
  BY <1>1 DEF AllOnce, AssignedOnce
<1>15. \A role \in Work, i \in Satellites, k \in Jobs : Unborn(role, i, k) => Unborn(role, i, k)'
  BY <1>2, <1>8, <1>9, UnbornStays
<1>16. \A k \in Jobs : \A t \in DOMAIN Assignments(k) : UnderWay(k, t)' => UnderWay(k, t)
  BY <1>2, OrdersShrink
<1>17. AllOnce'
  BY <1>1, <1>11, <1>13, <1>14, <1>15, <1>16, OnceStep
<1> QED BY <1>2, <1>6, <1>8, <1>9, <1>17, OrderStep

\* An assignment is read: its role begins, for the first and only time.
LEMMA DispatchAssignKeeps ==
    ASSUME JobInv, ReducerApart, NEW n \in Satellites, NEW m \in Senders, Dispatch(n, m),
           Head(inbox[n][m]).op \in {"AssignCollector", "AssignMapper", "AssignReducer"}
    PROVE  JobInv'
<1>1. /\ AllOnce /\ RolesFollowPlan /\ MessagesInPlace /\ WorkNotEnded /\ ChunksNumbered
      /\ DonesCounted /\ MapsFollow /\ ReduceFollows /\ ResultsAreMapped
  BY DEF JobInv
<1> PICK x : x = Head(inbox[n][m])
  OBVIOUS
<1>2. /\ PipesOK' /\ Adds({}) /\ Taken(n, m, x) /\ MessageAt(m, n, x)
      /\ node' = [node EXCEPT ![n] = Started(x)]
      /\ node'[n] = Started(x) /\ node[n].role = "idle"
      /\ \A i \in Satellites \ {n} : node'[i] = node[i]
      /\ ended' = ended /\ collected' = collected
      /\ UNCHANGED <<collected, mapped, reduced, failed>>
  BY OrderRead
<1>3. AssignAt(m, n, x)
  BY <1>2, MessageByOp
<1> PICK j \in Jobs : \E s \in DOMAIN Assignments(j) :
        x = AssignMsg(j, s) /\ m = Plan(j).coordinator /\ n = AssignTo(j, s)
  BY <1>3 DEF AssignAt
<1>4. PICK s \in DOMAIN Assignments(j) :
        x = AssignMsg(j, s) /\ m = Plan(j).coordinator /\ n = AssignTo(j, s)
  OBVIOUS
<1> PICK w : w = RoleOf(AssignMsg(j, s).op)
  OBVIOUS
<1>5. w \in Work
  BY AssignmentFacts
<1>6. RoleOK(n)' /\ Busy(w, n, j)' /\ (node'[n].role \in {"map", "reduce"} => node'[n].done = 0)
  BY <1>2, <1>4, RoleBegins
<1>7. node'[n].role = w /\ node'[n].job = j
  BY <1>6 DEF Busy
<1>8. RolesFollowPlan'
  BY <1>1, <1>2, <1>6, NodeChange
<1>9. UnderWay(j, s) /\ ~UnderWay(j, s)'
  BY <1>2, <1>4 DEF UnderWay, Taken
<1>10. Unborn(w, n, j)
  BY <1>1, <1>4, <1>9 DEF AllOnce, AssignedOnce
<1>11. \A role, i, k : Ended(role, i, k)' <=> Ended(role, i, k)
  BY <1>2 DEF Ended
<1>12. ASSUME NEW i \in Satellites, NEW k \in Jobs, NEW role \in Work, Busy(role, i, k)'
       PROVE  (i # n /\ node'[i] = node[i] /\ Busy(role, i, k)) \/ (i = n /\ k = j /\ role = w)
  BY <1>2, <1>7, <1>12 DEF Busy
<1>13. MessagesInPlace'
  BY <1>1, <1>2, MessagesKept
<1>14. WorkNotEnded'
  <2> SUFFICES ASSUME NEW i \in Satellites, NEW k \in Jobs, NEW role \in Work, Busy(role, i, k)'
               PROVE  ~Ended(role, i, k)'
    BY DEF WorkNotEnded
  <2> QED BY <1>1, <1>10, <1>11, <1>12 DEF WorkNotEnded, Unborn
<1>15. ChunksNumbered'
  <2>1. collected' \subseteq Chunks /\ mapped' \subseteq collected'
    BY <1>1, <1>2 DEF ChunksNumbered
  <2>2. ASSUME NEW i \in Satellites, NEW k \in Jobs, NEW q \in Nat,
               Busy("collect", i, k)', <<i, k, q>> \in collected'
        PROVE  q < node'[i].chunks
    <3>1. "collect" \in Work
      BY DEF Work
    <3>2. (i # n /\ node'[i] = node[i] /\ Busy("collect", i, k)) \/ (i = n /\ k = j /\ "collect" = w)
      BY <1>12, <2>2, <3>1
    <3>3. CASE i = n /\ k = j /\ "collect" = w
      BY <1>2, <1>10, <2>2, <3>3 DEF Unborn
    <3>4. CASE i # n /\ node'[i] = node[i] /\ Busy("collect", i, k)
      BY <1>1, <1>2, <2>2, <3>4 DEF ChunksNumbered
    <3> QED BY <3>2, <3>3, <3>4
  <2> QED BY <2>1, <2>2 DEF ChunksNumbered
<1>16. DonesCounted'
  <2>1. DonesSent({})
    BY DEF DonesSent
  <2>2. ended \subseteq ended' /\ failed' = failed
    BY <1>2
  <2>3. ASSUME NEW i \in Satellites, NEW k \in Jobs, Busy("map", i, k)', k \notin failed'
        PROVE  CollectorsCounted(i, k)'
    <3>1. (i # n /\ node'[i] = node[i] /\ Busy("map", i, k)) \/ (i = n /\ k = j /\ "map" = w)
      BY <1>12, <2>3 DEF Work
    <3>2. CASE i = n
      <4>1. node'[i].done = 0
        BY <1>6, <1>7, <3>1, <3>2
      <4> QED BY <4>1, FS_EmptySet DEF CollectorsCounted
    <3>3. CASE i # n
      <4>1. node'[i].done = node[i].done /\ Busy("map", i, k)
        BY <3>1, <3>3
      <4> QED BY <1>1, <1>2, <2>1, <2>2, <2>3, <4>1, MapCountKept
    <3> QED BY <3>2, <3>3
  <2>4. ASSUME NEW i \in Satellites, NEW k \in Jobs, Busy("reduce", i, k)'
        PROVE  MappersCounted(i, k)'
    <3>1. (i # n /\ node'[i] = node[i] /\ Busy("reduce", i, k)) \/ (i = n /\ k = j /\ "reduce" = w)
      BY <1>12, <2>4 DEF Work
    <3>2. CASE i = n
      <4>1. node'[i].done = 0
        BY <1>6, <1>7, <3>1, <3>2
      <4> QED BY <4>1, FS_EmptySet DEF MappersCounted
    <3>3. CASE i # n
      <4>1. node'[i].done = node[i].done /\ Busy("reduce", i, k)
        BY <3>1, <3>3
      <4> QED BY <1>1, <1>2, <2>1, <2>2, <4>1, ReduceCountKept
    <3> QED BY <3>2, <3>3
  <2> QED BY <2>3, <2>4 DEF DonesCounted
<1>17. MapsFollow' /\ ReduceFollows'
  BY <1>1, <1>2, FollowKept
<1>18. ResultsAreMapped'
  BY <1>1, <1>2 DEF ResultsAreMapped
<1>19. ASSUME NEW i \in Satellites, NEW k \in Jobs
       PROVE  Busy("coordinate", i, k)' => Busy("coordinate", i, k) /\ node'[i] = node[i]
  BY <1>2, <1>5, <1>7 DEF Busy, Work
<1>20. ASSUME NEW k \in Jobs
       PROVE  SubmittedOnce(k)' /\ \A t \in DOMAIN Assignments(k) : Unsent(k, t)' => Unsent(k, t)
  <2>1. SubmittedOnce(k) /\ Plan(k).coordinator \in Satellites
    BY <1>1, PlanFacts DEF AllOnce
  <2>2. SubmitMsg(k) \in way'[Ground][Plan(k).coordinator] =>
           SubmitMsg(k) \in way[Ground][Plan(k).coordinator]
    BY <1>2, OrdersShrink
  <2>3. SubmittedOnce(k)'
    BY <1>2, <1>19, <2>1, <2>2 DEF SubmittedOnce
  <2>4. \A t \in DOMAIN Assignments(k) : Unsent(k, t)' => Unsent(k, t)
    BY <1>2, <1>19, <2>1, <2>2 DEF Unsent
  <2> QED BY <2>3, <2>4
<1>21. ASSUME NEW k \in Jobs, NEW t \in DOMAIN Assignments(k)
       PROVE  /\ Unsent(k, t)' => ~UnderWay(k, t)'
              /\ Unsent(k, t)' \/ UnderWay(k, t)' =>
                    Unborn(RoleOf(AssignMsg(k, t).op), AssignTo(k, t), k)'
  <2>1. UnderWay(k, t)' => UnderWay(k, t)
    BY <1>2, OrdersShrink
  <2>2. /\ Unsent(k, t) => ~UnderWay(k, t)
        /\ Unsent(k, t) \/ UnderWay(k, t) => Unborn(RoleOf(AssignMsg(k, t).op), AssignTo(k, t), k)
    BY <1>1 DEF AllOnce, AssignedOnce
  <2>3. Unsent(k, t)' => Unsent(k, t)
    BY <1>20
  <2>4. ASSUME Unsent(k, t)' \/ UnderWay(k, t)'
        PROVE  Unborn(RoleOf(AssignMsg(k, t).op), AssignTo(k, t), k)'
    <3> PICK v : v = RoleOf(AssignMsg(k, t).op)
      OBVIOUS
    <3> PICK i : i = AssignTo(k, t)
      OBVIOUS
    <3>1. v \in Work /\ i \in Satellites
      BY AssignmentFacts
    <3>2. Unborn(v, i, k)
      BY <2>1, <2>2, <2>3, <2>4
    <3>3. ~Busy(v, i, k)'
      <4> SUFFICES ASSUME Busy(v, i, k)' PROVE FALSE
        OBVIOUS
      <4>1. i = n /\ k = j /\ v = w
        BY <1>12, <3>1, <3>2 DEF Unborn
      <4>2. t = s
        BY <1>4, <4>1, AssignmentsApart
      <4> QED BY <1>9, <2>2, <2>3, <2>4, <4>1, <4>2
    <3>4. ~Ended(v, i, k)'
      BY <1>11, <3>2 DEF Unborn
    <3>5. Unborn(v, i, k)'
      BY <1>2, <3>2, <3>3, <3>4 DEF Unborn
    <3> QED BY <3>5
  <2> QED BY <2>1, <2>2, <2>3, <2>4
<1>22. AllOnce'
  BY <1>20, <1>21 DEF AllOnce, AssignedOnce
<1> QED BY <1>2, <1>8, <1>13, <1>14, <1>15, <1>16, <1>17, <1>18, <1>22 DEF JobInv

\* The dispatch loop reads any message; data is dropped.
LEMMA DispatchKeeps ==
    ASSUME JobInv, ReducerApart, NEW n \in Satellites, NEW m \in Senders, Dispatch(n, m)
    PROVE  JobInv'
<1> PICK x : x = Head(inbox[n][m])
  OBVIOUS
<1>1. x.op \in {"SubmitJob", "AssignCollector", "AssignMapper", "AssignReducer",
                "PhaseDone", "DataChunk"}
  BY OrderRead, MessageByOp
<1>2. CASE x.op \in {"PhaseDone", "DataChunk"}
  <2>1. Started(x) = Idle
    BY <1>2 DEF Started
  <2>2. node' = [node EXCEPT ![n] = Idle]
    BY <2>1 DEF Dispatch
  <2> QED BY <2>2, TakeKeeps DEF Dispatch
<1> QED BY <1>1, <1>2, DispatchSubmitKeeps, DispatchAssignKeeps

-----------------------------------------------------------------------------
(* The phases of every job are in order.                                   *)

\* No job was submitted, no message sent, no role begun.
LEMMA JobInvInit ==
    JobInit => JobInv
<1> SUFFICES ASSUME JobInit PROVE JobInv
  OBVIOUS
<1> USE DEF JobInit
<1>1. \A n \in Satellites : node[n] = Idle /\ node[n].role = "idle"
  BY DEF Idle
<1>2. \A n \in Senders, m \in Satellites : flight[n][m] = <<>> /\ inbox[m][n] = <<>>
  OBVIOUS
<1>3. Held(<<>>, <<>>) = {} /\ PipeOK(<<>>, <<>>)
  BY DEF Held, PipeOK, Different
<1>4. \A n \in Senders, m \in Satellites : way[n][m] = {}
  BY <1>2, <1>3, WayAt
<1>5. PipesOK
  <2>1. next_seq \in [Senders -> [Satellites -> Nat]]
    OBVIOUS
  <2>2. flight \in [Senders -> [Satellites -> Seq(Packet)]]
    <3>1. <<>> \in Seq(Packet)
      OBVIOUS
    <3> QED BY <3>1
  <2>3. inbox \in [Satellites -> [Senders -> Seq(Message)]]
    <3>1. <<>> \in Seq(Message)
      OBVIOUS
    <3> HIDE DEF Message
    <3> QED BY <3>1
  <2> QED BY <1>2, <1>3, <2>1, <2>2, <2>3 DEF PipesOK
<1>6. MessagesInPlace
  BY <1>4 DEF MessagesInPlace
<1>7. RolesFollowPlan
  BY <1>1 DEF RolesFollowPlan, RoleOK
<1>8. \A n \in Satellites : \A role \in Work \cup {"coordinate"} : \A j : ~Busy(role, n, j)
  BY <1>1 DEF Busy, Work
<1>9. WorkNotEnded
  BY <1>8 DEF WorkNotEnded
<1>10. AllOnce
  <2> SUFFICES ASSUME NEW j \in Jobs PROVE SubmittedOnce(j) /\ AssignedOnce(j)
    BY DEF AllOnce
  <2>1. Ground \in Senders /\ Plan(j).coordinator \in Satellites /\ Plan(j).coordinator \in Senders
    BY PlanFacts DEF Senders
  <2>2. SubmittedOnce(j)
    BY <1>4, <1>8, <2>1 DEF SubmittedOnce
  <2>3. ASSUME NEW s \in DOMAIN Assignments(j)
        PROVE  ~UnderWay(j, s) /\ Unborn(RoleOf(AssignMsg(j, s).op), AssignTo(j, s), j)
    <3>1. AssignTo(j, s) \in Satellites /\ RoleOf(AssignMsg(j, s).op) \in Work
      BY AssignmentFacts
    <3>2. ~UnderWay(j, s)
      BY <1>4, <2>1, <3>1 DEF UnderWay
    <3>3. ASSUME NEW role \in Work, NEW n \in Satellites PROVE Unborn(role, n, j)
      BY <1>8 DEF Unborn, Ended
    <3> QED BY <3>1, <3>2, <3>3
  <2> QED BY <2>2, <2>3 DEF AssignedOnce
<1>11. ChunksNumbered
  BY DEF ChunksNumbered
<1>12. DonesCounted
  BY <1>8 DEF DonesCounted, Work
<1>13. MapsFollow /\ ReduceFollows
  BY DEF MapsFollow, ReduceFollows, Ended
<1>14. ResultsAreMapped
  <2>1. \A j \in Jobs : reduced[j] = <<>>
    OBVIOUS
  <2>2. IsInjective(<<>>) /\ Range(<<>>) = {} /\ <<>> \in Seq(Chunks)
    BY DEF IsInjective, Range
  <2>3. reduced \in [Jobs -> Seq(Chunks)]
    BY <2>2
  <2> QED BY <2>1, <2>2, <2>3 DEF ResultsAreMapped
<1> QED BY <1>5, <1>6, <1>7, <1>9, <1>10, <1>11, <1>12, <1>13, <1>14 DEF JobInv

\* Every step of every node keeps the invariant.
LEMMA JobInvStep ==
    ASSUME JobInv, ReducerApart, [JobNext]_job_vars
    PROVE  JobInv'
<1>1. ASSUME NEW j \in Jobs, Submit(j) PROVE JobInv'
  BY <1>1, SubmitKeeps
<1>2. ASSUME NEW n \in Senders, NEW m \in Satellites, Arrive(n, m) PROVE JobInv'
  BY <1>2, ArriveKeeps
<1>3. ASSUME NEW n \in Satellites,
             \/ Assign(n) \/ Assigned(n) \/ Collect(n) \/ CollectDone(n) \/ CollectReturn(n)
             \/ LeaveRole(n) \/ MapDone(n) \/ ReduceReturn(n)
      PROVE  JobInv'
  BY <1>3, AssignKeeps, AssignedKeeps, CollectKeeps, CollectDoneKeeps, CollectReturnKeeps,
     LeaveRoleKeeps, MapDoneKeeps, ReduceReturnKeeps
<1>4. ASSUME NEW n \in Satellites, NEW m \in Senders,
             \/ Dispatch(n, m) \/ Skip(n, m) \/ CountDone(n, m)
             \/ MapChunk(n, m) \/ MapError(n, m) \/ ReduceChunk(n, m)
      PROVE  JobInv'
  BY <1>4, DispatchKeeps, SkipKeeps, CountDoneKeeps, MapChunkKeeps, MapErrorKeeps, ReduceChunkKeeps
<1>5. CASE UNCHANGED job_vars
  BY <1>5, StutterKeeps
<1> QED BY <1>1, <1>2, <1>3, <1>4, <1>5 DEF JobNext

\* The phases of every job end in order, whatever jobs run at the same time, for
\* every plan in which the reducer is none of the mappers (SpaceCompRx,
\* CollectorCount, the order of the assignments in coordinator::run).
THEOREM PhasesStayInOrder ==
    ASSUME ReducerApart
    PROVE  JobSpec => []PhasesInOrder
<1>1. JobInit => JobInv
  BY JobInvInit
<1>2. JobInv /\ [JobNext]_job_vars => JobInv'
  BY JobInvStep
<1>3. JobInv => PhasesInOrder
  BY DEF JobInv, PhasesInOrder, MapsFollow, ReduceFollows, ResultsAreMapped, Ended, Plan
<1> QED BY <1>1, <1>2, <1>3, PTL DEF JobSpec
=============================================================================
