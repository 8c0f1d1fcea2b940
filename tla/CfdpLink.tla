------------------------------ MODULE CfdpLink ------------------------------
(***************************************************************************)
(* What the CFDP sender and receiver share: transaction ids, and the link. *)
(* A PDU once sent can be read any number of times from then on, in any    *)
(* order, or never.  Offsets and sizes are counted in chunks of            *)
(* FILE_DATA_CHUNK_SIZE bytes.  The runner that executes the machines'     *)
(* actions is not part of the build (class2/mod.rs declares the machines   *)
(* only): sending, timers and file access are modelled from the actions'   *)
(* documentation, in the order the machine pushes them.                    *)
(***************************************************************************)
EXTENDS Naturals

CONSTANTS
    MaxPuts,        \* bound: put requests of a behaviour
    MaxConcurrent   \* MAX_CONCURRENT_TRANSACTIONS

ASSUME LinkAssumption == MaxPuts \in Nat \ {0} /\ MaxConcurrent \in Nat \ {0}

Ids == 0..(MaxPuts - 1)

VARIABLE net        \* the PDUs sent so far

\* a Metadata PDU; parses: whether its filestore requests, if any, can be parsed
Metadata(id, size, parses) == [t |-> "metadata", id |-> id, size |-> size, parses |-> parses]
FileData(id, off, len)  == [t |-> "data", id |-> id, off |-> off, len |-> len]
Eof(id, cond, size)     == [t |-> "eof", id |-> id, cond |-> cond, size |-> size]
Prompt(id, kind)        == [t |-> "prompt", id |-> id, kind |-> kind]
Ack(id, dir)            == [t |-> "ack", id |-> id, dir |-> dir]
Finished(id, cond)      == [t |-> "finished", id |-> id, cond |-> cond]
Nak(id, segs)           == [t |-> "nak", id |-> id, segs |-> segs]
KeepAlive(id, progress) == [t |-> "keepalive", id |-> id, progress |-> progress]

SendPdus(ps) == net' = net \cup ps

\* a table of transactions with transaction t under the number id
Opened(txs, id, t) == [x \in DOMAIN txs \cup {id} |-> IF x = id THEN t ELSE txs[x]]
=============================================================================
