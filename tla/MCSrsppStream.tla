--------------------------- MODULE MCSrsppStream ----------------------------
(***************************************************************************)
(* Streams for the runs of SrsppStream.                                    *)
(***************************************************************************)
EXTENDS SrsppStream

Seg(kind, m, k) == [kind |-> kind, bytes |-> <<<<m, k>>>>]
Eos == [kind |-> "Eos", bytes |-> <<>>]

\* short messages, a message of three segments, the end of the stream: with six sequence
\* numbers the last two packets carry those of the first two
WrappingStream == <<Seg("Unsegmented", 1, 1), Seg("Unsegmented", 2, 1), Seg("First", 3, 1),
                    Seg("Continuation", 3, 2), Seg("Last", 3, 3), Seg("Unsegmented", 4, 1),
                    Seg("Unsegmented", 5, 1), Eos>>

\* two short messages
ShortStream == <<Seg("Unsegmented", 1, 1), Seg("Unsegmented", 2, 1)>>

\* one message of four segments
LongStream == <<Seg("First", 1, 1), Seg("Continuation", 1, 2), Seg("Continuation", 1, 3),
                Seg("Last", 1, 4)>>
=============================================================================
