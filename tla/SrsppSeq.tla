------------------------------ MODULE SrsppSeq ------------------------------
(***************************************************************************)
(* The 14-bit sequence space of SRSPP and the two ways in which the code   *)
(* compares numbers of it.  SequenceCount::MAX is SeqSpace - 1.            *)
(***************************************************************************)
EXTENDS Integers

CONSTANT SeqSpace        \* number of sequence counts: 2^14 in the code

ASSUME SeqSpaceAssumption == SeqSpace \in Nat /\ SeqSpace >= 4

SeqCounts == 0 .. (SeqSpace - 1)

\* a.wrapping_sub(b) & SequenceCount::MAX
SeqSub(a, b) == (a - b) % SeqSpace

\* (a + n) & SequenceCount::MAX
SeqAdd(a, n) == (a + n) % SeqSpace

\* SequenceCount::MAX / 2, the cutoff handle_ack uses for "at or behind"
HalfMax == (SeqSpace - 1) \div 2

\* seq lies strictly ahead of target, by less than half of the space
SeqStrictlyPast(seq, target) ==
    LET delta == SeqSub(seq, target)
    IN  delta > 0 /\ delta < SeqSpace \div 2
=============================================================================
