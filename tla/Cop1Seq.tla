------------------------------ MODULE Cop1Seq -------------------------------
(***************************************************************************)
(* The frame sequence numbers of COP-1: a u8 in the code.                  *)
(***************************************************************************)
EXTENDS Integers

CONSTANT FrameSpace      \* number of frame sequence numbers: 256 in the code

ASSUME FrameSpaceAssumption == FrameSpace \in Nat \ {0}

FrameSeqs == 0 .. (FrameSpace - 1)
USub(a, b) == (a - b) % FrameSpace       \* a.wrapping_sub(b)
UInc(a) == (a + 1) % FrameSpace          \* a.wrapping_add(1)
=============================================================================
