------------------------------- MODULE MCCop1 -------------------------------
(***************************************************************************)
(* The instance of Cop1 for TLC.                                           *)
(***************************************************************************)
EXTENDS Cop1
=============================================================================
