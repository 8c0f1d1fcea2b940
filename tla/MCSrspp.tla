------------------------------ MODULE MCSrspp -------------------------------
(***************************************************************************)
(* The instance of Srspp for TLC.                                          *)
(***************************************************************************)
EXTENDS Srspp
=============================================================================
