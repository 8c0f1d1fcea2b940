--------------------------- MODULE MCSrsppSender ----------------------------
(***************************************************************************)
(* Instances of SrsppSender for TLC.                                       *)
(***************************************************************************)
EXTENDS SrsppSender
=============================================================================
