---------------------------- MODULE MCSpaClient -----------------------------
(***************************************************************************)
(* Instances of SpaClient for TLC.                                         *)
(***************************************************************************)
EXTENDS SpaClient
=============================================================================
