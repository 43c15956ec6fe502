---------------------------- MODULE MCRetriever -----------------------------
(***************************************************************************)
(* Instance of Retriever for TLC, with the code's own times.               *)
(***************************************************************************)
EXTENDS Retriever
=============================================================================
