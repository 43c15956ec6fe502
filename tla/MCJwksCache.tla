---------------------------- MODULE MCJwksCache -----------------------------
(***************************************************************************)
(* Instances of JwksCache for TLC.  The calls are interchangeable; symmetry *)
(* is used only where no liveness property is checked.                     *)
(***************************************************************************)
EXTENDS JwksCache, TLC

CallSymmetry == Permutations(Calls)
=============================================================================
