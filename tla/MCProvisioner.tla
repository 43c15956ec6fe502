--------------------------- MODULE MCProvisioner ----------------------------
(***************************************************************************)
(* Instance of Provisioner for TLC, with the code's own times in units of  *)
(* thirty seconds.  An ordinary step takes no time, or the five minutes of *)
(* five attempts of a minute; one of the fail-fast client takes up to two  *)
(* calls of two attempts of ten seconds, rounded up to a minute.           *)
(***************************************************************************)
EXTENDS Provisioner

SlowSteps == {0, 10}
FastSteps == {0, 2}
=============================================================================
