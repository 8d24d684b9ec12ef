------------------------------ MODULE MCFencing ------------------------------
(* Fencing with bounds given by the configuration. *)
EXTENDS Fencing
=============================================================================
