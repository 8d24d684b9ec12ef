--------------------------- MODULE MCRemediation ---------------------------
(* Instances of Remediation for TLC: every constant is given in the .cfg. *)
EXTENDS Remediation
=============================================================================
