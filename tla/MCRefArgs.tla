----------------------------- MODULE MCRefArgs -----------------------------
(* Instances of RefArgs for TLC. *)
EXTENDS RefArgs

CONSTANTS v1, err

MCVars == 1..2
MCVals == {v1, err}
=============================================================================
