--------------------------- MODULE MCActivations ---------------------------
(* Instances of Activations for TLC. *)
EXTENDS Activations

CONSTANTS f, g
MCFuns == {f, g}
=============================================================================
