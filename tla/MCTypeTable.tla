---------------------------- MODULE MCTypeTable ----------------------------
(* Instances of TypeTable for TLC. *)
EXTENDS TypeTable

\* ANY and a category.
MCBuiltins == <<{}, {1}>>
=============================================================================
