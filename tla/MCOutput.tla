------------------------------ MODULE MCOutput ------------------------------
(* Instances of Output for TLC. *)
EXTENDS Output

CONSTANTS f, g
MCFiles == {f, g}

MCPrograms == {{}, {"inside"}}
MCInside == {{"inside"}}
=============================================================================
