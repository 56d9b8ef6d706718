------------------------------ MODULE MCScoping ------------------------------
(* Scoping on a name that functions and loops bind and an intrinsic that     *)
(* they only read.                                                           *)
EXTENDS Scoping

NamesXY == {"x", "y"}
JustX == {"x"}
JustY == {"y"}
=============================================================================
