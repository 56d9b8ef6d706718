----------------------------- MODULE MCSession -----------------------------
(* Instances of Session for TLC. *)
EXTENDS Session

MCLines ==
    {<<"draw", "open">>, <<"open", "fail">>, <<"close">>,
     <<"draw", "loop">>, <<"wrong", "close">>, <<"draw", "bad">>,
     <<"forget", "draw">>, <<"keep", "draw">>, <<"strict", "draw">>, <<"quit">>}
=============================================================================
