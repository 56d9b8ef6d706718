----------------------------- MODULE MCRefPaths -----------------------------
(* A list of a sequence and an atom, a record with a sequence in its untyped *)
(* field, and an array; index 3 is an integer that the universe of the       *)
(* array's indices coerces to its element 1.                                 *)
EXTENDS RefPaths

CONSTANTS n1, n2, s1

MCSeq == [kind |-> "seq", elems |-> <<n1>>]
MCList == [kind |-> "list", elems |-> <<s1, MCSeq>>]
MCRec == [kind |-> "rec", elems |-> <<n1, MCSeq>>]
MCAssoc == [kind |-> "assoc", elems |-> <<s1, MCSeq>>]

MCStarts == {<<v, n1>> : v \in {MCSeq, MCList, MCRec, MCAssoc}}
MCFresh == {n2, s1}
MCCoerced == <<1, 2, 1>>
MCPlaces ==
    [root : {1}, path : {<<>>, <<1>>, <<2>>, <<3>>, <<2, 1>>, <<2, 2>>}]
        \union {[root |-> 2, path |-> <<>>]}
=============================================================================
