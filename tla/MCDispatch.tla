----------------------------- MODULE MCDispatch -----------------------------
(* Instances of Dispatch for TLC. *)
EXTENDS Dispatch

CONSTANTS file1, file2, f, none, x, y

\* ANY, SeqEnum, Rng, RngIntElt
MCBuiltins == <<{}, {1}, {1}, {1}>>
MCSeqEnum == 2
\* A type of its own, perhaps a ring and a length, and lengths made rings.
MCDeclares == {[type |-> 5, parents |-> {}], [type |-> 5, parents |-> {3, 4}],
               [type |-> 4, parents |-> {3}]}
MCFiles == {file1, file2}

is(t) == [kind |-> "is", type |-> t]
any == [kind |-> "any"]
untyped == [kind |-> "untyped"]
seq(e) == [kind |-> "seq", elem |-> e]
In(p) == [pat |-> p, ref |-> FALSE]
Ref(p) == [pat |-> p, ref |-> TRUE]

Sig(args, function, variadic, native) ==
    [name |-> f, args |-> args, function |-> function, variadic |-> variadic,
     native |-> native, source |-> none, order |-> 0]

\* As `Vector` is: of a ring or of a length, and a sequence.
MCNatives == <<Sig(<<In(is(3)), In(is(2))>>, TRUE, FALSE, TRUE),
               Sig(<<In(is(4)), In(is(2))>>, TRUE, FALSE, TRUE)>>

MCShapes == {Sig(<<In(is(4)), In(any)>>, TRUE, FALSE, FALSE),
             Sig(<<In(any)>>, TRUE, TRUE, FALSE),
             Sig(<<In(is(5)), In(is(2))>>, FALSE, FALSE, FALSE),
             Sig(<<Ref(untyped), In(is(2))>>, FALSE, FALSE, FALSE)}

\* And one that tests the elements.
MCShapesSeq == MCShapes \union {Sig(<<In(any), In(seq(x))>>, TRUE, FALSE, FALSE)}

Value(t) == [type |-> t, null |-> FALSE, elem |-> x]
Seqs == {[type |-> 2, null |-> FALSE, elem |-> e] : e \in {x, y}}
Null == [type |-> 2, null |-> TRUE, elem |-> x]

ACall(args, refs, stmt) == [name |-> f, args |-> args, refs |-> refs, stmt |-> stmt]
InCalls(firsts, seconds, stmts) ==
    {ACall(<<u, v>>, <<FALSE, FALSE>>, s) : u \in firsts, v \in seconds, s \in stmts}

MCCalls ==
    InCalls({Value(3), Value(4), Value(5)}, Seqs, BOOLEAN)
    \union {ACall(<<v, w>>, <<TRUE, FALSE>>, TRUE) : v \in {Undef, Value(4)}, w \in Seqs}
    \union {ACall(<<Value(4)>>, <<FALSE>>, FALSE)}

MCCallsNull == InCalls({Value(3), Value(5)}, Seqs \union {Null}, {FALSE})
=============================================================================
