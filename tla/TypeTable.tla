----------------------------- MODULE TypeTable -----------------------------
(***************************************************************************)
(* `TypeRegistry::isa` and the table of its known answers (types.rs).  The *)
(* table is for a number of types; `isa` drops one made for fewer when it  *)
(* stores an answer, and `declare_user` drops it when a type gains         *)
(* parents.                                                                *)
(***************************************************************************)
EXTENDS TypeGraph

CONSTANT MaxVersion  \* bound: how often types are declared

ASSUME MaxVersionAssumption == MaxVersion \in Nat

VARIABLE cache  \* the answers known, and the number of types they are for

tableVars == <<parents, version, cache>>

Empty == [n |-> 0, yes |-> {}, no |-> {}]

-----------------------------------------------------------------------------
\* The answer is in the table.
Known(a, b) == cache.n = Len(parents) /\ <<a, b>> \in cache.yes \union cache.no

\* A set of types that has every type for which the answer about `b` is yes:
\* by the table, or else by the parents.
ClosedVia(S, b) ==
    \A x \in TypeIds :
        (\/ x = b \/ b = ANY
         \/ IF Known(x, b) THEN <<x, b>> \in cache.yes ELSE parents[x] \cap S # {}) => x \in S

\* What `isa` answers: the recursion through the parents stops where the
\* table has an answer.
IsaAnswer(a, b) == \A S \in SUBSET TypeIds : ClosedVia(S, b) => a \in S

\* The types the recursion may come by on its way from `a`.
Asked(a, b) ==
    {x \in TypeIds : \A S \in SUBSET TypeIds :
        (/\ a \in S
         /\ \A y \in S : (y # b /\ ~Known(y, b)) => parents[y] \subseteq S) => x \in S}

\* `isa` stores its own answer and those of the parents it looked at; which
\* ones depends on their order, and the first that inherits is the last.
Stored(looked, b) ==
    LET old == IF cache.n = Len(parents) THEN cache ELSE Empty
        new == {x \in looked : ~Known(x, b)}
    IN  [n   |-> Len(parents),
         yes |-> old.yes \union {<<x, b>> : x \in {y \in new : IsaAnswer(y, b)}},
         no  |-> old.no \union {<<x, b>> : x \in {y \in new : ~IsaAnswer(y, b)}}]

-----------------------------------------------------------------------------
TableInit ==
    /\ parents = Builtins
    /\ version = Len(Builtins)
    /\ cache = Empty

AskIsa(a, b) ==
    /\ a # b /\ b # ANY /\ ~Known(a, b)
    /\ \E looked \in SUBSET (Asked(a, b) \ {b}) :
        /\ a \in looked
        /\ cache' = Stored(looked, b)
    /\ UNCHANGED <<parents, version>>

\* Mutant of DeclareUser: only the types are counted, not their parents.
DeclareUserKeepsTable(t, new, e) ==
    /\ DeclareTypes(t, new, e)
    /\ Len(parents') <= MaxTypes /\ version' <= MaxVersion
    /\ UNCHANGED cache

\* `declare type t[e] : new`
DeclareUser(t, new, e) ==
    /\ DeclareTypes(t, new, e)
    /\ Len(parents') <= MaxTypes /\ version' <= MaxVersion
    /\ cache' = IF t \in TypeIds \/ e \in 1..Len(Declared(parents, t, new)) THEN Empty ELSE cache

TableNext ==
    \/ \E a, b \in TypeIds : AskIsa(a, b)
    \/ \E t \in 1..MaxTypes, new \in SUBSET TypeIds, e \in 0..MaxTypes : DeclareUser(t, new, e)

TableSpec == TableInit /\ [][TableNext]_tableVars

-----------------------------------------------------------------------------
(* Properties *)

TableOK ==
    /\ parents \in Seq(SUBSET TypeIds)
    /\ Len(parents) <= MaxTypes
    /\ version \in 0..MaxVersion
    /\ cache.n \in 0..Len(parents)
    /\ cache.yes \union cache.no \subseteq (1..cache.n) \X (1..cache.n)

\* Whatever was asked before and however types were declared and extended
\* in between, `isa` answers by the parents the types have now (the table is
\* "dropped when types are added or change", types.rs:160).
IsaAnswersAreTrue == \A a, b \in TypeIds : IsaAnswer(a, b) <=> IsA(a, b)

\* The version tells apart any two moments at which `isa` answers
\* differently ("Changes whenever the answers of `isa` may change",
\* types.rs:240): a choice remembered under it is remembered no longer.
VersionFollowsIsa ==
    [][version' > version \/ parents' = parents \/ Inherits' = Inherits]_tableVars

=============================================================================
