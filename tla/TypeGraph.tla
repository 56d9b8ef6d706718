----------------------------- MODULE TypeGraph -----------------------------
(***************************************************************************)
(* The categories and who inherits from whom (types.rs).  A type is its    *)
(* number; its parents are numbers.  `declare type` adds a type or, when   *)
(* the type exists, adds parents to it; types never go away.               *)
(***************************************************************************)
EXTENDS Naturals, Sequences

CONSTANTS
    Builtins,  \* the parents of each built-in category; ANY is the first
    MaxTypes   \* bound: how many types there can be

ANY == 1

ASSUME TypesAssumption ==
    /\ Builtins \in Seq(SUBSET (1..Len(Builtins)))
    /\ Builtins # <<>> /\ Builtins[ANY] = {}
    /\ MaxTypes \in Nat

VARIABLES
    parents,  \* the parents of each type
    version   \* `TypeRegistry::version`

TypeIds == 1..Len(parents)

\* A set of types that has every type that inherits from `b`.
Closed(S, b) == \A x \in TypeIds : (x = b \/ b = ANY \/ parents[x] \cap S # {}) => x \in S

\* Objects of type `a` inherit from type `b`: what `isa` is to answer.
IsA(a, b) == \A S \in SUBSET TypeIds : Closed(S, b) => a \in S

Inherits == {p \in TypeIds \X TypeIds : IsA(p[1], p[2])}

-----------------------------------------------------------------------------
\* `declare_user`: type `t` is known, or the next number.
Declared(ps, t, new) ==
    IF t <= Len(ps) THEN [ps EXCEPT ![t] = @ \union new]
    ELSE Append(ps, IF new = {} THEN {ANY} ELSE new)

NoElt == 0

\* Both types of `declare type t[e] : new`.
DeclaredBoth(ps, t, new, e) ==
    IF e = NoElt THEN Declared(ps, t, new) ELSE Declared(Declared(ps, t, new), e, {})

\* Nothing inherits from itself: `isa` would not return.
NoCycle(t, new) == \A p \in new : p # t /\ ~IsA(p, t)

\* Mutant of DeclareTypes: only new types count.
DeclareTypesCountsNew(t, new, e) ==
    /\ t \in 1..(Len(parents) + 1) /\ new \subseteq TypeIds
    /\ e \in 0..(IF t > Len(parents) THEN t + 1 ELSE Len(parents) + 1)
    /\ NoCycle(t, new)
    /\ parents' = DeclaredBoth(parents, t, new, e)
    /\ version' = Len(parents')

\* A `declare type` statement that finds the parents it names.
DeclareTypes(t, new, e) ==
    /\ t \in 1..(Len(parents) + 1) /\ new \subseteq TypeIds
    /\ e \in 0..(IF t > Len(parents) THEN t + 1 ELSE Len(parents) + 1)
    /\ NoCycle(t, new)
    /\ parents' = DeclaredBoth(parents, t, new, e)
    /\ version' = version + (IF e = NoElt THEN 1 ELSE 2)

=============================================================================
