------------------------------ MODULE Dispatch ------------------------------
(***************************************************************************)
(* How a call of an intrinsic finds its signature: `select_signature`      *)
(* (interp/call.rs) among those of the name (intrinsics/mod.rs), and what  *)
(* call sites remember of it (`SigCache`).  Packages define and withdraw   *)
(* signatures and types are declared between the calls.                    *)
(***************************************************************************)
EXTENDS TypeGraph, Integers, FiniteSets

CONSTANTS
    Sites,       \* places in the program that call intrinsics
    Calls,       \* the calls that may be made at a site
    Natives,     \* the built-in signatures in the order they are registered
    Shapes,      \* the signatures packages define, without order
    Files,       \* package files
    Declares,    \* the `declare type` statements: a type and its parents
    SeqEnum,     \* the type of sequences
    KeyArgs,     \* most arguments of a remembered call (4)
    MaxCounter,  \* bound: signatures registered and files withdrawn
    Undef        \* an argument without a value (only as a reference)

\* A value is seen by its type and, if it is a sequence, by whether it is
\* null and by its elements; a pattern by what it tests.
ASSUME DispatchAssumption ==
    /\ KeyArgs \in Nat /\ MaxCounter \in Nat
    /\ Len(Natives) \in Nat
    /\ \A c \in Calls :
        /\ Len(c.args) \in Nat
        /\ \A i \in 1..Len(c.args) : c.args[i] # Undef => c.args[i].type \in Nat
    /\ \A s \in Shapes \union {Natives[i] : i \in 1..Len(Natives)} :
        /\ DOMAIN s = {"name", "args", "function", "variadic", "native", "source", "order"}
        /\ Len(s.args) \in Nat

VARIABLES
    inherits, \* what `isa` answers: TypeTable says it is Inherits
    sigs,     \* the registered signatures
    counter,  \* `IntrinsicTable::counter`
    site      \* what each site remembers

types == <<parents, version, inherits>>
vars == <<parents, version, inherits, sigs, counter, site>>

-----------------------------------------------------------------------------
(* Which signatures fit a call *)

PatMatches(v, p) ==
    \/ p.kind \in {"any", "untyped"}
    \/ p.kind = "is" /\ <<v.type, p.type>> \in inherits
    \/ p.kind = "seq" /\ v.type = SeqEnum /\ (v.null \/ v.elem = p.elem)

ArgMatches(v, ref, a) ==
    /\ a.ref = ref
    /\ IF v = Undef THEN a.pat.kind = "untyped" ELSE PatMatches(v, a.pat)

Takes(s, n) == IF s.variadic THEN n >= Len(s.args) ELSE n = Len(s.args)

Matches(s, c) ==
    /\ s.name = c.name /\ Takes(s, Len(c.args))
    /\ \A i \in 1..Len(s.args) : ArgMatches(c.args[i], c.refs[i], s.args[i])
    /\ \A i \in (Len(s.args) + 1)..Len(c.args) : ~c.refs[i]

Fits(c) == {s \in sigs : Matches(s, c)}

\* An expression prefers functions.
Preferred(c, fits) ==
    {s \in fits :
        \/ c.stmt \/ s.function \/ \E i \in 1..Len(c.args) : c.refs[i]
        \/ \A o \in fits : ~o.function}

Candidates(c) == Preferred(c, Fits(c))

-----------------------------------------------------------------------------
(* Which of them is called *)

\* `TypePat::leq`: whatever matches p matches q.
Leq(p, q) ==
    \/ q.kind \in {"any", "untyped"}
    \/ p.kind = "is" /\ q.kind = "is" /\ <<p.type, q.type>> \in inherits
    \/ p.kind = "seq" /\ q.kind = "is" /\ <<SeqEnum, q.type>> \in inherits
    \/ p.kind = "seq" /\ q.kind = "seq" /\ p.elem = q.elem

Shared(s, o) == 1..(IF Len(s.args) < Len(o.args) THEN Len(s.args) ELSE Len(o.args))

\* `strictly_more_specific`
MoreSpecific(s, o) ==
    /\ \A i \in Shared(s, o) : Leq(s.args[i].pat, o.args[i].pat)
    /\ \/ \E i \in Shared(s, o) : ~Leq(o.args[i].pat, s.args[i].pat)
       \/ ~s.variadic /\ o.variadic

\* Mutant of Undominated: a candidate has to beat one other.
UndominatedByAll(cands) ==
    {s \in cands : ~\A o \in cands : o = s \/ MoreSpecific(o, s)}

Undominated(cands) ==
    {s \in cands : ~\E o \in cands : o # s /\ MoreSpecific(o, s)}

Pool(cands) == IF Undominated(cands) = {} THEN cands ELSE Undominated(cands)

IsNull(v) == v # Undef /\ v.type = SeqEnum /\ v.null
HasNull(c) == \E i \in 1..Len(c.args) : IsNull(c.args[i])

Earliest(pool) == CHOOSE s \in pool : \A o \in pool : s.order <= o.order
Latest(pool) == CHOOSE s \in pool : \A o \in pool : o.order <= s.order

\* Mutant of Picked: the earliest definition is called.
PickedEarliest(c, pool) == Earliest(pool)

\* A null sequence fits every element type and goes to the earliest
\* built-in; otherwise the latest definition is called.
Picked(c, pool) ==
    IF HasNull(c) /\ \A s \in pool : s.native THEN Earliest(pool) ELSE Latest(pool)

Choice(c) == Picked(c, Pool(Candidates(c)))

-----------------------------------------------------------------------------
(* What a site remembers *)

stamp == <<counter, version>>

TypeKey(v) == IF v = Undef THEN -1 ELSE v.type

\* `SiteKey::new`
Key(c) ==
    [name |-> c.name, stamp |-> stamp, stmt |-> c.stmt,
     refs |-> c.refs, types |-> [i \in 1..Len(c.args) |-> TypeKey(c.args[i])]]

Forgotten == [kind |-> "empty"]
Chosen(key, s) == [kind |-> "chosen", key |-> key, sig |-> s]
Never(name) == [kind |-> "never", name |-> name, stamp |-> stamp]

\* Mutant of Plain: looks at the chosen signature's first argument only.
PlainFirst(name, n) ==
    \A s \in sigs : s.name = name /\ Takes(s, n) =>
        \A i \in 1..Len(s.args) : i = 1 => s.args[i].pat.kind # "seq"

\* The signatures that take n arguments test them by their types only.
Plain(name, n) ==
    \A s \in sigs : s.name = name /\ Takes(s, n) =>
        \A i \in 1..Len(s.args) : s.args[i].pat.kind # "seq"

\* The site may answer for this call, and has no answer for it yet.
Asks(k, c) == Len(c.args) <= KeyArgs /\ site[k] # Never(c.name)
Remembers(k, c) == Asks(k, c) /\ site[k].kind = "chosen" /\ site[k].key = Key(c)

-----------------------------------------------------------------------------
Init ==
    /\ parents = Builtins /\ version = Len(Builtins)
    /\ inherits = Inherits
    /\ sigs = {[Natives[i] EXCEPT !.order = i] : i \in 1..Len(Natives)}
    /\ counter = Len(Natives)
    /\ site = [k \in Sites |-> Forgotten]

\* There are values and patterns of declared types only.
ValuesExist(c) == \A i \in 1..Len(c.args) : c.args[i] # Undef => c.args[i].type \in TypeIds
PatternsExist(s) ==
    \A i \in 1..Len(s.args) : s.args[i].pat.kind = "is" => s.args[i].pat.type \in TypeIds

\* `call_intrinsic` up to the call: a call that nothing fits is an error
\* and leaves the site alone.
Call(k, c) ==
    /\ Asks(k, c) /\ ~Remembers(k, c)
    /\ Candidates(c) # {} /\ ValuesExist(c)
    /\ site' = [site EXCEPT ![k] =
                   IF Plain(c.name, Len(c.args)) THEN Chosen(Key(c), Choice(c)) ELSE Never(c.name)]
    /\ UNCHANGED <<types, sigs, counter>>

\* `define_intrinsic` in a file
Define(shape, file) ==
    /\ PatternsExist(shape)
    /\ counter < MaxCounter
    /\ counter' = counter + 1
    /\ sigs' = sigs \union {[shape EXCEPT !.order = counter + 1, !.source = file]}
    /\ UNCHANGED <<types, site>>

\* `remove_source`: a file is detached, or attached anew.
RemoveSource(file) ==
    /\ counter < MaxCounter
    /\ counter' = counter + 1
    /\ sigs' = {s \in sigs : s.source # file}
    /\ UNCHANGED <<types, site>>

\* A declaration of nothing new, which only counts, is left out.
DeclareType(t, new) ==
    /\ DeclareTypes(t, new, NoElt)
    /\ Len(parents') <= MaxTypes /\ parents' # parents
    /\ inherits' = Inherits'
    /\ UNCHANGED <<sigs, counter, site>>

Next ==
    \/ \E k \in Sites, c \in Calls : Call(k, c)
    \/ \E shape \in Shapes, file \in Files : Define(shape, file)
    \/ \E file \in Files : RemoveSource(file)
    \/ \E d \in Declares : DeclareType(d.type, d.parents)

Spec == Init /\ [][Next]_vars

-----------------------------------------------------------------------------
(* Properties *)

TypeOK ==
    /\ counter \in Len(Natives)..MaxCounter
    /\ \A s \in sigs : s.order \in 1..counter
    /\ \A s, o \in sigs : s.order = o.order => s = o
    /\ \A k \in Sites : site[k].kind \in {"empty", "chosen", "never"}

\* A site calls what would be chosen now: whatever was defined, withdrawn
\* or declared since it remembered a signature, and whatever other values
\* the arguments have ("their choice depends on nothing else",
\* intrinsics/mod.rs:87-90).
SitesRememberTheChoice ==
    \A k \in Sites, c \in Calls :
        Remembers(k, c) => Candidates(c) # {} /\ site[k].sig = Choice(c)

\* No call goes to a signature while a more specific one fits: there is
\* always a candidate that no other dominates (the fallback of
\* interp/call.rs:387 is never needed).
ChoiceIsMostSpecific ==
    \A c \in Calls :
        LET cands  == Candidates(c)
            chosen == Picked(c, Pool(cands))
        IN  cands # {} => ~\E o \in cands : MoreSpecific(o, chosen)

\* "Among equals, user definitions and later definitions win"
\* (interp/call.rs:388): the sources of a program can replace a built-in,
\* and a file attached again replaces what came in between.
SamePatterns(s, o) ==
    /\ s.variadic = o.variadic /\ Len(s.args) = Len(o.args)
    /\ \A i \in 1..Len(s.args) : Leq(s.args[i].pat, o.args[i].pat) /\ Leq(o.args[i].pat, s.args[i].pat)
LaterDefinitionsWin ==
    \A c \in Calls :
        LET cands  == Candidates(c)
            chosen == Picked(c, Pool(cands))
        IN  \A o \in cands :
                (SamePatterns(o, chosen) /\ ~o.native) => o.order <= chosen.order

=============================================================================
