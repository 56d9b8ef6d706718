--------------------------- MODULE DispatchProofs ---------------------------
(***************************************************************************)
(* `isa` answers by the types' parents as they are now, for any categories *)
(* and any sequence of declarations and questions.  Every answer in its    *)
(* table is true of the parents, and the recursion that stops at such      *)
(* answers is then the recursion that does not: each of the two sets of    *)
(* types that inherit from b is closed under the other's rule.             *)
(*                                                                         *)
(* For any signatures, types and calls: a call goes to a candidate that no *)
(* other dominates, and to the latest of those with its patterns; and what *)
(* a site remembers is what would be chosen now, without null sequences.   *)
(*                                                                         *)
(* A remembered signature was chosen for some call with its key, under a   *)
(* stamp that no other table or hierarchy of types ever has again; and     *)
(* among signatures that test types only, calls with one key fit the same. *)
(*                                                                         *)
(* "More specific" is not transitive, as signatures of several lengths are *)
(* compared where both have patterns.  Among the candidates of one call it *)
(* still has no cycles: those that are not variadic are the longest.       *)
(***************************************************************************)
EXTENDS Dispatch, TypeTable, FiniteSetTheorems, WellFoundedInduction, TLAPS

-----------------------------------------------------------------------------
(* isa *)

\* Types are well formed, and so is the table.
Shape ==
    /\ parents \in Seq(SUBSET TypeIds)
    /\ parents # <<>>
    /\ version \in Nat
    /\ DOMAIN cache = {"n", "yes", "no"}
    /\ cache.n \in 0..Len(parents)
    /\ cache.yes \subseteq TypeIds \X TypeIds
    /\ cache.no \subseteq TypeIds \X TypeIds

\* The answers in a table that is in use.
TableIsTrue ==
    cache.n = Len(parents) =>
        /\ \A p \in cache.yes : IsA(p[1], p[2])
        /\ \A p \in cache.no : ~IsA(p[1], p[2])

TInv == Shape /\ TableIsTrue

-----------------------------------------------------------------------------
(* IsA *)

\* One step of the recursion.
LEMMA IsaUnfold ==
    ASSUME NEW a \in TypeIds, NEW b \in TypeIds, parents \in Seq(SUBSET TypeIds)
    PROVE  (a = b \/ b = ANY \/ \E p \in parents[a] : IsA(p, b)) => IsA(a, b)
<1> SUFFICES ASSUME NEW S \in SUBSET TypeIds, Closed(S, b),
                    a = b \/ b = ANY \/ \E p \in parents[a] : IsA(p, b)
             PROVE  a \in S
    BY DEF IsA
<1>1. CASE a = b \/ b = ANY
    BY <1>1 DEF Closed
<1>2. CASE \E p \in parents[a] : IsA(p, b)
    <2>1. PICK p \in parents[a] : IsA(p, b)
        BY <1>2
    <2>2. p \in S
        BY <2>1 DEF IsA
    <2> QED
        BY <2>1, <2>2 DEF Closed
<1> QED
    BY <1>1, <1>2

\* With a true table, the recursion that uses it answers the same.
LEMMA AnswerIsTrue ==
    ASSUME NEW a \in TypeIds, NEW b \in TypeIds, TInv
    PROVE  IsaAnswer(a, b) <=> IsA(a, b)
<1> DEFINE I == {x \in TypeIds : IsA(x, b)}
           V == {x \in TypeIds : IsaAnswer(x, b)}
<1>0. parents \in Seq(SUBSET TypeIds) /\ \A x \in TypeIds : parents[x] \subseteq TypeIds
    BY DEF TInv, Shape, TypeIds
<1>1. ASSUME NEW x \in TypeIds, Known(x, b)
      PROVE  <<x, b>> \in cache.yes <=> IsA(x, b)
    BY <1>1 DEF TInv, TableIsTrue, Known
<1>2. ClosedVia(I, b)
    <2> SUFFICES ASSUME NEW x \in TypeIds,
                        \/ x = b \/ b = ANY
                        \/ IF Known(x, b) THEN <<x, b>> \in cache.yes ELSE parents[x] \cap I # {}
                 PROVE  IsA(x, b)
        BY DEF ClosedVia
    <2>1. CASE x = b \/ b = ANY
        BY <2>1, <1>0, IsaUnfold
    <2>2. CASE Known(x, b) /\ <<x, b>> \in cache.yes
        BY <2>2, <1>1
    <2>3. CASE parents[x] \cap I # {}
        BY <2>3, <1>0, IsaUnfold
    <2> QED
        BY <2>1, <2>2, <2>3
<1>3. V \subseteq I
    BY <1>2 DEF IsaAnswer
<1>4. Closed(V, b)
    <2> SUFFICES ASSUME NEW x \in TypeIds, x = b \/ b = ANY \/ parents[x] \cap V # {},
                        NEW S \in SUBSET TypeIds, ClosedVia(S, b)
                 PROVE  x \in S
        BY DEF Closed, IsaAnswer
    <2>1. CASE x = b \/ b = ANY
        BY <2>1 DEF ClosedVia
    <2>2. CASE parents[x] \cap V # {} /\ Known(x, b)
        <3>1. IsA(x, b)
            BY <2>2, <1>3, <1>0, IsaUnfold
        <3> QED
            BY <3>1, <2>2, <1>1 DEF ClosedVia
    <2>3. CASE parents[x] \cap V # {} /\ ~Known(x, b)
        <3>1. parents[x] \cap S # {}
            BY <2>3 DEF IsaAnswer
        <3> QED
            BY <3>1, <2>3 DEF ClosedVia
    <2> QED
        BY <2>1, <2>2, <2>3
<1>5. I \subseteq V
    <2> SUFFICES ASSUME NEW x \in I PROVE x \in V
        OBVIOUS
    <2>1. V \in SUBSET TypeIds
        OBVIOUS
    <2> QED
        BY <2>1, <1>4 DEF IsA
<1> QED
    BY <1>3, <1>5

-----------------------------------------------------------------------------
(* Declarations *)

\* A declaration keeps a graph a graph and no type gets another number.
LEMMA DeclaredShape ==
    ASSUME NEW ps, ps \in Seq(SUBSET (1..Len(ps))), ps # <<>>,
           NEW t \in 1..(Len(ps) + 1), NEW new \in SUBSET (1..Len(ps))
    PROVE  /\ Declared(ps, t, new) \in Seq(SUBSET (1..Len(Declared(ps, t, new))))
           /\ Declared(ps, t, new) # <<>>
           /\ Len(Declared(ps, t, new)) = IF t <= Len(ps) THEN Len(ps) ELSE Len(ps) + 1
<1> DEFINE n == Len(ps)
<1>0. n \in Nat \ {0} /\ DOMAIN ps = 1..n
    OBVIOUS
<1>1. CASE t <= n
    <2> DEFINE qs == [ps EXCEPT ![t] = @ \union new]
    <2>1. Declared(ps, t, new) = qs
        BY <1>1 DEF Declared
    <2>2. t \in 1..n /\ qs \in Seq(SUBSET (1..n))
        <3>1. t \in 1..n
            BY <1>0, <1>1
        <3>2. ps \in [1..n -> SUBSET (1..n)]
            BY <1>0
        <3>3. qs \in [1..n -> SUBSET (1..n)]
            BY <3>1, <3>2
        <3> QED
            BY <1>0, <3>1, <3>3
    <2>3. Len(qs) = n
        BY <1>0, <2>2
    <2> QED
        BY <1>0, <1>1, <2>1, <2>2, <2>3
<1>2. CASE t > n
    <2> DEFINE last == IF new = {} THEN {ANY} ELSE new
               qs == Append(ps, last)
    <2>1. Declared(ps, t, new) = qs
        BY <1>0, <1>2 DEF Declared
    <2>2. last \in SUBSET (1..n) /\ 1..n \subseteq 1..(n + 1)
        BY <1>0 DEF ANY
    <2>3. ps \in Seq(SUBSET (1..(n + 1))) /\ last \in SUBSET (1..(n + 1))
        BY <2>2
    <2>4. qs \in Seq(SUBSET (1..(n + 1))) /\ Len(qs) = n + 1
        BY <2>3
    <2> QED
        BY <1>0, <1>2, <2>1, <2>4
<1> QED
    BY <1>0, <1>1, <1>2

\* The same for the two types of one statement.
LEMMA DeclareTypesShape ==
    ASSUME Shape, NEW t, NEW new, NEW e, DeclareTypes(t, new, e)
    PROVE  /\ parents' \in Seq(SUBSET (1..Len(parents'))) /\ parents' # <<>>
           /\ Len(parents') >= Len(parents)
           /\ version' \in Nat /\ version' > version
           /\ t \notin TypeIds => Len(parents') > Len(parents)
<1> DEFINE ps == Declared(parents, t, new)
<1>0. /\ parents \in Seq(SUBSET (1..Len(parents))) /\ parents # <<>>
      /\ t \in 1..(Len(parents) + 1) /\ new \in SUBSET (1..Len(parents))
      /\ Len(parents) \in Nat
    BY DEF Shape, DeclareTypes, TypeIds
<1>1. /\ ps \in Seq(SUBSET (1..Len(ps))) /\ ps # <<>>
      /\ Len(ps) = IF t <= Len(parents) THEN Len(parents) ELSE Len(parents) + 1
    BY <1>0, DeclaredShape
<1>2. version' \in Nat /\ version' > version
    BY DEF Shape, DeclareTypes
<1>3. CASE e = NoElt
    <2>1. parents' = ps
        BY <1>3 DEF DeclareTypes, DeclaredBoth
    <2> QED
        BY <1>0, <1>1, <1>2, <2>1 DEF TypeIds
<1>4. CASE e # NoElt
    <2> DEFINE qs == Declared(ps, e, {})
    <2>1. parents' = qs
        BY <1>4 DEF DeclareTypes, DeclaredBoth
    <2>2. e \in 1..(Len(ps) + 1)
        BY <1>0, <1>1, <1>4 DEF DeclareTypes, NoElt
    <2>3. /\ qs \in Seq(SUBSET (1..Len(qs))) /\ qs # <<>>
          /\ Len(qs) = IF e <= Len(ps) THEN Len(ps) ELSE Len(ps) + 1
        <3> HIDE DEF ps
        <3> QED
            BY <1>1, <2>2, DeclaredShape
    <2> QED
        BY <1>0, <1>1, <1>2, <2>1, <2>3 DEF TypeIds
<1> QED
    BY <1>3, <1>4

-----------------------------------------------------------------------------
(* Steps *)

LEMMA TInvInit == TableInit => TInv
<1> SUFFICES ASSUME TableInit PROVE TInv
    OBVIOUS
<1>1. Len(Builtins) \in Nat /\ Len(Builtins) # 0
    BY TypesAssumption
<1> QED
    BY <1>1, TypesAssumption DEF TableInit, TInv, Shape, TableIsTrue, Empty, TypeIds

\* `isa` stores true answers.
LEMMA AskKeepsTInv ==
    ASSUME TInv, NEW a \in TypeIds, NEW b \in TypeIds, AskIsa(a, b)
    PROVE  TInv'
<1>1. PICK looked \in SUBSET (Asked(a, b) \ {b}) : cache' = Stored(looked, b)
    BY DEF AskIsa
<1>2. looked \subseteq TypeIds
    BY DEF Asked
<1>3. parents' = parents /\ version' = version /\ TypeIds' = TypeIds
    BY DEF AskIsa, TypeIds
<1>4. \A x, y : IsA(x, y)' <=> IsA(x, y)
    BY <1>3 DEF IsA, Closed
<1> DEFINE old == IF cache.n = Len(parents) THEN cache ELSE Empty
           new == {x \in looked : ~Known(x, b)}
<1>5. /\ DOMAIN cache' = {"n", "yes", "no"}
      /\ cache'.n = Len(parents)
      /\ cache'.yes = old.yes \union {<<x, b>> : x \in {y \in new : IsaAnswer(y, b)}}
      /\ cache'.no = old.no \union {<<x, b>> : x \in {y \in new : ~IsaAnswer(y, b)}}
    BY <1>1 DEF Stored
<1>6. /\ old.yes \subseteq TypeIds \X TypeIds /\ old.no \subseteq TypeIds \X TypeIds
      /\ \A p \in old.yes : IsA(p[1], p[2])
      /\ \A p \in old.no : ~IsA(p[1], p[2])
    BY DEF TInv, Shape, TableIsTrue, Empty
<1>7. \A x \in new : x \in TypeIds /\ (IsaAnswer(x, b) <=> IsA(x, b))
    BY <1>2, AnswerIsTrue
<1> HIDE DEF old, new
<1>8. /\ cache'.yes \subseteq TypeIds \X TypeIds
      /\ \A p \in cache'.yes : IsA(p[1], p[2])
    BY <1>5, <1>6, <1>7
<1>9. /\ cache'.no \subseteq TypeIds \X TypeIds
      /\ \A p \in cache'.no : ~IsA(p[1], p[2])
    BY <1>5, <1>6, <1>7
<1>10. Shape'
    BY <1>3, <1>5, <1>8, <1>9 DEF TInv, Shape
<1>11. TableIsTrue'
    BY <1>4, <1>8, <1>9 DEF TableIsTrue
<1> QED
    BY <1>10, <1>11 DEF TInv

\* A declaration leaves no answer in the table, or no table of this size.
LEMMA DeclareKeepsTInv ==
    ASSUME TInv, NEW t, NEW new, NEW e, DeclareUser(t, new, e)
    PROVE  TInv'
<1>0. Shape /\ DeclareTypes(t, new, e)
    BY DEF TInv, DeclareUser
<1>1. /\ parents' \in Seq(SUBSET (1..Len(parents'))) /\ parents' # <<>>
      /\ Len(parents') >= Len(parents)
      /\ version' \in Nat
      /\ t \notin TypeIds => Len(parents') > Len(parents)
    BY <1>0, DeclareTypesShape
<1>2. CASE cache' = Empty
    BY <1>1, <1>2 DEF TInv, Shape, TableIsTrue, Empty, TypeIds
<1>3. CASE cache' = cache /\ t \notin TypeIds
    <2>1. cache.n < Len(parents')
        BY <1>0, <1>1, <1>3 DEF Shape
    <2>2. TypeIds \subseteq TypeIds'
        BY <1>0, <1>1 DEF Shape, TypeIds
    <2> QED
        BY <1>0, <1>1, <1>3, <2>1, <2>2 DEF TInv, Shape, TableIsTrue, TypeIds
<1> QED
    BY <1>2, <1>3 DEF DeclareUser

\* The invariant of every step.
LEMMA TInvNext == TInv /\ [TableNext]_tableVars => TInv'
<1> SUFFICES ASSUME TInv, [TableNext]_tableVars PROVE TInv'
    OBVIOUS
<1>1. CASE \E a, b \in TypeIds : AskIsa(a, b)
    BY <1>1, AskKeepsTInv
<1>2. CASE \E t \in 1..MaxTypes, new \in SUBSET TypeIds, e \in 0..MaxTypes : DeclareUser(t, new, e)
    BY <1>2, DeclareKeepsTInv
<1>3. CASE UNCHANGED tableVars
    BY <1>3 DEF tableVars, TInv, Shape, TableIsTrue, TypeIds, IsA, Closed
<1> QED
    BY <1>1, <1>2, <1>3 DEF TableNext

\* For every hierarchy of categories, declarations and questions: what `isa`
\* answers, with whatever it remembers, is what the parents say now.
THEOREM IsaIsCoherent == TableSpec => []IsaAnswersAreTrue
<1>1. TInv => IsaAnswersAreTrue
    BY AnswerIsTrue DEF IsaAnswersAreTrue
<1> QED
    BY <1>1, TInvInit, TInvNext, PTL DEF TableSpec

\* And a moment with another answer has another version.
THEOREM VersionsTellAnswersApart == TableSpec => VersionFollowsIsa
<1>1. TInv /\ [TableNext]_tableVars =>
        [version' > version \/ parents' = parents \/ Inherits' = Inherits]_tableVars
    <2> SUFFICES ASSUME TInv, TableNext
                 PROVE  version' > version \/ parents' = parents
        OBVIOUS
    <2>1. CASE \E a, b \in TypeIds : AskIsa(a, b)
        BY <2>1 DEF AskIsa
    <2>2. CASE \E t \in 1..MaxTypes, new \in SUBSET TypeIds, e \in 0..MaxTypes : DeclareUser(t, new, e)
        BY <2>2, DeclareTypesShape DEF DeclareUser, TInv
    <2> QED
        BY <2>1, <2>2 DEF TableNext
<1> QED
    BY <1>1, TInvInit, TInvNext, PTL DEF TableSpec, VersionFollowsIsa

-----------------------------------------------------------------------------
(* Sites *)

\* No call is given a null sequence.
NoNulls == \A c \in Calls : ~HasNull(c)

\* The counts are numbers and the signatures have arguments.
Counts ==
    /\ counter \in Nat /\ version \in Nat
    /\ Len(parents) \in Nat
    /\ \A s \in sigs : Len(s.args) \in Nat

\* What a site remembers is not from the future, and what it remembers of
\* this moment was chosen for a call like those it is used for.
Remembered(m) ==
    m.kind = "chosen" =>
        /\ m.key.stamp[1] \in Nat /\ m.key.stamp[1] <= counter
        /\ m.key.stamp[2] \in Nat /\ m.key.stamp[2] <= version
        /\ m.key.stamp = stamp =>
            \E c \in Calls :
                /\ m.key = Key(c) /\ Plain(c.name, Len(c.args))
                /\ Candidates(c) # {} /\ m.sig = Choice(c)

DInv == Counts /\ DOMAIN site = Sites /\ \A k \in Sites : Remembered(site[k])

-----------------------------------------------------------------------------
(* Choosing *)

\* Calls with one key have as many arguments, with and without values at
\* the same places and of the same types.
LEMMA KeyFixesTypes ==
    ASSUME NEW c \in Calls, NEW d \in Calls, Key(c) = Key(d)
    PROVE  /\ c.name = d.name /\ c.refs = d.refs /\ c.stmt = d.stmt
           /\ Len(c.args) = Len(d.args)
           /\ \A i \in 1..Len(c.args) :
                /\ c.args[i] = Undef <=> d.args[i] = Undef
                /\ c.args[i] # Undef => c.args[i].type = d.args[i].type
<1> DEFINE tc == [i \in 1..Len(c.args) |-> TypeKey(c.args[i])]
           td == [i \in 1..Len(d.args) |-> TypeKey(d.args[i])]
<1>1. /\ c.name = d.name /\ c.refs = d.refs /\ c.stmt = d.stmt
      /\ tc = td
    BY DEF Key
<1>2. Len(c.args) \in Nat /\ Len(d.args) \in Nat
    BY DispatchAssumption
<1>3. 1..Len(c.args) = 1..Len(d.args)
    <2>1. DOMAIN tc = DOMAIN td
        BY <1>1
    <2> QED
        BY <2>1
<1>4. Len(c.args) = Len(d.args)
    BY <1>2, <1>3
<1>5. ASSUME NEW i \in 1..Len(c.args)
      PROVE  TypeKey(c.args[i]) = TypeKey(d.args[i])
    <2>1. tc[i] = td[i]
        BY <1>1
    <2> QED
        BY <2>1, <1>3
<1>6. ASSUME NEW i \in 1..Len(c.args)
      PROVE  /\ c.args[i] = Undef <=> d.args[i] = Undef
             /\ c.args[i] # Undef => c.args[i].type = d.args[i].type
    BY <1>4, <1>5, DispatchAssumption DEF TypeKey
<1> QED
    BY <1>1, <1>4, <1>6

\* Signatures that test types only fit calls of one key alike.
LEMMA KeyFixesCandidates ==
    ASSUME Counts, NEW c \in Calls, NEW d \in Calls, Key(c) = Key(d),
           Plain(c.name, Len(c.args))
    PROVE  Candidates(c) = Candidates(d)
<1>1. /\ c.name = d.name /\ c.refs = d.refs /\ c.stmt = d.stmt
      /\ Len(c.args) = Len(d.args)
      /\ \A i \in 1..Len(c.args) :
            /\ c.args[i] = Undef <=> d.args[i] = Undef
            /\ c.args[i] # Undef => c.args[i].type = d.args[i].type
    BY KeyFixesTypes
<1>2. ASSUME NEW s \in sigs, s.name = c.name, Takes(s, Len(c.args)),
             NEW i \in 1..Len(s.args)
      PROVE  ArgMatches(c.args[i], c.refs[i], s.args[i]) <=> ArgMatches(d.args[i], d.refs[i], s.args[i])
    <2>1. i \in 1..Len(c.args)
        BY <1>2, DispatchAssumption DEF Takes, Counts
    <2>2. s.args[i].pat.kind # "seq"
        BY <1>2 DEF Plain
    <2> QED
        BY <1>1, <2>1, <2>2 DEF ArgMatches, PatMatches
<1>3. \A s \in sigs : Matches(s, c) <=> Matches(s, d)
    BY <1>1, <1>2 DEF Matches
<1>4. Fits(c) = Fits(d)
    BY <1>3 DEF Fits
<1> QED
    BY <1>1, <1>4 DEF Candidates, Preferred

LEMMA KeyFixesChoice ==
    ASSUME NoNulls, Counts, NEW c \in Calls, NEW d \in Calls, Key(c) = Key(d),
           Plain(c.name, Len(c.args))
    PROVE  Candidates(c) = Candidates(d) /\ Choice(c) = Choice(d)
<1>1. Candidates(c) = Candidates(d)
    BY KeyFixesCandidates
<1>2. ~HasNull(c) /\ ~HasNull(d)
    BY DEF NoNulls
<1> QED
    BY <1>1, <1>2 DEF Choice, Picked

-----------------------------------------------------------------------------
(* Steps *)

LEMMA DInvInit == Init => DInv
<1> SUFFICES ASSUME Init PROVE DInv
    OBVIOUS
<1>1. ASSUME NEW s \in sigs PROVE Len(s.args) \in Nat
    BY DispatchAssumption DEF Init
<1>2. Len(parents) \in Nat /\ version \in Nat /\ counter \in Nat
    BY TypesAssumption, DispatchAssumption DEF Init
<1> QED
    BY <1>1, <1>2 DEF Init, DInv, Counts, Remembered, Forgotten

\* What counts as remembered depends on the tables only.
LEMMA FrameOfRemembered ==
    ASSUME UNCHANGED <<parents, version, inherits, sigs, counter>>
    PROVE  \A m : Remembered(m)' <=> Remembered(m)
<1>1. \A v, p : PatMatches(v, p)' <=> PatMatches(v, p)
    BY DEF PatMatches
<1>2. \A s, c : Matches(s, c)' <=> Matches(s, c)
    BY <1>1 DEF Matches, ArgMatches
<1>3. \A c : Candidates(c)' = Candidates(c)
    BY <1>2 DEF Candidates, Fits
<1>4. \A s, o : MoreSpecific(s, o)' <=> MoreSpecific(s, o)
    BY DEF MoreSpecific, Leq
<1>5. \A cands : Pool(cands)' = Pool(cands)
    BY <1>4 DEF Pool, Undominated
<1>6. \A c : Choice(c)' = Choice(c)
    BY <1>3, <1>5 DEF Choice
<1>7. \A c : Key(c)' = Key(c) /\ (Plain(c.name, Len(c.args))' <=> Plain(c.name, Len(c.args)))
    BY DEF Key, stamp, Plain
<1> QED
    BY <1>3, <1>6, <1>7 DEF Remembered, stamp

\* What a site takes up now was chosen for the call at hand.
LEMMA CallKeepsDInv ==
    ASSUME DInv, NEW k \in Sites, NEW c \in Calls, Call(k, c)
    PROVE  DInv'
<1>1. UNCHANGED <<parents, version, inherits, sigs, counter>>
    BY DEF Call, types
<1>2. Counts' /\ DOMAIN site' = Sites
    BY <1>1 DEF DInv, Counts, Call
<1>3. ASSUME NEW m PROVE Remembered(m)' <=> Remembered(m)
    BY <1>1, FrameOfRemembered
<1>4. ASSUME NEW j \in Sites PROVE Remembered(site'[j])
    <2>1. CASE site'[j] = site[j]
        BY <2>1 DEF DInv
    <2>2. CASE j = k /\ site'[j] = Never(c.name)
        BY <2>2 DEF Never, Remembered
    <2>3. CASE j = k /\ site'[j] = Chosen(Key(c), Choice(c)) /\ Plain(c.name, Len(c.args))
        <3> DEFINE m == Chosen(Key(c), Choice(c))
        <3>1. m.key = Key(c) /\ m.sig = Choice(c)
            BY DEF Chosen
        <3>2. Key(c).stamp = stamp /\ stamp[1] = counter /\ stamp[2] = version
            BY DEF Key, stamp
        <3>3. Counts /\ Candidates(c) # {}
            BY DEF DInv, Call
        <3>4. /\ m.key.stamp[1] \in Nat /\ m.key.stamp[1] <= counter
              /\ m.key.stamp[2] \in Nat /\ m.key.stamp[2] <= version
            BY <3>1, <3>2, <3>3 DEF Counts
        <3> HIDE DEF m
        <3>5. Remembered(m)
            BY <2>3, <3>1, <3>3, <3>4 DEF Remembered
        <3> QED
            BY <2>3, <3>5 DEF m
    <2> QED
        BY <2>1, <2>2, <2>3 DEF Call, DInv
<1> QED
    BY <1>2, <1>3, <1>4 DEF DInv

\* Everything else changes the stamp, and no site remembers the new one.
LEMMA StampKeepsDInv ==
    ASSUME DInv, Counts', site' = site,
           counter' >= counter, version' >= version,
           counter' > counter \/ version' > version
    PROVE  DInv'
<1>1. ASSUME NEW k \in Sites, site[k].kind = "chosen"
      PROVE  /\ site[k].key.stamp[1] \in Nat /\ site[k].key.stamp[1] <= counter'
             /\ site[k].key.stamp[2] \in Nat /\ site[k].key.stamp[2] <= version'
             /\ site[k].key.stamp # <<counter', version'>>
    BY <1>1 DEF DInv, Counts, Remembered
<1> QED
    BY <1>1 DEF DInv, Remembered, stamp

LEMMA DInvNext == DInv /\ [Next]_vars => DInv'
<1> SUFFICES ASSUME DInv, [Next]_vars PROVE DInv'
    OBVIOUS
<1>1. ASSUME NEW k \in Sites, NEW c \in Calls, Call(k, c) PROVE DInv'
    BY <1>1, CallKeepsDInv
<1>2. ASSUME NEW shape \in Shapes, NEW file \in Files, Define(shape, file) PROVE DInv'
    <2> DEFINE s == [shape EXCEPT !.order = counter + 1, !.source = file]
    <2>1. Len(s.args) \in Nat
        BY DispatchAssumption
    <2>2. sigs' = sigs \union {s} /\ counter' = counter + 1 /\ UNCHANGED <<parents, version, site>>
        BY <1>2 DEF Define, types
    <2>3. Counts'
        BY <2>1, <2>2 DEF DInv, Counts
    <2> QED
        BY <2>2, <2>3, StampKeepsDInv DEF DInv, Counts
<1>3. ASSUME NEW file \in Files, RemoveSource(file) PROVE DInv'
    <2>1. /\ sigs' \subseteq sigs /\ counter' = counter + 1
          /\ UNCHANGED <<parents, version, site>>
        BY <1>3 DEF RemoveSource, types
    <2>2. Counts'
        BY <2>1 DEF DInv, Counts
    <2> QED
        BY <2>1, <2>2, StampKeepsDInv DEF DInv, Counts
<1>4. ASSUME NEW d \in Declares, DeclareType(d.type, d.parents) PROVE DInv'
    <2>1. /\ version' = version + 1 /\ UNCHANGED <<sigs, counter, site>>
        BY <1>4 DEF DeclareType, DeclareTypes
    <2>2. Len(parents') \in Nat
        BY <1>4, TypesAssumption DEF DeclareType
    <2>3. Counts'
        BY <2>1, <2>2 DEF DInv, Counts
    <2> QED
        BY <2>1, <2>3, StampKeepsDInv DEF DInv, Counts
<1>5. CASE UNCHANGED vars
    <2>1. UNCHANGED <<parents, version, inherits, sigs, counter, site>>
        BY <1>5 DEF vars
    <2>2. \A m : Remembered(m)' <=> Remembered(m)
        BY <2>1, FrameOfRemembered
    <2> QED
        BY <2>1, <2>2 DEF DInv, Counts
<1> QED
    BY <1>1, <1>2, <1>3, <1>4, <1>5 DEF Next

\* For every table of signatures, hierarchy of types and set of calls, none
\* with a null sequence: a site that remembers calls what would be chosen.
THEOREM SitesAreCoherent ==
    ASSUME NoNulls
    PROVE  Spec => []SitesRememberTheChoice
<1>1. DInv => SitesRememberTheChoice
    <2> SUFFICES ASSUME DInv, NEW k \in Sites, NEW c \in Calls, Remembers(k, c)
                 PROVE  Candidates(c) # {} /\ site[k].sig = Choice(c)
        BY DEF SitesRememberTheChoice
    <2>1. site[k].kind = "chosen" /\ site[k].key = Key(c) /\ site[k].key.stamp = stamp
        BY DEF Remembers, Key
    <2>2. PICK d \in Calls :
            /\ site[k].key = Key(d) /\ Plain(d.name, Len(d.args))
            /\ Candidates(d) # {} /\ site[k].sig = Choice(d)
        BY <2>1 DEF DInv, Remembered
    <2> QED
        BY <2>1, <2>2, KeyFixesChoice DEF DInv
<1> QED
    BY <1>1, DInvInit, DInvNext, PTL DEF Spec

-----------------------------------------------------------------------------
(* The order of patterns *)

LEMMA LeastNumber ==
    ASSUME NEW N \in SUBSET Nat, N # {}
    PROVE  \E k \in N : \A j \in N : ~(j < k)
<1> DEFINE R == {p \in Nat \X Nat : p[1] < p[2]}
<1>1. IsWellFoundedOn(R, Nat)
  BY NatLessThanWellFounded DEF OpToRel
<1>2. \A j, k \in N : <<j, k>> \in R <=> j < k
  OBVIOUS
<1> HIDE DEF R
<1>3. \E k \in N : \A j \in N : ~(<<j, k>> \in R)
  BY <1>1, WFMin
<1> QED
  BY <1>2, <1>3

\* The types are those of TypeGraph, ANY is above all, and `isa` is asked
\* about types as they are now.
TypesInv ==
    /\ parents \in Seq(SUBSET Nat)
    /\ Len(parents) >= ANY /\ parents[ANY] = {}
    /\ inherits = Inherits

\* What inherits from a type inherits from what that type inherits from.
LEMMA IsATransitive ==
    ASSUME TypesInv, NEW a \in TypeIds, NEW b \in TypeIds, NEW c \in TypeIds,
           IsA(a, b), IsA(b, c)
    PROVE  IsA(a, c)
<1>1. CASE b = ANY
  <2>1. CASE c = ANY
    BY <1>1, <2>1
  <2>2. CASE c # ANY
    <3> DEFINE S == TypeIds \ {ANY}
    <3>1. Closed(S, c)
      BY <2>2 DEF Closed, TypesInv
    <3>2. ANY \in S
      BY <1>1, <3>1 DEF IsA
    <3> QED
      BY <3>2
  <2> QED
    BY <2>1, <2>2
<1>2. CASE b # ANY
  <2> SUFFICES ASSUME NEW S \in SUBSET TypeIds, Closed(S, c) PROVE a \in S
    BY DEF IsA
  <2>1. b \in S
    BY DEF IsA
  <2>2. Closed(S, b)
    BY <1>2, <2>1 DEF Closed
  <2> QED
    BY <2>2 DEF IsA
<1> QED
  BY <1>1, <1>2

LEMMA InheritsTransitive ==
    ASSUME TypesInv, NEW a, NEW b, NEW c, <<a, b>> \in inherits, <<b, c>> \in inherits
    PROVE  <<a, c>> \in inherits
<1>1. a \in TypeIds /\ b \in TypeIds /\ c \in TypeIds /\ IsA(a, b) /\ IsA(b, c)
  BY DEF TypesInv, Inherits
<1>2. IsA(a, c)
  BY <1>1, IsATransitive
<1> QED
  BY <1>1, <1>2 DEF TypesInv, Inherits

LEMMA LeqTransitive ==
    ASSUME TypesInv, NEW p, NEW q, NEW r, Leq(p, q), Leq(q, r)
    PROVE  Leq(p, r)
<1>1. CASE r.kind \in {"any", "untyped"}
  BY <1>1 DEF Leq
<1>2. CASE q.kind = "is" /\ r.kind = "is" /\ <<q.type, r.type>> \in inherits
  <2>1. CASE p.kind = "is" /\ <<p.type, q.type>> \in inherits
    BY <1>2, <2>1, InheritsTransitive DEF Leq
  <2>2. CASE p.kind = "seq" /\ <<SeqEnum, q.type>> \in inherits
    BY <1>2, <2>2, InheritsTransitive DEF Leq
  <2> QED
    BY <1>2, <2>1, <2>2 DEF Leq
<1>3. CASE q.kind = "seq"
  BY <1>3 DEF Leq
<1> QED
  BY <1>1, <1>2, <1>3 DEF Leq

\* The patterns of s are below those of o at the first m places.
Below(s, o, m) == \A i \in 1..m : Leq(s.args[i].pat, o.args[i].pat)

LEMMA BelowTransitive ==
    ASSUME TypesInv, NEW s, NEW o, NEW u, NEW m, Below(s, o, m), Below(o, u, m)
    PROVE  Below(s, u, m)
BY LeqTransitive DEF Below

\* A set of signatures has one with none below it, unless both ways.
LEMMA LowestBelow ==
    ASSUME TypesInv, NEW E, IsFiniteSet(E), E # {}, NEW m
    PROVE  \E s \in E : \A o \in E : Below(o, s, m) => Below(s, o, m)
<1> DEFINE Strict(s) == {o \in E : Below(o, s, m) /\ ~Below(s, o, m)}
           N == {k \in Nat : \E s \in E : k = Cardinality(Strict(s))}
<1>1. \A s \in E : IsFiniteSet(Strict(s)) /\ Cardinality(Strict(s)) \in Nat
  <2> SUFFICES ASSUME NEW s \in E
               PROVE  IsFiniteSet(Strict(s)) /\ Cardinality(Strict(s)) \in Nat
    OBVIOUS
  <2>1. Strict(s) \in SUBSET E
    OBVIOUS
  <2> HIDE DEF Strict
  <2> QED
    BY <2>1, FS_Subset, FS_CardinalityType
<1>2. PICK k \in N : \A j \in N : ~(j < k)
  <2>1. N # {} /\ N \in SUBSET Nat
    BY <1>1
  <2> QED
    BY ONLY <2>1, LeastNumber
<1>3. PICK s \in E : k = Cardinality(Strict(s))
  BY <1>2
<1>4. ASSUME NEW o \in E, Below(o, s, m), ~Below(s, o, m)
      PROVE  FALSE
  <2>1. o \in Strict(s) /\ o \notin Strict(o)
    BY <1>4
  <2>2. Strict(o) \in SUBSET Strict(s)
    BY <1>4, BelowTransitive
  <2> HIDE DEF Strict
  <2>3. Cardinality(Strict(o)) <= Cardinality(Strict(s)) /\ Strict(o) # Strict(s)
    BY <1>1, <2>1, <2>2, FS_Subset
  <2>4. Cardinality(Strict(o)) # Cardinality(Strict(s))
    BY <1>1, <2>2, <2>3, FS_Subset
  <2>5. Cardinality(Strict(o)) \in N /\ Cardinality(Strict(o)) < k
    BY <1>1, <1>3, <2>3, <2>4
  <2> QED
    BY <1>2, <2>5
<1> QED
  BY <1>4

-----------------------------------------------------------------------------
(* The best of the candidates *)

\* Signatures that take n arguments.
Taking(C, n) == \A s \in C : Len(s.args) \in Nat /\ Takes(s, n)

\* A set that has what dominates its members.
Dominating(E, C) ==
    /\ E # {} /\ E \subseteq C
    /\ \A s \in E, o \in C : MoreSpecific(o, s) => o \in E

\* Signatures of more than m arguments that have their dominators with them:
\* some of them have more than m + 1, or else one is dominated by none.  A
\* signature that ends at m + 1 is dominated only by one that is longer or
\* not variadic, and one that is not variadic is the longest.
LEMMA LongerStill ==
    ASSUME TypesInv, NEW C, IsFiniteSet(C), NEW n \in Nat, Taking(C, n),
           \A s \in C : \E o \in C : MoreSpecific(o, s),
           NEW m \in Nat, NEW E \in SUBSET C, Dominating(E, C),
           \A s \in E : Len(s.args) >= m
    PROVE  \E F \in SUBSET C : Dominating(F, C) /\ \A s \in F : Len(s.args) >= m + 1
<1>1. \A s \in C : Len(s.args) \in Nat /\ Takes(s, n)
  BY DEF Taking
<1>2. IsFiniteSet(E) /\ E # {}
  BY FS_Subset DEF Dominating
<1>3. PICK x \in E : \A o \in E : Below(o, x, m) => Below(x, o, m)
  BY <1>2, LowestBelow
<1> DEFINE L == {s \in E : Below(s, x, m)}
           F == {s \in L : Len(s.args) > m}
<1>4. ASSUME NEW s \in E, NEW o \in C, MoreSpecific(o, s)
      PROVE  o \in E /\ Below(o, s, m)
  <2>1. o \in E /\ Len(s.args) >= m /\ Len(o.args) >= m
    BY <1>4 DEF Dominating
  <2>2. 1..m \subseteq Shared(o, s)
    BY <1>1, <2>1 DEF Shared
  <2> QED
    BY <1>4, <2>1, <2>2 DEF MoreSpecific, Below
\* What dominates a member of L is one, too, and they differ only behind m.
<1>5. ASSUME NEW s \in L, NEW o \in C, MoreSpecific(o, s)
      PROVE  o \in L /\ Below(s, o, m) /\ Below(o, s, m)
  <2>1. o \in E /\ Below(o, s, m)
    BY <1>4, <1>5
  <2>2. Below(o, x, m)
    BY <2>1, BelowTransitive
  <2>3. Below(x, o, m)
    BY <1>3, <2>1, <2>2
  <2>4. Below(s, o, m)
    BY <2>3, BelowTransitive
  <2> QED
    BY <2>1, <2>2, <2>4
\* Where one of the two ends at m, the dominator is not variadic.
<1>6. ASSUME NEW s \in L, NEW o \in C, MoreSpecific(o, s),
             Len(s.args) = m \/ Len(o.args) = m
      PROVE  ~o.variadic /\ s.variadic /\ Len(o.args) = n
  <2>1. o \in E /\ s \in E /\ Len(s.args) >= m /\ Len(o.args) >= m
    BY <1>5, <1>6
  <2>2. Shared(o, s) = 1..m
    BY <1>1, <1>6, <2>1 DEF Shared
  <2>3. ~o.variadic /\ s.variadic
    BY <1>5, <1>6, <2>2 DEF MoreSpecific, Below
  <2> QED
    BY <1>1, <2>3 DEF Takes
<1>7. F # {}
  <2> SUFFICES ASSUME \A s \in L : Len(s.args) <= m PROVE FALSE
    BY <1>1
  <2>1. \A s \in L : s \in C /\ Len(s.args) = m
    BY <1>1
  <2>2. PICK s \in L : TRUE
    <3>1. PICK o \in C : MoreSpecific(o, x)
      OBVIOUS
    <3> QED
      BY <1>4, <3>1
  <2>3. PICK o \in L : MoreSpecific(o, s)
    BY <1>5, <2>1
  <2>4. PICK u \in L : MoreSpecific(u, o)
    BY <1>5, <2>1
  <2> QED
    BY <1>6, <2>1, <2>3, <2>4
<1>8. ASSUME NEW s \in F, NEW o \in C, MoreSpecific(o, s)
      PROVE  o \in F
  <2>1. o \in L /\ Len(o.args) >= m
    BY <1>5, <1>8
  <2>2. Len(o.args) # m
    <3> SUFFICES ASSUME Len(o.args) = m PROVE FALSE
      OBVIOUS
    <3>1. n = m
      BY <1>6, <1>8
    <3>2. Len(s.args) <= n
      BY <1>1 DEF Takes
    <3> QED
      BY <3>1, <3>2
  <2> QED
    BY <1>1, <2>1, <2>2
<1>9. F \in SUBSET C /\ \A s \in F : Len(s.args) >= m + 1
  BY <1>1
<1> HIDE DEF F, L
<1> QED
  BY <1>7, <1>8, <1>9 DEF Dominating

\* Among candidates of one call there is one that no other dominates.
LEMMA SomeUndominated ==
    ASSUME TypesInv, NEW C, IsFiniteSet(C), C # {}, NEW n \in Nat, Taking(C, n)
    PROVE  Undominated(C) # {}
<1> SUFFICES ASSUME Undominated(C) = {} PROVE FALSE
  OBVIOUS
<1>1. \A s \in C : \E o \in C : MoreSpecific(o, s)
  BY DEF Undominated
<1> DEFINE Reaches(m) == \E E \in SUBSET C : Dominating(E, C) /\ \A s \in E : Len(s.args) >= m
<1>2. Reaches(0)
  BY DEF Taking, Dominating
<1>3. ~Reaches(n + 1)
  <2> SUFFICES ASSUME NEW E \in SUBSET C, Dominating(E, C), NEW s \in E, Len(s.args) >= n + 1
               PROVE  FALSE
    BY DEF Dominating
  <2> QED
    BY DEF Taking, Takes
<1>4. ASSUME NEW m \in Nat, Reaches(m) PROVE Reaches(m + 1)
  BY <1>1, <1>4, LongerStill
<1> HIDE DEF Reaches
<1>5. {m \in Nat : ~Reaches(m)} # {}
  BY <1>3
<1>6. PICK k \in Nat : ~Reaches(k) /\ \A j \in Nat : ~Reaches(j) => ~(j < k)
  BY <1>5, LeastNumber
<1>7. k # 0
  BY <1>2, <1>6
<1>8. k - 1 \in Nat /\ k - 1 < k /\ (k - 1) + 1 = k
  BY <1>7
<1>9. Reaches(k - 1)
  BY <1>6, <1>8
<1> QED
  BY <1>4, <1>6, <1>8, <1>9

\* The latest of some definitions.
LEMMA LatestIsLast ==
    ASSUME NEW pool, pool # {}, NEW top \in Nat, \A s \in pool : s.order \in 0..top
    PROVE  Latest(pool) \in pool /\ \A o \in pool : o.order <= Latest(pool).order
<1> DEFINE N == {k \in Nat : \E s \in pool : k = top - s.order}
<1>1. \A s \in pool : top - s.order \in Nat
  OBVIOUS
<1>2. PICK k \in N : \A j \in N : ~(j < k)
  <2>1. N # {} /\ N \in SUBSET Nat
    BY <1>1
  <2> QED
    BY ONLY <2>1, LeastNumber
<1>3. PICK s \in pool : k = top - s.order
  OBVIOUS
<1>4. ASSUME NEW o \in pool PROVE o.order <= s.order
  <2>1. o.order \in 0..top /\ s.order \in 0..top /\ top - o.order \in N
    OBVIOUS
  <2>2. ~(top - o.order < k)
    BY <1>2, <2>1
  <2> QED
    BY <1>3, <2>1, <2>2
<1> QED
  BY <1>3, <1>4 DEF Latest

LEMMA EarliestIsFirst ==
    ASSUME NEW pool, pool # {}, \A s \in pool : s.order \in Nat
    PROVE  Earliest(pool) \in pool
<1> DEFINE N == {k \in Nat : \E s \in pool : k = s.order}
<1>1. N # {} /\ N \in SUBSET Nat
  OBVIOUS
<1>2. PICK k \in N : \A j \in N : ~(j < k)
  BY ONLY <1>1, LeastNumber
<1>3. PICK s \in pool : k = s.order
  OBVIOUS
<1>4. \A o \in pool : s.order <= o.order
  <2> SUFFICES ASSUME NEW o \in pool PROVE s.order <= o.order
    OBVIOUS
  <2>1. o.order \in N
    OBVIOUS
  <2>2. ~(o.order < k)
    BY <1>2, <2>1
  <2> QED
    BY <1>3, <2>2
<1> QED
  BY <1>3, <1>4 DEF Earliest

-----------------------------------------------------------------------------
(* The tables a call finds *)

SigsInv ==
    /\ IsFiniteSet(sigs)
    /\ counter \in Nat
    /\ \A s \in sigs : s.order \in 0..counter /\ Len(s.args) \in Nat

TablesInv == SigsInv /\ TypesInv

LEMMA TablesInit == Init => TablesInv
<1> SUFFICES ASSUME Init PROVE TablesInv
  OBVIOUS
<1>1. TypesInv
  <2>1. /\ parents \in Seq(SUBSET (1..Len(parents))) /\ parents # <<>> /\ parents[ANY] = {}
        /\ inherits = Inherits
    BY TypesAssumption DEF Init
  <2>2. Len(parents) \in Nat /\ Len(parents) >= ANY
    BY <2>1 DEF ANY
  <2>3. parents \in Seq(SUBSET Nat)
    <3>1. SUBSET (1..Len(parents)) \subseteq SUBSET Nat
      BY <2>2
    <3> QED
      BY <2>1, <3>1
  <2> QED
    BY <2>1, <2>2, <2>3 DEF TypesInv
<1>2. SigsInv
  <2> DEFINE native(i) == [Natives[i] EXCEPT !.order = i]
             f == [i \in 1..Len(Natives) |-> native(i)]
  <2>1. Len(Natives) \in Nat /\ counter = Len(Natives)
        /\ sigs = {native(i) : i \in 1..Len(Natives)}
    BY DispatchAssumption DEF Init
  <2>2. \A i \in 1..Len(Natives) : native(i).order = i /\ native(i).args = Natives[i].args
    BY DispatchAssumption
  <2>3. \A i \in 1..Len(Natives) : Len(Natives[i].args) \in Nat
    BY DispatchAssumption
  <2> HIDE DEF native
  <2>4. f \in Surjection(1..Len(Natives), sigs)
    BY <2>1 DEF Surjection
  <2>5. IsFiniteSet(1..Len(Natives))
    BY <2>1, FS_Interval
  <2> HIDE DEF f
  <2>6. IsFiniteSet(sigs)
    BY <2>4, <2>5, FS_Surjection
  <2> QED
    BY <2>1, <2>2, <2>3, <2>6 DEF SigsInv
<1> QED
  BY <1>1, <1>2 DEF TablesInv

\* A declaration: ANY has descendants only, and gains no parents.
LEMMA DeclareKeepsTypes ==
    ASSUME TypesInv, NEW t, NEW new, DeclareType(t, new)
    PROVE  TypesInv'
<1>1. /\ parents \in Seq(SUBSET Nat) /\ Len(parents) \in Nat /\ Len(parents) >= 1
      /\ parents[1] = {} /\ ANY = 1
      /\ t \in 1..(Len(parents) + 1) /\ new \subseteq TypeIds /\ new \in SUBSET Nat
      /\ NoCycle(t, new) /\ inherits' = Inherits'
      /\ parents' = Declared(parents, t, new)
  BY DEF TypesInv, DeclareType, DeclareTypes, DeclaredBoth, TypeIds, ANY
<1>2. t = 1 => new = {}
  <2>1. \A x \in TypeIds : IsA(x, ANY)
    BY DEF IsA, Closed
  <2> QED
    BY <1>1, <2>1 DEF NoCycle
<1>3. CASE t <= Len(parents)
  <2>1. parents' = [parents EXCEPT ![t] = parents[t] \union new] /\ t \in 1..Len(parents)
    BY <1>1, <1>3 DEF Declared
  <2>2. parents[t] \in SUBSET Nat
    BY <1>1, <2>1
  <2>3. parents[t] \union new \in SUBSET Nat
    BY <1>1, <2>2
  <2>4. parents' \in Seq(SUBSET Nat) /\ Len(parents') = Len(parents)
    BY <1>1, <2>1, <2>3
  <2>5. parents'[1] = {}
    <3>1. 1 \in DOMAIN parents
      BY <1>1
    <3>2. parents'[1] = IF t = 1 THEN parents[t] \union new ELSE parents[1]
      BY ONLY <2>1, <3>1
    <3> QED
      BY <1>1, <1>2, <3>2
  <2> QED
    BY <1>1, <2>4, <2>5 DEF TypesInv
<1>4. CASE t > Len(parents)
  <2> DEFINE ps == IF new = {} THEN {1} ELSE new
  <2>1. ps \in SUBSET Nat
    BY <1>1
  <2>2. parents' = Append(parents, ps)
    BY <1>1, <1>4 DEF Declared
  <2> HIDE DEF ps
  <2>3. parents' \in Seq(SUBSET Nat) /\ Len(parents') >= 1 /\ parents'[1] = {}
    BY <1>1, <2>1, <2>2
  <2> QED
    BY <1>1, <2>3 DEF TypesInv
<1> QED
  BY <1>1, <1>3, <1>4

LEMMA TablesNext == TablesInv /\ [Next]_vars => TablesInv'
<1> SUFFICES ASSUME TablesInv, [Next]_vars PROVE TablesInv'
  OBVIOUS
<1>1. ASSUME UNCHANGED <<parents, inherits>> PROVE TypesInv'
  BY <1>1 DEF TablesInv, TypesInv, Inherits, IsA, Closed, TypeIds
<1>2. ASSUME NEW shape \in Shapes, NEW file \in Files, Define(shape, file) PROVE TablesInv'
  <2> DEFINE s == [shape EXCEPT !.order = counter + 1, !.source = file]
  <2>1. sigs' = sigs \union {s} /\ counter' = counter + 1 /\ UNCHANGED <<parents, inherits>>
    BY <1>2 DEF Define, types
  <2>2. s.order = counter + 1 /\ Len(s.args) \in Nat
    BY DispatchAssumption
  <2> HIDE DEF s
  <2>3. IsFiniteSet(sigs')
    BY <2>1, FS_AddElement DEF TablesInv, SigsInv
  <2>4. SigsInv'
    BY <2>1, <2>2, <2>3 DEF TablesInv, SigsInv
  <2> QED
    BY <1>1, <2>1, <2>4 DEF TablesInv
<1>3. ASSUME NEW file \in Files, RemoveSource(file) PROVE TablesInv'
  <2>1. sigs' \in SUBSET sigs /\ counter' = counter + 1 /\ UNCHANGED <<parents, inherits>>
    BY <1>3 DEF RemoveSource, types
  <2>2. IsFiniteSet(sigs')
    BY <2>1, FS_Subset DEF TablesInv, SigsInv
  <2>3. SigsInv'
    BY <2>1, <2>2 DEF TablesInv, SigsInv
  <2> QED
    BY <1>1, <2>1, <2>3 DEF TablesInv
<1>4. ASSUME NEW d \in Declares, DeclareType(d.type, d.parents) PROVE TablesInv'
  <2>1. UNCHANGED <<sigs, counter>>
    BY <1>4 DEF DeclareType
  <2>2. TypesInv'
    BY <1>4, DeclareKeepsTypes DEF TablesInv
  <2> QED
    BY <2>1, <2>2 DEF TablesInv, SigsInv
<1>5. ASSUME UNCHANGED <<parents, inherits, sigs, counter>> PROVE TablesInv'
  BY <1>1, <1>5 DEF TablesInv, SigsInv
<1>6. ASSUME NEW k \in Sites, NEW c \in Calls, Call(k, c) PROVE TablesInv'
  BY <1>5, <1>6 DEF Call, types
<1>7. CASE UNCHANGED vars
  BY <1>5, <1>7 DEF vars
<1> QED
  BY <1>2, <1>3, <1>4, <1>6, <1>7 DEF Next

\* What is picked is a candidate that no other dominates.
LEMMA PickedIsUndominated ==
    ASSUME TablesInv, NEW c \in Calls, Candidates(c) # {}
    PROVE  /\ Pool(Candidates(c)) = Undominated(Candidates(c))
           /\ Picked(c, Pool(Candidates(c))) \in Undominated(Candidates(c))
<1> DEFINE C == Candidates(c)
<1>1. C \in SUBSET sigs /\ \A s \in C : Matches(s, c)
  BY DEF Candidates, Preferred, Fits
<1>2. Len(c.args) \in Nat
  BY DispatchAssumption
<1>3. Taking(C, Len(c.args))
  BY <1>1 DEF Taking, Matches, TablesInv, SigsInv
<1>4. IsFiniteSet(C) /\ C # {}
  BY <1>1, FS_Subset DEF TablesInv, SigsInv
<1> HIDE DEF C
<1>5. Undominated(C) # {}
  BY <1>2, <1>3, <1>4, SomeUndominated DEF TablesInv
<1> DEFINE pool == Undominated(C)
<1>6. \A s \in pool : s.order \in 0..counter
  BY <1>1 DEF Undominated, TablesInv, SigsInv
<1>7. counter \in Nat /\ \A s \in pool : s.order \in Nat
  BY <1>6 DEF TablesInv, SigsInv
<1> HIDE DEF pool
<1>8. pool # {}
  BY <1>5 DEF pool
<1>9. Latest(pool) \in pool
  BY <1>6, <1>7, <1>8, LatestIsLast
<1>10. Earliest(pool) \in pool
  BY <1>7, <1>8, EarliestIsFirst
<1>11. Picked(c, pool) \in pool
  BY <1>9, <1>10 DEF Picked
<1> QED
  BY <1>5, <1>11 DEF pool, Pool, C

LEMMA NothingDominatesItself == \A s : ~MoreSpecific(s, s)
BY DEF MoreSpecific

\* For every table of signatures and hierarchy of types, whatever was
\* defined, withdrawn and declared: a call for which there are candidates
\* goes to one that no other candidate is more specific than.
THEOREM MostSpecificIsCalled == Spec => []ChoiceIsMostSpecific
<1>1. TablesInv => ChoiceIsMostSpecific
  <2> SUFFICES ASSUME TablesInv, NEW c \in Calls, Candidates(c) # {},
                      NEW o \in Candidates(c),
                      MoreSpecific(o, Picked(c, Pool(Candidates(c))))
               PROVE  FALSE
    BY DEF ChoiceIsMostSpecific
  <2> QED
    BY PickedIsUndominated, NothingDominatesItself DEF Undominated
<1> QED
  BY <1>1, TablesInit, TablesNext, PTL DEF Spec

\* What dominates a signature dominates those with the same patterns.
LEMMA SamePatternsSameRank ==
    ASSUME TypesInv, NEW s, NEW o, NEW w, SamePatterns(s, o), MoreSpecific(w, s)
    PROVE  MoreSpecific(w, o)
<1>1. Shared(w, s) = Shared(w, o) /\ s.variadic = o.variadic
  BY DEF SamePatterns, Shared
<1>2. ASSUME NEW i \in Shared(w, s)
      PROVE  Leq(s.args[i].pat, o.args[i].pat) /\ Leq(o.args[i].pat, s.args[i].pat)
             /\ Leq(w.args[i].pat, s.args[i].pat)
  BY DEF Shared, MoreSpecific, SamePatterns
<1>3. \A i \in Shared(w, s) : Leq(w.args[i].pat, o.args[i].pat)
  BY <1>2, LeqTransitive
<1>4. \A i \in Shared(w, s) : Leq(o.args[i].pat, w.args[i].pat) => Leq(s.args[i].pat, w.args[i].pat)
  BY <1>2, LeqTransitive
<1> QED
  BY <1>1, <1>3, <1>4 DEF MoreSpecific

\* And of the definitions of a program that take the same arguments, it goes
\* to the latest.
THEOREM LatestDefinitionIsCalled == Spec => []LaterDefinitionsWin
<1>1. TablesInv => LaterDefinitionsWin
  <2> SUFFICES ASSUME TablesInv, NEW c \in Calls, NEW o \in Candidates(c),
                      SamePatterns(o, Picked(c, Pool(Candidates(c)))), ~o.native
               PROVE  o.order <= Picked(c, Pool(Candidates(c))).order
    BY DEF LaterDefinitionsWin
  <2> DEFINE pool == Undominated(Candidates(c))
             chosen == Picked(c, pool)
  <2>1. Pool(Candidates(c)) = pool /\ chosen \in pool
    BY PickedIsUndominated
  <2>2. SamePatterns(o, chosen)
    BY <2>1
  <2>3. ~\E w \in Candidates(c) : MoreSpecific(w, chosen)
    BY <2>1, NothingDominatesItself DEF Undominated
  <2>4. o \in pool
    BY <2>2, <2>3, SamePatternsSameRank DEF Undominated, TablesInv
  <2>5. counter \in Nat /\ \A s \in pool : s.order \in 0..counter
    BY DEF Undominated, Candidates, Preferred, Fits, TablesInv, SigsInv
  <2> HIDE DEF pool
  <2>6. chosen = Latest(pool)
    BY <2>4 DEF Picked
  <2>7. o.order <= Latest(pool).order
    BY <2>4, <2>5, LatestIsLast
  <2> QED
    BY <2>1, <2>6, <2>7
<1> QED
  BY <1>1, TablesInit, TablesNext, PTL DEF Spec
=============================================================================
