------------------------------ MODULE Groebner ------------------------------
(* How calyx-groebner finds a Groebner basis, as far as leading monomials    *)
(* tell: the UPDATE procedure of Gebauer and Moeller, which buchberger.rs    *)
(* and f4.rs have each written out, the way each takes the generators, and   *)
(* the pairs one at a time (Buchberger) or all those of least degree (F4).   *)
(* What the arithmetic leaves of a pair or of a batch is any choice of       *)
(* leading monomials that no basis element divides and that the order puts   *)
(* below the lcm they come from.                                             *)
EXTENDS Integers, Sequences, FiniteSets, Functions

CONSTANTS Vars,          \* the variables of the ring
          Monomials,     \* exponent vectors, those of the lcms included
          Leads,         \* bound: the leading monomials that are tried
          Below(_, _),   \* the monomial order
          Degree(_),     \* the degree, weighted
          Limit,         \* the largest degree of a pair, for a truncated basis
          MaxGens,       \* bound: generators
          MaxPolys       \* bound: polynomials found

One == [v \in Vars |-> 0]
Divides(a, b) == \A v \in Vars : a[v] <= b[v]
Lcm(a, b) == [v \in Vars |-> IF a[v] >= b[v] THEN a[v] ELSE b[v]]
Coprime(a, b) == \A v \in Vars : a[v] = 0 \/ b[v] = 0

\* The weights are natural numbers, so a divisor has no larger a degree.
ASSUME MonomialsAssumption ==
  /\ Monomials \subseteq [Vars -> Nat] /\ Leads \subseteq Monomials
  /\ \A a, b \in Monomials : Lcm(a, b) \in Monomials
  /\ \A a \in Monomials : Degree(a) \in Int
  /\ \A a, b \in Monomials : Divides(a, b) => Degree(a) <= Degree(b)
  /\ Limit \in Int /\ MaxGens \in Nat /\ MaxPolys \in Nat

VARIABLES algo,      \* "buchberger" or "f4"
          truncated, \* whether there is a limit
          phase,     \* "generators", "pairs", "done" or "unit"
          lm,        \* the leading monomials of polys, in the order of adding
          basis,     \* the current basis, as indices
          pairs,     \* the pairs to do, <<i, j>> with i < j
          rows,      \* F4: the leading monomials of the batch still to be added
          treated,   \* the pairs selected so far (history)
          out        \* the indices the result is made from

vars == <<algo, truncated, phase, lm, basis, pairs, rows, treated, out>>

-----------------------------------------------------------------------------
LcmOf(p) == Lcm(lm[p[1]], lm[p[2]])
Irreducible(m) == \A i \in basis : ~Divides(lm[i], m)
Within(m) == truncated => Degree(m) <= Limit

-----------------------------------------------------------------------------
\* The UPDATE procedure, for a polynomial of leading monomial m

\* Mutant of Kept: a pair is dropped for one that is dropped itself.
KeptByAny(m) ==
  {a \in basis : \/ Coprime(lm[a], m)
                 \/ ~\E b \in basis \ {a} : Divides(Lcm(lm[b], m), Lcm(lm[a], m))}

\* Which of the new pairs {i, k} survive each other: they are gone through in
\* the order of the basis, and the coprime ones are kept for the time being.
Kept(m) ==
  LET keep[a \in basis] ==
        \/ Coprime(lm[a], m)
        \/ ~\E b \in basis \ {a} : /\ b > a \/ keep[b]
                                   /\ Divides(Lcm(lm[b], m), Lcm(lm[a], m))
  IN  {a \in basis : keep[a]}

NewPairs(m) ==
  {<<a, Len(lm) + 1>> : a \in {b \in Kept(m) : /\ ~Coprime(lm[b], m)
                                               /\ Within(Lcm(lm[b], m))}}

\* An old pair goes if m divides its lcm, unless its lcm is that of one of its
\* members with m.
OldPairs(m, among) ==
  {p \in among : \/ ~Divides(m, LcmOf(p))
                 \/ Lcm(lm[p[1]], m) = LcmOf(p)
                 \/ Lcm(lm[p[2]], m) = LcmOf(p)}

\* Mutant of BasisWith: what the new polynomial divides stays in the basis.
BasisKeepsAll(m) == basis \cup {Len(lm) + 1}

BasisWith(m) == {i \in basis : ~Divides(m, lm[i])} \cup {Len(lm) + 1}

Insert(m, among) ==
  /\ Len(lm) < MaxPolys
  /\ lm' = Append(lm, m)
  /\ pairs' = OldPairs(m, among) \cup NewPairs(m)
  /\ basis' = BasisWith(m)

\* A constant ends it: the unit ideal.
Add(m, among) ==
  IF m = One
  THEN /\ phase' = "unit"
       /\ pairs' = among
       /\ UNCHANGED <<lm, basis>>
  ELSE Insert(m, among) /\ UNCHANGED phase

-----------------------------------------------------------------------------
\* Buchberger without a limit reduces the generators by each other; with a
\* limit, and in F4, they are taken as they are. One that reduces to zero
\* changes nothing.
TakenAs(m) == (algo = "buchberger" /\ ~truncated) => Irreducible(m)

AddGenerator(m) ==
  /\ phase = "generators" /\ Len(lm) < MaxGens
  /\ TakenAs(m)
  /\ Add(m, pairs)
  /\ UNCHANGED <<algo, truncated, rows, treated, out>>

EndGenerators ==
  /\ phase = "generators"
  /\ phase' = "pairs"
  /\ UNCHANGED <<algo, truncated, lm, basis, pairs, rows, treated, out>>

\* Buchberger selects a pair by its sugar, which may be any: its S-polynomial
\* leaves nothing ...
ReducesToZero(p) ==
  /\ phase = "pairs" /\ algo = "buchberger" /\ p \in pairs
  /\ pairs' = pairs \ {p}
  /\ treated' = treated \cup {p}
  /\ UNCHANGED <<algo, truncated, phase, lm, basis, rows, out>>

\* ... or a polynomial that no basis element reduces.
GivesPoly(p, m) ==
  /\ phase = "pairs" /\ algo = "buchberger" /\ p \in pairs
  /\ Irreducible(m) /\ Below(m, LcmOf(p))
  /\ Add(m, pairs \ {p})
  /\ treated' = treated \cup {p}
  /\ UNCHANGED <<algo, truncated, rows, out>>

\* F4 takes all the pairs of least degree; the new rows of the echelon form of
\* their matrix have distinct leading monomials, that no row led with, in the
\* order in which the elimination came to them.
LeastDegree == {p \in pairs : \A q \in pairs : Degree(LcmOf(p)) <= Degree(LcmOf(q))}

RowsOf(batch) ==
  LET leads == {m \in Leads : /\ Irreducible(m)
                              /\ \E p \in batch : Below(m, LcmOf(p))}
  IN  UNION {{r \in [1..n -> leads] : IsInjective(r)} : n \in 0..MaxPolys - Len(lm)}

\* A row for each member of a pair; for each lcm one is a pivot.
RowsToReduce(batch) ==
  Cardinality(UNION {{<<LcmOf(p), p[1]>>, <<LcmOf(p), p[2]>>} : p \in batch})
    - Cardinality({LcmOf(p) : p \in batch})

SelectBatch ==
  /\ phase = "pairs" /\ algo = "f4" /\ rows = <<>> /\ pairs # {}
  /\ rows' \in RowsOf(LeastDegree)
  /\ Len(rows') <= RowsToReduce(LeastDegree)
  /\ pairs' = pairs \ LeastDegree
  /\ treated' = treated \cup LeastDegree
  /\ UNCHANGED <<algo, truncated, phase, lm, basis, out>>

AddRow ==
  /\ phase = "pairs" /\ rows # <<>>
  /\ Add(Head(rows), pairs)
  /\ rows' = Tail(rows)
  /\ UNCHANGED <<algo, truncated, treated, out>>

\* Mutant of Minimal: the divisors are left out.
Maximal == {k \in basis : ~\E j \in basis \ {k} : Divides(lm[k], lm[j])}

\* The basis may hold multiples of one another, which are left out.
Minimal == {k \in basis : ~\E j \in basis \ {k} : Divides(lm[j], lm[k])}

Finish ==
  /\ phase = "pairs" /\ pairs = {} /\ rows = <<>>
  /\ phase' = "done"
  /\ out' = Minimal
  /\ UNCHANGED <<algo, truncated, lm, basis, pairs, rows, treated>>

Init ==
  /\ algo \in {"buchberger", "f4"} /\ truncated \in BOOLEAN
  /\ phase = "generators"
  /\ lm = <<>> /\ basis = {} /\ pairs = {} /\ rows = <<>> /\ treated = {} /\ out = {}

Next ==
  \/ \E m \in Leads : AddGenerator(m)
  \/ EndGenerators
  \/ \E p \in pairs : ReducesToZero(p)
  \/ \E p \in pairs, m \in Leads : GivesPoly(p, m)
  \/ SelectBatch
  \/ AddRow
  \/ Finish

Spec == Init /\ [][Next]_vars

-----------------------------------------------------------------------------
TypeOK ==
  /\ algo \in {"buchberger", "f4"} /\ truncated \in BOOLEAN
  /\ phase \in {"generators", "pairs", "done", "unit"}
  /\ lm \in Seq(Leads)
  /\ basis \subseteq 1..Len(lm) /\ out \subseteq 1..Len(lm)
  /\ pairs \subseteq (1..Len(lm)) \X (1..Len(lm))
  /\ treated \subseteq (1..Len(lm)) \X (1..Len(lm))
  /\ rows \in Seq(Leads) /\ (rows # <<>> => algo = "f4")

\* Buchberger's criterion asks for every pair; the ones that UPDATE drops are
\* accounted for: any two polynomials whose lcm is within the limit are joined
\* by a chain of polynomials whose leading monomials divide that lcm and in
\* which neighbours are a pair that is to do or done, or coprime. So whatever
\* the order in which polynomials come, no pair that is needed is lost, and
\* at the end the basis is a Groebner basis.
Joined(a, b) ==
  \/ {<<a, b>>, <<b, a>>} \cap (pairs \cup treated) # {}
  \/ Coprime(lm[a], lm[b])

PairsAccounted ==
  \A i, j \in 1..Len(lm) :
    (i < j /\ Within(Lcm(lm[i], lm[j]))) =>
      LET between == {c \in 1..Len(lm) : Divides(lm[c], Lcm(lm[i], lm[j]))}
      IN  \A side \in SUBSET between :
            (i \in side /\ j \notin side) =>
               \E a \in side, b \in between \ side : Joined(a, b)

\* Nothing that UPDATE takes out of the basis is missed: its leading monomial,
\* like that of every polynomial found, is a multiple of one of the basis. And
\* what the result leaves out as a multiple of another is so too, with no two
\* polynomials of equal leading monomials leaving each other out.
BasisCovers ==
  \A k \in 1..Len(lm) :
    /\ \E i \in basis : Divides(lm[i], lm[k])
    /\ phase = "done" => \E i \in out : Divides(lm[i], lm[k])

\* The comment of State::basis: no leading monomial of the basis divides
\* another. It holds where every polynomial is reduced before it is added.
BasisIsMinimal ==
  (algo = "buchberger" /\ ~truncated) =>
    \A i, j \in basis : i # j => ~Divides(lm[i], lm[j])
=============================================================================
