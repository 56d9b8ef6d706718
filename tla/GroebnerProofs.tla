--------------------------- MODULE GroebnerProofs ---------------------------
(***************************************************************************)
(* UPDATE drops no pair that is needed, for any ring, order and limit and  *)
(* any number of polynomials.                                              *)
(*                                                                         *)
(* The argument is for one insertion, on constants (lemma UpdateAccounts). *)
(* Of the pairs that are not accounted for afterwards take one whose lcm   *)
(* has the fewest divisors among the lcms.  Its chain of before is made of *)
(* links that stay, and of old pairs that went because their lcm is a      *)
(* multiple of the new monomial: they are replaced by the links of their   *)
(* two members with the new polynomial, whose lcms are proper divisors.  A *)
(* new pair that is not kept is replaced by one of an lcm that divides     *)
(* its own, and of these the one latest in the basis comes first.          *)
(***************************************************************************)
EXTENDS Groebner, TLAPS, FiniteSetTheorems

-----------------------------------------------------------------------------
(* Numbers *)

\* A set of natural numbers has a least element.
LEMMA LeastOf ==
    ASSUME NEW S, S \subseteq Nat, S # {}
    PROVE  \E n \in S : \A x \in S : n <= x
<1>1. PICK n \in S : \A x \in S : ~(<<x, n>> \in OpToRel(<, Nat))
    BY NatLessThanWellFounded, WFMin, Zenon
<1>2. \A x \in S : ~(x < n)
    BY <1>1 DEF OpToRel
<1> QED
    BY <1>2, SMT

\* A set of indices has a greatest.
LEMMA GreatestOf ==
    ASSUME NEW N \in Nat, NEW S, S \subseteq 1..N, S # {}
    PROVE  \E n \in S : \A x \in S : x <= n
<1> DEFINE T == {N - x : x \in S}
<1>0. \A x \in S : N - x \in Nat
    OBVIOUS
<1>1. T \subseteq Nat /\ T # {}
    BY <1>0, Zenon
<1>2. PICK t \in T : \A x \in T : t <= x
    BY <1>1, LeastOf
<1>3. PICK n \in S : t = N - n
    BY <1>2
<1>4. ASSUME NEW x \in S PROVE x <= n
    <2>1. N - x \in T
        OBVIOUS
    <2>2. N - n <= N - x
        BY <2>1, <1>2, <1>3
    <2>3. x \in Nat /\ n \in Nat
        OBVIOUS
    <2> QED
        BY <2>2, <2>3
<1> QED
    BY <1>4

-----------------------------------------------------------------------------
(* Monomials *)

LEMMA LcmIsMonomial ==
    ASSUME NEW a \in Monomials, NEW b \in Monomials
    PROVE  Lcm(a, b) \in Monomials
BY MonomialsAssumption

LEMMA DividesLcm ==
    ASSUME NEW a \in Monomials, NEW b \in Monomials
    PROVE  Divides(a, Lcm(a, b)) /\ Divides(b, Lcm(a, b))
BY MonomialsAssumption DEF Divides, Lcm

LEMMA LcmIsLeast ==
    ASSUME NEW a \in Monomials, NEW b \in Monomials, NEW c \in Monomials,
           Divides(a, c), Divides(b, c)
    PROVE  Divides(Lcm(a, b), c)
BY MonomialsAssumption DEF Divides, Lcm

LEMMA DividesTransitive ==
    ASSUME NEW a \in Monomials, NEW b \in Monomials, NEW c \in Monomials,
           Divides(a, b), Divides(b, c)
    PROVE  Divides(a, c)
<1> SUFFICES ASSUME NEW v \in Vars PROVE a[v] <= c[v]
    BY DEF Divides
<1>1. a[v] \in Nat /\ b[v] \in Nat /\ c[v] \in Nat
    BY MonomialsAssumption
<1>2. a[v] <= b[v] /\ b[v] <= c[v]
    BY DEF Divides
<1> QED
    BY <1>1, <1>2, SMT

LEMMA DividesAntisymmetric ==
    ASSUME NEW a \in Monomials, NEW b \in Monomials, Divides(a, b), Divides(b, a)
    PROVE  a = b
<1>1. \A v \in Vars : a[v] \in Nat /\ b[v] \in Nat /\ a[v] <= b[v] /\ b[v] <= a[v]
    BY MonomialsAssumption DEF Divides
<1>2. \A v \in Vars : a[v] = b[v]
    BY <1>1, SMT
<1> QED
    BY <1>2, MonomialsAssumption

LEMMA DividesItself ==
    ASSUME NEW a \in Monomials
    PROVE  Divides(a, a)
BY MonomialsAssumption DEF Divides

LEMMA LcmCommutes ==
    ASSUME NEW a \in Monomials, NEW b \in Monomials
    PROVE  Lcm(a, b) = Lcm(b, a)
<1>1. \A v \in Vars : a[v] \in Nat /\ b[v] \in Nat
    BY MonomialsAssumption
<1>2. \A v \in Vars : (IF a[v] >= b[v] THEN a[v] ELSE b[v]) = (IF b[v] >= a[v] THEN b[v] ELSE a[v])
    BY <1>1, SMT
<1> QED
    BY <1>2 DEF Lcm

-----------------------------------------------------------------------------
(* Chains *)

\* What PairsAccounted asks of two polynomials, for any leading monomials L
\* and any set E of pairs to do or done.
Edge(L, E, a, b) == {<<a, b>>, <<b, a>>} \cap E # {} \/ Coprime(L[a], L[b])
Between(L, l) == {c \in 1..Len(L) : Divides(L[c], l)}
Linked(L, E, S, i, j) ==
    \A side \in SUBSET S :
        (i \in side /\ j \notin side) =>
            \E a \in side, b \in S \ side : Edge(L, E, a, b)

LL(L, i, j) == Lcm(L[i], L[j])
InRange(t, l) == t => Degree(l) <= Limit
Accounted(L, E, i, j) == Linked(L, E, Between(L, LL(L, i, j)), i, j)
AllAccounted(L, E, t) ==
    \A i, j \in 1..Len(L) :
        (i # j /\ InRange(t, LL(L, i, j))) => Accounted(L, E, i, j)

LEMMA EdgeIsSymmetric ==
    ASSUME NEW L, NEW E, NEW a, NEW b, Edge(L, E, a, b)
    PROVE  Edge(L, E, b, a)
<1>1. Coprime(L[a], L[b]) => Coprime(L[b], L[a])
    BY DEF Coprime
<1>2. {<<a, b>>, <<b, a>>} = {<<b, a>>, <<a, b>>}
    OBVIOUS
<1> QED
    BY <1>1, <1>2, Zenon DEF Edge

LEMMA EdgeLinks ==
    ASSUME NEW L, NEW E, NEW S, NEW i \in S, NEW j \in S, Edge(L, E, i, j)
    PROVE  Linked(L, E, S, i, j)
BY Zenon DEF Linked

LEMMA LinkedTransitive ==
    ASSUME NEW L, NEW E, NEW S, NEW i, NEW j, NEW c \in S,
           Linked(L, E, S, i, c), Linked(L, E, S, c, j)
    PROVE  Linked(L, E, S, i, j)
BY Zenon DEF Linked

LEMMA LinkedInMore ==
    ASSUME NEW L, NEW E, NEW S, NEW T, S \subseteq T, NEW i \in S, NEW j \in S,
           Linked(L, E, S, i, j)
    PROVE  Linked(L, E, T, i, j)
<1> SUFFICES ASSUME NEW side \in SUBSET T, i \in side, j \notin side
             PROVE  \E a \in side, b \in T \ side : Edge(L, E, a, b)
    BY DEF Linked
<1>1. \E a \in side \cap S, b \in S \ (side \cap S) : Edge(L, E, a, b)
    <2>1. side \cap S \in SUBSET S /\ i \in side \cap S /\ j \notin side \cap S
        OBVIOUS
    <2> QED
        BY <2>1, Zenon DEF Linked
<1> QED
    BY <1>1, Zenon

LEMMA LinkedSymmetric ==
    ASSUME NEW L, NEW E, NEW S, NEW i \in S, NEW j \in S, Linked(L, E, S, i, j)
    PROVE  Linked(L, E, S, j, i)
<1> SUFFICES ASSUME NEW side \in SUBSET S, j \in side, i \notin side
             PROVE  \E a \in side, b \in S \ side : Edge(L, E, a, b)
    BY DEF Linked
<1>1. PICK a \in S \ side, b \in S \ (S \ side) : Edge(L, E, a, b)
    <2>1. S \ side \in SUBSET S /\ i \in S \ side /\ j \notin S \ side
        OBVIOUS
    <2> QED
        BY <2>1, Zenon DEF Linked
<1>2. b \in side /\ a \in S \ side /\ Edge(L, E, b, a)
    BY <1>1, EdgeIsSymmetric
<1> QED
    BY <1>2, Zenon

\* A chain whose edges are replaced by chains.
LEMMA LinksForEdges ==
    ASSUME NEW L, NEW L2, NEW E, NEW E2, NEW S, NEW T, S \subseteq T,
           NEW i \in S, NEW j \in S, Linked(L, E, S, i, j),
           \A a, b \in S : Edge(L, E, a, b) => Linked(L2, E2, T, a, b)
    PROVE  Linked(L2, E2, T, i, j)
<1> SUFFICES ASSUME NEW side \in SUBSET T, i \in side, j \notin side
             PROVE  \E a \in side, b \in T \ side : Edge(L2, E2, a, b)
    BY DEF Linked
<1>1. PICK a \in side \cap S, b \in S \ (side \cap S) : Edge(L, E, a, b)
    <2>1. side \cap S \in SUBSET S /\ i \in side \cap S /\ j \notin side \cap S
        OBVIOUS
    <2> QED
        BY <2>1, Zenon DEF Linked
<1>2. Linked(L2, E2, T, a, b) /\ a \in side /\ b \notin side
    BY <1>1
<1> QED
    BY <1>2, Zenon DEF Linked

-----------------------------------------------------------------------------
(* One insertion *)

LEMMA LLIsMonomial ==
    ASSUME NEW L \in Seq(Monomials), NEW i \in 1..Len(L), NEW j \in 1..Len(L)
    PROVE  /\ L[i] \in Monomials /\ L[j] \in Monomials
           /\ LL(L, i, j) \in Monomials
           /\ LL(L, i, j) = LL(L, j, i)
           /\ Divides(L[i], LL(L, i, j)) /\ Divides(L[j], LL(L, i, j))
<1>1. L[i] \in Monomials /\ L[j] \in Monomials
    OBVIOUS
<1> QED
    BY <1>1, LcmIsMonomial, LcmCommutes, DividesLcm DEF LL

\* The lcm of two polynomials of a chain divides that of its ends.
LEMMA BetweenDivides ==
    ASSUME NEW L \in Seq(Monomials), NEW l \in Monomials,
           NEW i \in Between(L, l), NEW j \in Between(L, l)
    PROVE  i \in 1..Len(L) /\ j \in 1..Len(L) /\ Divides(LL(L, i, j), l)
<1>1. i \in 1..Len(L) /\ j \in 1..Len(L) /\ Divides(L[i], l) /\ Divides(L[j], l)
    BY DEF Between
<1>2. L[i] \in Monomials /\ L[j] \in Monomials
    BY <1>1
<1> QED
    BY <1>1, <1>2, LcmIsLeast DEF LL

LEMMA BetweenGrows ==
    ASSUME NEW L \in Seq(Monomials), NEW l \in Monomials, NEW l2 \in Monomials,
           Divides(l, l2)
    PROVE  Between(L, l) \subseteq Between(L, l2)
<1> SUFFICES ASSUME NEW c \in 1..Len(L), Divides(L[c], l)
             PROVE  Divides(L[c], l2)
    BY DEF Between
<1>1. L[c] \in Monomials
    OBVIOUS
<1> QED
    BY <1>1, DividesTransitive

LEMMA InRangeOfDivisor ==
    ASSUME NEW l \in Monomials, NEW l2 \in Monomials, Divides(l, l2), NEW t,
           InRange(t, l2)
    PROVE  InRange(t, l)
<1>1. Degree(l) \in Int /\ Degree(l2) \in Int /\ Degree(l) <= Degree(l2) /\ Limit \in Int
    BY MonomialsAssumption
<1>2. Degree(l2) <= Limit => Degree(l) <= Limit
    BY <1>1
<1> QED
    BY <1>2 DEF InRange

\* How many lcms divide l: it measures the descent.
Divisors(L, l) ==
    {q \in (1..Len(L)) \X (1..Len(L)) : Divides(LL(L, q[1], q[2]), l)}
Height(L, l) == Cardinality(Divisors(L, l))

LEMMA HeightGrows ==
    ASSUME NEW L \in Seq(Monomials),
           NEW i \in 1..Len(L), NEW j \in 1..Len(L), NEW l \in Monomials,
           Divides(l, LL(L, i, j))
    PROVE  /\ Height(L, l) \in Nat /\ Height(L, LL(L, i, j)) \in Nat
           /\ Height(L, l) <= Height(L, LL(L, i, j))
           /\ l # LL(L, i, j) => Height(L, l) < Height(L, LL(L, i, j))
<1> DEFINE big == LL(L, i, j)
           A == Divisors(L, l)
           Z == Divisors(L, big)
<1>0. big \in Monomials
    BY LLIsMonomial
<1>1. A \subseteq Z
    <2> SUFFICES ASSUME NEW q \in (1..Len(L)) \X (1..Len(L)), Divides(LL(L, q[1], q[2]), l)
                 PROVE  Divides(LL(L, q[1], q[2]), big)
        BY DEF Divisors
    <2>1. q[1] \in 1..Len(L) /\ q[2] \in 1..Len(L)
        OBVIOUS
    <2>2. LL(L, q[1], q[2]) \in Monomials
        BY <2>1, LLIsMonomial
    <2> QED
        BY <2>2, <1>0, DividesTransitive
<1>2. IsFiniteSet(Z)
    <2>1. IsFiniteSet(1..Len(L))
        BY FS_Interval
    <2>2. IsFiniteSet((1..Len(L)) \X (1..Len(L)))
        BY <2>1, FS_Product
    <2>3. Z \in SUBSET ((1..Len(L)) \X (1..Len(L)))
        BY DEF Divisors
    <2> QED
        BY <2>2, <2>3, FS_Subset
<1>3. /\ IsFiniteSet(A) /\ Cardinality(A) <= Cardinality(Z)
      /\ Cardinality(Z) = Cardinality(A) => Z = A
    BY <1>1, <1>2, FS_Subset
<1>4. Cardinality(A) \in Nat /\ Cardinality(Z) \in Nat
    BY <1>2, <1>3, FS_CardinalityType
<1>5. ASSUME l # big PROVE Z # A
    <2>1. <<i, j>> \in Z
        BY <1>0, DividesItself DEF Divisors
    <2>2. ~Divides(big, l)
        BY <1>0, <1>5, DividesAntisymmetric
    <2>3. <<i, j>> \notin A
        BY <2>2 DEF Divisors
    <2> QED
        BY <2>1, <2>3
<1>6. l # big => Cardinality(A) < Cardinality(Z)
    <2>1. l # big => Cardinality(A) # Cardinality(Z)
        BY <1>3, <1>5
    <2> QED
        BY <2>1, <1>3, <1>4
<1> QED
    BY <1>3, <1>4, <1>6 DEF Height

\* Two accounted pairs that meet, whose lcms divide l, are a chain within l.
LEMMA AccountedCompose ==
    ASSUME NEW L \in Seq(Monomials), NEW E, NEW l \in Monomials,
           NEW i \in 1..Len(L), NEW c \in 1..Len(L), NEW j \in 1..Len(L),
           Accounted(L, E, i, c), Divides(LL(L, i, c), l),
           Accounted(L, E, c, j), Divides(LL(L, c, j), l)
    PROVE  Linked(L, E, Between(L, l), i, j)
<1>1. /\ LL(L, i, c) \in Monomials /\ LL(L, c, j) \in Monomials
      /\ Divides(L[i], LL(L, i, c)) /\ Divides(L[c], LL(L, i, c))
      /\ Divides(L[c], LL(L, c, j)) /\ Divides(L[j], LL(L, c, j))
    BY LLIsMonomial
<1>2. /\ i \in Between(L, LL(L, i, c)) /\ c \in Between(L, LL(L, i, c))
      /\ c \in Between(L, LL(L, c, j)) /\ j \in Between(L, LL(L, c, j))
    BY <1>1 DEF Between
<1>3. /\ Between(L, LL(L, i, c)) \subseteq Between(L, l)
      /\ Between(L, LL(L, c, j)) \subseteq Between(L, l)
    BY <1>1, BetweenGrows
<1>4. Linked(L, E, Between(L, l), i, c)
    BY <1>2, <1>3, LinkedInMore DEF Accounted
<1>5. Linked(L, E, Between(L, l), c, j)
    BY <1>2, <1>3, LinkedInMore DEF Accounted
<1> QED
    BY <1>2, <1>3, <1>4, <1>5, LinkedTransitive

LEMMA AccountedSymmetric ==
    ASSUME NEW L \in Seq(Monomials), NEW E,
           NEW i \in 1..Len(L), NEW j \in 1..Len(L), Accounted(L, E, i, j)
    PROVE  Accounted(L, E, j, i)
<1>1. /\ LL(L, i, j) = LL(L, j, i)
      /\ Divides(L[i], LL(L, i, j)) /\ Divides(L[j], LL(L, i, j))
    BY LLIsMonomial
<1>2. i \in Between(L, LL(L, i, j)) /\ j \in Between(L, LL(L, i, j))
    BY <1>1 DEF Between
<1> QED
    BY <1>1, <1>2, LinkedSymmetric DEF Accounted

LEMMA EdgeAccounts ==
    ASSUME NEW L \in Seq(Monomials), NEW E,
           NEW i \in 1..Len(L), NEW j \in 1..Len(L), Edge(L, E, i, j)
    PROVE  Accounted(L, E, i, j)
<1>1. Divides(L[i], LL(L, i, j)) /\ Divides(L[j], LL(L, i, j))
    BY LLIsMonomial
<1>2. i \in Between(L, LL(L, i, j)) /\ j \in Between(L, LL(L, i, j))
    BY <1>1 DEF Between
<1> QED
    BY <1>2, EdgeLinks DEF Accounted

LEMMA UpdateAccounts ==
    ASSUME NEW L \in Seq(Monomials), NEW m \in Monomials, NEW t,
           NEW B, B \subseteq 1..Len(L), NEW K, K \subseteq B,
           NEW E, E \subseteq (1..Len(L)) \X (1..Len(L)), NEW F,
           AllAccounted(L, E, t),
           \A a \in 1..Len(L) : \E i \in B : Divides(L[i], L[a]),
           \A a \in B \ K : \E b \in B : /\ b # a
                                        /\ (b > a \/ b \in K)
                                        /\ Divides(Lcm(L[b], m), Lcm(L[a], m)),
           \A a \in K : \/ Coprime(L[a], m)
                        \/ (InRange(t, Lcm(L[a], m)) => <<a, Len(L) + 1>> \in F),
           \A p \in E : \/ p \in F
                        \/ /\ Divides(m, LL(L, p[1], p[2]))
                           /\ Lcm(L[p[1]], m) # LL(L, p[1], p[2])
                           /\ Lcm(L[p[2]], m) # LL(L, p[1], p[2])
    PROVE  AllAccounted(Append(L, m), F, t)
<1> DEFINE n == Len(L)
           k == n + 1
           N == Append(L, m)
           H(i, j) == Height(N, LL(N, i, j))
           Bad == {h \in Nat : \E i, j \in 1..k : /\ i # j /\ InRange(t, LL(N, i, j))
                                                 /\ ~Accounted(N, F, i, j)
                                                 /\ h = H(i, j)}
<1>1. /\ n \in Nat /\ k \in 1..k /\ k \notin 1..n /\ 1..k = (1..n) \cup {k} /\ N \in Seq(Monomials) /\ Len(N) = k
      /\ \A i \in 1..n : N[i] = L[i]
      /\ N[k] = m
    OBVIOUS
<1>2. \A i, j \in 1..n : i \in 1..k /\ LL(N, i, j) = LL(L, i, j)
    BY <1>1, Zenon DEF LL
<1>3. \A i, j \in 1..k : /\ H(i, j) \in Nat /\ LL(N, i, j) \in Monomials
                        /\ \A x, y \in 1..k :
                             Divides(LL(N, x, y), LL(N, i, j)) =>
                               /\ H(x, y) <= H(i, j)
                               /\ LL(N, x, y) # LL(N, i, j) => H(x, y) < H(i, j)
    <2> SUFFICES ASSUME NEW i \in 1..k, NEW j \in 1..k
                 PROVE  /\ H(i, j) \in Nat /\ LL(N, i, j) \in Monomials
                        /\ \A x, y \in 1..k :
                             Divides(LL(N, x, y), LL(N, i, j)) =>
                               /\ H(x, y) <= H(i, j)
                               /\ LL(N, x, y) # LL(N, i, j) => H(x, y) < H(i, j)
        OBVIOUS
    <2>1. LL(N, i, j) \in Monomials
        BY <1>1, LLIsMonomial
    <2>2. H(i, j) \in Nat
        BY <1>1, <2>1, DividesItself, HeightGrows
    <2>3. ASSUME NEW x \in 1..k, NEW y \in 1..k, Divides(LL(N, x, y), LL(N, i, j))
          PROVE  /\ H(x, y) <= H(i, j)
                 /\ LL(N, x, y) # LL(N, i, j) => H(x, y) < H(i, j)
        <3>1. LL(N, x, y) \in Monomials
            BY <1>1, LLIsMonomial
        <3> QED
            BY <1>1, <2>3, <3>1, HeightGrows
    <2> QED
        BY <2>1, <2>2, <2>3
<1>4. SUFFICES ASSUME Bad # {} PROVE FALSE
    <2>1. ASSUME NEW i \in 1..k, NEW j \in 1..k, i # j, InRange(t, LL(N, i, j)), Bad = {}
          PROVE  Accounted(N, F, i, j)
        BY <1>3, <2>1
    <2>2. Bad = {} => AllAccounted(N, F, t)
        BY <1>1, <2>1 DEF AllAccounted
    <2> QED
        BY <2>2
<1>5. PICK d \in Bad : \A h \in Bad : d <= h
    BY <1>4, LeastOf
<1> HIDE DEF N, k, H
<1> DEFINE Low(i, j) == i # j /\ InRange(t, LL(N, i, j)) /\ H(i, j) <= d
<1>6. ASSUME NEW i \in 1..k, NEW j \in 1..k, i # j, InRange(t, LL(N, i, j)), H(i, j) < d
      PROVE  Accounted(N, F, i, j)
    <2>1. d \in Nat /\ H(i, j) \in Nat
        BY <1>3, <1>5
    <2>2. H(i, j) \notin Bad
        <3>1. ~(d <= H(i, j))
            BY <1>6, <2>1
        <3> QED
            BY <1>5, <3>1, Zenon
    <2> QED
        BY <1>3, <1>6, <2>2
<1>7. ASSUME NEW i \in 1..k, NEW j \in 1..k, Low(i, j),
             NEW x \in 1..k, NEW y \in 1..k, x # y, Divides(LL(N, x, y), LL(N, i, j))
      PROVE  Low(x, y)
    <2>1. InRange(t, LL(N, x, y))
        BY <1>3, <1>7, InRangeOfDivisor
    <2>2. H(x, y) <= d
        <3>1. H(x, y) \in Nat /\ H(i, j) \in Nat /\ d \in Nat
            BY <1>3, <1>5
        <3>2. H(x, y) <= H(i, j) /\ H(i, j) <= d
            BY <1>3, <1>7
        <3> HIDE DEF Low
        <3> QED
            BY <3>1, <3>2
    <2> QED
        BY <1>7, <2>1, <2>2
\* An old pair is still there, or its members are linked with k by less.
<1>8. ASSUME NEW i \in 1..n, NEW j \in 1..n, Low(i, j),
             NEW a \in Between(L, LL(L, i, j)), NEW b \in Between(L, LL(L, i, j)),
             <<a, b>> \in E
      PROVE  Linked(N, F, Between(N, LL(N, i, j)), a, b)
    <2> DEFINE l == LL(N, i, j)
    <2>1. /\ i \in 1..k /\ j \in 1..k /\ l = LL(L, i, j) /\ l \in Monomials
          /\ a \in 1..n /\ b \in 1..n /\ a \in 1..k /\ b \in 1..k
          /\ LL(N, a, b) = LL(L, a, b)
        BY <1>1, <1>2, <1>3 DEF Between
    <2>2. Divides(LL(N, a, b), l)
        BY <2>1, BetweenDivides
    <2>3. a \in Between(N, l) /\ b \in Between(N, l)
        BY <1>1, <2>1 DEF Between
    <2>4. CASE <<a, b>> \in F
        <3>1. Edge(N, F, a, b)
            BY <2>4 DEF Edge
        <3> QED
            BY <2>3, <3>1, EdgeLinks
    <2>5. CASE a = b
        BY <2>5 DEF Linked
    <2>6. CASE a # b /\ <<a, b>> \notin F
        <3>1. /\ Divides(m, LL(N, a, b)) /\ Lcm(L[a], m) # LL(N, a, b)
              /\ Lcm(L[b], m) # LL(N, a, b)
            BY <1>8, <2>1, <2>6
        <3>2. LL(N, a, k) = Lcm(L[a], m) /\ LL(N, b, k) = Lcm(L[b], m)
            BY <1>1, <2>1 DEF LL
        <3>3. /\ LL(N, a, b) \in Monomials /\ L[a] \in Monomials /\ L[b] \in Monomials
              /\ Divides(L[a], LL(N, a, b)) /\ Divides(L[b], LL(N, a, b))
            BY <2>1, LLIsMonomial
        <3>4. Divides(LL(N, a, k), LL(N, a, b)) /\ Divides(LL(N, b, k), LL(N, a, b))
            BY <3>1, <3>2, <3>3, LcmIsLeast
        <3>5. Low(a, b)
            BY <1>7, <1>8, <2>1, <2>2, <2>6
        <3>6. ASSUME NEW c \in {a, b} PROVE Accounted(N, F, c, k) /\ Divides(LL(N, c, k), l)
            <4>1. /\ c \in 1..k /\ c # k /\ k \in 1..k
                  /\ Divides(LL(N, c, k), LL(N, a, b)) /\ LL(N, c, k) # LL(N, a, b)
                BY <1>1, <2>1, <3>1, <3>2, <3>4
            <4>2. H(c, k) < H(a, b) /\ H(c, k) \in Nat /\ H(a, b) \in Nat /\ LL(N, c, k) \in Monomials
                BY <1>3, <2>1, <4>1
            <4>3. H(c, k) < d
                <5>1. d \in Nat
                    BY <1>5
                <5>2. H(a, b) <= d
                    BY <3>5
                <5> HIDE DEF Low
                <5> QED
                    BY <4>2, <5>1, <5>2
            <4>4. InRange(t, LL(N, c, k))
                BY <3>3, <3>5, <4>1, <4>2, InRangeOfDivisor
            <4>5. Divides(LL(N, c, k), l)
                BY <2>1, <2>2, <3>3, <4>1, <4>2, DividesTransitive
            <4> QED
                BY <1>6, <4>1, <4>3, <4>4, <4>5
        <3>7. Accounted(N, F, k, b) /\ Divides(LL(N, k, b), l)
            <4>0. N \in Seq(Monomials) /\ k \in 1..Len(N) /\ b \in 1..Len(N)
                BY <1>1, <2>1
            <4>1. LL(N, k, b) = LL(N, b, k)
                BY <4>0, LLIsMonomial
            <4>2. Accounted(N, F, b, k) /\ Divides(LL(N, b, k), l)
                BY <3>6
            <4>3. Accounted(N, F, k, b)
                BY <4>0, <4>2, AccountedSymmetric
            <4> QED
                BY <4>1, <4>2, <4>3
        <3> QED
            BY <1>1, <2>1, <3>6, <3>7, AccountedCompose
    <2> QED
        BY <2>4, <2>5, <2>6
<1>9. ASSUME NEW i \in 1..n, NEW j \in 1..n, Low(i, j)
      PROVE  Accounted(N, F, i, j)
    <2> DEFINE l == LL(N, i, j)
               S == Between(L, l)
               T == Between(N, l)
    <2>1. i \in 1..k /\ j \in 1..k /\ l = LL(L, i, j) /\ l \in Monomials
        BY <1>2, <1>3
    <2>2. S \subseteq T /\ S \subseteq 1..n
        BY <1>1 DEF Between
    <2>3. i \in S /\ j \in S
        BY <2>1, LLIsMonomial DEF Between
    <2>4. Linked(L, E, S, i, j)
        BY <1>9, <2>1 DEF AllAccounted, Accounted
    <2>5. ASSUME NEW a \in S, NEW b \in S, Edge(L, E, a, b)
          PROVE  Linked(N, F, T, a, b)
        <3>1. CASE <<a, b>> \in E
            BY <1>8, <1>9, <2>1, <3>1
        <3>2. CASE <<b, a>> \in E
            <4>1. Linked(N, F, T, b, a)
                BY <1>8, <1>9, <2>1, <3>2
            <4> QED
                BY <2>2, <4>1, LinkedSymmetric
        <3>3. CASE Coprime(L[a], L[b])
            <4>1. Edge(N, F, a, b)
                BY <1>1, <2>2, <3>3 DEF Edge
            <4> QED
                BY <2>2, <4>1, EdgeLinks
        <3> QED
            BY <2>5, <3>1, <3>2, <3>3 DEF Edge
    <2> HIDE DEF S, T
    <2>6. Linked(N, F, T, i, j)
        BY <2>2, <2>3, <2>4, <2>5, LinksForEdges
    <2> QED
        BY <2>6 DEF Accounted, T
\* The kept new pairs are there or coprime.
<1>10. ASSUME NEW a \in K, Low(a, k)
       PROVE  Accounted(N, F, a, k)
    <2>1. a \in 1..n /\ a \in 1..k /\ N[a] = L[a]
        BY <1>1
    <2>2. LL(N, a, k) = Lcm(L[a], m)
        BY <1>1, <2>1 DEF LL
    <2>3. Coprime(N[a], N[k]) \/ <<a, k>> \in F
        BY <1>1, <1>10, <2>1, <2>2 DEF k
    <2>4. Edge(N, F, a, k)
        BY <2>3 DEF Edge
    <2> QED
        BY <1>1, <2>1, <2>4, EdgeAccounts
\* So are the others of the basis, by way of one that is kept or comes later.
<1>11. ASSUME NEW a \in B, Low(a, k)
       PROVE  Accounted(N, F, a, k)
    <2> DEFINE Out == {x \in B : Low(x, k) /\ ~Accounted(N, F, x, k)}
    <2>1. SUFFICES ASSUME Out # {} PROVE FALSE
        BY <1>11
    <2>2. PICK g \in Out : \A x \in Out : x <= g
        <3>1. Out \subseteq 1..n
            OBVIOUS
        <3> QED
            BY <1>1, <2>1, <3>1, GreatestOf
    <2>3. g \in B \ K /\ Low(g, k) /\ ~Accounted(N, F, g, k)
        BY <1>10, <2>2
    <2>4. PICK b \in B : b # g /\ (b > g \/ b \in K) /\ Divides(Lcm(L[b], m), Lcm(L[g], m))
        BY <2>3
    <2>5. b \in 1..n /\ g \in 1..n /\ b \in 1..k /\ g \in 1..k /\ b # k
        BY <1>1
    <2>6. Divides(LL(N, b, k), LL(N, g, k)) /\ LL(N, g, k) \in Monomials /\ LL(N, b, k) \in Monomials
        <3>1. LL(N, b, k) = Lcm(L[b], m) /\ LL(N, g, k) = Lcm(L[g], m)
            BY <1>1, <2>5 DEF LL
        <3> QED
            BY <1>1, <1>3, <2>4, <2>5, <3>1
    <2>7. Low(b, k)
        <3> HIDE DEF Low
        <3> QED
            BY <1>1, <1>7, <2>3, <2>5, <2>6
    <2>8. Accounted(N, F, b, k)
        <3>1. CASE b \in K
            BY <1>10, <2>7, <3>1
        <3>2. CASE b > g
            <4>1. b \notin Out
                BY <2>2, <2>5, <3>2
            <4> QED
                BY <2>7, <4>1
        <3> QED
            BY <2>4, <3>1, <3>2
    <2>9. Divides(LL(N, g, b), LL(N, g, k))
        <3>1. /\ N[b] \in Monomials /\ N[g] \in Monomials
              /\ Divides(N[b], LL(N, b, k)) /\ Divides(N[g], LL(N, g, k))
            BY <1>1, <2>5, LLIsMonomial
        <3>2. Divides(N[b], LL(N, g, k))
            BY <2>6, <3>1, DividesTransitive
        <3> QED
            BY <2>6, <3>1, <3>2, LcmIsLeast DEF LL
    <2>10. Accounted(N, F, g, b)
        <3>1. Low(g, b)
            BY <1>1, <1>7, <2>3, <2>4, <2>5, <2>9
        <3> QED
            BY <1>9, <2>5, <3>1
    <2> QED
        BY <1>1, <2>3, <2>5, <2>6, <2>8, <2>9, <2>10, AccountedCompose DEF Accounted
\* One that left the basis is a multiple of one that is there.
<1>12. ASSUME NEW a \in 1..n, Low(a, k)
       PROVE  Accounted(N, F, a, k)
    <2>1. PICK b \in B : Divides(L[b], L[a])
        OBVIOUS
    <2>2. a \in 1..k /\ b \in 1..n /\ b \in 1..k /\ b # k /\ a # k
        BY <1>1
    <2>3. CASE b = a
        BY <1>11, <1>12, <2>3
    <2>4. CASE b # a
        <3>1. /\ LL(N, a, k) \in Monomials /\ N[b] \in Monomials /\ N[a] \in Monomials
              /\ N[k] \in Monomials
              /\ Divides(N[a], LL(N, a, k)) /\ Divides(N[k], LL(N, a, k))
              /\ Divides(N[b], N[a])
            BY <1>1, <2>1, <2>2, LLIsMonomial
        <3>2. Divides(N[b], LL(N, a, k))
            BY <3>1, DividesTransitive
        <3>3. Divides(LL(N, b, k), LL(N, a, k)) /\ Divides(LL(N, a, b), LL(N, a, k))
            BY <3>1, <3>2, LcmIsLeast DEF LL
        <3>4. Low(b, k) /\ Low(a, b)
            <4> HIDE DEF Low
            <4> QED
                BY <1>1, <1>7, <1>12, <2>2, <2>4, <3>3
        <3>5. Accounted(N, F, b, k) /\ Accounted(N, F, a, b)
            BY <1>9, <1>11, <2>2, <3>4
        <3> QED
            BY <1>1, <2>2, <3>1, <3>3, <3>5, AccountedCompose DEF Accounted
    <2> QED
        BY <2>3, <2>4
<1>13. PICK i \in 1..k, j \in 1..k : /\ i # j /\ InRange(t, LL(N, i, j))
                                    /\ ~Accounted(N, F, i, j) /\ d = H(i, j)
    BY <1>5
<1>14. Low(i, j)
    BY <1>3, <1>13
<1>15. CASE i \in 1..n /\ j \in 1..n
    BY <1>9, <1>13, <1>14, <1>15
<1>16. CASE j = k
    BY <1>1, <1>12, <1>13, <1>14, <1>16
<1>17. CASE i = k
    <2>1. LL(N, j, i) = LL(N, i, j) /\ j \in 1..n
        <3>1. i \in 1..Len(N) /\ j \in 1..Len(N)
            BY <1>1
        <3>2. LL(N, j, i) = LL(N, i, j)
            BY <1>1, <3>1, LLIsMonomial
        <3>3. j \in 1..n
            BY <1>1, <1>13, <1>17
        <3> QED
            BY <3>2, <3>3
    <2>2. H(j, i) = H(i, j)
        BY <2>1 DEF H
    <2>3. Low(j, k)
        BY <1>13, <1>14, <1>17, <2>1, <2>2
    <2> QED
        BY <1>1, <1>12, <1>13, <1>17, <2>1, <2>3, AccountedSymmetric
<1> QED
    BY <1>1, <1>15, <1>16, <1>17

-----------------------------------------------------------------------------
(* The new pairs that are kept *)

\* The recursion of Kept has a solution: one for the indices up to n gives one
\* for those up to n + 1.
LEMMA KeptEquation ==
    ASSUME NEW m \in Monomials, lm \in Seq(Monomials), basis \subseteq 1..Len(lm)
    PROVE  /\ Kept(m) \subseteq basis
           /\ \A a \in basis :
                a \in Kept(m) <=>
                    \/ Coprime(lm[a], m)
                    \/ ~\E b \in basis \ {a} : /\ (b > a \/ b \in Kept(m))
                                              /\ Divides(Lcm(lm[b], m), Lcm(lm[a], m))
<1> DEFINE Drops(b, a) == Divides(Lcm(lm[b], m), Lcm(lm[a], m))
           Free(a) == Coprime(lm[a], m)
           Holds(K, a) == Free(a) \/ ~\E b \in basis \ {a} : (b > a \/ b \in K) /\ Drops(b, a)
           Upto(n) == \E K \in SUBSET basis : \A a \in basis : a <= n => (a \in K <=> Holds(K, a))
           Never == {n \in Nat : ~Upto(n)}
<1>1. Never = {}
    <2> SUFFICES ASSUME Never # {} PROVE FALSE
        OBVIOUS
    <2>1. PICK n \in Never : \A x \in Never : n <= x
        BY LeastOf
    <2>2. n \in Nat /\ ~Upto(n)
        BY <2>1
    <2>3. CASE n = 0
        <3>1. \A a \in basis : ~(a <= 0)
            OBVIOUS
        <3>2. Upto(0)
            BY <3>1
        <3> QED
            BY <2>2, <2>3, <3>2
    <2>4. CASE n # 0
        <3>1. n - 1 \in Nat /\ ~(n <= n - 1)
            BY <2>2, <2>4
        <3>2. Upto(n - 1)
            <4>1. n - 1 \notin Never
                BY <2>1, <3>1
            <4> HIDE DEF Upto
            <4> QED
                BY <3>1, <4>1
        <3> HIDE DEF Never
        <3>3. PICK K \in SUBSET basis : \A a \in basis : a <= n - 1 => (a \in K <=> Holds(K, a))
            BY <3>2
        <3> DEFINE J == {a \in basis : IF a = n THEN Holds(K, n) ELSE a \in K}
        <3>4. \A a \in basis : a <= n => (Holds(J, a) <=> Holds(K, a))
            <4> SUFFICES ASSUME NEW a \in basis, a <= n,
                                NEW b \in basis \ {a}
                         PROVE  (b > a \/ b \in J) <=> (b > a \/ b \in K)
                OBVIOUS
            <4>1. CASE b > a
                BY <4>1
            <4>2. CASE ~(b > a)
                <5>1. b # n
                    BY <2>2, <4>2
                <5>2. b \in J <=> b \in K
                    BY <5>1
                <5> QED
                    BY <5>2
            <4> QED
                BY <4>1, <4>2
        <3>5. \A a \in basis : a <= n => (a \in J <=> Holds(K, a))
            <4> SUFFICES ASSUME NEW a \in basis, a <= n
                         PROVE  a \in J <=> Holds(K, a)
                OBVIOUS
            <4> HIDE DEF Holds
            <4>1. CASE a = n
                BY <4>1
            <4>2. CASE a # n
                <5>1. a <= n - 1
                    BY <2>2, <4>2
                <5> QED
                    BY <3>3, <4>2, <5>1
            <4> QED
                BY <4>1, <4>2
        <3>6. Upto(n)
            <4> HIDE DEF Holds
            <4>1. \A a \in basis : a <= n => (a \in J <=> Holds(J, a))
                BY <3>4, <3>5
            <4>2. J \in SUBSET basis
                OBVIOUS
            <4> HIDE DEF J
            <4> QED
                BY <4>1, <4>2
        <3> QED
            BY <2>2, <3>6
    <2> QED
        BY <2>3, <2>4
<1>2. Upto(Len(lm))
    <2>0. Len(lm) \in Nat
        OBVIOUS
    <2>1. Len(lm) \notin Never
        <3> HIDE DEF Never
        <3> QED
            BY <1>1
    <2> HIDE DEF Upto
    <2> QED
        BY <2>0, <2>1
<1>3. PICK K \in SUBSET basis : \A a \in basis : a \in K <=> Holds(K, a)
    BY <1>2
<1> DEFINE f == [a \in basis |-> a \in K]
<1>4. f = [a \in basis |-> Free(a) \/ ~\E b \in basis \ {a} : (b > a \/ f[b]) /\ Drops(b, a)]
    <2>1. \A a \in basis : f[a] = (Free(a) \/ ~\E b \in basis \ {a} : (b > a \/ f[b]) /\ Drops(b, a))
        <3> SUFFICES ASSUME NEW a \in basis
                     PROVE  (a \in K) = (Free(a) \/ ~\E b \in basis \ {a} : (b > a \/ f[b]) /\ Drops(b, a))
            OBVIOUS
        <3>1. \A b \in basis : f[b] = (b \in K)
            OBVIOUS
        <3>2. (a \in K) = (Free(a) \/ ~\E b \in basis \ {a} : (b > a \/ b \in K) /\ Drops(b, a))
            BY <1>3
        <3>3. \A b \in basis \ {a} : (b > a \/ f[b]) /\ Drops(b, a) <=> (b > a \/ b \in K) /\ Drops(b, a)
            BY <3>1, Zenon
        <3> HIDE DEF f, Free, Drops
        <3> QED
            BY <3>2, <3>3, Zenon
    <2> QED
        BY <2>1
<1> DEFINE keep == CHOOSE g : g = [a \in basis |-> Free(a) \/ ~\E b \in basis \ {a} : (b > a \/ g[b]) /\ Drops(b, a)]
<1>5. keep = [a \in basis |-> Free(a) \/ ~\E b \in basis \ {a} : (b > a \/ keep[b]) /\ Drops(b, a)]
    BY <1>4, Zenon
<1>6. Kept(m) = {a \in basis : keep[a]}
    BY DEF Kept
<1> QED
    BY <1>5, <1>6

-----------------------------------------------------------------------------
(* The steps *)

\* An element of the basis is divided only by earlier ones: what a new
\* polynomial divides goes.
Forward == \A i, j \in basis : i < j => ~Divides(lm[j], lm[i])
Covers == \A k \in 1..Len(lm) : \E i \in basis : Divides(lm[i], lm[k])
OutIsMinimal == phase = "done" => out = Minimal

GInv ==
    /\ TypeOK
    /\ Forward
    /\ Covers
    /\ AllAccounted(lm, pairs \cup treated, truncated)
    /\ OutIsMinimal
    /\ BasisIsMinimal

\* What is left of an insertion when the phase and the rows are put aside.
LEMMA InsertKeeps ==
    ASSUME GInv, NEW m \in Leads, NEW among \in SUBSET pairs, Insert(m, among),
           pairs \subseteq among \cup treated', treated \subseteq treated',
           treated' \subseteq (1..Len(lm)) \X (1..Len(lm)), truncated' = truncated
    PROVE  /\ lm' \in Seq(Leads) /\ Len(lm') = Len(lm) + 1
           /\ basis' \subseteq 1..Len(lm')
           /\ pairs' \subseteq (1..Len(lm')) \X (1..Len(lm'))
           /\ treated' \subseteq (1..Len(lm')) \X (1..Len(lm'))
           /\ Forward'
           /\ Covers'
           /\ AllAccounted(lm', pairs' \cup treated', truncated')
<1> DEFINE n == Len(lm)
           k == n + 1
           L2 == lm'
<1>1. /\ lm \in Seq(Leads) /\ lm \in Seq(Monomials) /\ m \in Monomials /\ n \in Nat
      /\ basis \subseteq 1..n /\ pairs \subseteq (1..n) \X (1..n)
      /\ treated \subseteq (1..n) \X (1..n)
    BY MonomialsAssumption DEF GInv, TypeOK
<1>2. /\ lm' = Append(lm, m) /\ lm' \in Seq(Leads) /\ Len(lm') = k
      /\ \A i \in 1..n : lm'[i] = lm[i]
      /\ lm'[k] = m
      /\ 1..k = (1..n) \cup {k} /\ k \notin 1..n /\ 1..n \subseteq 1..k /\ k \in 1..k
    BY <1>1 DEF Insert
<1>3. \A i \in 1..n : lm[i] \in Monomials
    BY <1>1
<1>4. basis' = {i \in basis : ~Divides(m, lm[i])} \cup {k}
    BY DEF Insert, BasisWith
<1>5. basis' \subseteq 1..k
    BY <1>1, <1>2, <1>4
<1>6. Kept(m) \subseteq basis
    BY <1>1, KeptEquation
<1>7. NewPairs(m) \subseteq (1..k) \X (1..k)
    <2>1. \A a \in Kept(m) : <<a, k>> \in (1..k) \X (1..k)
        BY <1>1, <1>2, <1>6
    <2> QED
        BY <2>1 DEF NewPairs
<1>8. pairs' \subseteq (1..k) \X (1..k)
    <2>1. OldPairs(m, among) \subseteq (1..n) \X (1..n)
        BY <1>1 DEF OldPairs
    <2> QED
        BY <1>2, <1>7, <2>1 DEF Insert
<1>9. Forward'
    <2> SUFFICES ASSUME NEW i \in basis', NEW j \in basis', i < j
                 PROVE  ~Divides(lm'[j], lm'[i])
        BY DEF Forward
    <2>1. i \in 1..n /\ i \in basis /\ ~Divides(m, lm[i]) /\ lm'[i] = lm[i]
        BY <1>1, <1>2, <1>4
    <2>2. CASE j = k
        BY <1>2, <2>1, <2>2
    <2>3. CASE j # k
        BY <1>1, <1>2, <1>4, <2>1, <2>3 DEF GInv, Forward
    <2> QED
        BY <2>2, <2>3
<1>10. Covers'
    <2> SUFFICES ASSUME NEW a \in 1..k
                 PROVE  \E i \in basis' : Divides(lm'[i], lm'[a])
        BY <1>2 DEF Covers
    <2>1. k \in basis' /\ Divides(lm'[k], m)
        BY <1>1, <1>2, <1>4, DividesItself
    <2>2. CASE a = k
        BY <1>2, <2>1, <2>2
    <2>3. CASE a # k
        <3>1. a \in 1..n /\ lm'[a] = lm[a] /\ lm[a] \in Monomials
            BY <1>2, <1>3, <2>3
        <3>2. PICK i \in basis : Divides(lm[i], lm[a])
            BY <3>1 DEF GInv, Covers
        <3>3. i \in 1..n /\ lm'[i] = lm[i] /\ lm[i] \in Monomials
            BY <1>1, <1>2, <1>3
        <3>4. CASE Divides(m, lm[i])
            <4>1. Divides(m, lm[a])
                BY <1>1, <3>1, <3>2, <3>3, <3>4, DividesTransitive
            <4> QED
                BY <1>2, <2>1, <3>1, <4>1
        <3>5. CASE ~Divides(m, lm[i])
            BY <1>4, <3>1, <3>2, <3>3, <3>5
        <3> QED
            BY <3>4, <3>5
    <2> QED
        BY <2>2, <2>3
<1>11. AllAccounted(lm', pairs' \cup treated', truncated)
    <2> DEFINE E == pairs \cup treated
               F == pairs' \cup treated'
    <2>1. E \subseteq (1..Len(lm)) \X (1..Len(lm))
        BY <1>1
    <2>2. AllAccounted(lm, E, truncated)
        BY DEF GInv
    <2>3. \A a \in 1..Len(lm) : \E i \in basis : Divides(lm[i], lm[a])
        BY DEF GInv, Covers
    <2>4. \A a \in basis \ Kept(m) :
             \E b \in basis : /\ b # a
                            /\ (b > a \/ b \in Kept(m))
                            /\ Divides(Lcm(lm[b], m), Lcm(lm[a], m))
        BY <1>1, KeptEquation
    <2>5. \A a \in Kept(m) : \/ Coprime(lm[a], m)
                            \/ (InRange(truncated, Lcm(lm[a], m)) => <<a, Len(lm) + 1>> \in F)
        <3> SUFFICES ASSUME NEW a \in Kept(m), ~Coprime(lm[a], m),
                            InRange(truncated, Lcm(lm[a], m))
                     PROVE  <<a, Len(lm) + 1>> \in NewPairs(m)
            BY DEF Insert
        <3>1. Within(Lcm(lm[a], m))
            BY DEF InRange, Within
        <3> QED
            BY <3>1 DEF NewPairs
    <2>6. \A p \in E : \/ p \in F
                      \/ /\ Divides(m, LL(lm, p[1], p[2]))
                         /\ Lcm(lm[p[1]], m) # LL(lm, p[1], p[2])
                         /\ Lcm(lm[p[2]], m) # LL(lm, p[1], p[2])
        <3> SUFFICES ASSUME NEW p \in among
                     PROVE  \/ p \in OldPairs(m, among)
                            \/ /\ Divides(m, LL(lm, p[1], p[2]))
                               /\ Lcm(lm[p[1]], m) # LL(lm, p[1], p[2])
                               /\ Lcm(lm[p[2]], m) # LL(lm, p[1], p[2])
            BY DEF Insert
        <3> QED
            BY DEF OldPairs, LL, LcmOf
    <2> HIDE DEF E, F
    <2>7. AllAccounted(Append(lm, m), F, truncated)
        BY <1>1, <1>6, <2>1, <2>2, <2>3, <2>4, <2>5, <2>6, UpdateAccounts
    <2> QED
        BY <1>2, <2>7 DEF F
<1>12. treated' \subseteq (1..k) \X (1..k)
    BY <1>2
<1> QED
    BY <1>2, <1>5, <1>8, <1>9, <1>10, <1>11, <1>12

\* More pairs to do or done account for no less.
LEMMA AccountedByMore ==
    ASSUME NEW L, NEW E, NEW F, E \subseteq F, NEW t, AllAccounted(L, E, t)
    PROVE  AllAccounted(L, F, t)
<1>1. \A a, b : Edge(L, E, a, b) => Edge(L, F, a, b)
    BY DEF Edge
<1>2. \A S, i, j : Linked(L, E, S, i, j) => Linked(L, F, S, i, j)
    BY <1>1, Zenon DEF Linked
<1> QED
    BY <1>2 DEF AllAccounted, Accounted

\* A step that leaves the polynomials and the basis alone, and loses no pair.
LEMMA SamePolysKeep ==
    ASSUME GInv, UNCHANGED <<algo, truncated, lm, basis>>,
           pairs \cup treated \subseteq pairs' \cup treated',
           pairs' \subseteq pairs, treated' \subseteq treated \cup pairs,
           phase' \in {"generators", "pairs", "done", "unit"},
           out' \subseteq 1..Len(lm),
           rows' \in Seq(Leads), rows' # <<>> => algo = "f4",
           phase' = "done" => out' = Minimal
    PROVE  GInv'
<1>1. TypeOK'
    BY DEF GInv, TypeOK
<1>2. Forward' /\ Covers' /\ BasisIsMinimal'
    BY DEF GInv, Forward, Covers, BasisIsMinimal
<1>3. AllAccounted(lm', pairs' \cup treated', truncated')
    <2>1. AllAccounted(lm, pairs' \cup treated', truncated)
        BY AccountedByMore DEF GInv
    <2> QED
        BY <2>1
<1>4. OutIsMinimal'
    BY DEF OutIsMinimal, Minimal
<1> QED
    BY <1>1, <1>2, <1>3, <1>4 DEF GInv

\* Adding a polynomial, one of a pair or of a batch or a generator.
LEMMA AddKeeps ==
    ASSUME GInv, NEW m \in Leads, NEW among \in SUBSET pairs, Add(m, among),
           phase # "done", pairs \subseteq among \cup treated',
           treated \subseteq treated', treated' \subseteq treated \cup pairs,
           UNCHANGED <<algo, truncated, out>>,
           rows' \in Seq(Leads), rows' # <<>> => algo = "f4",
           (algo = "buchberger" /\ ~truncated) => Irreducible(m)
    PROVE  GInv'
<1>1. CASE m = One
    <2>1. phase' = "unit" /\ pairs' = among /\ UNCHANGED <<lm, basis>>
        BY <1>1 DEF Add
    <2>2. out' \subseteq 1..Len(lm)
        BY DEF GInv, TypeOK
    <2> QED
        BY <2>1, <2>2, SamePolysKeep
<1>2. CASE m # One
    <2>1. Insert(m, among) /\ phase' = phase
        BY <1>2 DEF Add
    <2>2. treated' \subseteq (1..Len(lm)) \X (1..Len(lm))
        BY DEF GInv, TypeOK
    <2>3. /\ lm' \in Seq(Leads) /\ Len(lm') = Len(lm) + 1
          /\ basis' \subseteq 1..Len(lm')
          /\ pairs' \subseteq (1..Len(lm')) \X (1..Len(lm'))
          /\ treated' \subseteq (1..Len(lm')) \X (1..Len(lm'))
          /\ Forward'
          /\ Covers'
          /\ AllAccounted(lm', pairs' \cup treated', truncated')
        BY <2>1, <2>2, InsertKeeps
    <2>4. TypeOK'
        <3>1. out' \subseteq 1..Len(lm')
            BY <2>3 DEF GInv, TypeOK
        <3> QED
            BY <2>1, <2>3, <3>1 DEF GInv, TypeOK
    <2>5. OutIsMinimal'
        BY <2>1 DEF OutIsMinimal
    <2>6. BasisIsMinimal'
        <3> SUFFICES ASSUME algo = "buchberger", ~truncated,
                            NEW i \in basis', NEW j \in basis', i # j
                     PROVE  ~Divides(lm'[i], lm'[j])
            BY DEF BasisIsMinimal
        <3>1. /\ basis' = {x \in basis : ~Divides(m, lm[x])} \cup {Len(lm) + 1}
              /\ lm' = Append(lm, m) /\ lm \in Seq(Leads) /\ basis \subseteq 1..Len(lm)
            BY <2>1 DEF Insert, BasisWith, GInv, TypeOK
        <3>2. /\ \A x \in basis : lm'[x] = lm[x]
              /\ lm'[Len(lm) + 1] = m
            BY <3>1
        <3>3. Irreducible(m)
            OBVIOUS
        <3>4. CASE i \in basis /\ j \in basis
            BY <3>2, <3>4 DEF GInv, BasisIsMinimal
        <3>5. CASE i \in basis /\ j = Len(lm) + 1
            BY <3>2, <3>3, <3>5 DEF Irreducible
        <3>6. CASE i = Len(lm) + 1 /\ j \in basis /\ j # Len(lm) + 1
            BY <3>1, <3>2, <3>6
        <3> QED
            BY <3>1, <3>4, <3>5, <3>6
    <2> QED
        BY <2>3, <2>4, <2>5, <2>6 DEF GInv
<1> QED
    BY <1>1, <1>2

LEMMA InitG == Init => GInv
<1> SUFFICES ASSUME Init PROVE GInv
    OBVIOUS
<1>1. TypeOK
    BY DEF Init, TypeOK
<1>2. Forward /\ Covers /\ OutIsMinimal /\ BasisIsMinimal
    BY DEF Init, Forward, Covers, OutIsMinimal, BasisIsMinimal
<1>3. AllAccounted(lm, pairs \cup treated, truncated)
    BY DEF Init, AllAccounted
<1> QED
    BY <1>1, <1>2, <1>3 DEF GInv

LEMMA NextKeepsG == GInv /\ [Next]_vars => GInv'
<1> SUFFICES ASSUME GInv, [Next]_vars PROVE GInv'
    OBVIOUS
<1>0. /\ rows \in Seq(Leads) /\ (rows # <<>> => algo = "f4")
      /\ out \subseteq 1..Len(lm) /\ (phase = "done" => out = Minimal)
      /\ phase \in {"generators", "pairs", "done", "unit"}
    BY DEF GInv, TypeOK, OutIsMinimal
<1>1. ASSUME NEW m \in Leads, AddGenerator(m) PROVE GInv'
    BY <1>0, <1>1, AddKeeps DEF AddGenerator, TakenAs
<1>2. CASE EndGenerators
    BY <1>0, <1>2, SamePolysKeep DEF EndGenerators
<1>3. ASSUME NEW p \in pairs, ReducesToZero(p) PROVE GInv'
    BY <1>0, <1>3, SamePolysKeep DEF ReducesToZero
<1>4. ASSUME NEW p \in pairs, NEW m \in Leads, GivesPoly(p, m) PROVE GInv'
    <2>1. pairs \ {p} \in SUBSET pairs
        OBVIOUS
    <2> QED
        BY <1>0, <1>4, <2>1, AddKeeps DEF GivesPoly
<1>5. CASE SelectBatch
    <2>1. LeastDegree \subseteq pairs
        BY DEF LeastDegree
    <2>2. rows' \in Seq(Leads)
        <3>1. PICK n \in 0..MaxPolys - Len(lm) :
                rows' \in [1..n -> {m \in Leads : /\ Irreducible(m)
                                               /\ \E p \in LeastDegree : Below(m, LcmOf(p))}]
            BY <1>5 DEF SelectBatch, RowsOf
        <3> QED
            BY <3>1
    <2> QED
        BY <1>0, <1>5, <2>1, <2>2, SamePolysKeep DEF SelectBatch
<1>6. CASE AddRow
    <2>1. Head(rows) \in Leads /\ Tail(rows) \in Seq(Leads) /\ algo = "f4"
        BY <1>0, <1>6 DEF AddRow
    <2> QED
        BY <1>0, <1>6, <2>1, AddKeeps DEF AddRow
<1>7. CASE Finish
    <2>1. Minimal \subseteq 1..Len(lm)
        BY DEF Minimal, GInv, TypeOK
    <2> QED
        BY <1>0, <1>7, <2>1, SamePolysKeep DEF Finish
<1>8. CASE UNCHANGED vars
    BY <1>0, <1>8, SamePolysKeep DEF vars
<1> QED
    BY <1>1, <1>2, <1>3, <1>4, <1>5, <1>6, <1>7, <1>8 DEF Next

LEMMA AlwaysG == Spec => []GInv
BY InitG, NextKeepsG, PTL DEF Spec

-----------------------------------------------------------------------------
\* For any ring, order, weights and limit and any number of polynomials, no
\* pair that Buchberger's criterion needs is lost by UPDATE, whatever the
\* polynomials and the order in which pairs and batches are taken.
THEOREM PairsAreAccounted == Spec => []PairsAccounted
<1>1. GInv => PairsAccounted
    <2> SUFFICES ASSUME GInv, NEW i \in 1..Len(lm), NEW j \in 1..Len(lm), i < j,
                        Within(Lcm(lm[i], lm[j])),
                        NEW side \in SUBSET Between(lm, LL(lm, i, j)), i \in side, j \notin side
                 PROVE  \E a \in side, b \in Between(lm, LL(lm, i, j)) \ side : Joined(a, b)
        BY DEF PairsAccounted, Between, LL
    <2>1. i # j /\ InRange(truncated, LL(lm, i, j))
        BY DEF InRange, Within, LL
    <2>2. Linked(lm, pairs \cup treated, Between(lm, LL(lm, i, j)), i, j)
        BY <2>1 DEF GInv, AllAccounted, Accounted
    <2>3. PICK a \in side, b \in Between(lm, LL(lm, i, j)) \ side : Edge(lm, pairs \cup treated, a, b)
        BY <2>2, Zenon DEF Linked
    <2>4. Joined(a, b)
        BY <2>3, Zenon DEF Joined, Edge
    <2> QED
        BY <2>4
<1> QED
    BY <1>1, AlwaysG, PTL

\* The leading monomial of every polynomial found is a multiple of one of the
\* basis, and of one of the result.
THEOREM BasisStillCovers == Spec => []BasisCovers
<1>1. GInv => BasisCovers
    <2> SUFFICES ASSUME GInv, NEW k \in 1..Len(lm)
                 PROVE  /\ \E i \in basis : Divides(lm[i], lm[k])
                        /\ phase = "done" => \E i \in out : Divides(lm[i], lm[k])
        BY DEF BasisCovers
    <2> DEFINE Below_k == {i \in basis : Divides(lm[i], lm[k])}
    <2>1. \E i \in basis : Divides(lm[i], lm[k])
        BY DEF GInv, Covers
    <2>2. basis \subseteq 1..Len(lm) /\ \A i \in 1..Len(lm) : lm[i] \in Monomials
        BY MonomialsAssumption DEF GInv, TypeOK
    <2>3. PICK i \in Below_k : \A x \in Below_k : i <= x
        <3>1. Below_k \subseteq Nat
            <4>1. Len(lm) \in Nat
                BY DEF GInv, TypeOK
            <4>2. 1..Len(lm) \subseteq Nat
                BY <4>1
            <4> QED
                BY <2>2, <4>2
        <3>2. Below_k # {}
            BY <2>1, Zenon
        <3> QED
            BY <3>1, <3>2, LeastOf
    <2>4. i \in Minimal
        <3> SUFFICES ASSUME NEW j \in basis \ {i}, Divides(lm[j], lm[i]) PROVE FALSE
            BY <2>3 DEF Minimal
        <3>1. j \in Below_k
            BY <2>2, <2>3, DividesTransitive
        <3>2. i < j
            BY <2>2, <2>3, <3>1
        <3> QED
            BY <2>3, <3>2 DEF GInv, Forward
    <2> QED
        BY <2>1, <2>3, <2>4 DEF GInv, OutIsMinimal
<1> QED
    BY <1>1, AlwaysG, PTL

\* Buchberger's algorithm without a limit keeps the basis minimal, as the
\* comment of State::basis says.
THEOREM BasisStaysMinimal == Spec => []BasisIsMinimal
<1>1. GInv => BasisIsMinimal
    BY DEF GInv
<1> QED
    BY <1>1, AlwaysG, PTL
=============================================================================
