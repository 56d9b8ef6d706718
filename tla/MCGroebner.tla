----------------------------- MODULE MCGroebner -----------------------------
(* Groebner on three variables with the monomials of degree at most two as   *)
(* leading monomials, in the graded lexicographic order.                     *)
EXTENDS Groebner

V == 1..3
M == [V -> 0..2]
Total(m) == m[1] + m[2] + m[3]
FewLeads == {m \in M : Total(m) <= 2}

\* glex: the degree, then the first variable that differs.
GLexBelow(a, b) ==
  \/ Total(a) < Total(b)
  \/ /\ Total(a) = Total(b)
     /\ \E v \in V : a[v] < b[v] /\ \A u \in 1..v - 1 : a[u] = b[u]
=============================================================================
