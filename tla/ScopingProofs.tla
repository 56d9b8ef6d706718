---------------------------- MODULE ScopingProofs ----------------------------
(***************************************************************************)
(* Reads see the variable that scoping means and exits find their loop,    *)
(* for any names, statements and calls.                                    *)
(*                                                                         *)
(* Code is judged by itself: a list of the loops that are open before each *)
(* of its instructions exists, each with the bindings that it found, and   *)
(* names resolve by them.  The scopes being compiled are such code up to   *)
(* where they are, captures resolving where the function will be made; the *)
(* compiler's actions keep that, and what it has compiled is a set of code *)
(* that is closed under the functions in it.  A frame then has the loops   *)
(* of its instruction, and its slots, captured values and hidden values    *)
(* are those of `env`.                                                     *)
(***************************************************************************)
EXTENDS Scoping, SequenceTheorems, FiniteSetTheorems, WellFoundedInduction, TLAPS

-----------------------------------------------------------------------------
(* Greatest and least elements *)

\* Sets of natural numbers have a least element.
LEMMA LeastNat ==
    ASSUME NEW S \in SUBSET Nat, S # {}
    PROVE  \E k \in S : \A l \in S : k <= l
<1> DEFINE R == {p \in Nat \X Nat : p[1] < p[2]}
<1>1. IsWellFoundedOn(R, Nat)
  BY NatLessThanWellFounded DEF OpToRel
<1>2. \A j, k \in S : <<j, k>> \in R <=> j < k
  OBVIOUS
<1> HIDE DEF R
<1>3. \E m \in S : \A j \in S : ~(<<j, m>> \in R)
  BY <1>1, WFMin
<1>4. PICK m \in S : \A j \in S : ~(j < m)
  BY <1>2, <1>3
<1> QED
  BY <1>4

\* What `Max` and `Min` are.
LEMMA MaxOf ==
    ASSUME NEW n \in Nat, NEW S \in SUBSET (1..n), S # {}
    PROVE  Max(S) \in S /\ \A k \in S : k <= Max(S)
<1> DEFINE T == {m \in Nat : n - m \in S}
<1>1. T \in SUBSET Nat
  OBVIOUS
<1>2. PICK s \in S : TRUE
  OBVIOUS
<1>3. n - s \in Nat /\ n - (n - s) = s
  OBVIOUS
<1>4. n - s \in T
  BY <1>3
<1>5. PICK m \in T : \A j \in T : m <= j
  <2> HIDE DEF T
  <2> QED BY <1>1, <1>4, LeastNat
<1>6. m \in Nat /\ n - m \in S
  OBVIOUS
<1>7. ASSUME NEW l \in S PROVE l <= n - m
  <2>1. n - l \in Nat /\ n - (n - l) = l
    BY <1>7
  <2>2. n - l \in T
    BY <2>1, <1>7
  <2>3. m <= n - l
    BY <1>5, <2>2
  <2>4. l \in Int
    BY <1>7
  <2> QED
    BY ONLY <2>3, <2>4, <1>6, n \in Nat
<1> HIDE DEF T
<1>8. \E x \in S : \A y \in S : x >= y
  BY <1>6, <1>7
<1>9. Max(S) \in S /\ \A y \in S : Max(S) >= y
  BY ONLY <1>8 DEF Max
<1> QED
  BY <1>9

LEMMA MinOf ==
    ASSUME NEW S \in SUBSET Nat, S # {}
    PROVE  Min(S) \in S /\ \A k \in S : Min(S) <= k
<1>1. \E x \in S : \A y \in S : x <= y
  BY LeastNat
<1> QED
  BY ONLY <1>1 DEF Min

-----------------------------------------------------------------------------
(* The loops that are open before each instruction *)

Ids == Names \union {NoName}
Ops == {"get", "put", "closure", "loop", "end", "break", "continue"}
Kinds == {"local", "capture", "self", "global", "init", "none"}
Places == [kind : Kinds, at : Nat]
Instrs(G) == [op : Ops, name : Ids, ex : Places, code : G \union {<<>>}]

Binding == [name : Names, slot : Nat]
OpenLoop == [var : Ids, slot : Nat, at : Nat \ {0}, bs : Seq(Binding)]

\* The bindings in a loop, and those where a list of loops is open.
Inside(l) == IF l.var = NoName THEN l.bs ELSE Append(l.bs, [name |-> l.var, slot |-> l.slot])
Bs(stack) == IF stack = <<>> THEN <<>> ELSE Inside(stack[Len(stack)])

Stacks == {s \in Seq(OpenLoop) :
             \A k \in 1..Len(s) : s[k].bs = IF k = 1 THEN <<>> ELSE Inside(s[k - 1])}

Opening(stack, instr, pc) ==
    [var |-> instr.name, slot |-> instr.ex.at, at |-> pc, bs |-> Bs(stack)]

After(stack, instr, pc) ==
    IF instr.op = "loop" THEN Append(stack, Opening(stack, instr, pc))
    ELSE IF instr.op = "end" THEN SubSeq(stack, 1, Len(stack) - 1)
    ELSE stack

\* The k-th loop open at `pc` was opened by an instruction, and has been since.
Opened1(body, nest, pc, k) ==
    LET j == nest[pc][k].at
    IN  /\ j \in 1..pc - 1 /\ body[j].op = "loop"
        /\ nest[j] = SubSeq(nest[pc], 1, k - 1)
        /\ nest[j + 1] = SubSeq(nest[pc], 1, k)
        /\ \A i \in j + 1..pc : Len(nest[i]) >= k

Rooted(body, nest) == \A pc \in 1..Len(nest) : \A k \in 1..Len(nest[pc]) : Opened1(body, nest, pc, k)

Follows(body, nest, pc) ==
    /\ nest[pc + 1] = After(nest[pc], body[pc], pc)
    /\ body[pc].op = "end" => nest[pc] # <<>>

Nested(body, nest) ==
    /\ nest \in Seq(Stacks) /\ Len(nest) = Len(body) + 1 /\ nest[1] = <<>>
    /\ \A pc \in 1..Len(body) : Follows(body, nest, pc)
    /\ Rooted(body, nest)

\* The bindings are such.
LEMMA BsType ==
    ASSUME NEW s \in Stacks
    PROVE  /\ Bs(s) \in Seq(Binding)
           /\ \A k \in 1..Len(s) : s[k].bs \in Seq(Binding) /\ s[k] \in OpenLoop
<1>1. s \in Seq(OpenLoop) /\ Len(s) \in Nat
  BY DEF Stacks
<1>2. \A k \in 1..Len(s) : s[k] \in OpenLoop
  BY <1>1
<1>3. \A k \in 1..Len(s) : s[k].bs \in Seq(Binding) /\ s[k].slot \in Nat /\ s[k].var \in Ids
  BY <1>2 DEF OpenLoop
<1>4. CASE s = <<>>
  BY <1>1, <1>3, <1>2, <1>4 DEF Bs
<1>5. CASE s # <<>>
  <2>1. Len(s) \in 1..Len(s)
    BY <1>1, <1>5
  <2> DEFINE l == s[Len(s)]
  <2>2. l.bs \in Seq(Binding) /\ l.slot \in Nat /\ l.var \in Ids
    BY <2>1, <1>3
  <2>3. Inside(l) \in Seq(Binding)
    <3>1. CASE l.var = NoName
      BY <2>2, <3>1 DEF Inside
    <3>2. CASE l.var # NoName
      <4>1. [name |-> l.var, slot |-> l.slot] \in Binding
        BY <2>2, <3>2 DEF Ids, Binding
      <4> QED
        BY <4>1, <2>2, <3>2, AppendProperties DEF Inside
    <3> QED
      BY <3>1, <3>2
  <2> QED
    BY <1>2, <1>3, <1>5, <2>3 DEF Bs
<1> QED
  BY <1>4, <1>5

\* A list of loops with one more.
LEMMA PushStack ==
    ASSUME NEW s \in Stacks, NEW l \in OpenLoop, l.bs = Bs(s)
    PROVE  /\ Append(s, l) \in Stacks /\ Len(Append(s, l)) = Len(s) + 1
           /\ Append(s, l)[Len(s) + 1] = l
           /\ \A k \in 1..Len(s) : Append(s, l)[k] = s[k]
           /\ Bs(Append(s, l)) = Inside(l)
           /\ SubSeq(Append(s, l), 1, Len(s)) = s
<1> DEFINE t == Append(s, l)
<1>1. s \in Seq(OpenLoop) /\ Len(s) \in Nat
  BY DEF Stacks
<1>2. /\ t \in Seq(OpenLoop) /\ Len(t) = Len(s) + 1 /\ t[Len(s) + 1] = l
      /\ \A k \in 1..Len(s) : t[k] = s[k]
      /\ t # <<>>
  BY <1>1, AppendProperties
<1>3. ASSUME NEW k \in 1..Len(t)
      PROVE  t[k].bs = IF k = 1 THEN <<>> ELSE Inside(t[k - 1])
  <2>1. CASE k \in 1..Len(s)
    <3>1. t[k] = s[k] /\ (k # 1 => t[k - 1] = s[k - 1])
      BY <1>1, <1>2, <2>1
    <3>2. s[k].bs = IF k = 1 THEN <<>> ELSE Inside(s[k - 1])
      BY <2>1 DEF Stacks
    <3> QED
      BY <3>1, <3>2
  <2>2. CASE k = Len(s) + 1
    <3>1. t[k].bs = Bs(s)
      BY <1>2, <2>2
    <3>2. CASE s = <<>>
      <4>1. k = 1
        BY <3>2, <2>2
      <4> QED
        BY <3>1, <3>2, <4>1 DEF Bs
    <3>3. CASE s # <<>>
      <4>1. k # 1 /\ k - 1 = Len(s) /\ Len(s) \in 1..Len(s)
        BY <3>3, <1>1, <2>2
      <4>2. t[k - 1] = s[Len(s)]
        BY <4>1, <1>2
      <4> QED
        BY <3>1, <3>3, <4>1, <4>2 DEF Bs
    <3> QED
      BY <3>2, <3>3
  <2> QED
    BY <2>1, <2>2, <1>1, <1>2
<1>4. t \in Stacks
  BY <1>2, <1>3 DEF Stacks
<1>5. Bs(t) = Inside(l)
  BY <1>2 DEF Bs
<1>6. SubSeq(t, 1, Len(s)) = s
  BY <1>1, AppendProperties
<1> QED
  BY <1>2, <1>4, <1>5, <1>6

\* A list of loops without some.
LEMMA PrefixOfStack ==
    ASSUME NEW s \in Stacks, NEW k \in 0..Len(s)
    PROVE  /\ SubSeq(s, 1, k) \in Stacks /\ Len(SubSeq(s, 1, k)) = k
           /\ \A i \in 1..k : SubSeq(s, 1, k)[i] = s[i]
           /\ k < Len(s) => Bs(SubSeq(s, 1, k)) = s[k + 1].bs
           /\ k = Len(s) => SubSeq(s, 1, k) = s
<1> DEFINE t == SubSeq(s, 1, k)
<1>1. s \in Seq(OpenLoop) /\ Len(s) \in Nat /\ k \in Nat
  BY DEF Stacks
<1>2. \A i \in 1..k : s[i] \in OpenLoop
  BY <1>1
<1>3. /\ t \in Seq(OpenLoop) /\ Len(t) = k
      /\ \A i \in 1..k : t[i] = s[i]
  BY <1>1, <1>2, SubSeqProperties
<1>4. ASSUME NEW i \in 1..Len(t)
      PROVE  t[i].bs = IF i = 1 THEN <<>> ELSE Inside(t[i - 1])
  <2>1. t[i] = s[i] /\ (i # 1 => t[i - 1] = s[i - 1]) /\ i \in 1..Len(s)
    BY <1>1, <1>3
  <2>2. s[i].bs = IF i = 1 THEN <<>> ELSE Inside(s[i - 1])
    BY <2>1 DEF Stacks
  <2> QED
    BY <2>1, <2>2
<1>5. t \in Stacks
  BY <1>3, <1>4 DEF Stacks
<1>6. ASSUME k < Len(s) PROVE Bs(t) = s[k + 1].bs
  <2>1. k + 1 \in 1..Len(s)
    BY <1>1, <1>6
  <2>2. s[k + 1].bs = IF k + 1 = 1 THEN <<>> ELSE Inside(s[k + 1 - 1])
    BY <2>1 DEF Stacks
  <2>3. CASE k = 0
    <3>1. t = <<>>
      BY <1>3, <2>3
    <3> QED
      BY <2>2, <2>3, <3>1 DEF Bs
  <2>4. CASE k # 0
    <3>1. t # <<>> /\ t[Len(t)] = s[k] /\ k + 1 - 1 = k /\ k + 1 # 1
      BY <1>1, <1>3, <2>4
    <3> QED
      BY <2>2, <3>1 DEF Bs
  <2> QED
    BY <2>3, <2>4
<1>7. k = Len(s) => t = s
  BY <1>1, SubSeqFull
<1> QED
  BY <1>3, <1>5, <1>6, <1>7

\* Lists that agree up to a place have the same prefix up to it.
LEMMA SamePrefix ==
    ASSUME NEW s \in Stacks, NEW t \in Stacks, NEW k \in Nat, k <= Len(s), k <= Len(t),
           \A i \in 1..k : s[i] = t[i]
    PROVE  SubSeq(s, 1, k) = SubSeq(t, 1, k)
<1>1. Len(s) \in Nat /\ Len(t) \in Nat
  BY DEF Stacks
<1>2. k \in 0..Len(s) /\ k \in 0..Len(t)
  BY <1>1
<1>3. /\ SubSeq(s, 1, k) \in Seq(OpenLoop) /\ Len(SubSeq(s, 1, k)) = k
      /\ \A i \in 1..k : SubSeq(s, 1, k)[i] = s[i]
  BY <1>2, PrefixOfStack DEF Stacks
<1>4. /\ SubSeq(t, 1, k) \in Seq(OpenLoop) /\ Len(SubSeq(t, 1, k)) = k
      /\ \A i \in 1..k : SubSeq(t, 1, k)[i] = t[i]
  BY <1>2, PrefixOfStack DEF Stacks
<1> QED
  BY <1>3, <1>4, SeqEqual

\* The loops open after an instruction, from those open before it.
AfterIs(s, instr, pc) ==
    LET t == After(s, instr, pc)
    IN  /\ t \in Stacks /\ Len(t) \in Nat
        /\ \A k \in 1..Len(t) : k <= Len(s) => t[k] = s[k]
        /\ instr.op = "loop" => /\ Len(t) = Len(s) + 1 /\ SubSeq(t, 1, Len(s)) = s
                                /\ t[Len(s) + 1] = Opening(s, instr, pc)
        /\ instr.op = "end" => Len(t) = Len(s) - 1 /\ t = SubSeq(s, 1, Len(s) - 1)
        /\ instr.op \notin {"loop", "end"} => t = s

\* An instruction changes the list of open loops to another one.
LEMMA AfterType ==
    ASSUME NEW s \in Stacks, NEW instr, instr.name \in Ids, instr.ex.at \in Nat,
           instr.op = "end" => s # <<>>, NEW pc \in Nat \ {0}
    PROVE  AfterIs(s, instr, pc)
<1>1. Len(s) \in Nat /\ s \in Seq(OpenLoop)
  BY DEF Stacks
<1> DEFINE t == After(s, instr, pc)
<1>2. CASE instr.op = "loop"
  <2> DEFINE l == Opening(s, instr, pc)
  <2>1. l \in OpenLoop /\ l.bs = Bs(s)
    BY BsType DEF Opening, OpenLoop
  <2>2. t = Append(s, l)
    BY <1>2 DEF After
  <2> HIDE DEF l
  <2>3. /\ t \in Stacks /\ Len(t) = Len(s) + 1 /\ t[Len(s) + 1] = l
        /\ \A k \in 1..Len(s) : t[k] = s[k]
        /\ SubSeq(t, 1, Len(s)) = s
    BY <2>1, <2>2, PushStack
  <2> QED
    BY <1>1, <1>2, <2>3 DEF l, AfterIs
<1>3. CASE instr.op = "end"
  <2>1. Len(s) - 1 \in 0..Len(s) /\ Len(s) - 1 \in Nat
    BY <1>1, <1>3
  <2>2. t = SubSeq(s, 1, Len(s) - 1)
    BY <1>3 DEF After
  <2>3. /\ t \in Stacks /\ Len(t) = Len(s) - 1
        /\ \A k \in 1..Len(s) - 1 : t[k] = s[k]
    BY <2>1, <2>2, PrefixOfStack
  <2> QED
    BY <1>1, <1>3, <2>1, <2>2, <2>3 DEF AfterIs
<1>4. CASE instr.op \notin {"loop", "end"}
  BY <1>1, <1>4 DEF After, AfterIs
<1> QED
  BY <1>2, <1>3, <1>4

\* Code with one instruction more.
LEMMA NestExtend ==
    ASSUME NEW I, NEW body \in Seq(I), NEW nest, Nested(body, nest),
           NEW instr \in I, instr.name \in Ids, instr.ex.at \in Nat,
           instr.op = "end" => nest[Len(body) + 1] # <<>>
    PROVE  Nested(Append(body, instr),
                  Append(nest, After(nest[Len(body) + 1], instr, Len(body) + 1)))
<1> DEFINE L == Len(body) + 1
           top == nest[L]
           new == After(top, instr, L)
           b == Append(body, instr)
           m == Append(nest, new)
<1>1. /\ Len(body) \in Nat /\ L \in Nat \ {0} /\ nest \in Seq(Stacks) /\ Len(nest) = L
      /\ nest[1] = <<>>
      /\ Rooted(body, nest)
      /\ \A pc \in 1..Len(body) : Follows(body, nest, pc)
  BY DEF Nested
<1>2. \A i \in 1..L : nest[i] \in Stacks
  BY <1>1
<1>3. top \in Stacks
  BY <1>1, <1>2
<1>4. /\ new \in Stacks /\ Len(new) \in Nat
      /\ \A k \in 1..Len(new) : k <= Len(top) => new[k] = top[k]
      /\ instr.op = "loop" => /\ Len(new) = Len(top) + 1 /\ SubSeq(new, 1, Len(top)) = top
                              /\ new[Len(top) + 1] = Opening(top, instr, L)
      /\ instr.op = "end" => Len(new) = Len(top) - 1
      /\ instr.op \notin {"loop", "end"} => new = top
  <2>1. L \in Nat \ {0} /\ (instr.op = "end" => top # <<>>)
    BY <1>1
  <2> HIDE DEF top, L
  <2>2. AfterIs(top, instr, L)
    BY <1>3, <2>1, AfterType
  <2> QED
    BY <1>1, <2>2 DEF AfterIs
<1>5. /\ Len(b) = L /\ b[L] = instr
      /\ \A i \in 1..Len(body) : b[i] = body[i]
  BY <1>1, AppendProperties
<1>6. /\ m \in Seq(Stacks) /\ Len(m) = L + 1 /\ m[L + 1] = new
      /\ \A i \in 1..L : m[i] = nest[i]
  BY <1>1, <1>4, AppendProperties
<1>7. Len(top) \in Nat
  BY <1>3 DEF Stacks
<1> HIDE DEF new, b, m
<1>8. \A pc \in 1..Len(b) : Follows(b, m, pc)
  <2>1. ASSUME NEW pc \in 1..Len(body) PROVE Follows(b, m, pc)
    <3>1. b[pc] = body[pc] /\ m[pc] = nest[pc] /\ m[pc + 1] = nest[pc + 1]
      BY <1>1, <1>5, <1>6
    <3>2. Follows(body, nest, pc)
      BY <1>1
    <3> QED
      BY <3>1, <3>2 DEF Follows
  <2>2. Follows(b, m, L)
    <3>1. m[L] = top /\ m[L + 1] = new /\ b[L] = instr
      BY <1>1, <1>5, <1>6
    <3> QED
      BY <3>1 DEF Follows, new
  <2> QED
    BY <1>1, <1>5, <2>1, <2>2
<1>9. ASSUME NEW pc \in 1..L, NEW k \in 1..Len(m[pc]) PROVE Opened1(b, m, pc, k)
  <2>1. m[pc] = nest[pc] /\ nest[pc] \in Stacks
    BY <1>2, <1>6
  <2>2. Opened1(body, nest, pc, k)
    BY <1>1, <2>1 DEF Rooted
  <2> DEFINE j == nest[pc][k].at
  <2>3. /\ j \in 1..pc - 1 /\ body[j].op = "loop"
        /\ nest[j] = SubSeq(nest[pc], 1, k - 1)
        /\ nest[j + 1] = SubSeq(nest[pc], 1, k)
        /\ \A i \in j + 1..pc : Len(nest[i]) >= k
    BY <2>2 DEF Opened1
  <2> HIDE DEF j
  <2>4. /\ j \in 1..Len(body) /\ j \in 1..L /\ j + 1 \in 1..L
        /\ \A i \in j + 1..pc : i \in 1..L
    BY <2>3, <1>1
  <2>5. b[j] = body[j] /\ m[j] = nest[j] /\ m[j + 1] = nest[j + 1]
    BY <2>4, <1>5, <1>6
  <2>6. \A i \in j + 1..pc : Len(m[i]) >= k
    BY <2>3, <2>4, <1>6
  <2> QED
    BY <2>1, <2>3, <2>5, <2>6 DEF Opened1, j
<1>10. ASSUME NEW k \in 1..Len(top), k <= Len(new) PROVE Opened1(b, m, L + 1, k)
  <2>1. Opened1(body, nest, L, k)
    BY <1>1 DEF Rooted
  <2> DEFINE j == top[k].at
  <2>2. /\ j \in 1..L - 1 /\ body[j].op = "loop"
        /\ nest[j] = SubSeq(top, 1, k - 1)
        /\ nest[j + 1] = SubSeq(top, 1, k)
        /\ \A i \in j + 1..L : Len(nest[i]) >= k
    BY <2>1 DEF Opened1
  <2>3. new[k] = top[k]
    BY <1>4, <1>10
  <2>4. /\ SubSeq(new, 1, k) = SubSeq(top, 1, k)
        /\ SubSeq(new, 1, k - 1) = SubSeq(top, 1, k - 1)
    <3>1. /\ k \in Nat /\ k - 1 \in Nat /\ k <= Len(new) /\ k <= Len(top)
          /\ k - 1 <= Len(new) /\ k - 1 <= Len(top)
      BY <1>4, <1>7, <1>10
    <3>2. \A i \in 1..k : i \in 1..Len(new) /\ i <= Len(top)
      BY <1>4, <1>7, <3>1
    <3>3. \A i \in 1..k : new[i] = top[i]
      BY <1>4, <3>2
    <3>4. \A i \in 1..k - 1 : i \in 1..k
      BY <3>1
    <3> QED
      BY <1>3, <1>4, <3>1, <3>3, <3>4, SamePrefix
  <2> HIDE DEF j
  <2>5. j \in 1..Len(body) /\ j \in 1..L /\ j + 1 \in 1..L /\ j \in 1..L + 1 - 1
    BY <2>2, <1>1
  <2>6. b[j] = body[j] /\ m[j] = nest[j] /\ m[j + 1] = nest[j + 1] /\ m[L + 1] = new
    BY <2>5, <1>5, <1>6
  <2>7. ASSUME NEW i \in j + 1..L + 1 PROVE Len(m[i]) >= k
    <3>1. CASE i \in j + 1..L
      <4>1. i \in 1..L
        BY <3>1, <2>5
      <4> QED
        BY <3>1, <4>1, <2>2, <1>6
    <3>2. CASE i = L + 1
      BY <3>2, <2>6, <1>10, <1>4
    <3> QED
      BY <3>1, <3>2, <2>5, <1>1
  <2>8. m[L + 1][k].at = j
    BY <2>3, <2>6 DEF j
  <2> HIDE DEF top
  <2> QED
    BY ONLY <2>2, <2>4, <2>5, <2>6, <2>7, <2>8 DEF Opened1
<1>11. ASSUME instr.op = "loop" PROVE Opened1(b, m, L + 1, Len(top) + 1)
  <2> DEFINE k == Len(top) + 1
  <2>1. m[L + 1] = new /\ m[L] = top /\ b[L].op = "loop" /\ new[k].at = L
    BY <1>1, <1>4, <1>5, <1>6, <1>11 DEF Opening
  <2>2. SubSeq(new, 1, k) = new /\ SubSeq(new, 1, k - 1) = top
    <3>1. Len(new) = k /\ Len(new) \in 0..Len(new) /\ k - 1 = Len(top)
      BY <1>4, <1>7, <1>11
    <3> QED
      BY <3>1, <1>4, <1>11, PrefixOfStack
  <2>3. \A i \in L + 1..L + 1 : Len(m[i]) >= k
    BY <1>1, <1>4, <1>7, <1>11, <2>1
  <2>4. L \in 1..L + 1 - 1
    BY <1>1
  <2> HIDE DEF L, top, k
  <2>5. /\ m[L + 1][k].at = L /\ b[L].op = "loop"
        /\ m[L] = SubSeq(m[L + 1], 1, k - 1)
        /\ m[L + 1] = SubSeq(m[L + 1], 1, k)
    BY ONLY <2>1, <2>2
  <2> QED
    BY ONLY <2>3, <2>4, <2>5 DEF Opened1, k
<1>12. \A k \in 1..Len(new) : Opened1(b, m, L + 1, k)
  <2>1. CASE instr.op = "loop"
    <3>1. \A k \in 1..Len(new) : k \in 1..Len(top) \/ k = Len(top) + 1
      BY <1>4, <1>7, <2>1
    <3> QED
      BY <1>4, <1>10, <1>11, <2>1, <3>1
  <2>2. CASE instr.op # "loop"
    <3>1. Len(new) <= Len(top)
      BY <1>4, <1>7, <2>2
    <3>2. \A k \in 1..Len(new) : k \in 1..Len(top) /\ k <= Len(new)
      BY <3>1, <1>4, <1>7
    <3> QED
      BY <1>10, <3>2
  <2> QED
    BY <2>1, <2>2
<1>13. Rooted(b, m)
  <2>1. \A pc \in 1..Len(m) : pc \in 1..L \/ pc = L + 1
    BY <1>1, <1>6
  <2> QED
    BY <1>6, <1>9, <1>12, <2>1 DEF Rooted
<1>14. m[1] = <<>>
  BY <1>1, <1>6
<1> QED
  BY <1>5, <1>6, <1>8, <1>13, <1>14 DEF Nested, b, m, new

\* How many instructions from `pc` to `j` open loops, or close them.
Counted(body, pc, j, op) == Cardinality({i \in pc..j : body[i].op = op})

LEMMA CountStep ==
    ASSUME NEW body, NEW pc \in Nat, NEW j \in Nat, pc <= j + 1, NEW op
    PROVE  /\ Counted(body, pc, j, op) \in Nat
           /\ Counted(body, pc, j + 1, op) =
                Counted(body, pc, j, op) + IF body[j + 1].op = op THEN 1 ELSE 0
           /\ pc = j + 1 => Counted(body, pc, j, op) = 0
<1> DEFINE S == {i \in pc..j : body[i].op = op}
           T == {i \in pc..j + 1 : body[i].op = op}
<1>1. IsFiniteSet(pc..j) /\ S \in SUBSET (pc..j)
  BY FS_Interval
<1>2. IsFiniteSet(S) /\ Cardinality(S) \in Nat
  BY <1>1, FS_Subset, FS_CardinalityType
<1>5. /\ Counted(body, pc, j, op) = Cardinality(S)
      /\ Counted(body, pc, j + 1, op) = Cardinality(T)
      /\ pc = j + 1 => Cardinality(S) = 0
  <2>1. pc = j + 1 => S = {}
    OBVIOUS
  <2> QED
    BY <2>1, FS_EmptySet DEF Counted
<1>3. CASE body[j + 1].op = op
  <2>1. T = S \union {j + 1} /\ j + 1 \notin S
    BY <1>3
  <2>2. Cardinality(T) = Cardinality(S) + 1
    <3> HIDE DEF S, T
    <3> QED BY <1>2, <2>1, FS_AddElement
  <2> QED
    BY <1>2, <1>3, <1>5, <2>2
<1>4. CASE body[j + 1].op # op
  <2>1. T = S
    BY <1>4
  <2> QED
    BY <1>2, <1>4, <1>5, <2>1
<1> QED
  BY <1>3, <1>4

\* The length of the list of loops counts them.
Balanced(body, nest, pc, j) ==
    Counted(body, pc, j, "loop") - Counted(body, pc, j, "end") = Len(nest[j + 1]) - Len(nest[pc])

\* The same along the code.
StepOf(body, nest, pc) ==
    /\ nest[pc] \in Stacks /\ nest[pc + 1] \in Stacks
    /\ Len(nest[pc]) \in Nat /\ Len(nest[pc + 1]) \in Nat
    /\ body[pc].op = "loop" => /\ Len(nest[pc + 1]) = Len(nest[pc]) + 1
                               /\ SubSeq(nest[pc + 1], 1, Len(nest[pc])) = nest[pc]
                               /\ nest[pc + 1][Len(nest[pc]) + 1]
                                    = Opening(nest[pc], body[pc], pc)
    /\ body[pc].op = "end" => /\ Len(nest[pc + 1]) = Len(nest[pc]) - 1
                              /\ nest[pc + 1] = SubSeq(nest[pc], 1, Len(nest[pc]) - 1)
    /\ body[pc].op \notin {"loop", "end"} => nest[pc + 1] = nest[pc]
    /\ nest[pc + 1] = After(nest[pc], body[pc], pc)

LEMMA StepOfNest ==
    ASSUME NEW I, NEW body \in Seq(I), NEW nest, Nested(body, nest), NEW pc \in 1..Len(body),
           body[pc].name \in Ids, body[pc].ex.at \in Nat
    PROVE  StepOf(body, nest, pc)
<1>1. /\ nest \in Seq(Stacks) /\ Len(nest) = Len(body) + 1 /\ Follows(body, nest, pc)
      /\ Len(body) \in Nat
  BY DEF Nested
<1>2. pc \in 1..Len(nest) /\ pc + 1 \in 1..Len(nest) /\ pc \in Nat \ {0}
  BY <1>1
<1>3. nest[pc] \in Stacks /\ nest[pc + 1] \in Stacks
  BY <1>1, <1>2
<1>4. Len(nest[pc]) \in Nat /\ Len(nest[pc + 1]) \in Nat
  BY <1>3 DEF Stacks
<1>5. nest[pc + 1] = After(nest[pc], body[pc], pc) /\ (body[pc].op = "end" => nest[pc] # <<>>)
  BY <1>1 DEF Follows
<1> DEFINE s == nest[pc]
           instr == body[pc]
<1>6. LET t == After(s, instr, pc)
      IN  /\ instr.op = "loop" => /\ Len(t) = Len(s) + 1 /\ SubSeq(t, 1, Len(s)) = s
                                  /\ t[Len(s) + 1] = Opening(s, instr, pc)
          /\ instr.op = "end" => Len(t) = Len(s) - 1 /\ t = SubSeq(s, 1, Len(s) - 1)
          /\ instr.op \notin {"loop", "end"} => t = s
  <2> HIDE DEF s, instr
  <2>1. /\ s \in Stacks /\ instr.name \in Ids /\ instr.ex.at \in Nat /\ pc \in Nat \ {0}
        /\ instr.op = "end" => s # <<>>
    BY <1>2, <1>3, <1>5 DEF s, instr
  <2> QED
    BY <2>1, AfterType DEF AfterIs
<1> QED
  BY <1>3, <1>4, <1>5, <1>6 DEF StepOf

LEMMA NestBalanced ==
    ASSUME NEW I, NEW body \in Seq(I), NEW nest, Nested(body, nest), NEW pc \in 1..Len(body),
           \A i \in 1..Len(body) : body[i].name \in Ids /\ body[i].ex.at \in Nat
    PROVE  \A j \in pc..Len(body) : Balanced(body, nest, pc, j)
<1>0. Len(body) \in Nat /\ pc \in Nat
  OBVIOUS
<1> DEFINE S == {j \in Nat : j >= pc /\ j <= Len(body) /\ ~Balanced(body, nest, pc, j)}
<1>1. SUFFICES ASSUME S # {} PROVE FALSE
  BY <1>0
<1>2. S \in SUBSET Nat
  OBVIOUS
<1>3. PICK j \in S : \A l \in S : j <= l
  <2> HIDE DEF S
  <2> QED BY <1>1, <1>2, LeastNat
<1>4. j \in Nat /\ j >= pc /\ j <= Len(body) /\ ~Balanced(body, nest, pc, j)
  OBVIOUS
<1> DEFINE i == j - 1
<1>5. i \in Nat /\ i + 1 = j /\ pc <= i + 1 /\ j \in 1..Len(body)
  BY <1>0, <1>4
<1>6. i < pc \/ Balanced(body, nest, pc, i)
  <2>1. i \notin S
    <3> HIDE DEF S
    <3> QED BY <1>3, <1>5
  <2> QED
    BY <2>1, <1>4, <1>5, <1>0
<1> HIDE DEF S, i
<1> DEFINE C(k, op) == Counted(body, pc, k, op)
<1>7. \A op \in {"loop", "end"} :
        /\ C(i, op) \in Nat
        /\ C(j, op) = C(i, op) + IF body[j].op = op THEN 1 ELSE 0
        /\ pc = j => C(i, op) = 0
  <2>1. SUFFICES ASSUME NEW op \in {"loop", "end"}
                 PROVE  /\ C(i, op) \in Nat
                        /\ C(j, op) = C(i, op) + IF body[j].op = op THEN 1 ELSE 0
                        /\ pc = j => C(i, op) = 0
    OBVIOUS
  <2>2. /\ Counted(body, pc, i, op) \in Nat
        /\ Counted(body, pc, i + 1, op) =
             Counted(body, pc, i, op) + IF body[i + 1].op = op THEN 1 ELSE 0
        /\ pc = i + 1 => Counted(body, pc, i, op) = 0
    BY <1>0, <1>5, CountStep
  <2> QED
    BY <1>5, <2>2
<1>8. /\ Len(nest[j]) \in Nat /\ Len(nest[j + 1]) \in Nat /\ Len(nest[pc]) \in Nat
      /\ body[j].op = "loop" => Len(nest[j + 1]) = Len(nest[j]) + 1
      /\ body[j].op = "end" => Len(nest[j + 1]) = Len(nest[j]) - 1
      /\ body[j].op \notin {"loop", "end"} => nest[j + 1] = nest[j]
  <2>1. body[j].name \in Ids /\ body[j].ex.at \in Nat /\ body[pc].name \in Ids /\ body[pc].ex.at \in Nat
    BY <1>5
  <2>2. Len(nest[pc]) \in Nat
    BY <2>1, StepOfNest
  <2> QED
    BY <1>5, <2>1, <2>2, StepOfNest DEF StepOf
<1>9. C(i, "loop") - C(i, "end") = Len(nest[j]) - Len(nest[pc])
  <2>1. CASE i < pc
    <3>1. pc = j
      BY <2>1, <1>0, <1>5
    <3> QED
      BY <3>1, <1>7, <1>8
  <2>2. CASE Balanced(body, nest, pc, i)
    BY <2>2, <1>5 DEF Balanced
  <2> QED
    BY <1>6, <2>1, <2>2
<1> HIDE DEF C
<1>10. /\ C(i, "loop") \in Nat /\ C(i, "end") \in Nat
       /\ body[j].op = "loop" => C(j, "loop") = C(i, "loop") + 1 /\ C(j, "end") = C(i, "end")
       /\ body[j].op = "end" => C(j, "loop") = C(i, "loop") /\ C(j, "end") = C(i, "end") + 1
       /\ body[j].op \notin {"loop", "end"} => C(j, "loop") = C(i, "loop") /\ C(j, "end") = C(i, "end")
  BY <1>7
<1>11. /\ Counted(body, pc, j, "loop") \in Nat /\ Counted(body, pc, j, "end") \in Nat
  <2>1. j \in Nat /\ pc <= j + 1
    BY <1>0, <1>4
  <2> QED
    BY <1>0, <2>1, CountStep
<1>13. C(j, "loop") - C(j, "end") = Len(nest[j + 1]) - Len(nest[pc])
  <2>1. C(j, "loop") \in Nat /\ C(j, "end") \in Nat /\ C(i, "loop") \in Nat /\ C(i, "end") \in Nat
    BY <1>10, <1>11 DEF C
  <2>2. Len(nest[j]) \in Nat /\ Len(nest[j + 1]) \in Nat /\ Len(nest[pc]) \in Nat
    BY <1>8
  <2>3. \/ C(j, "loop") = C(i, "loop") + 1 /\ C(j, "end") = C(i, "end")
              /\ Len(nest[j + 1]) = Len(nest[j]) + 1
        \/ C(j, "loop") = C(i, "loop") /\ C(j, "end") = C(i, "end") + 1
              /\ Len(nest[j + 1]) = Len(nest[j]) - 1
        \/ C(j, "loop") = C(i, "loop") /\ C(j, "end") = C(i, "end")
              /\ Len(nest[j + 1]) = Len(nest[j])
    BY <1>8, <1>10
  <2>4. C(i, "loop") - C(i, "end") = Len(nest[j]) - Len(nest[pc])
    BY <1>9
  <2> DEFINE a == C(i, "loop")
             b == C(i, "end")
             c == C(j, "loop")
             d == C(j, "end")
             e == Len(nest[j])
             g == Len(nest[j + 1])
             h == Len(nest[pc])
  <2> HIDE DEF a, b, c, d, e, g, h
  <2>5. /\ a \in Nat /\ b \in Nat /\ c \in Nat /\ d \in Nat /\ e \in Nat /\ g \in Nat /\ h \in Nat
        /\ a - b = e - h
        /\ \/ c = a + 1 /\ d = b /\ g = e + 1
           \/ c = a /\ d = b + 1 /\ g = e - 1
           \/ c = a /\ d = b /\ g = e
    BY <2>1, <2>2, <2>3, <2>4 DEF a, b, c, d, e, g, h
  <2>6. c - d = g - h
    BY ONLY <2>5
  <2> QED
    BY <2>6 DEF c, d, g, h
<1> QED
  BY <1>4, <1>13 DEF Balanced, C

\* `EndOf` finds the end of a loop: there the loops are those of its body, and
\* behind it those around it.
LEMMA EndOfLoop ==
    ASSUME NEW I, NEW body \in Seq(I), NEW nest, Nested(body, nest),
           nest[Len(body) + 1] = <<>>, NEW pc \in 1..Len(body), body[pc].op = "loop",
           \A i \in 1..Len(body) : body[i].name \in Ids /\ body[i].ex.at \in Nat
    PROVE  LET j == EndOf(body, pc)
           IN  /\ j \in pc + 1..Len(body) /\ body[j].op = "end"
               /\ nest[j] = nest[pc + 1] /\ nest[j + 1] = nest[pc]
<1>0. Len(body) \in Nat /\ pc \in Nat \ {0}
  OBVIOUS
<1> DEFINE Level(j) == Len(nest[j])
           S == {j \in Nat : j >= pc /\ j <= Len(body) /\ Level(j + 1) <= Level(pc)}
<1>1. \A i \in 1..Len(body) :
        /\ nest[i] \in Stacks /\ nest[i + 1] \in Stacks
        /\ Level(i) \in Nat /\ Level(i + 1) \in Nat
        /\ body[i].op = "loop" => Level(i + 1) = Level(i) + 1
        /\ body[i].op = "end" => Level(i + 1) = Level(i) - 1
        /\ body[i].op \notin {"loop", "end"} => Level(i + 1) = Level(i)
  <2>1. ASSUME NEW i \in 1..Len(body)
        PROVE  StepOf(body, nest, i)
    BY <2>1, StepOfNest
  <2> QED
    BY <2>1 DEF StepOf
<1>2. \A j \in pc..Len(body) : Balanced(body, nest, pc, j)
  BY NestBalanced
<1> HIDE DEF Level
<1>3. Level(Len(body) + 1) = 0
  BY EmptySeq DEF Level
<1>4. Len(body) \in S
  BY <1>0, <1>1, <1>3
<1>5. PICK j \in S : \A l \in S : j <= l
  <2>1. S \in SUBSET Nat
    OBVIOUS
  <2> HIDE DEF S
  <2> QED BY <1>4, <2>1, LeastNat
<1>6. j \in Nat /\ j >= pc /\ j <= Len(body) /\ Level(j + 1) <= Level(pc)
  OBVIOUS
<1>7. \A i \in pc..j - 1 : Level(i + 1) > Level(pc)
  <2>1. SUFFICES ASSUME NEW i \in pc..j - 1 PROVE Level(i + 1) > Level(pc)
    OBVIOUS
  <2>2. i \in Nat /\ i >= pc /\ i <= Len(body) /\ i < j
    BY <2>1, <1>0, <1>6
  <2>3. i \notin S
    <3> HIDE DEF S
    <3> QED BY <2>2, <1>5, <1>6
  <2>4. ~(Level(i + 1) <= Level(pc))
    BY <2>2, <2>3
  <2>5. Level(i + 1) \in Nat /\ Level(pc) \in Nat
    BY <2>2, <1>0, <1>1
  <2> QED
    BY ONLY <2>4, <2>5
<1> HIDE DEF S
<1>8. j # pc /\ j \in pc + 1..Len(body) /\ j \in 1..Len(body) /\ j - 1 \in pc..j - 1
  <2>0. Level(pc + 1) = Level(pc) + 1 /\ Level(pc) \in Nat
    BY <1>1
  <2>1. j # pc
    BY ONLY <2>0, <1>6
  <2> QED
    BY <2>1, <1>0, <1>6
<1>9. Level(j) > Level(pc)
  <2>1. j - 1 + 1 = j
    BY <1>6
  <2> QED
    BY <1>7, <1>8, <2>1
<1>10. body[j].op = "end" /\ Level(j + 1) = Level(pc) /\ Level(j) = Level(pc) + 1
  <2>1. /\ Level(j) \in Nat /\ Level(j + 1) \in Nat /\ Level(pc) \in Nat
        /\ body[j].op = "loop" => Level(j + 1) = Level(j) + 1
        /\ body[j].op = "end" => Level(j + 1) = Level(j) - 1
        /\ body[j].op \notin {"loop", "end"} => Level(j + 1) = Level(j)
    BY <1>1, <1>8
  <2> QED
    BY ONLY <2>1, <1>6, <1>9
<1>11. EndOf(body, pc) = j
  <2> DEFINE Begun(i) == Counted(body, pc, i, "loop")
             Closed(i) == Counted(body, pc, i, "end")
             P(x) == Begun(x) = Closed(x) /\ \A i \in pc..x - 1 : Begun(i) # Closed(i)
  <2>1. \A i \in pc..Len(body) : Begun(i) = Closed(i) <=> Level(i + 1) = Level(pc)
    <3>1. SUFFICES ASSUME NEW i \in pc..Len(body)
                   PROVE  Begun(i) = Closed(i) <=> Level(i + 1) = Level(pc)
      OBVIOUS
    <3>2. Begun(i) - Closed(i) = Level(i + 1) - Level(pc)
      BY <1>2 DEF Balanced, Level
    <3>3. i \in 1..Len(body) /\ i \in Nat /\ pc <= i + 1
      BY <1>0
    <3>4. Begun(i) \in Nat /\ Closed(i) \in Nat
      BY <3>3, <1>0, CountStep
    <3>5. Level(i + 1) \in Nat /\ Level(pc) \in Nat
      BY <3>3, <1>0, <1>1
    <3> HIDE DEF Begun, Closed
    <3> QED
      BY ONLY <3>2, <3>4, <3>5
  <2> HIDE DEF Begun, Closed
  <2>2. j \in pc..Len(body) /\ P(j)
    <3>1. j \in pc..Len(body) /\ \A i \in pc..j - 1 : i \in pc..Len(body)
      BY <1>0, <1>6
    <3>2. Level(pc) \in Nat /\ \A i \in pc..j - 1 : Level(i + 1) \in Nat
      BY <1>1, <1>0, <3>1
    <3>3. \A i \in pc..j - 1 : Level(i + 1) # Level(pc)
      BY <1>7, <3>2
    <3> QED
      BY <2>1, <3>1, <3>3, <1>10
  <2>3. ASSUME NEW x \in pc..Len(body), P(x) PROVE x = j
    <3>1. x \in Nat
      BY <1>0
    <3>2. CASE x < j
      <4>1. x \in pc..j - 1 /\ Level(pc) \in Nat /\ Level(x + 1) \in Nat
        BY <3>1, <3>2, <1>0, <1>1, <1>6
      <4>2. Level(x + 1) = Level(pc)
        BY <2>1, <2>3
      <4> QED
        BY <4>1, <4>2, <1>7
    <3>3. CASE j < x
      <4>1. j \in pc..x - 1
        BY <3>1, <3>3, <1>6, <1>0
      <4>2. Begun(j) = Closed(j)
        BY <2>2
      <4> QED
        BY <4>1, <4>2, <2>3
    <3> QED
      BY <3>1, <3>2, <3>3, <1>6
  <2>4. EndOf(body, pc) = CHOOSE x \in pc..Len(body) : P(x)
    BY DEF EndOf, Begun, Closed, Counted
  <2> HIDE DEF P
  <2> QED
    BY <2>2, <2>3, <2>4
<1>12. nest[j] \in Stacks /\ nest[pc + 1] \in Stacks /\ nest[pc] \in Stacks
  BY <1>0, <1>1, <1>8
<1> DEFINE K == Level(pc) + 1
           p == nest[j][K].at
<1>13. K \in Nat \ {0} /\ K \in 1..Len(nest[j]) /\ Len(nest[j]) = K
  BY <1>0, <1>1, <1>10 DEF Level
<1>14. /\ p \in 1..j - 1 /\ nest[p] = SubSeq(nest[j], 1, K - 1)
       /\ nest[p + 1] = SubSeq(nest[j], 1, K)
       /\ \A i \in p + 1..j : Len(nest[i]) >= K
  <2>1. Rooted(body, nest) /\ Len(nest) = Len(body) + 1
    BY DEF Nested
  <2>2. j \in 1..Len(nest)
    BY <1>0, <1>8, <2>1
  <2>3. Opened1(body, nest, j, K)
    BY <1>13, <2>1, <2>2 DEF Rooted
  <2> HIDE DEF K
  <2> QED
    BY <2>3 DEF Opened1
<1>15. Len(nest[p]) = K - 1
  <2>1. K - 1 \in 0..Len(nest[j])
    BY <1>13
  <2> QED
    BY <1>12, <1>14, <2>1, PrefixOfStack
<1> HIDE DEF p
<1>16. p = pc
  <2>1. p \in Nat
    BY <1>14
  <2>2. CASE p < pc
    <3>1. pc \in p + 1..j
      BY <2>1, <2>2, <1>0, <1>6
    <3>2. Level(pc) >= K
      BY <1>14, <3>1 DEF Level
    <3> QED
      BY <3>2, <1>0, <1>1
  <2>3. CASE pc < p
    <3>1. p - 1 \in pc..j - 1 /\ p - 1 + 1 = p
      BY <2>1, <2>3, <1>0, <1>6, <1>14
    <3>2. Level(p) > Level(pc)
      BY <1>7, <3>1
    <3>3. Level(p) = Level(pc)
      BY <1>15, <1>0, <1>1 DEF Level
    <3> QED
      BY <3>2, <3>3, <1>0, <1>1
  <2> QED
    BY <2>1, <2>2, <2>3, <1>0
<1>17. nest[j] = nest[pc + 1]
  <2>1. SubSeq(nest[j], 1, K) = nest[j]
    <3>1. K \in 0..Len(nest[j])
      BY <1>13
    <3> QED
      BY <1>12, <1>13, <3>1, PrefixOfStack
  <2> QED
    BY <1>14, <1>16, <2>1
<1>18. nest[j + 1] = nest[pc]
  <2>1. nest[j + 1] = SubSeq(nest[j], 1, Len(nest[j]) - 1)
    <3>1. StepOf(body, nest, j)
      BY <1>8, StepOfNest
    <3> QED
      BY <1>10, <3>1 DEF StepOf
  <2> QED
    BY <1>13, <1>14, <1>16, <2>1
<1> QED
  BY <1>8, <1>10, <1>11, <1>17, <1>18

-----------------------------------------------------------------------------
(* What names resolve to *)

\* The slot of a name where there are such bindings, as `Lookup` finds it.
SlotAt(locals, bs, n) ==
    LET ks == {k \in 1..Len(bs) : bs[k].name = n}
    IN  IF ks # {} THEN bs[Max(ks)].slot ELSE locals[n]

LEMMA LookupIs ==
    ASSUME NEW S, NEW sc, sc.bindings \in Seq(S), NEW n
    PROVE  Lookup(sc, n) = SlotAt(sc.locals, sc.bindings, n)
<1>1. DOMAIN sc.bindings = 1..Len(sc.bindings)
  OBVIOUS
<1> QED
  BY <1>1 DEF Lookup, SlotAt

\* The last binding of the name counts.
LEMMA SlotAtFound ==
    ASSUME NEW locals, NEW bs \in Seq(Binding), NEW n
    PROVE  \/ /\ SlotAt(locals, bs, n) = locals[n]
              /\ \A k \in 1..Len(bs) : bs[k].name # n
           \/ \E k \in 1..Len(bs) :
                 /\ bs[k].name = n /\ SlotAt(locals, bs, n) = bs[k].slot
                 /\ \A i \in 1..Len(bs) : bs[i].name = n => i <= k
<1> DEFINE ks == {k \in 1..Len(bs) : bs[k].name = n}
<1>1. Len(bs) \in Nat /\ ks \in SUBSET (1..Len(bs))
  OBVIOUS
<1>2. CASE ks = {}
  BY <1>2 DEF SlotAt
<1>3. CASE ks # {}
  <2>1. Max(ks) \in ks /\ \A k \in ks : k <= Max(ks)
    <3> HIDE DEF ks
    <3> QED BY <1>1, <1>3, MaxOf
  <2>2. SlotAt(locals, bs, n) = bs[Max(ks)].slot
    BY <1>3 DEF SlotAt
  <2>3. \A i \in 1..Len(bs) : bs[i].name = n => i <= Max(ks)
    BY <2>1
  <2> QED
    BY <2>1, <2>2, <2>3
<1> QED
  BY <1>2, <1>3

\* A binding more hides its name only.
HidesOwn(locals, bs, b, n) ==
    SlotAt(locals, Append(bs, b), n) = IF n = b.name THEN b.slot ELSE SlotAt(locals, bs, n)

LEMMA SlotAtInside ==
    ASSUME NEW locals, NEW bs \in Seq(Binding), NEW b \in Binding, NEW n
    PROVE  HidesOwn(locals, bs, b, n)
<1> DEFINE t == Append(bs, b)
<1>2. /\ Len(bs) \in Nat /\ Len(t) = Len(bs) + 1 /\ t[Len(bs) + 1] = b /\ t \in Seq(Binding)
      /\ \A k \in 1..Len(bs) : t[k] = bs[k]
  BY AppendProperties
<1> DEFINE ks == {k \in 1..Len(bs) : bs[k].name = n}
           us == {k \in 1..Len(t) : t[k].name = n}
<1>3. us \in SUBSET (1..Len(t)) /\ Len(t) \in Nat
  BY <1>2
<1> HIDE DEF t
<1>4. CASE n = b.name
  <2>1. Len(t) \in us
    BY <1>2, <1>4
  <2>2. Max(us) \in us /\ \A k \in us : k <= Max(us)
    <3> HIDE DEF us
    <3> QED BY <1>3, <2>1, MaxOf
  <2>3. Max(us) = Len(t)
    <3>1. Max(us) \in 1..Len(t) /\ Len(t) <= Max(us)
      BY <1>3, <2>1, <2>2
    <3> QED
      BY <3>1, <1>3
  <2>4. SlotAt(locals, t, n) = t[Max(us)].slot
    BY <2>1 DEF SlotAt
  <2> HIDE DEF us
  <2> QED
    BY <1>2, <1>4, <2>3, <2>4 DEF t, HidesOwn
<1>5. CASE n # b.name
  <2>1. us = ks
    BY <1>2, <1>5
  <2>2. SlotAt(locals, t, n) = IF ks # {} THEN t[Max(ks)].slot ELSE locals[n]
    BY <2>1 DEF SlotAt
  <2>3. ks # {} => Max(ks) \in 1..Len(bs)
    <3>1. ks \in SUBSET (1..Len(bs))
      OBVIOUS
    <3>2. ks # {} => Max(ks) \in ks
      <4> HIDE DEF ks
      <4> QED BY <1>2, <3>1, MaxOf
    <3> QED
      BY <3>1, <3>2
  <2>4. SlotAt(locals, t, n) = SlotAt(locals, bs, n)
    <3>1. SlotAt(locals, bs, n) = IF ks # {} THEN bs[Max(ks)].slot ELSE locals[n]
      BY DEF SlotAt
    <3> HIDE DEF ks
    <3> QED
      BY <1>2, <2>2, <2>3, <3>1
  <2> QED
    BY <1>5, <2>4 DEF t, HidesOwn
<1> QED
  BY <1>4, <1>5

\* Slots that names have differ, and a binding has one of its own.
Apart(locals, bs, high) ==
    /\ locals \in [Names -> 0..high]
    /\ \A n, m \in Names : locals[n] # 0 /\ locals[n] = locals[m] => n = m
    /\ \A k \in 1..Len(bs) : /\ bs[k].slot \in 1..high
                             /\ \A n \in Names : locals[n] # bs[k].slot
                             /\ \A i \in 1..Len(bs) : bs[i].slot = bs[k].slot => i = k

\* Two names do not have one slot, also where one of them has fewer bindings
\* around it and the other is bound further in.
Distinct(locals, bs, high, n, m, k) ==
    LET inner == SlotAt(locals, bs, n)
        outer == SlotAt(locals, SubSeq(bs, 1, k), m)
    IN  /\ inner \in 0..high /\ outer \in 0..high
        /\ inner # 0 /\ inner = outer => n = m /\ \A i \in k + 1..Len(bs) : bs[i].name # n

LEMMA SlotsApart ==
    ASSUME NEW locals, NEW high \in Nat, NEW bs \in Seq(Binding), Apart(locals, bs, high),
           NEW n \in Names, NEW m \in Names, NEW k \in 0..Len(bs)
    PROVE  Distinct(locals, bs, high, n, m, k)
<1> DEFINE cs == SubSeq(bs, 1, k)
<1>1. Len(bs) \in Nat /\ k \in Nat /\ k <= Len(bs)
  OBVIOUS
<1>2. cs \in Seq(Binding) /\ Len(cs) = k /\ \A i \in 1..k : cs[i] = bs[i]
  <2>1. \A i \in 1..k : bs[i] \in Binding
    BY <1>1
  <2> QED
    BY <1>1, <2>1, SubSeqProperties
<1> DEFINE inner == SlotAt(locals, bs, n)
           outer == SlotAt(locals, cs, m)
<1> HIDE DEF cs
<1>3. \/ inner = locals[n] /\ \A i \in 1..Len(bs) : bs[i].name # n
      \/ \E i \in 1..Len(bs) : /\ bs[i].name = n /\ inner = bs[i].slot
                               /\ \A j \in 1..Len(bs) : bs[j].name = n => j <= i
  BY SlotAtFound
<1>4. \/ outer = locals[m]
      \/ \E i \in 1..k : bs[i].name = m /\ outer = bs[i].slot
  <2>1. \/ outer = locals[m]
        \/ \E i \in 1..Len(cs) : cs[i].name = m /\ outer = cs[i].slot
    BY <1>2, SlotAtFound
  <2> QED
    BY <1>2, <2>1
<1> HIDE DEF inner, outer
<1>5. inner \in 0..high /\ outer \in 0..high
  <2>1. \A i \in 1..k : i \in 1..Len(bs)
    BY <1>1
  <2> QED
    BY <1>3, <1>4, <2>1 DEF Apart
<1>6. ASSUME inner # 0, inner = outer
      PROVE  n = m /\ \A i \in k + 1..Len(bs) : bs[i].name # n
  <2>1. CASE inner = locals[n] /\ \A i \in 1..Len(bs) : bs[i].name # n
    <3>1. \A i \in k + 1..Len(bs) : i \in 1..Len(bs)
      BY <1>1
    <3>2. \A i \in 1..k : i \in 1..Len(bs)
      BY <1>1
    <3>3. outer = locals[m]
      BY <1>4, <1>6, <2>1, <3>2 DEF Apart
    <3>4. n = m
      BY <1>6, <2>1, <3>3 DEF Apart
    <3> QED
      BY <2>1, <3>1, <3>4
  <2>2. ASSUME NEW i \in 1..Len(bs), bs[i].name = n, inner = bs[i].slot,
               \A j \in 1..Len(bs) : bs[j].name = n => j <= i
        PROVE  n = m /\ \A j \in k + 1..Len(bs) : bs[j].name # n
    <3>1. outer # locals[m]
      BY <1>6, <2>2 DEF Apart
    <3>2. PICK j \in 1..k : bs[j].name = m /\ outer = bs[j].slot
      BY <1>4, <3>1
    <3>3. j \in 1..Len(bs)
      BY <1>1
    <3>4. i = j
      BY <1>6, <2>2, <3>2, <3>3 DEF Apart
    <3>5. n = m
      BY <2>2, <3>2, <3>4
    <3>6. ASSUME NEW l \in k + 1..Len(bs), bs[l].name = n PROVE FALSE
      <4>1. l \in 1..Len(bs)
        BY <1>1
      <4>2. l <= i
        BY <2>2, <3>6, <4>1
      <4> QED
        BY <3>4, <4>2, <1>1
    <3> QED
      BY <3>5, <3>6
  <2> QED
    BY <1>3, <2>1, <2>2
<1> QED
  BY <1>5, <1>6 DEF Distinct, inner, outer, cs

-----------------------------------------------------------------------------
(* Code that is right: `home` is what the compiler knows about the function *)
(* and is not kept in the code.                                             *)

Capture == [name : Names, source : Places]

\* Code, and functions being compiled, whose closures are from G.
Codes(G) ==
    [name : Ids, params : [Names -> Nat], assigned : SUBSET Bound, slots : Nat,
     inits : SUBSET (Nat \X Nat), captures : Seq(Capture), body : Seq(Instrs(G))]

Scopes(G) ==
    [top : BOOLEAN, name : Ids, params : [Names -> Nat], assigned : SUBSET Bound,
     locals : [Names -> Nat], bindings : Seq(Binding), slots : Nat,
     captures : Seq(Capture), inits : SUBSET (Nat \X Nat), loops : Seq(Ids),
     body : Seq(Instrs(G))]

Home(top, locals, F) == [top |-> top, locals |-> locals, forwards |-> F]

\* `ex` is where the code finds `n`, which has slot `slot` or, if that is 0, none.
SourceOK(c, home, slot, n, ex) ==
    IF slot # 0 THEN ex.kind = "local" /\ ex.at = slot
    ELSE IF c.name = n THEN ex.kind = "self"
    ELSE IF home.top \/ n \in home.forwards THEN ex.kind = "global" \/ (ex.kind = "init" /\ n \in Bound)
    ELSE ex.kind = "capture" /\ ex.at \in 1..Len(c.captures) /\ c.captures[ex.at].name = n

\* And where it stores it.
PlaceOK(home, slot, ex) ==
    IF slot # 0 THEN ex.kind = "local" /\ ex.at = slot ELSE home.top /\ ex.kind = "global"

ClosureOK(c, home, bs, instr) ==
    /\ instr.code # <<>> /\ instr.code.name = instr.name
    /\ IF instr.name = NoName THEN instr.ex.kind = "none"
       ELSE PlaceOK(home, SlotAt(home.locals, bs, instr.name), instr.ex)
    /\ \A i \in 1..Len(instr.code.captures) :
         LET cap == instr.code.captures[i]
         IN  SourceOK(c, home, SlotAt(home.locals, bs, cap.name), cap.name, cap.source)

LoopOK(c, home, bs, instr) ==
    instr.name # NoName =>
        /\ instr.name \notin home.forwards /\ instr.ex.at \in 1..c.slots
        /\ \A n \in Names : home.locals[n] # instr.ex.at
        /\ \A k \in 1..Len(bs) : bs[k].slot # instr.ex.at

ExitOK(home, stack, instr) ==
    /\ stack # <<>>
    /\ instr.name # NoName =>
         /\ instr.ex.at = SlotAt(home.locals, Bs(stack), instr.name)
         /\ \E k \in 1..Len(stack) : stack[k].var = instr.name

\* An instruction where these loops are open.
InstrOK(c, home, stack, instr) ==
    /\ instr.op = "get" => /\ instr.name \in Names
                           /\ SourceOK(c, home, SlotAt(home.locals, Bs(stack), instr.name),
                                       instr.name, instr.ex)
    /\ instr.op = "put" => /\ instr.name \in Names
                           /\ PlaceOK(home, SlotAt(home.locals, Bs(stack), instr.name), instr.ex)
    /\ instr.op = "closure" => ClosureOK(c, home, Bs(stack), instr)
    /\ instr.op = "loop" => LoopOK(c, home, Bs(stack), instr)
    /\ instr.op \in {"break", "continue"} => ExitOK(home, stack, instr)

InitOK(c, home, p) ==
    \E n \in Initial(c) : /\ p[1] = home.locals[n] /\ p[2] \in 1..Len(c.captures)
                          /\ c.captures[p[2]].name = n

HeadOK(c, home) ==
    /\ c.name \notin home.forwards
    /\ \A n \in Names : /\ home.locals[n] # 0 <=> c.params[n] # 0 \/ n \in c.assigned
                        /\ c.params[n] # 0 => c.params[n] = home.locals[n]
                        /\ home.locals[n] # 0 => n \notin home.forwards
    /\ \A i \in 1..Len(c.captures) : c.captures[i].name \notin home.forwards
    /\ \A p \in c.inits : InitOK(c, home, p)

\* And the ones of these names get it.
Inits(c, home, S) == \A n \in S : \E i \in 1..Len(c.captures) : <<home.locals[n], i>> \in c.inits

BsOK(c, home, bs) ==
    /\ Apart(home.locals, bs, c.slots)
    /\ \A k \in 1..Len(bs) : bs[k].name \notin home.forwards

CodeOK(c, home, nest) ==
    /\ Nested(c.body, nest)
    /\ \A pc \in 1..Len(c.body) : InstrOK(c, home, nest[pc], c.body[pc])
    /\ \A pc \in 1..Len(nest) : BsOK(c, home, Bs(nest[pc]))
    /\ HeadOK(c, home)

\* The loops of a function being compiled.
OpenAt(sc, stack) ==
    /\ sc.bindings = Bs(stack)
    /\ Len(sc.loops) = Len(stack) /\ \A k \in 1..Len(stack) : sc.loops[k] = stack[k].var

ScopeOK(sc, F, nest) ==
    CodeOK(sc, Home(sc.top, sc.locals, F), nest) /\ OpenAt(sc, nest[Len(sc.body) + 1])

\* `d` is `c` with more captures or slots.
Extends(d, c) ==
    /\ d.name = c.name /\ d.slots >= c.slots /\ d.params = c.params /\ d.assigned = c.assigned
    /\ Len(d.captures) >= Len(c.captures)
    /\ \A i \in 1..Len(c.captures) : d.captures[i] = c.captures[i]

LEMMA SourceExtends ==
    ASSUME NEW c, NEW d, Extends(d, c), Len(c.captures) \in Nat, Len(d.captures) \in Nat,
           NEW home, NEW slot, NEW n, NEW ex, SourceOK(c, home, slot, n, ex)
    PROVE  SourceOK(d, home, slot, n, ex)
<1>1. \A i \in 1..Len(c.captures) : i \in 1..Len(d.captures) /\ d.captures[i] = c.captures[i]
  BY DEF Extends
<1> QED
  BY <1>1 DEF SourceOK, Extends

LEMMA InstrExtends ==
    ASSUME NEW c, NEW d, Extends(d, c), Len(c.captures) \in Nat, Len(d.captures) \in Nat,
           c.slots \in Nat, d.slots \in Nat,
           NEW home, NEW stack, NEW instr, InstrOK(c, home, stack, instr)
    PROVE  InstrOK(d, home, stack, instr)
<1>1. ASSUME instr.op = "get" PROVE InstrOK(d, home, stack, instr)
  BY <1>1, SourceExtends DEF InstrOK
<1>2. ASSUME instr.op = "closure" PROVE InstrOK(d, home, stack, instr)
  <2>1. ClosureOK(c, home, Bs(stack), instr)
    BY <1>2 DEF InstrOK
  <2>2. ClosureOK(d, home, Bs(stack), instr)
    BY <2>1, SourceExtends DEF ClosureOK
  <2> QED
    BY <1>2, <2>2 DEF InstrOK
<1>3. ASSUME instr.op = "loop" PROVE InstrOK(d, home, stack, instr)
  <2>1. LoopOK(c, home, Bs(stack), instr)
    BY <1>3 DEF InstrOK
  <2>2. \A i \in 1..c.slots : i \in 1..d.slots
    BY DEF Extends
  <2>3. LoopOK(d, home, Bs(stack), instr)
    BY <2>1, <2>2 DEF LoopOK
  <2> QED
    BY <1>3, <2>3 DEF InstrOK
<1> QED
  BY <1>1, <1>2, <1>3 DEF InstrOK

LEMMA BsExtends ==
    ASSUME NEW c, NEW d, Extends(d, c), c.slots \in Nat, d.slots \in Nat, NEW home, NEW bs,
           BsOK(c, home, bs)
    PROVE  BsOK(d, home, bs)
<1>1. /\ \A i \in 0..c.slots : i \in 0..d.slots
      /\ \A i \in 1..c.slots : i \in 1..d.slots
  BY DEF Extends
<1>2. Apart(home.locals, bs, c.slots)
  BY DEF BsOK
<1>3. home.locals \in [Names -> 0..d.slots]
  BY <1>1, <1>2 DEF Apart
<1>4. Apart(home.locals, bs, d.slots)
  BY <1>1, <1>2, <1>3 DEF Apart
<1> QED
  BY <1>4 DEF BsOK

\* The same code, after more has been captured.
LEMMA CodeExtends ==
    ASSUME NEW c, NEW d, Extends(d, c), Len(c.captures) \in Nat, Len(d.captures) \in Nat,
           c.slots \in Nat, d.slots \in Nat, d.body = c.body, NEW home, NEW nest,
           CodeOK(c, home, nest), HeadOK(d, home)
    PROVE  CodeOK(d, home, nest)
BY InstrExtends, BsExtends DEF CodeOK

\* `d` is `c` with one instruction more.
OneMore(I, c, d, home, nest, instr) ==
    /\ c.body \in Seq(I) /\ Extends(d, c)
    /\ Len(c.captures) \in Nat /\ Len(d.captures) \in Nat /\ c.slots \in Nat /\ d.slots \in Nat
    /\ CodeOK(c, home, nest) /\ HeadOK(d, home)
    /\ instr \in I /\ instr.name \in Ids /\ instr.ex.at \in Nat
    /\ d.body = Append(c.body, instr)
    /\ InstrOK(d, home, nest[Len(c.body) + 1], instr)
    /\ instr.op = "end" => nest[Len(c.body) + 1] # <<>>
    /\ BsOK(d, home, Bs(After(nest[Len(c.body) + 1], instr, Len(c.body) + 1)))

LEMMA CodeWithInstr ==
    ASSUME NEW I, NEW c, NEW d, NEW home, NEW nest, NEW instr,
           OneMore(I, c, d, home, nest, instr)
    PROVE  \E m : /\ CodeOK(d, home, m)
                  /\ m[Len(d.body) + 1] =
                       After(nest[Len(c.body) + 1], instr, Len(c.body) + 1)
<1> DEFINE L == Len(c.body) + 1
           new == After(nest[L], instr, L)
           m == Append(nest, new)
<1>0. /\ c.body \in Seq(I) /\ Extends(d, c)
      /\ Len(c.captures) \in Nat /\ Len(d.captures) \in Nat /\ c.slots \in Nat /\ d.slots \in Nat
      /\ CodeOK(c, home, nest) /\ HeadOK(d, home)
      /\ instr \in I /\ instr.name \in Ids /\ instr.ex.at \in Nat
      /\ d.body = Append(c.body, instr)
      /\ InstrOK(d, home, nest[L], instr)
      /\ instr.op = "end" => nest[L] # <<>>
      /\ BsOK(d, home, Bs(new))
  BY DEF OneMore
<1>1. /\ Nested(c.body, nest) /\ nest \in Seq(Stacks) /\ Len(nest) = L
      /\ Len(c.body) \in Nat /\ L \in Nat \ {0}
  BY <1>0 DEF CodeOK, Nested
<1>2. nest[L] \in Stacks
  BY <1>0, <1>1
<1>3. new \in Stacks
  BY <1>0, <1>1, <1>2, AfterType DEF AfterIs
<1>4. Nested(d.body, m)
  BY <1>0, <1>1, NestExtend
<1> HIDE DEF new
<1>5. /\ Len(m) = L + 1 /\ m[L + 1] = new
      /\ \A i \in 1..L : m[i] = nest[i]
  BY <1>1, <1>3, AppendProperties
<1>6. /\ Len(d.body) = L /\ d.body[L] = instr
      /\ \A i \in 1..Len(c.body) : d.body[i] = c.body[i]
  BY <1>0, <1>1, AppendProperties
<1> HIDE DEF m
<1>7. ASSUME NEW pc \in 1..Len(d.body) PROVE InstrOK(d, home, m[pc], d.body[pc])
  <2>1. CASE pc \in 1..Len(c.body)
    <3>1. InstrOK(c, home, nest[pc], c.body[pc])
      BY <1>0, <2>1 DEF CodeOK
    <3>2. m[pc] = nest[pc] /\ d.body[pc] = c.body[pc]
      BY <1>0, <1>1, <1>5, <1>6, <2>1
    <3> QED
      BY <1>0, <3>1, <3>2, InstrExtends
  <2>2. CASE pc = L
    <3>1. m[pc] = nest[L] /\ d.body[pc] = instr
      BY <1>0, <1>1, <1>5, <1>6, <2>2
    <3> QED
      BY <1>0, <3>1
  <2> QED
    BY <1>0, <1>1, <1>6, <2>1, <2>2
<1>8. ASSUME NEW pc \in 1..Len(m) PROVE BsOK(d, home, Bs(m[pc]))
  <2>1. CASE pc \in 1..L
    <3>1. BsOK(c, home, Bs(nest[pc])) /\ m[pc] = nest[pc]
      BY <1>0, <1>1, <1>5, <2>1 DEF CodeOK
    <3> QED
      BY <1>0, <3>1, BsExtends
  <2>2. CASE pc = L + 1
    BY <1>0, <1>5, <2>2 DEF new
  <2> QED
    BY <1>0, <1>1, <1>5, <2>1, <2>2
<1>9. CodeOK(d, home, m)
  BY <1>0, <1>4, <1>7, <1>8 DEF CodeOK
<1> QED
  BY <1>0, <1>5, <1>6, <1>9 DEF m, new

-----------------------------------------------------------------------------
(* The scopes being compiled *)

HomeOf(sc, F) == Home(sc.top, sc.locals, F)

\* A function made where `outer` is now captures what it should.
Linked(outer, inner, F) ==
    /\ inner.name # NoName => outer.top \/ inner.name \in outer.assigned
    /\ \A i \in 1..Len(inner.captures) :
         LET cap == inner.captures[i]
         IN  SourceOK(outer, HomeOf(outer, F), Lookup(outer, cap.name), cap.name, cap.source)

TopOK(sc) ==
    /\ sc.name = NoName /\ sc.assigned = {} /\ sc.captures = <<>> /\ sc.inits = {}
    /\ \A n \in Names : sc.params[n] = 0

ScopesOK(scs, F, G) ==
    /\ scs \in Seq(Scopes(G))
    /\ \A k \in 1..Len(scs) : \E nest : ScopeOK(scs[k], F, nest)
    /\ \A k \in 1..Len(scs) : scs[k].top <=> k = 1
    /\ \A k \in 2..Len(scs) : Linked(scs[k - 1], scs[k], F)
    /\ Len(scs) > 0 => TopOK(scs[1])

InitsOK(scs, F) ==
    \A k \in 1..Len(scs) : Inits(scs[k], HomeOf(scs[k], F), Initial(scs[k]))

\* `CapIndex` is the index of a capture of the name, if there is one.
LEMMA CapIndexOK ==
    ASSUME NEW sc, sc.captures \in Seq(Capture), NEW n
    PROVE  /\ CapIndex(sc, n) \in 0..Len(sc.captures)
           /\ CapIndex(sc, n) # 0 => sc.captures[CapIndex(sc, n)].name = n
           /\ \A k \in 1..Len(sc.captures) : sc.captures[k].name = n => CapIndex(sc, n) # 0
<1> DEFINE cs == {k \in 1..Len(sc.captures) : sc.captures[k].name = n}
<1>1. /\ Len(sc.captures) \in Nat /\ DOMAIN sc.captures = 1..Len(sc.captures)
      /\ cs \in SUBSET (1..Len(sc.captures))
  OBVIOUS
<1>2. CapIndex(sc, n) = IF cs = {} THEN 0 ELSE Max(cs)
  BY <1>1 DEF CapIndex
<1>3. cs # {} => Max(cs) \in cs
  <2> HIDE DEF cs
  <2> QED BY <1>1, MaxOf
<1>4. cs # {} => Max(cs) \in 1..Len(sc.captures) /\ sc.captures[Max(cs)].name = n
  BY <1>3
<1>5. \A k \in 1..Len(sc.captures) : sc.captures[k].name = n => cs # {}
  OBVIOUS
<1> HIDE DEF cs
<1>6. CASE cs = {}
  BY <1>1, <1>2, <1>5, <1>6
<1>7. CASE cs # {}
  <2>1. CapIndex(sc, n) = Max(cs)
    BY <1>2, <1>7
  <2>2. Max(cs) # 0 /\ Max(cs) \in 0..Len(sc.captures)
    BY <1>1, <1>4, <1>7
  <2> QED
    BY <1>4, <1>7, <2>1, <2>2
<1> QED
  BY <1>6, <1>7

LEMMA LookupType ==
    ASSUME NEW G, NEW sc \in Scopes(G), NEW n \in Names
    PROVE  /\ Lookup(sc, n) \in Nat
           /\ Lookup(sc, n) = SlotAt(sc.locals, sc.bindings, n)
<1>1. sc.bindings \in Seq(Binding) /\ sc.locals \in [Names -> Nat]
  BY DEF Scopes
<1>2. \A k \in 1..Len(sc.bindings) : sc.bindings[k].slot \in Nat
  <2>1. \A k \in 1..Len(sc.bindings) : sc.bindings[k] \in Binding
    BY <1>1
  <2> QED
    BY <2>1 DEF Binding
<1>3. Lookup(sc, n) = SlotAt(sc.locals, sc.bindings, n)
  BY <1>1, LookupIs
<1> QED
  BY <1>1, <1>2, <1>3, SlotAtFound

\* A scope that knows a name has a place to find it in.
LEMMA KnownSource ==
    ASSUME NEW G, NEW sc \in Scopes(G), NEW n \in Names, Knows(sc, n),
           NEW mode \in {"global", "init"}, mode = "init" => n \in Bound
    PROVE  /\ SourceIn(sc, n, mode) \in Places
           /\ SourceOK(sc, HomeOf(sc, forwards), Lookup(sc, n), n, SourceIn(sc, n, mode))
<1>1. Lookup(sc, n) \in Nat
  BY LookupType
<1>2. /\ CapIndex(sc, n) \in 0..Len(sc.captures)
      /\ CapIndex(sc, n) # 0 => sc.captures[CapIndex(sc, n)].name = n
      /\ sc.captures \in Seq(Capture) /\ Len(sc.captures) \in Nat
  <2>1. sc.captures \in Seq(Capture)
    BY DEF Scopes
  <2> QED
    BY <2>1, CapIndexOK
<1>3. HomeOf(sc, forwards).top = sc.top /\ HomeOf(sc, forwards).forwards = forwards
  BY DEF HomeOf, Home
<1>4. CASE Lookup(sc, n) # 0
  BY <1>1, <1>4 DEF SourceIn, SourceOK, Places, Kinds
<1>5. CASE Lookup(sc, n) = 0 /\ sc.name = n
  BY <1>5 DEF SourceIn, SourceOK, Places, Kinds
<1>6. CASE Lookup(sc, n) = 0 /\ sc.name # n /\ (sc.top \/ n \in forwards)
  BY <1>3, <1>6 DEF SourceIn, SourceOK, Places, Kinds
<1>7. CASE Lookup(sc, n) = 0 /\ sc.name # n /\ ~(sc.top \/ n \in forwards)
  <2>1. CapIndex(sc, n) # 0
    BY <1>7 DEF Knows
  <2> QED
    BY <1>2, <1>3, <1>7, <2>1 DEF SourceIn, SourceOK, Places, Kinds
<1> QED
  BY <1>4, <1>5, <1>6, <1>7

\* A scope with one capture more.
WithCapture(sc, cap) == [sc EXCEPT !.captures = Append(@, cap)]

LEMMA CaptureMore ==
    ASSUME NEW G, NEW sc \in Scopes(G), NEW cap \in Capture, NEW F
    PROVE  LET d == WithCapture(sc, cap)
           IN  /\ d \in Scopes(G) /\ Extends(d, sc) /\ HomeOf(d, F) = HomeOf(sc, F)
               /\ d.body = sc.body /\ d.bindings = sc.bindings /\ d.loops = sc.loops
               /\ d.inits = sc.inits /\ d.top = sc.top /\ d.locals = sc.locals
               /\ Initial(d) = Initial(sc)
               /\ Len(sc.captures) \in Nat /\ Len(d.captures) = Len(sc.captures) + 1
               /\ d.captures[Len(sc.captures) + 1] = cap
               /\ \A n : Lookup(d, n) = Lookup(sc, n)
<1> DEFINE d == WithCapture(sc, cap)
<1>1. sc.captures \in Seq(Capture) /\ Len(sc.captures) \in Nat
  BY DEF Scopes
<1>2. /\ d.captures = Append(sc.captures, cap) /\ d.body = sc.body
      /\ d.bindings = sc.bindings /\ d.loops = sc.loops /\ d.inits = sc.inits
      /\ d.top = sc.top /\ d.locals = sc.locals /\ d.name = sc.name /\ d.slots = sc.slots
      /\ d.params = sc.params /\ d.assigned = sc.assigned
  BY DEF WithCapture, Scopes
<1>3. /\ d.captures \in Seq(Capture) /\ Len(d.captures) = Len(sc.captures) + 1
      /\ d.captures[Len(sc.captures) + 1] = cap
      /\ \A i \in 1..Len(sc.captures) : d.captures[i] = sc.captures[i]
  BY <1>1, <1>2, AppendProperties
<1>4. d \in Scopes(G)
  <2>1. \A cs \in Seq(Capture) : [sc EXCEPT !.captures = cs] \in Scopes(G)
    BY DEF Scopes
  <2> QED
    BY <1>2, <1>3, <2>1 DEF WithCapture
<1>5. sc.slots \in Nat
  BY DEF Scopes
<1> HIDE DEF d
<1>6. Extends(d, sc)
  BY <1>1, <1>2, <1>3, <1>5 DEF Extends
<1>7. HomeOf(d, F) = HomeOf(sc, F) /\ Initial(d) = Initial(sc) /\ \A n : Lookup(d, n) = Lookup(sc, n)
  BY <1>2 DEF HomeOf, Initial, Lookup
<1> QED
  BY <1>1, <1>2, <1>3, <1>4, <1>6, <1>7 DEF d

LEMMA CaptureKeepsScope ==
    ASSUME NEW G, NEW sc \in Scopes(G), NEW cap \in Capture, NEW F, cap.name \notin F
    PROVE  LET d == WithCapture(sc, cap)
           IN  /\ \A nest : ScopeOK(sc, F, nest) => ScopeOK(d, F, nest)
               /\ \A S : Inits(sc, HomeOf(sc, F), S) => Inits(d, HomeOf(d, F), S)
<1> DEFINE d == WithCapture(sc, cap)
<1>1. /\ d \in Scopes(G) /\ Extends(d, sc) /\ HomeOf(d, F) = HomeOf(sc, F)
      /\ d.body = sc.body /\ d.bindings = sc.bindings /\ d.loops = sc.loops
      /\ d.inits = sc.inits /\ d.top = sc.top /\ d.locals = sc.locals
      /\ Initial(d) = Initial(sc)
      /\ Len(sc.captures) \in Nat /\ Len(d.captures) = Len(sc.captures) + 1
      /\ d.captures[Len(sc.captures) + 1] = cap
  BY CaptureMore
<1>2. sc.slots \in Nat /\ d.slots \in Nat
  BY <1>1 DEF Scopes
<1> HIDE DEF d
<1>3. \A i \in 1..Len(sc.captures) : i \in 1..Len(d.captures) /\ d.captures[i] = sc.captures[i]
  BY <1>1 DEF Extends
<1> DEFINE home == HomeOf(sc, F)
<1>4. ASSUME HeadOK(sc, home) PROVE HeadOK(d, home)
  <2>0. home.forwards = F
    BY DEF HomeOf, Home
  <2> HIDE DEF home
  <2>1. d.name = sc.name /\ d.params = sc.params /\ d.assigned = sc.assigned
    BY <1>1 DEF Extends
  <2>2. \A i \in 1..Len(d.captures) : d.captures[i].name \notin home.forwards
    <3>1. \A i \in 1..Len(d.captures) : i \in 1..Len(sc.captures) \/ i = Len(sc.captures) + 1
      BY <1>1
    <3> QED
      BY <1>1, <1>3, <1>4, <2>0, <3>1 DEF HeadOK
  <2>3. \A p \in d.inits : InitOK(d, home, p)
    <3>1. \A p \in sc.inits : InitOK(sc, home, p)
      BY <1>4 DEF HeadOK
    <3>2. ASSUME NEW p \in sc.inits PROVE InitOK(d, home, p)
      <4>1. PICK n \in Initial(sc) : /\ p[1] = home.locals[n] /\ p[2] \in 1..Len(sc.captures)
                                     /\ sc.captures[p[2]].name = n
        BY <3>1 DEF InitOK
      <4> QED
        BY <1>1, <1>3, <4>1 DEF InitOK
    <3> QED
      BY <1>1, <3>2
  <2> QED
    BY <1>4, <2>1, <2>2, <2>3 DEF HeadOK
<1>5. ASSUME NEW nest, ScopeOK(sc, F, nest) PROVE ScopeOK(d, F, nest)
  <2>1. CodeOK(sc, home, nest) /\ OpenAt(sc, nest[Len(sc.body) + 1])
    BY <1>5 DEF ScopeOK, HomeOf
  <2>2. HeadOK(d, home)
    BY <1>4, <2>1 DEF CodeOK
  <2> HIDE DEF home
  <2>3. CodeOK(d, home, nest)
    BY <1>1, <1>2, <2>1, <2>2, CodeExtends
  <2>4. OpenAt(d, nest[Len(d.body) + 1])
    BY <1>1, <2>1 DEF OpenAt
  <2> QED
    BY <1>1, <2>3, <2>4 DEF ScopeOK, HomeOf, home
<1>6. ASSUME NEW S, Inits(sc, HomeOf(sc, F), S) PROVE Inits(d, HomeOf(d, F), S)
  BY <1>1, <1>3, <1>6 DEF Inits
<1> QED
  BY <1>5, <1>6 DEF d

\* The inner of two scopes captures one name more.
LEMMA LinkMore ==
    ASSUME NEW G, NEW F, NEW outer \in Scopes(G), NEW inner \in Scopes(G),
           Linked(outer, inner, F), NEW out2 \in Scopes(G), Extends(out2, outer),
           HomeOf(out2, F) = HomeOf(outer, F), out2.top = outer.top,
           \A n : Lookup(out2, n) = Lookup(outer, n),
           NEW cap \in Capture,
           SourceOK(out2, HomeOf(out2, F), Lookup(out2, cap.name), cap.name, cap.source)
    PROVE  Linked(out2, WithCapture(inner, cap), F)
<1> DEFINE d == WithCapture(inner, cap)
<1>1. /\ Extends(d, inner) /\ Len(inner.captures) \in Nat
      /\ Len(d.captures) = Len(inner.captures) + 1
      /\ d.captures[Len(inner.captures) + 1] = cap
  BY CaptureMore
<1>2. /\ d.name = inner.name /\ out2.assigned = outer.assigned
      /\ \A i \in 1..Len(inner.captures) : d.captures[i] = inner.captures[i]
  BY <1>1 DEF Extends
<1>3. Len(outer.captures) \in Nat /\ Len(out2.captures) \in Nat
  BY DEF Scopes
<1> HIDE DEF d
<1>4. ASSUME NEW i \in 1..Len(d.captures)
      PROVE  LET c == d.captures[i]
             IN  SourceOK(out2, HomeOf(out2, F), Lookup(out2, c.name), c.name, c.source)
  <2>1. CASE i \in 1..Len(inner.captures)
    <3> DEFINE c == inner.captures[i]
    <3>1. SourceOK(outer, HomeOf(outer, F), Lookup(outer, c.name), c.name, c.source)
      BY <2>1 DEF Linked
    <3>2. SourceOK(out2, HomeOf(out2, F), Lookup(out2, c.name), c.name, c.source)
      BY <3>1, <1>3, SourceExtends
    <3> QED
      BY <1>2, <2>1, <3>2
  <2>2. CASE i = Len(inner.captures) + 1
    BY <1>1, <2>2
  <2> QED
    BY <1>1, <2>1, <2>2
<1> QED
  BY <1>2, <1>4 DEF Linked, d

\* `CaptureInto` leaves scopes that are right, the innermost with the capture.
LEMMA CaptureIntoOK ==
    ASSUME NEW G, NEW scs, ScopesOK(scs, forwards, G), Len(scs) > 1,
           NEW n \in Names, n \notin forwards,
           NEW mode \in {"global", "init"}, mode = "init" => n \in Bound
    PROVE  LET res == CaptureInto(scs, n, mode)
           IN  /\ ScopesOK(res, forwards, G) /\ Len(res) = Len(scs)
               /\ InitsOK(scs, forwards) => InitsOK(res, forwards)
               /\ \A k \in 1..Len(scs) - 1 :
                    Inits(scs[k], HomeOf(scs[k], forwards), Initial(scs[k]))
                      => Inits(res[k], HomeOf(res[k], forwards), Initial(res[k]))
               /\ \E cap \in Capture : cap.name = n /\ res[Len(scs)] = WithCapture(scs[Len(scs)], cap)
<1> DEFINE si == Len(scs)
           ks == {k \in 1..si - 1 : Knows(scs[k], n)}
           from == Max(ks)
           Source(i) == IF i = from + 1 THEN SourceIn(scs[from], n, mode)
                        ELSE [kind |-> "capture", at |-> Len(scs[i - 1].captures) + 1]
           cap(i) == [name |-> n, source |-> Source(i)]
           res == CaptureInto(scs, n, mode)
<1>1. /\ scs \in Seq(Scopes(G)) /\ si \in Nat /\ si > 1 /\ DOMAIN scs = 1..si
      /\ \A k \in 1..si : scs[k].top <=> k = 1
      /\ \A k \in 2..si : Linked(scs[k - 1], scs[k], forwards)
  BY DEF ScopesOK
<1>2. \A k \in 1..si : scs[k] \in Scopes(G)
  BY <1>1
<1>3. \A k \in 1..si : scs[k].captures \in Seq(Capture) /\ Len(scs[k].captures) \in Nat
  BY <1>2 DEF Scopes
<1>4. from \in ks /\ \A k \in ks : k <= from
  <2>1. 1 \in ks
    BY <1>1 DEF Knows
  <2>2. ks \in SUBSET (1..si - 1) /\ si - 1 \in Nat
    BY <1>1
  <2> HIDE DEF ks
  <2> QED BY <2>1, <2>2, MaxOf
<1>5. /\ from \in 1..si - 1 /\ from \in 1..si /\ Knows(scs[from], n)
      /\ \A k \in from + 1..si - 1 : ~Knows(scs[k], n)
  <2>1. from \in 1..si - 1 /\ Knows(scs[from], n)
    BY <1>4
  <2>2. ASSUME NEW k \in from + 1..si - 1, Knows(scs[k], n) PROVE FALSE
    <3>1. k \in 1..si - 1 /\ k > from
      BY <1>1, <2>1
    <3>2. k \in ks
      BY <2>2, <3>1
    <3> HIDE DEF from
    <3> QED
      BY <1>4, <2>1, <3>1, <3>2
  <2> QED
    BY <1>1, <2>1, <2>2
<1>6. res = [i \in 1..si |-> IF i <= from THEN scs[i] ELSE WithCapture(scs[i], cap(i))]
  BY DEF CaptureInto, WithCapture
<1> HIDE DEF ks, from, res
<1>7. /\ SourceIn(scs[from], n, mode) \in Places
      /\ SourceOK(scs[from], HomeOf(scs[from], forwards), Lookup(scs[from], n), n,
                  SourceIn(scs[from], n, mode))
  BY <1>2, <1>5, KnownSource
<1>8. \A i \in from + 1..si : cap(i) \in Capture /\ cap(i).name = n /\ cap(i).source = Source(i)
  <2>1. SUFFICES ASSUME NEW i \in from + 1..si PROVE Source(i) \in Places
    BY DEF Capture
  <2>2. i # from + 1 => i - 1 \in 1..si
    BY <1>1, <1>5
  <2>3. \A j \in Nat : [kind |-> "capture", at |-> j + 1] \in Places
    BY DEF Places, Kinds
  <2> QED
    BY <1>3, <1>7, <2>2, <2>3
<1>9. \A i \in 1..si : /\ i <= from => res[i] = scs[i]
                       /\ i > from => res[i] = WithCapture(scs[i], cap(i))
  BY <1>1, <1>5, <1>6
<1>10. \A i \in 1..si : i > from => i \in from + 1..si
  BY <1>1, <1>5
<1>11. \A i \in 1..si : i <= from \/ i > from
  BY <1>1, <1>5
<1> HIDE DEF cap
<1>12. ASSUME NEW i \in 1..si PROVE res[i] \in Scopes(G) /\ res[i].top = scs[i].top
  <2>1. CASE i <= from
    BY <1>2, <1>9, <2>1
  <2>2. CASE i > from
    <3>1. cap(i) \in Capture /\ scs[i] \in Scopes(G) /\ res[i] = WithCapture(scs[i], cap(i))
      BY <1>2, <1>8, <1>9, <1>10, <2>2
    <3>2. /\ WithCapture(scs[i], cap(i)) \in Scopes(G)
          /\ WithCapture(scs[i], cap(i)).top = scs[i].top
      BY <3>1, CaptureMore
    <3> QED
      BY <3>1, <3>2
  <2> QED
    BY <1>11, <2>1, <2>2
<1>13. res \in Seq(Scopes(G)) /\ Len(res) = si
  <2>1. DOMAIN res = 1..si /\ res = [i \in 1..si |-> res[i]]
    BY <1>6
  <2> QED
    BY <1>1, <1>12, <2>1
<1>14. ASSUME NEW k \in 1..si PROVE \E nest : ScopeOK(res[k], forwards, nest)
  <2>1. PICK nest : ScopeOK(scs[k], forwards, nest)
    BY DEF ScopesOK
  <2>2. CASE k <= from
    BY <1>9, <2>1, <2>2
  <2>3. CASE k > from
    <3>1. cap(k) \in Capture /\ cap(k).name \notin forwards
      BY <1>8, <1>10, <2>3
    <3>2. ScopeOK(WithCapture(scs[k], cap(k)), forwards, nest)
      BY <1>2, <2>1, <3>1, CaptureKeepsScope
    <3> QED
      BY <1>9, <2>3, <3>2
  <2> QED
    BY <1>11, <2>2, <2>3
<1>15. ASSUME NEW k \in 2..si PROVE Linked(res[k - 1], res[k], forwards)
  <2>1. Linked(scs[k - 1], scs[k], forwards)
    BY <1>1
  <2>2. k \in 1..si /\ k - 1 \in 1..si /\ k \in Nat
    BY <1>1
  <2>3. CASE k <= from
    <3>1. k - 1 <= from
      BY <1>5, <2>2, <2>3
    <3> QED
      BY <1>9, <2>1, <2>2, <2>3, <3>1
  <2>4. CASE k = from + 1
    <3>1. k > from /\ k - 1 <= from /\ k - 1 = from
      BY <1>5, <2>4
    <3>2. res[k - 1] = scs[from] /\ res[k] = WithCapture(scs[k], cap(k))
      BY <1>9, <2>2, <3>1
    <3>3. cap(k) \in Capture /\ cap(k).name = n /\ cap(k).source = SourceIn(scs[from], n, mode)
      BY <1>8, <1>10, <2>2, <2>4, <3>1
    <3>4. Extends(scs[from], scs[from])
      <4>1. Len(scs[from].captures) \in Nat /\ scs[from].slots \in Nat
        BY <1>2, <1>3, <1>5 DEF Scopes
      <4> QED
        BY <4>1 DEF Extends
    <3>5. Linked(scs[from], WithCapture(scs[k], cap(k)), forwards)
      BY <1>2, <1>5, <1>7, <2>1, <2>2, <3>1, <3>3, <3>4, LinkMore
    <3> QED
      BY <3>2, <3>5
  <2>5. CASE k > from + 1
    <3> DEFINE outer == scs[k - 1]
               out2 == WithCapture(outer, cap(k - 1))
    <3>1. k > from /\ k - 1 > from /\ k - 1 \in from + 1..si - 1 /\ k # from + 1
      BY <1>1, <1>5, <2>2, <2>5
    <3>2. res[k - 1] = out2 /\ res[k] = WithCapture(scs[k], cap(k))
      BY <1>9, <2>2, <3>1
    <3>3. /\ cap(k) \in Capture /\ cap(k).name = n
          /\ cap(k).source = [kind |-> "capture", at |-> Len(outer.captures) + 1]
          /\ cap(k - 1) \in Capture /\ cap(k - 1).name = n
      BY <1>8, <1>10, <2>2, <3>1
    <3>4. outer \in Scopes(G) /\ ~Knows(outer, n)
      BY <1>2, <1>5, <2>2, <3>1
    <3>8. out2 = WithCapture(outer, cap(k - 1))
      OBVIOUS
    <3> HIDE DEF outer, out2
    <3>5. /\ out2 \in Scopes(G) /\ Extends(out2, outer)
          /\ HomeOf(out2, forwards) = HomeOf(outer, forwards) /\ out2.top = outer.top
          /\ Len(outer.captures) \in Nat /\ Len(out2.captures) = Len(outer.captures) + 1
          /\ out2.captures[Len(outer.captures) + 1] = cap(k - 1)
          /\ \A m : Lookup(out2, m) = Lookup(outer, m)
      BY <3>3, <3>4, <3>8, CaptureMore
    <3>6. SourceOK(out2, HomeOf(out2, forwards), Lookup(out2, n), n, cap(k).source)
      <4>1. Lookup(out2, n) = 0 /\ outer.name # n /\ ~outer.top
        BY <3>4, <3>5 DEF Knows
      <4>2. out2.name = outer.name
        BY <3>5 DEF Extends
      <4>3. HomeOf(out2, forwards).top = out2.top /\ HomeOf(out2, forwards).forwards = forwards
        BY DEF HomeOf, Home
      <4>4. /\ cap(k).source.kind = "capture" /\ cap(k).source.at = Len(outer.captures) + 1
            /\ cap(k).source.at \in 1..Len(out2.captures)
        BY <3>3, <3>5
      <4> QED
        BY <3>3, <3>5, <4>1, <4>2, <4>3, <4>4 DEF SourceOK
    <3>7. Linked(out2, WithCapture(scs[k], cap(k)), forwards)
      <4>1. Linked(outer, scs[k], forwards) /\ scs[k] \in Scopes(G)
        BY <1>2, <2>1, <2>2 DEF outer
      <4> QED
        BY <3>3, <3>4, <3>5, <3>6, <4>1, LinkMore
    <3> QED
      BY <3>2, <3>7 DEF out2, outer
  <2> QED
    BY <1>5, <2>2, <2>3, <2>4, <2>5
<1>16. ScopesOK(res, forwards, G)
  <2>1. res[1] = scs[1] /\ TopOK(scs[1])
    BY <1>1, <1>5, <1>9 DEF ScopesOK
  <2> QED
    BY <1>1, <1>12, <1>13, <1>14, <1>15, <2>1 DEF ScopesOK
<1>17. ASSUME NEW k \in 1..si, Inits(scs[k], HomeOf(scs[k], forwards), Initial(scs[k]))
       PROVE  Inits(res[k], HomeOf(res[k], forwards), Initial(res[k]))
  <2>1. CASE k <= from
    BY <1>9, <1>17, <2>1
  <2>2. CASE k > from
    <3>1. cap(k) \in Capture /\ cap(k).name \notin forwards
      BY <1>8, <1>10, <2>2
    <3> DEFINE d == WithCapture(scs[k], cap(k))
    <3>2. Inits(d, HomeOf(d, forwards), Initial(scs[k]))
      BY <1>2, <1>17, <3>1, CaptureKeepsScope
    <3>3. Initial(d) = Initial(scs[k])
      BY <1>2, <3>1, CaptureMore
    <3> QED
      BY <1>9, <2>2, <3>2, <3>3
  <2> QED
    BY <1>11, <2>1, <2>2
<1>18. cap(si) \in Capture /\ cap(si).name = n /\ res[si] = WithCapture(scs[si], cap(si))
  <2>1. si \in 1..si /\ si > from
    BY <1>1, <1>5
  <2> QED
    BY <1>8, <1>9, <1>10, <2>1
<1>19. \A k \in 1..si - 1 : k \in 1..si
  BY <1>1
<1> QED
  BY <1>13, <1>16, <1>17, <1>18, <1>19 DEF InitsOK, res

-----------------------------------------------------------------------------
(* One instruction more *)

\* `d` is the function `sc` further on.
Onward(d, sc) ==
    /\ d.top = sc.top /\ d.name = sc.name /\ d.params = sc.params /\ d.assigned = sc.assigned
    /\ d.locals = sc.locals /\ d.captures = sc.captures /\ sc.inits \subseteq d.inits
    /\ d.slots >= sc.slots

Later(d, sc) == Onward(d, sc) /\ d.inits = sc.inits

LEMMA LaterKeeps ==
    ASSUME NEW G, NEW sc \in Scopes(G), NEW d \in Scopes(G), Onward(d, sc), NEW F
    PROVE  /\ Extends(d, sc) /\ HomeOf(d, F) = HomeOf(sc, F) /\ Initial(d) = Initial(sc)
           /\ Later(d, sc) /\ HeadOK(sc, HomeOf(sc, F)) => HeadOK(d, HomeOf(d, F))
           /\ \A S : Inits(sc, HomeOf(sc, F), S) => Inits(d, HomeOf(d, F), S)
<1>1. Len(sc.captures) \in Nat /\ sc.slots \in Nat
  BY DEF Scopes
<1>2. Extends(d, sc) /\ HomeOf(d, F) = HomeOf(sc, F) /\ Initial(d) = Initial(sc)
  BY <1>1 DEF Later, Onward, Extends, HomeOf, Initial
<1>3. ASSUME Later(d, sc), HeadOK(sc, HomeOf(sc, F)) PROVE HeadOK(d, HomeOf(d, F))
  <2>1. \A p : InitOK(sc, HomeOf(sc, F), p) => InitOK(d, HomeOf(d, F), p)
    BY <1>2, <1>3 DEF Later, Onward, InitOK
  <2> QED
    BY <1>2, <1>3, <2>1 DEF HeadOK, Later, Onward
<1>4. \A S : Inits(sc, HomeOf(sc, F), S) => Inits(d, HomeOf(d, F), S)
  BY <1>2 DEF Inits, Onward
<1> QED
  BY <1>2, <1>3, <1>4

LEMMA ScopeWithInstr ==
    ASSUME NEW G, NEW F, NEW sc \in Scopes(G), NEW nest, ScopeOK(sc, F, nest),
           NEW instr \in Instrs(G), NEW d \in Scopes(G), Later(d, sc),
           d.body = Append(sc.body, instr),
           InstrOK(d, HomeOf(sc, F), nest[Len(sc.body) + 1], instr),
           instr.op = "end" => nest[Len(sc.body) + 1] # <<>>,
           BsOK(d, HomeOf(sc, F), Bs(After(nest[Len(sc.body) + 1], instr, Len(sc.body) + 1))),
           OpenAt(d, After(nest[Len(sc.body) + 1], instr, Len(sc.body) + 1))
    PROVE  \E m : ScopeOK(d, F, m)
<1> DEFINE home == HomeOf(sc, F)
           new == After(nest[Len(sc.body) + 1], instr, Len(sc.body) + 1)
<1>1. CodeOK(sc, home, nest) /\ HeadOK(sc, home)
  BY DEF ScopeOK, CodeOK, HomeOf
<1>2. Extends(d, sc) /\ HomeOf(d, F) = home /\ HeadOK(d, home)
  BY <1>1, LaterKeeps DEF Later
<1>3. /\ sc.body \in Seq(Instrs(G)) /\ Len(sc.captures) \in Nat /\ Len(d.captures) \in Nat
      /\ sc.slots \in Nat /\ d.slots \in Nat
  BY DEF Scopes
<1>4. instr.name \in Ids /\ instr.ex.at \in Nat
  BY DEF Instrs, Places
<1>7. InstrOK(d, home, nest[Len(sc.body) + 1], instr) /\ BsOK(d, home, Bs(new))
  OBVIOUS
<1> HIDE DEF home
<1>5. PICK m : CodeOK(d, home, m) /\ m[Len(d.body) + 1] = new
  <2>1. OneMore(Instrs(G), sc, d, home, nest, instr)
    BY <1>1, <1>2, <1>3, <1>4, <1>7 DEF OneMore
  <2> QED
    BY <2>1, CodeWithInstr
<1>6. ScopeOK(d, F, m)
  BY <1>2, <1>5 DEF ScopeOK, HomeOf
<1> QED
  BY <1>6

\* The innermost function further on.
LEMMA LastLater ==
    ASSUME NEW G, NEW F, NEW scs, ScopesOK(scs, F, G), Len(scs) > 0,
           NEW d \in Scopes(G), NEW nest, ScopeOK(d, F, nest),
           \/ Later(d, scs[Len(scs)])
           \/ Onward(d, scs[Len(scs)]) /\ Len(scs) > 1
    PROVE  LET res == [scs EXCEPT ![Len(scs)] = d]
           IN  /\ ScopesOK(res, F, G) /\ Len(res) = Len(scs)
               /\ InitsOK(scs, F) => InitsOK(res, F)
<1> DEFINE si == Len(scs)
           res == [scs EXCEPT ![si] = d]
<1>1. /\ scs \in Seq(Scopes(G)) /\ si \in Nat /\ si \in 1..si
      /\ \A k \in 1..si : scs[k] \in Scopes(G)
      /\ \A k \in 1..si : \E m : ScopeOK(scs[k], F, m)
      /\ \A k \in 1..si : scs[k].top <=> k = 1
      /\ \A k \in 2..si : Linked(scs[k - 1], scs[k], F)
      /\ TopOK(scs[1])
  BY DEF ScopesOK
<1>2. /\ res \in Seq(Scopes(G)) /\ Len(res) = si
      /\ \A k \in 1..si : res[k] = IF k = si THEN d ELSE scs[k]
  BY <1>1, ExceptSeq
<1> HIDE DEF res
<1>3. d.top = scs[si].top /\ (si = 1 => TopOK(d)) /\ Onward(d, scs[si])
  BY <1>1 DEF Later, Onward, TopOK
<1>4. ASSUME NEW k \in 2..si PROVE Linked(res[k - 1], res[k], F)
  <2>1. Linked(scs[k - 1], scs[k], F) /\ k - 1 \in 1..si /\ k \in 1..si /\ k - 1 # si
    BY <1>1
  <2>2. res[k - 1] = scs[k - 1]
    BY <1>2, <2>1
  <2>3. CASE k = si
    <3>1. res[k] = d /\ d.captures = scs[k].captures /\ d.name = scs[k].name
      BY <1>2, <1>3, <2>1, <2>3 DEF Onward
    <3> QED
      BY <2>1, <2>2, <3>1 DEF Linked
  <2>4. CASE k # si
    BY <1>2, <2>1, <2>2, <2>4
  <2> QED
    BY <2>3, <2>4
<1>5. ScopesOK(res, F, G)
  <2>1. \A k \in 1..si : \E m : ScopeOK(res[k], F, m)
    BY <1>1, <1>2
  <2>2. \A k \in 1..si : res[k].top <=> k = 1
    BY <1>1, <1>2, <1>3
  <2>3. TopOK(res[1])
    BY <1>1, <1>2, <1>3
  <2> QED
    BY <1>2, <1>4, <2>1, <2>2, <2>3 DEF ScopesOK
<1>6. ASSUME InitsOK(scs, F) PROVE InitsOK(res, F)
  <2>1. ASSUME NEW k \in 1..si PROVE Inits(res[k], HomeOf(res[k], F), Initial(res[k]))
    <3>1. Inits(scs[k], HomeOf(scs[k], F), Initial(scs[k]))
      BY <1>6 DEF InitsOK
    <3>2. CASE k = si
      <4>1. Inits(d, HomeOf(d, F), Initial(scs[k])) /\ Initial(d) = Initial(scs[k])
        BY <1>1, <1>3, <3>1, <3>2, LaterKeeps
      <4> QED
        BY <1>2, <3>2, <4>1
    <3>3. CASE k # si
      BY <1>2, <3>1, <3>3
    <3> QED
      BY <3>2, <3>3
  <2> QED
    BY <1>2, <2>1 DEF InitsOK
<1> QED
  BY <1>2, <1>5, <1>6 DEF res

\* `Emit`, of an instruction that neither opens nor closes a loop.
LEMMA EmitOK ==
    ASSUME NEW G, NEW F, NEW scs, ScopesOK(scs, F, G), Len(scs) > 0,
           NEW instr \in Instrs(G), instr.op \notin {"loop", "end"},
           \A nest : ScopeOK(scs[Len(scs)], F, nest) =>
               InstrOK(scs[Len(scs)], HomeOf(scs[Len(scs)], F),
                       nest[Len(scs[Len(scs)].body) + 1], instr)
    PROVE  /\ ScopesOK(Emit(scs, instr), F, G) /\ Len(Emit(scs, instr)) = Len(scs)
           /\ InitsOK(scs, F) => InitsOK(Emit(scs, instr), F)
<1> DEFINE si == Len(scs)
           sc == scs[si]
           d == [sc EXCEPT !.body = Append(@, instr)]
<1>1. /\ scs \in Seq(Scopes(G)) /\ si \in 1..si
      /\ sc \in Scopes(G)
      /\ \E m : ScopeOK(sc, F, m)
  BY DEF ScopesOK
<1>2. PICK nest : ScopeOK(sc, F, nest)
  BY <1>1
<1>3. sc.body \in Seq(Instrs(G)) /\ Len(sc.body) \in Nat /\ sc.slots \in Nat
  BY <1>1 DEF Scopes
<1>4. d \in Scopes(G)
  <2>1. \A b \in Seq(Instrs(G)) : [sc EXCEPT !.body = b] \in Scopes(G)
    BY <1>1 DEF Scopes
  <2> QED
    BY <1>3, <2>1, AppendProperties
<1>5. /\ d.body = Append(sc.body, instr) /\ Later(d, sc)
      /\ d.bindings = sc.bindings /\ d.loops = sc.loops
  BY <1>1, <1>3 DEF Later, Onward, Scopes
<1> DEFINE stack == nest[Len(sc.body) + 1]
<1>6. /\ After(stack, instr, Len(sc.body) + 1) = stack
      /\ BsOK(sc, HomeOf(sc, F), Bs(stack)) /\ OpenAt(sc, stack)
      /\ InstrOK(sc, HomeOf(sc, F), stack, instr)
  <2>1. CodeOK(sc, HomeOf(sc, F), nest) /\ OpenAt(sc, stack)
    BY <1>2 DEF ScopeOK, HomeOf
  <2>2. Len(sc.body) + 1 \in 1..Len(nest)
    BY <1>3, <2>1 DEF CodeOK, Nested
  <2> QED
    BY <1>2, <2>1, <2>2 DEF CodeOK, After
<1>7. Emit(scs, instr) = [scs EXCEPT ![si] = d]
  BY DEF Emit
<1> HIDE DEF d, sc, stack
<1>8. /\ Extends(d, sc) /\ Len(sc.captures) \in Nat /\ Len(d.captures) \in Nat
      /\ sc.slots \in Nat /\ d.slots \in Nat
  <2>1. Len(sc.captures) \in Nat /\ Len(d.captures) \in Nat /\ d.slots \in Nat
    <3>1. sc.captures \in Seq(Capture) /\ d.captures \in Seq(Capture) /\ d.slots \in Nat
      BY ONLY <1>1, <1>4 DEF Scopes
    <3> QED
      BY ONLY <3>1, LenProperties
  <2> QED
    BY <1>1, <1>3, <1>4, <1>5, <2>1, LaterKeeps DEF Later
<1>9. InstrOK(d, HomeOf(sc, F), stack, instr) /\ BsOK(d, HomeOf(sc, F), Bs(stack)) /\ OpenAt(d, stack)
  BY <1>5, <1>6, <1>8, InstrExtends, BsExtends DEF OpenAt
<1>10. PICK m : ScopeOK(d, F, m)
  <2>1. instr.op # "end"
    OBVIOUS
  <2> QED
    BY <1>1, <1>2, <1>4, <1>5, <1>6, <1>9, <2>1, ScopeWithInstr DEF stack
<1>11. d \in Scopes(G) /\ Later(d, scs[Len(scs)])
  BY <1>4, <1>5 DEF sc
<1>12. LET res == [scs EXCEPT ![Len(scs)] = d]
       IN  /\ ScopesOK(res, F, G) /\ Len(res) = Len(scs)
           /\ InitsOK(scs, F) => InitsOK(res, F)
  BY <1>10, <1>11, LastLater
<1> QED
  BY <1>7, <1>12

\* Where a function being compiled is.
Reached(sc, F, stack) ==
    /\ stack \in Stacks /\ Bs(stack) = sc.bindings
    /\ BsOK(sc, HomeOf(sc, F), sc.bindings) /\ HeadOK(sc, HomeOf(sc, F))
    /\ Len(sc.loops) = Len(stack)
    /\ \A k \in 1..Len(stack) : sc.loops[k] = stack[k].var
    /\ \A n \in Names : SlotAt(sc.locals, Bs(stack), n) = Lookup(sc, n)

LEMMA AtTheEnd ==
    ASSUME NEW G, NEW F, NEW sc \in Scopes(G), NEW nest, ScopeOK(sc, F, nest)
    PROVE  Reached(sc, F, nest[Len(sc.body) + 1])
<1> DEFINE stack == nest[Len(sc.body) + 1]
<1>1. CodeOK(sc, HomeOf(sc, F), nest) /\ OpenAt(sc, stack)
  BY DEF ScopeOK, HomeOf
<1>2. Len(sc.body) \in Nat
  BY DEF Scopes
<1>3. Len(sc.body) + 1 \in 1..Len(nest) /\ nest \in Seq(Stacks)
  BY <1>1, <1>2 DEF CodeOK, Nested
<1>4. stack \in Stacks /\ BsOK(sc, HomeOf(sc, F), Bs(stack)) /\ HeadOK(sc, HomeOf(sc, F))
  BY <1>1, <1>3 DEF CodeOK
<1> HIDE DEF stack
<1> QED
  BY <1>1, <1>4, LookupType DEF OpenAt, Reached, stack

LEMMA HomeParts ==
    ASSUME NEW sc, NEW F
    PROVE  /\ HomeOf(sc, F).top = sc.top /\ HomeOf(sc, F).locals = sc.locals
           /\ HomeOf(sc, F).forwards = F
BY DEF HomeOf, Home

\* `Resolve`: the innermost function finds the name.
LEMMA ResolveOK ==
    ASSUME NEW G, NEW scs, ScopesOK(scs, forwards, G), Len(scs) > 0, NEW n \in Names
    PROVE  LET r == Resolve(scs, n)
               sc == r.scopes[Len(scs)]
           IN  /\ ScopesOK(r.scopes, forwards, G) /\ Len(r.scopes) = Len(scs)
               /\ InitsOK(scs, forwards) => InitsOK(r.scopes, forwards)
               /\ r.ex \in Places
               /\ SourceOK(sc, HomeOf(sc, forwards), Lookup(sc, n), n, r.ex)
<1> DEFINE si == Len(scs)
           sc == scs[si]
           r == Resolve(scs, n)
           captured == IF CapIndex(sc, n) # 0 THEN scs ELSE CaptureInto(scs, n, "global")
<1>0. si = 1 \/ si > 1
  <2>1. si \in Nat /\ si > 0
    BY DEF ScopesOK
  <2> HIDE DEF si
  <2> QED
    BY <2>1
<1>1. /\ si \in Nat /\ si \in 1..si /\ sc \in Scopes(G) /\ (si = 1 => sc.top)
  <2>1. /\ scs \in Seq(Scopes(G)) /\ si \in Nat /\ si \in 1..si
        /\ \A k \in 1..si : scs[k].top <=> k = 1
    BY DEF ScopesOK
  <2> QED
    BY <2>1
<1>2. CASE Lookup(sc, n) # 0 \/ sc.name = n \/ sc.top \/ n \in forwards
  <2>1. r.scopes = scs /\ r.ex = SourceIn(sc, n, "global")
    BY <1>2 DEF Resolve
  <2>2. Knows(sc, n)
    BY <1>2 DEF Knows
  <2>3. /\ SourceIn(sc, n, "global") \in Places
        /\ SourceOK(sc, HomeOf(sc, forwards), Lookup(sc, n), n, SourceIn(sc, n, "global"))
    BY <1>1, <2>2, KnownSource
  <2> QED
    BY <2>1, <2>3
<1>3. CASE ~(Lookup(sc, n) # 0 \/ sc.name = n \/ sc.top \/ n \in forwards)
  <2> DEFINE last == captured[si]
  <2>1. /\ ScopesOK(captured, forwards, G) /\ Len(captured) = si
        /\ InitsOK(scs, forwards) => InitsOK(captured, forwards)
        /\ last \in Scopes(G) /\ last.name = sc.name /\ last.top = sc.top
        /\ Lookup(last, n) = Lookup(sc, n)
        /\ CapIndex(last, n) # 0
    <3>1. CASE CapIndex(sc, n) # 0
      BY <1>1, <3>1
    <3>2. CASE CapIndex(sc, n) = 0
      <4>0. si # 1
        BY <1>1, <1>3
      <4>1. si > 1
        BY ONLY <1>0, <4>0
      <4>2. /\ ScopesOK(captured, forwards, G) /\ Len(captured) = Len(scs)
            /\ InitsOK(scs, forwards) => InitsOK(captured, forwards)
            /\ \E cap \in Capture : cap.name = n /\ last = WithCapture(sc, cap)
        BY <1>3, <3>2, <4>1, CaptureIntoOK
      <4>3. PICK cap \in Capture : cap.name = n /\ last = WithCapture(sc, cap)
        BY <4>2
      <4> HIDE DEF last, captured, sc
      <4>4. /\ last \in Scopes(G) /\ Extends(last, sc) /\ last.top = sc.top
            /\ Len(sc.captures) \in Nat /\ Len(last.captures) = Len(sc.captures) + 1
            /\ last.captures[Len(sc.captures) + 1] = cap
            /\ Lookup(last, n) = Lookup(sc, n)
        BY <1>1, <4>3, CaptureMore
      <4>5. CapIndex(last, n) # 0
        <5>1. last.captures \in Seq(Capture) /\ Len(sc.captures) + 1 \in 1..Len(last.captures)
          BY <4>4 DEF Scopes
        <5> QED
          BY <4>3, <4>4, <5>1, CapIndexOK
      <4> QED
        BY <4>2, <4>4, <4>5 DEF Extends
    <3>3. CapIndex(sc, n) = 0 \/ CapIndex(sc, n) # 0
      OBVIOUS
    <3> QED
      BY <3>1, <3>2, <3>3
  <2>2. r.scopes = captured /\ r.ex = [kind |-> "capture", at |-> CapIndex(last, n)]
    BY <1>3 DEF Resolve
  <2> HIDE DEF last, captured
  <2>3. /\ last.captures \in Seq(Capture) /\ CapIndex(last, n) \in 1..Len(last.captures)
        /\ last.captures[CapIndex(last, n)].name = n
    <3>1. last.captures \in Seq(Capture) /\ Len(last.captures) \in Nat
      BY <2>1 DEF Scopes
    <3> QED
      BY <2>1, <3>1, CapIndexOK
  <2>4. r.ex \in Places /\ r.ex.kind = "capture" /\ r.ex.at = CapIndex(last, n)
    BY <2>2, <2>3 DEF Places, Kinds
  <2>5. SourceOK(last, HomeOf(last, forwards), Lookup(last, n), n, r.ex)
    BY <1>3, <2>1, <2>3, <2>4, HomeParts DEF SourceOK
  <2>6. last = r.scopes[si]
    BY <2>2 DEF last
  <2> QED
    BY <2>1, <2>2, <2>4, <2>5, <2>6
<1> QED
  BY <1>2, <1>3

\* `Place`: what the function assigns has a slot.
LEMMA PlaceIsOK ==
    ASSUME NEW G, NEW F, NEW sc \in Scopes(G), NEW nest, ScopeOK(sc, F, nest), NEW n \in Names,
           sc.top \/ n \in sc.assigned \/ sc.params[n] # 0
    PROVE  Place(sc, n) \in Places /\ PlaceOK(HomeOf(sc, F), Lookup(sc, n), Place(sc, n))
<1>1. /\ Lookup(sc, n) \in Nat
      /\ Lookup(sc, n) = SlotAt(sc.locals, sc.bindings, n)
  BY LookupType
<1>2. Place(sc, n) \in Places
  BY <1>1 DEF Place, Places, Kinds
<1>3. BsOK(sc, HomeOf(sc, F), sc.bindings) /\ HeadOK(sc, HomeOf(sc, F))
  BY AtTheEnd DEF Reached
<1>4. ASSUME Lookup(sc, n) = 0 PROVE sc.top
  <2>1. sc.locals[n] # 0 <=> sc.params[n] # 0 \/ n \in sc.assigned
    BY <1>3, HomeParts DEF HeadOK
  <2>2. sc.bindings \in Seq(Binding)
    BY DEF Scopes
  <2>3. \A k \in 1..Len(sc.bindings) : sc.bindings[k].slot # 0
    <3>1. \A k \in 1..Len(sc.bindings) : sc.bindings[k].slot \in 1..sc.slots
      BY <1>3 DEF BsOK, Apart
    <3> QED
      BY <3>1
  <2>4. sc.locals[n] = 0
    <3>1. \/ SlotAt(sc.locals, sc.bindings, n) = sc.locals[n]
          \/ \E k \in 1..Len(sc.bindings) : SlotAt(sc.locals, sc.bindings, n) = sc.bindings[k].slot
      BY <2>2, SlotAtFound
    <3> QED
      BY <1>1, <1>4, <2>3, <3>1
  <2> QED
    BY <2>1, <2>4
<1> QED
  BY <1>2, <1>4, HomeParts DEF Place, PlaceOK

\* Reads, writes and exits.
LEMMA ReadOK ==
    ASSUME NEW G, ScopesOK(scopes, forwards, G), InitsOK(scopes, forwards), NEW n \in Names, Read(n)
    PROVE  ScopesOK(scopes', forwards, G) /\ InitsOK(scopes', forwards)
<1>1. scopes \in Seq(Scopes(G)) /\ Len(scopes) > 0
  BY DEF ScopesOK, Read
<1> DEFINE r == Resolve(scopes, n)
           scs == r.scopes
           sc == scs[Len(scopes)]
           instr == Instr("get", n, r.ex, <<>>)
<1>2. /\ ScopesOK(scs, forwards, G) /\ Len(scs) = Len(scopes) /\ InitsOK(scs, forwards)
      /\ r.ex \in Places
      /\ SourceOK(sc, HomeOf(sc, forwards), Lookup(sc, n), n, r.ex)
  BY <1>1, ResolveOK
<1>3. scopes' = Emit(scs, instr)
  BY DEF Read
<1>4. /\ instr \in Instrs(G) /\ instr.op = "get" /\ instr.name = n /\ instr.ex = r.ex
  BY <1>2 DEF Instr, Instrs, Ops, Ids
<1> HIDE DEF r, instr
<1>5. sc \in Scopes(G) /\ Len(scs) \in 1..Len(scs)
  BY <1>1, <1>2 DEF ScopesOK
<1> HIDE DEF scs, sc
<1>6. ASSUME NEW nest, ScopeOK(sc, forwards, nest)
      PROVE  InstrOK(sc, HomeOf(sc, forwards), nest[Len(sc.body) + 1], instr)
  <2>1. SlotAt(sc.locals, Bs(nest[Len(sc.body) + 1]), n) = Lookup(sc, n)
    BY <1>5, <1>6, AtTheEnd DEF Reached
  <2> QED
    BY <1>2, <1>4, <2>1, HomeParts DEF InstrOK
<1>7. sc = scs[Len(scs)] /\ Len(scs) > 0
  BY <1>1, <1>2 DEF sc
<1> QED
  BY <1>2, <1>3, <1>4, <1>6, <1>7, EmitOK

LEMMA WriteOK ==
    ASSUME NEW G, ScopesOK(scopes, forwards, G), InitsOK(scopes, forwards), NEW n \in Names, Write(n)
    PROVE  ScopesOK(scopes', forwards, G) /\ InitsOK(scopes', forwards)
<1> DEFINE sc == scopes[Len(scopes)]
           instr == Instr("put", n, Place(sc, n), <<>>)
<1>1. /\ scopes \in Seq(Scopes(G)) /\ Len(scopes) > 0 /\ Len(scopes) \in 1..Len(scopes)
      /\ sc \in Scopes(G) /\ \E nest : ScopeOK(sc, forwards, nest)
  BY DEF ScopesOK, Write
<1>2. /\ scopes' = Emit(scopes, instr)
      /\ sc.top \/ n \in sc.assigned \/ sc.params[n] # 0
  BY DEF Write
<1>3. Place(sc, n) \in Places /\ PlaceOK(HomeOf(sc, forwards), Lookup(sc, n), Place(sc, n))
  BY <1>1, <1>2, PlaceIsOK
<1>4. /\ instr \in Instrs(G) /\ instr.op = "put" /\ instr.name = n /\ instr.ex = Place(sc, n)
  BY <1>3 DEF Instr, Instrs, Ops, Ids
<1> HIDE DEF instr, sc
<1>6. ASSUME NEW nest, ScopeOK(sc, forwards, nest)
      PROVE  InstrOK(sc, HomeOf(sc, forwards), nest[Len(sc.body) + 1], instr)
  <2>1. SlotAt(sc.locals, Bs(nest[Len(sc.body) + 1]), n) = Lookup(sc, n)
    BY <1>1, <1>6, AtTheEnd DEF Reached
  <2> QED
    BY <1>3, <1>4, <2>1, HomeParts DEF InstrOK
<1>7. instr.op \notin {"loop", "end"}
  BY <1>4
<1> QED
  BY <1>1, <1>2, <1>4, <1>6, <1>7, EmitOK DEF sc

LEMMA ExitIsOK ==
    ASSUME NEW G, ScopesOK(scopes, forwards, G), InitsOK(scopes, forwards),
           NEW kind \in {"break", "continue"}, NEW label \in Ids, Exit(kind, label)
    PROVE  ScopesOK(scopes', forwards, G) /\ InitsOK(scopes', forwards)
<1> DEFINE sc == scopes[Len(scopes)]
           place == IF label = NoName THEN NoPlace ELSE [kind |-> "local", at |-> Lookup(sc, label)]
           instr == Instr(kind, label, place, <<>>)
<1>1. /\ scopes \in Seq(Scopes(G)) /\ Len(scopes) > 0 /\ Len(scopes) \in 1..Len(scopes)
      /\ sc \in Scopes(G)
  BY DEF ScopesOK, Exit
<1>2. /\ scopes' = Emit(scopes, instr) /\ sc.loops # <<>>
      /\ label = NoName \/ \E k \in DOMAIN sc.loops : sc.loops[k] = label
  BY DEF Exit
<1>3. place \in Places /\ (label # NoName => place.at = Lookup(sc, label))
  <2>1. CASE label = NoName
    BY <2>1 DEF Places, Kinds, NoPlace
  <2>2. CASE label # NoName
    <3>1. Lookup(sc, label) \in Nat
      BY <1>1, <2>2, LookupType DEF Ids
    <3> QED
      BY <2>2, <3>1 DEF Places, Kinds
  <2> QED
    BY <2>1, <2>2
<1> HIDE DEF place
<1>4. /\ instr \in Instrs(G) /\ instr.op = kind /\ instr.name = label /\ instr.ex = place
  BY <1>3 DEF Instr, Instrs, Ops
<1> HIDE DEF instr, sc
<1>5. sc.loops \in Seq(Ids) /\ DOMAIN sc.loops = 1..Len(sc.loops)
  BY <1>1 DEF Scopes
<1>6. ASSUME NEW nest, ScopeOK(sc, forwards, nest)
      PROVE  InstrOK(sc, HomeOf(sc, forwards), nest[Len(sc.body) + 1], instr)
  <2> DEFINE stack == nest[Len(sc.body) + 1]
  <2>0. Reached(sc, forwards, stack)
    BY <1>1, <1>6, AtTheEnd
  <2> HIDE DEF stack
  <2>1. /\ \A n \in Names : SlotAt(sc.locals, Bs(stack), n) = Lookup(sc, n)
        /\ Len(sc.loops) = Len(stack) /\ \A k \in 1..Len(stack) : sc.loops[k] = stack[k].var
        /\ stack \in Stacks
    BY <2>0 DEF Reached
  <2>2. stack # <<>>
    <3>1. Len(sc.loops) # 0
      BY <1>2, <1>5
    <3> QED
      BY <2>1, <3>1, EmptySeq
  <2>3. label # NoName => /\ \E k \in 1..Len(stack) : stack[k].var = label
                          /\ place.at = SlotAt(sc.locals, Bs(stack), label)
    BY <1>2, <1>3, <1>5, <2>1 DEF Ids
  <2>4. ExitOK(HomeOf(sc, forwards), stack, instr)
    BY <1>4, <2>2, <2>3, HomeParts DEF ExitOK
  <2> QED
    BY <1>4, <2>4 DEF InstrOK, stack
<1>7. instr.op \notin {"loop", "end"}
  BY <1>4
<1> QED
  BY <1>1, <1>2, <1>4, <1>6, <1>7, EmitOK DEF sc

\* A binding more, in a slot of its own, and one less.
BindsApart(locals, bs, b, high) ==
    /\ Apart(locals, bs, high) /\ b.slot = high + 1 => Apart(locals, Append(bs, b), high + 1)
    /\ Apart(locals, Append(bs, b), high) => Apart(locals, bs, high)

LEMMA BindApart ==
    ASSUME NEW locals, NEW bs \in Seq(Binding), NEW high \in Nat, NEW b \in Binding
    PROVE  BindsApart(locals, bs, b, high)
<1> DEFINE t == Append(bs, b)
           L == Len(bs)
<1>1. /\ L \in Nat /\ Len(t) = L + 1 /\ t[L + 1] = b
      /\ \A k \in 1..L : t[k] = bs[k]
  BY AppendProperties
<1> HIDE DEF t, L
<1>2. ASSUME Apart(locals, bs, high), b.slot = high + 1 PROVE Apart(locals, t, high + 1)
  <2>1. \A i \in 0..high : i \in 0..high + 1 /\ i # high + 1
    OBVIOUS
  <2>2. locals \in [Names -> 0..high + 1] /\ \A n \in Names : locals[n] # high + 1
    BY <1>2, <2>1 DEF Apart
  <2>3. \A k \in 1..L : /\ t[k].slot \in 1..high /\ \A n \in Names : locals[n] # t[k].slot
                        /\ \A i \in 1..L : t[i].slot = t[k].slot => i = k
    BY <1>1, <1>2 DEF Apart, L
  <2>4. \A k \in 1..L : t[k].slot \in 1..high + 1 /\ t[k].slot # high + 1
    BY <2>3
  <2>5. \A k \in 1..L + 1 : k \in 1..L \/ k = L + 1
    BY <1>1
  <2>6. t[L + 1].slot = high + 1 /\ high + 1 \in 1..high + 1
    BY <1>1, <1>2
  <2>7. \A k \in 1..L + 1 : /\ t[k].slot \in 1..high + 1
                            /\ \A n \in Names : locals[n] # t[k].slot
                            /\ \A i \in 1..L + 1 : t[i].slot = t[k].slot => i = k
    BY <2>2, <2>3, <2>4, <2>5, <2>6
  <2>8. \A n, m \in Names : locals[n] # 0 /\ locals[n] = locals[m] => n = m
    BY <1>2 DEF Apart
  <2> QED
    BY <1>1, <2>2, <2>7, <2>8 DEF Apart
<1>3. ASSUME Apart(locals, t, high) PROVE Apart(locals, bs, high)
  <2>1. \A k \in 1..L : k \in 1..L + 1
    BY <1>1
  <2> QED
    BY <1>1, <1>3, <2>1 DEF Apart, L
<1> QED
  BY <1>2, <1>3 DEF t, BindsApart

LEMMA BeginLoopOK ==
    ASSUME NEW G, ScopesOK(scopes, forwards, G), InitsOK(scopes, forwards),
           NEW n \in Ids, n \notin forwards, BeginLoop(n)
    PROVE  ScopesOK(scopes', forwards, G) /\ InitsOK(scopes', forwards)
<1> DEFINE si == Len(scopes)
           sc == scopes[si]
           bs == sc.bindings
           b == [name |-> n, slot |-> sc.slots + 1]
           inside == [(IF n = NoName THEN sc ELSE Bind(sc, n)) EXCEPT !.loops = Append(@, n)]
           place == IF n = NoName THEN NoPlace ELSE [kind |-> "local", at |-> inside.slots]
           instr == Instr("loop", n, place, <<>>)
           d == [inside EXCEPT !.body = Append(@, instr)]
           home == HomeOf(sc, forwards)
<1>1. /\ scopes \in Seq(Scopes(G)) /\ si > 0 /\ si \in 1..si
      /\ sc \in Scopes(G) /\ \E nest : ScopeOK(sc, forwards, nest)
  BY DEF ScopesOK, BeginLoop
<1>2. PICK nest : ScopeOK(sc, forwards, nest)
  BY <1>1
<1>3. scopes' = [scopes EXCEPT ![si] = d]
  <2>1. scopes' = Emit([scopes EXCEPT ![si] = inside], instr)
    BY DEF BeginLoop
  <2> DEFINE mid == [scopes EXCEPT ![si] = inside]
  <2>2. Len(mid) = si /\ mid[si] = inside /\ DOMAIN mid = DOMAIN scopes
    BY <1>1
  <2>3. Emit(mid, instr) = [mid EXCEPT ![si] = d]
    <3> HIDE DEF inside, instr, mid
    <3> QED BY <2>2 DEF Emit
  <2>4. [mid EXCEPT ![si] = d] = [scopes EXCEPT ![si] = d]
    <3> HIDE DEF inside, instr, d
    <3> QED BY <1>1
  <2> QED
    BY <2>1, <2>3, <2>4
<1>4. /\ bs \in Seq(Binding) /\ sc.slots \in Nat /\ sc.loops \in Seq(Ids) /\ sc.body \in Seq(Instrs(G))
  BY <1>1 DEF Scopes
<1>5. n # NoName => b \in Binding /\ b.slot = sc.slots + 1 /\ b.name = n
  BY <1>4 DEF Binding, Ids
<1>6. /\ n = NoName => inside.slots = sc.slots /\ inside.bindings = bs
      /\ n # NoName => inside.slots = sc.slots + 1 /\ inside.bindings = Append(bs, b)
      /\ inside.loops = Append(sc.loops, n) /\ inside.body = sc.body
      /\ inside.top = sc.top /\ inside.name = sc.name /\ inside.params = sc.params
      /\ inside.assigned = sc.assigned /\ inside.locals = sc.locals
      /\ inside.captures = sc.captures /\ inside.inits = sc.inits
  BY <1>1 DEF Bind, Scopes
<1>7. inside \in Scopes(G)
  <2>1. \A ls \in Seq(Ids) : [sc EXCEPT !.loops = ls] \in Scopes(G)
    BY <1>1 DEF Scopes
  <2>2. \A ls \in Seq(Ids), k \in Nat, c \in Seq(Binding) :
          [[sc EXCEPT !.slots = k, !.bindings = c] EXCEPT !.loops = ls] \in Scopes(G)
    BY <1>1 DEF Scopes
  <2>3. Append(sc.loops, n) \in Seq(Ids)
    BY <1>4, AppendProperties
  <2>4. CASE n = NoName
    BY <2>1, <2>3, <2>4
  <2>5. CASE n # NoName
    <3>1. Append(bs, b) \in Seq(Binding) /\ sc.slots + 1 \in Nat
      BY <1>4, <1>5, <2>5, AppendProperties
    <3>2. inside = [[sc EXCEPT !.slots = sc.slots + 1, !.bindings = Append(bs, b)]
                      EXCEPT !.loops = Append(sc.loops, n)]
      BY <1>1, <2>5 DEF Bind, Scopes
    <3> HIDE DEF inside, b, bs
    <3> QED
      BY <2>2, <2>3, <3>1, <3>2
  <2> QED
    BY <2>4, <2>5
<1> HIDE DEF inside
<1>8. /\ place \in Places
      /\ n # NoName => place.at = sc.slots + 1
  BY <1>4, <1>6 DEF Places, Kinds, NoPlace
<1> HIDE DEF place
<1>9. instr \in Instrs(G) /\ instr.op = "loop" /\ instr.name = n /\ instr.ex = place
  BY <1>8 DEF Instr, Instrs, Ops
<1> HIDE DEF instr
<1>10. /\ d \in Scopes(G) /\ d.body = Append(sc.body, instr) /\ d.loops = Append(sc.loops, n)
       /\ d.slots = inside.slots /\ d.bindings = inside.bindings
       /\ d.top = sc.top /\ d.name = sc.name /\ d.params = sc.params
       /\ d.assigned = sc.assigned /\ d.locals = sc.locals
       /\ d.captures = sc.captures /\ d.inits = sc.inits
  <2>1. \A c \in Seq(Instrs(G)) : [inside EXCEPT !.body = c] \in Scopes(G)
    BY <1>7 DEF Scopes
  <2>2. d \in Scopes(G)
    BY <1>4, <1>6, <1>9, <2>1, AppendProperties
  <2> QED
    BY <1>6, <1>7, <2>2 DEF Scopes
<1> HIDE DEF d
<1>11. Later(d, sc) /\ sc.slots <= d.slots /\ d.slots \in Nat
  BY <1>4, <1>6, <1>10 DEF Later, Onward
<1> DEFINE stack == nest[Len(sc.body) + 1]
           l == Opening(stack, instr, Len(sc.body) + 1)
           new == After(stack, instr, Len(sc.body) + 1)
<1>12. Reached(sc, forwards, stack)
  BY <1>1, <1>2, AtTheEnd
<1> HIDE DEF stack, sc
<1>13. stack \in Stacks /\ Bs(stack) = bs /\ BsOK(sc, home, bs)
       /\ Len(sc.loops) = Len(stack) /\ \A k \in 1..Len(stack) : sc.loops[k] = stack[k].var
  BY <1>12 DEF Reached
<1>14. l \in OpenLoop /\ l.bs = Bs(stack) /\ l.var = n /\ l.slot = place.at
  <2>1. Len(sc.body) + 1 \in Nat \ {0}
    BY <1>4
  <2> HIDE DEF bs
  <2> QED
    BY <1>4, <1>8, <1>9, <1>13, <2>1 DEF Opening, OpenLoop, Places
<1>15. new = Append(stack, l)
  BY <1>9 DEF After
<1> HIDE DEF l, new
<1>16. /\ new \in Stacks /\ Bs(new) = Inside(l) /\ Len(new) = Len(stack) + 1
       /\ new[Len(stack) + 1] = l
       /\ \A k \in 1..Len(stack) : new[k] = stack[k]
  <2>1. stack \in Stacks /\ l \in OpenLoop /\ l.bs = Bs(stack)
    BY <1>13, <1>14
  <2> QED
    BY <1>15, <2>1, PushStack
<1>17. Bs(new) = d.bindings
  <2>1. CASE n = NoName
    <3>1. Inside(l) = bs
      BY ONLY <1>13, <1>14, <2>1 DEF Inside
    <3> HIDE DEF bs, b, home
    <3> QED
      BY <1>6, <1>10, <1>16, <2>1, <3>1
  <2>2. CASE n # NoName
    <3>1. Inside(l) = Append(bs, b)
      BY ONLY <1>8, <1>13, <1>14, <2>2 DEF Inside
    <3> HIDE DEF bs, b, home
    <3> QED
      BY <1>6, <1>10, <1>16, <2>2, <3>1
  <2> QED
    BY <2>1, <2>2
<1>18. OpenAt(d, new)
  <2> DEFINE K == Len(stack)
  <2>1. /\ Len(d.loops) = K + 1 /\ d.loops[K + 1] = n
        /\ \A k \in 1..K : d.loops[k] = sc.loops[k]
    BY <1>4, <1>10, <1>13, AppendProperties
  <2>2. K \in Nat
    BY <1>13 DEF Stacks
  <2>3. /\ Len(new) = K + 1 /\ new[K + 1].var = n
        /\ \A k \in 1..K : new[k].var = sc.loops[k]
    BY <1>13, <1>14, <1>16
  <2> HIDE DEF K
  <2>4. \A k \in 1..K + 1 : k \in 1..K \/ k = K + 1
    BY <2>2
  <2>5. \A k \in 1..K + 1 : d.loops[k] = new[k].var
    BY <2>1, <2>3, <2>4
  <2> QED
    BY <1>17, <2>1, <2>3, <2>5 DEF OpenAt
<1>19. home.locals = sc.locals /\ home.forwards = forwards
  BY HomeParts
<1> HIDE DEF home
<1>20. Apart(home.locals, bs, sc.slots) /\ \A k \in 1..Len(bs) : bs[k].name \notin forwards
  BY <1>13, <1>19 DEF BsOK
<1>21. LoopOK(d, home, bs, instr)
  <2>1. ASSUME n # NoName
        PROVE  /\ place.at \in 1..d.slots
               /\ \A m \in Names : home.locals[m] # place.at
               /\ \A k \in 1..Len(bs) : bs[k].slot # place.at
    <3>1. place.at = sc.slots + 1 /\ d.slots = sc.slots + 1
      BY <1>6, <1>8, <1>10, <2>1
    <3>2. /\ \A m \in Names : home.locals[m] \in 0..sc.slots
          /\ \A k \in 1..Len(bs) : bs[k].slot \in 1..sc.slots
      BY <1>20 DEF Apart
    <3> QED
      BY <1>4, <3>1, <3>2
  <2> QED
    BY <1>9, <1>19, <2>1 DEF LoopOK
<1>22. BsOK(d, home, d.bindings)
  <2>1. CASE n = NoName
    BY <1>6, <1>10, <1>19, <1>20, <2>1 DEF BsOK
  <2>2. CASE n # NoName
    <3>1. d.bindings = Append(bs, b) /\ d.slots = sc.slots + 1
      BY <1>6, <1>10, <2>2
    <3>2. b \in Binding /\ b.slot = sc.slots + 1 /\ b.name = n
      BY <1>5, <2>2
    <3> HIDE DEF b, bs
    <3>3. Apart(home.locals, d.bindings, d.slots)
      <4>1. BindsApart(home.locals, bs, b, sc.slots)
        BY <1>4, <3>2, BindApart
      <4> QED
        BY <1>4, <1>20, <3>1, <3>2, <4>1 DEF BindsApart
    <3> DEFINE K == Len(bs)
    <3>4. /\ K \in Nat /\ Len(d.bindings) = K + 1 /\ d.bindings[K + 1] = b
          /\ \A k \in 1..K : d.bindings[k] = bs[k]
      BY <1>4, <3>1, <3>2, AppendProperties
    <3>5. \A k \in 1..K : bs[k].name \notin forwards
      BY <1>20
    <3> HIDE DEF K
    <3>6. \A k \in 1..K + 1 : d.bindings[k].name \notin forwards
      <4>1. \A k \in 1..K + 1 : k \in 1..K \/ k = K + 1
        BY <3>4
      <4> QED
        BY <3>2, <3>4, <3>5, <4>1
    <3> QED
      BY <1>19, <3>3, <3>4, <3>6 DEF BsOK
  <2> QED
    BY <2>1, <2>2
<1>23. InstrOK(d, home, stack, instr)
  BY <1>9, <1>13, <1>21 DEF InstrOK
<1>24. PICK m : ScopeOK(d, forwards, m)
  <2>1. instr.op # "end"
    BY <1>9
  <2>2. BsOK(d, HomeOf(sc, forwards), Bs(new)) /\ InstrOK(d, HomeOf(sc, forwards), stack, instr)
    BY <1>17, <1>22, <1>23 DEF home
  <2>3. sc \in Scopes(G)
    BY <1>1
  <2> QED
    BY <1>2, <1>9, <1>10, <1>11, <1>18, <2>1, <2>2, <2>3, ScopeWithInstr DEF new, stack
<1>25. LET res == [scopes EXCEPT ![Len(scopes)] = d]
       IN  /\ ScopesOK(res, forwards, G) /\ Len(res) = Len(scopes)
           /\ InitsOK(scopes, forwards) => InitsOK(res, forwards)
  BY <1>1, <1>10, <1>11, <1>24, LastLater DEF sc
<1> QED
  BY <1>3, <1>25

LEMMA EndLoopOK ==
    ASSUME NEW G, ScopesOK(scopes, forwards, G), InitsOK(scopes, forwards), EndLoop
    PROVE  ScopesOK(scopes', forwards, G) /\ InitsOK(scopes', forwards)
<1> DEFINE si == Len(scopes)
           sc == scopes[si]
           bs == sc.bindings
           n == sc.loops[Len(sc.loops)]
           after == [(IF n = NoName THEN sc ELSE Unbind(sc)) EXCEPT
                       !.loops = SubSeq(@, 1, Len(@) - 1)]
           instr == Instr("end", n, NoPlace, <<>>)
           d == [after EXCEPT !.body = Append(@, instr)]
           home == HomeOf(sc, forwards)
<1>1. /\ scopes \in Seq(Scopes(G)) /\ si > 0 /\ si \in 1..si
      /\ sc \in Scopes(G) /\ \E nest : ScopeOK(sc, forwards, nest)
  BY DEF ScopesOK, EndLoop
<1>2. PICK nest : ScopeOK(sc, forwards, nest)
  BY <1>1
<1>3. scopes' = [scopes EXCEPT ![si] = d] /\ sc.loops # <<>>
  <2>1. scopes' = Emit([scopes EXCEPT ![si] = after], instr) /\ sc.loops # <<>>
    BY DEF EndLoop
  <2> DEFINE mid == [scopes EXCEPT ![si] = after]
  <2>2. Len(mid) = si /\ mid[si] = after /\ DOMAIN mid = DOMAIN scopes
    BY <1>1
  <2>3. Emit(mid, instr) = [mid EXCEPT ![si] = d]
    <3> HIDE DEF after, instr, mid
    <3> QED BY <2>2 DEF Emit
  <2>4. [mid EXCEPT ![si] = d] = [scopes EXCEPT ![si] = d]
    <3> HIDE DEF after, instr, d
    <3> QED BY <1>1
  <2> QED
    BY <2>1, <2>3, <2>4
<1>4. /\ bs \in Seq(Binding) /\ sc.slots \in Nat /\ sc.loops \in Seq(Ids) /\ sc.body \in Seq(Instrs(G))
  BY <1>1 DEF Scopes
<1> DEFINE K == Len(sc.loops)
           stack == nest[Len(sc.body) + 1]
<1>5. K \in Nat \ {0} /\ K \in 1..K /\ n \in Ids /\ K - 1 \in 0..K
  BY <1>3, <1>4
<1>6. Reached(sc, forwards, stack)
  BY <1>1, <1>2, AtTheEnd
<1> DEFINE new == SubSeq(stack, 1, K - 1)
           l == stack[K]
<1>7. /\ new \in Stacks /\ Len(new) = K - 1 /\ \A k \in 1..K - 1 : new[k] = stack[k]
      /\ Bs(new) = l.bs /\ stack # <<>> /\ Len(stack) = K
      /\ \A k \in 1..K : sc.loops[k] = stack[k].var
  <2> HIDE DEF stack, sc
  <2>1. stack \in Stacks /\ Len(stack) = K /\ \A k \in 1..K : sc.loops[k] = stack[k].var
    BY <1>6 DEF Reached
  <2> HIDE DEF K
  <2>2. K - 1 \in 0..Len(stack) /\ K - 1 < Len(stack) /\ K - 1 + 1 = K
    BY <1>5, <2>1
  <2>3. /\ new \in Stacks /\ Len(new) = K - 1 /\ \A k \in 1..K - 1 : new[k] = stack[k]
        /\ Bs(new) = l.bs
    BY <2>1, <2>2, PrefixOfStack
  <2>4. stack # <<>>
    BY <1>5, <2>1, EmptySeq
  <2> QED
    BY <2>1, <2>3, <2>4
<1>8. bs = Inside(l) /\ l.var = n /\ l.bs \in Seq(Binding) /\ l.slot \in Nat
  <2>1. stack \in Stacks /\ Bs(stack) = bs
    BY <1>6 DEF Reached
  <2>2. l \in OpenLoop
    <3>1. K \in 1..Len(stack)
      BY <1>5, <1>7
    <3> HIDE DEF stack
    <3> QED BY <2>1, <3>1, BsType
  <2>3. bs = Inside(l)
    BY <1>7, <2>1 DEF Bs
  <2> QED
    BY <1>5, <1>7, <2>2, <2>3 DEF OpenLoop
<1> HIDE DEF new, l, stack
<1>9. /\ n = NoName => bs = l.bs
      /\ n # NoName => /\ bs = Append(l.bs, [name |-> n, slot |-> l.slot])
                       /\ [name |-> n, slot |-> l.slot] \in Binding
                       /\ SubSeq(bs, 1, Len(bs) - 1) = l.bs
  <2>1. n # NoName => n \in Names
    BY <1>5 DEF Ids
  <2> DEFINE b == [name |-> n, slot |-> l.slot]
  <2>2. n # NoName => b \in Binding
    BY <1>8, <2>1 DEF Binding
  <2>3. n = NoName => bs = l.bs
    BY <1>8 DEF Inside
  <2>4. n # NoName => bs = Append(l.bs, b)
    BY <1>8 DEF Inside
  <2> HIDE DEF b, bs, n
  <2>5. ASSUME n # NoName PROVE SubSeq(bs, 1, Len(bs) - 1) = l.bs
    <3>1. Len(bs) = Len(l.bs) + 1 /\ Len(l.bs) \in Nat
      BY <1>8, <2>2, <2>4, <2>5, AppendProperties
    <3>2. Len(bs) - 1 = Len(l.bs)
      BY <3>1
    <3> QED
      BY <1>8, <2>2, <2>4, <2>5, <3>2, AppendProperties
  <2> QED
    BY <2>2, <2>3, <2>4, <2>5 DEF b
<1>10. /\ after.slots = sc.slots /\ after.bindings = l.bs
       /\ after.loops = SubSeq(sc.loops, 1, K - 1) /\ after.body = sc.body
       /\ after.top = sc.top /\ after.name = sc.name /\ after.params = sc.params
       /\ after.assigned = sc.assigned /\ after.locals = sc.locals
       /\ after.captures = sc.captures /\ after.inits = sc.inits
  BY <1>1, <1>9 DEF Unbind, Scopes
<1>11. SubSeq(sc.loops, 1, K - 1) \in Seq(Ids) /\ Len(SubSeq(sc.loops, 1, K - 1)) = K - 1
       /\ \A k \in 1..K - 1 : SubSeq(sc.loops, 1, K - 1)[k] = sc.loops[k]
  <2> HIDE DEF sc
  <2>1. \A k \in 1..K - 1 : sc.loops[k] \in Ids
    BY <1>4, <1>5
  <2> QED
    BY <1>4, <1>5, <2>1, SubSeqProperties
<1>12. after \in Scopes(G)
  <2>1. \A ls \in Seq(Ids) : [sc EXCEPT !.loops = ls] \in Scopes(G)
    BY <1>1 DEF Scopes
  <2>2. \A ls \in Seq(Ids), c \in Seq(Binding) :
          [[sc EXCEPT !.bindings = c] EXCEPT !.loops = ls] \in Scopes(G)
    BY <1>1 DEF Scopes
  <2>4. CASE n = NoName
    BY <2>1, <2>4, <1>11
  <2>5. CASE n # NoName
    <3>1. after = [[sc EXCEPT !.bindings = l.bs] EXCEPT !.loops = SubSeq(sc.loops, 1, K - 1)]
      BY <1>1, <1>9, <2>5 DEF Unbind, Scopes
    <3> HIDE DEF after, bs
    <3> QED
      BY <2>2, <3>1, <1>8, <1>11
  <2> QED
    BY <2>4, <2>5
<1> HIDE DEF after
<1>13. instr \in Instrs(G) /\ instr.op = "end" /\ instr.name = n
  BY <1>5 DEF Instr, Instrs, Ops, NoPlace, Places, Kinds
<1> HIDE DEF instr
<1>14. /\ d \in Scopes(G) /\ d.body = Append(sc.body, instr)
       /\ d.loops = SubSeq(sc.loops, 1, K - 1)
       /\ d.slots = sc.slots /\ d.bindings = l.bs
       /\ d.top = sc.top /\ d.name = sc.name /\ d.params = sc.params
       /\ d.assigned = sc.assigned /\ d.locals = sc.locals
       /\ d.captures = sc.captures /\ d.inits = sc.inits
  <2>1. \A c \in Seq(Instrs(G)) : [after EXCEPT !.body = c] \in Scopes(G)
    BY <1>12 DEF Scopes
  <2>2. d \in Scopes(G)
    BY <1>4, <1>10, <1>13, <2>1, AppendProperties
  <2> QED
    BY <1>10, <1>12, <2>2 DEF Scopes
<1> HIDE DEF d
<1>15. Later(d, sc)
  BY <1>4, <1>14 DEF Later, Onward
<1>16. After(stack, instr, Len(sc.body) + 1) = new
  BY <1>7, <1>13 DEF After, new
<1>17. OpenAt(d, new)
  <2> HIDE DEF K
  <2>1. \A k \in 1..K - 1 : k \in 1..K
    BY <1>5
  <2> QED
    BY <1>7, <1>11, <1>14, <2>1 DEF OpenAt
<1>18. BsOK(d, home, Bs(new))
  <2>0. home.locals = sc.locals /\ home.forwards = forwards
    BY HomeParts
  <2> HIDE DEF home
  <2>1. Apart(home.locals, bs, sc.slots) /\ \A k \in 1..Len(bs) : bs[k].name \notin forwards
    BY <1>6, <2>0 DEF Reached, BsOK, home
  <2>2. CASE n = NoName
    <3>1. Bs(new) = bs
      BY <1>7, <1>9, <2>2
    <3> HIDE DEF bs
    <3> QED
      BY <2>0, <2>1, <3>1, <1>14 DEF BsOK
  <2>3. CASE n # NoName
    <3> DEFINE b == [name |-> n, slot |-> l.slot]
    <3>1. bs = Append(l.bs, b) /\ b \in Binding
      BY <1>9, <2>3
    <3> HIDE DEF b, bs, n
    <3>2. Apart(home.locals, l.bs, sc.slots)
      <4>1. BindsApart(home.locals, l.bs, b, sc.slots)
        BY <1>4, <1>8, <3>1, BindApart
      <4> QED
        BY <2>1, <3>1, <4>1 DEF BindsApart
    <3> DEFINE J == Len(l.bs)
    <3>3. J \in Nat /\ Len(bs) = J + 1 /\ \A k \in 1..J : bs[k] = l.bs[k]
      BY <1>8, <3>1, AppendProperties
    <3> HIDE DEF J
    <3>4. \A k \in 1..J : k \in 1..J + 1
      BY <3>3
    <3>5. \A k \in 1..J : l.bs[k].name \notin forwards
      BY <2>1, <3>3, <3>4
    <3> QED
      BY <1>7, <1>14, <2>0, <3>2, <3>5 DEF BsOK, J
  <2> QED
    BY <2>2, <2>3
<1>19. InstrOK(d, home, stack, instr)
  BY <1>13 DEF InstrOK
<1>20. PICK m : ScopeOK(d, forwards, m)
  <2>1. BsOK(d, HomeOf(sc, forwards), Bs(new)) /\ InstrOK(d, HomeOf(sc, forwards), stack, instr)
    BY <1>18, <1>19
  <2>2. stack # <<>>
    BY <1>7
  <2> HIDE DEF sc, K
  <2> QED
    BY <1>1, <1>2, <1>13, <1>14, <1>15, <1>16, <1>17, <2>1, <2>2, ScopeWithInstr DEF stack
<1>21. LET res == [scopes EXCEPT ![Len(scopes)] = d]
       IN  /\ ScopesOK(res, forwards, G) /\ Len(res) = Len(scopes)
           /\ InitsOK(scopes, forwards) => InitsOK(res, forwards)
  BY <1>1, <1>14, <1>15, <1>20, LastLater
<1> QED
  BY <1>3, <1>21

-----------------------------------------------------------------------------
(* Functions that are compiled *)

\* The code of a function, all of it.
GoodCode(c, F) ==
    \E locals, nest : LET home == Home(FALSE, locals, F)
                      IN  /\ CodeOK(c, home, nest) /\ nest[Len(c.body) + 1] = <<>>
                          /\ Inits(c, home, Initial(c))

\* Code with the functions in it.
Closed(G, F) == G \subseteq Codes(G) /\ \A c \in G : GoodCode(c, F)

LEMMA SeqMore ==
    ASSUME NEW A, NEW B, A \subseteq B
    PROVE  Seq(A) \subseteq Seq(B)
<1>1. SUFFICES ASSUME NEW s \in Seq(A) PROVE s \in Seq(B)
  OBVIOUS
<1>2. /\ Len(s) \in Nat /\ DOMAIN s = 1..Len(s) /\ s = [i \in 1..Len(s) |-> s[i]]
      /\ \A i \in 1..Len(s) : s[i] \in B
  OBVIOUS
<1> QED
  BY <1>2

LEMMA MoreCode ==
    ASSUME NEW G, NEW H, G \subseteq H
    PROVE  /\ Instrs(G) \subseteq Instrs(H) /\ Codes(G) \subseteq Codes(H)
           /\ Scopes(G) \subseteq Scopes(H)
           /\ \A scs, F : ScopesOK(scs, F, G) => ScopesOK(scs, F, H)
<1>1. Instrs(G) \subseteq Instrs(H)
  BY DEF Instrs
<1>2. Seq(Instrs(G)) \subseteq Seq(Instrs(H))
  BY <1>1, SeqMore
<1>3. Codes(G) \subseteq Codes(H)
  BY <1>2 DEF Codes
<1>4. Scopes(G) \subseteq Scopes(H)
  BY <1>2 DEF Scopes
<1>5. Seq(Scopes(G)) \subseteq Seq(Scopes(H))
  BY <1>4, SeqMore
<1> QED
  BY <1>1, <1>3, <1>4, <1>5 DEF ScopesOK

\* The scopes without the innermost.
LEMMA OuterOK ==
    ASSUME NEW G, NEW F, NEW scs, ScopesOK(scs, F, G), InitsOK(scs, F), Len(scs) > 1
    PROVE  LET outer == SubSeq(scs, 1, Len(scs) - 1)
           IN  /\ ScopesOK(outer, F, G) /\ InitsOK(outer, F)
               /\ Len(outer) = Len(scs) - 1 /\ Len(outer) > 0
               /\ outer[Len(outer)] = scs[Len(scs) - 1]
<1> DEFINE L == Len(scs)
           outer == SubSeq(scs, 1, L - 1)
<1>1. /\ scs \in Seq(Scopes(G)) /\ L \in Nat /\ L > 1
      /\ \A k \in 1..L : scs[k] \in Scopes(G)
      /\ \A k \in 1..L : \E nest : ScopeOK(scs[k], F, nest)
      /\ \A k \in 1..L : scs[k].top <=> k = 1
      /\ \A k \in 2..L : Linked(scs[k - 1], scs[k], F)
      /\ TopOK(scs[1])
      /\ \A k \in 1..L : Inits(scs[k], HomeOf(scs[k], F), Initial(scs[k]))
  BY DEF ScopesOK, InitsOK
<1> HIDE DEF L
<1>2. /\ L - 1 \in Nat /\ L - 1 > 0 /\ 1 \in 1..L - 1 /\ L - 1 \in 1..L - 1
      /\ \A k \in 1..L - 1 : k \in 1..L
      /\ \A k \in 2..L - 1 : k \in 2..L /\ k \in 1..L - 1 /\ k - 1 \in 1..L - 1
  BY <1>1
<1>3. /\ outer \in Seq(Scopes(G)) /\ Len(outer) = L - 1
      /\ \A k \in 1..L - 1 : outer[k] = scs[k]
  BY <1>1, <1>2, SubSeqProperties
<1> HIDE DEF outer
<1>4. ScopesOK(outer, F, G)
  <2>1. \A k \in 1..L - 1 : \E nest : ScopeOK(outer[k], F, nest)
    BY <1>1, <1>2, <1>3
  <2>2. \A k \in 1..L - 1 : outer[k].top <=> k = 1
    <3>1. SUFFICES ASSUME NEW k \in 1..L - 1 PROVE outer[k].top <=> k = 1
      OBVIOUS
    <3>2. outer[k] = scs[k] /\ k \in 1..L
      BY <1>2, <1>3
    <3>3. scs[k].top <=> k = 1
      BY <1>1, <3>2
    <3> QED
      BY <3>2, <3>3
  <2>3. \A k \in 2..L - 1 : Linked(outer[k - 1], outer[k], F)
    BY <1>1, <1>2, <1>3
  <2>4. TopOK(outer[1])
    BY <1>1, <1>2, <1>3
  <2> QED
    BY <1>3, <2>1, <2>2, <2>3, <2>4 DEF ScopesOK
<1>5. InitsOK(outer, F)
  BY <1>1, <1>2, <1>3 DEF InitsOK
<1> QED
  BY <1>2, <1>3, <1>4, <1>5 DEF outer, L

\* The code of a scope at its end.
LEMMA CodeOfScope ==
    ASSUME NEW G, NEW F, NEW sc \in Scopes(G), NEW nest, ScopeOK(sc, F, nest), sc.loops = <<>>,
           NEW c \in Codes(G), c.body = sc.body, c.slots = sc.slots, c.captures = sc.captures,
           c.name = sc.name, c.params = sc.params, c.assigned = sc.assigned, c.inits = sc.inits
    PROVE  /\ CodeOK(c, HomeOf(sc, F), nest) /\ nest[Len(c.body) + 1] = <<>>
           /\ Inits(sc, HomeOf(sc, F), Initial(sc)) => Inits(c, HomeOf(sc, F), Initial(c))
<1> DEFINE home == HomeOf(sc, F)
           stack == nest[Len(sc.body) + 1]
<1>1. CodeOK(sc, home, nest)
  BY DEF ScopeOK, HomeOf
<1> HIDE DEF home
<1>2. /\ Len(sc.captures) \in Nat /\ sc.slots \in Nat
  BY DEF Scopes
<1>3. Extends(c, sc) /\ Initial(c) = Initial(sc)
  BY <1>2 DEF Extends, Initial
<1>4. HeadOK(c, home)
  <2>1. HeadOK(sc, home)
    BY <1>1 DEF CodeOK
  <2>2. \A p : InitOK(sc, home, p) => InitOK(c, home, p)
    BY <1>3 DEF InitOK
  <2> QED
    BY <2>1, <2>2 DEF HeadOK
<1>5. CodeOK(c, home, nest)
  BY <1>1, <1>2, <1>3, <1>4, CodeExtends
<1>6. stack = <<>>
  <2>1. Reached(sc, F, stack)
    BY AtTheEnd
  <2> HIDE DEF stack
  <2>2. stack \in Seq(OpenLoop) /\ Len(stack) = Len(<<>>)
    BY <2>1 DEF Reached, Stacks
  <2> QED
    BY <2>2, EmptySeq
<1>7. Inits(sc, home, Initial(sc)) => Inits(c, home, Initial(c))
  BY <1>3 DEF Inits
<1> QED
  BY <1>5, <1>6, <1>7 DEF home

\* The function is code, and is made where the function around it is.
LEMMA EndFunctionOK ==
    ASSUME NEW G, ScopesOK(scopes, forwards, G), InitsOK(scopes, forwards),
           Closed(G, forwards), EndFunction
    PROVE  \E H : /\ G \subseteq H /\ Closed(H, forwards)
                  /\ ScopesOK(scopes', forwards, H) /\ InitsOK(scopes', forwards)
<1> DEFINE si == Len(scopes)
           sc == scopes[si]
           outer == SubSeq(scopes, 1, si - 1)
           around == outer[Len(outer)]
           code == [name |-> sc.name, params |-> sc.params, assigned |-> sc.assigned,
                    slots |-> sc.slots, inits |-> sc.inits, captures |-> sc.captures,
                    body |-> sc.body]
           to == IF sc.name = NoName THEN NoPlace ELSE Place(around, sc.name)
           instr == Instr("closure", sc.name, to, code)
           H == G \union {code}
<1>1. si > 1 /\ sc.loops = <<>> /\ scopes' = Emit(outer, instr)
  BY DEF EndFunction
<1>2. /\ scopes \in Seq(Scopes(G)) /\ si \in 1..si /\ si \in 2..si
      /\ sc \in Scopes(G) /\ \E nest : ScopeOK(sc, forwards, nest)
      /\ ~sc.top /\ Linked(scopes[si - 1], sc, forwards)
      /\ Inits(sc, HomeOf(sc, forwards), Initial(sc))
  <2>1. scopes \in Seq(Scopes(G)) /\ si \in 1..si /\ si \in 2..si /\ si # 1
    BY <1>1 DEF ScopesOK
  <2>2. sc.top <=> si = 1
    BY <2>1 DEF ScopesOK
  <2>3. ~sc.top
    BY <2>1, <2>2
  <2> QED
    BY <2>1, <2>3 DEF ScopesOK, InitsOK
<1>3. PICK nest : ScopeOK(sc, forwards, nest)
  BY <1>2
<1>4. /\ ScopesOK(outer, forwards, G) /\ InitsOK(outer, forwards)
      /\ Len(outer) > 0 /\ around = scopes[si - 1]
  BY <1>1, OuterOK
<1> HIDE DEF outer, around
<1>5. code \in Codes(G)
  BY <1>2 DEF Codes, Scopes
<1>6. code # <<>>
  OBVIOUS
<1>7. /\ code.body = sc.body /\ code.slots = sc.slots /\ code.captures = sc.captures
      /\ code.name = sc.name /\ code.params = sc.params /\ code.assigned = sc.assigned
      /\ code.inits = sc.inits
  OBVIOUS
<1> HIDE DEF code, sc
<1>8. GoodCode(code, forwards)
  <2>1. /\ CodeOK(code, HomeOf(sc, forwards), nest) /\ nest[Len(code.body) + 1] = <<>>
        /\ Inits(code, HomeOf(sc, forwards), Initial(code))
    BY <1>1, <1>2, <1>3, <1>5, <1>7, CodeOfScope
  <2>2. sc.top = FALSE
    BY <1>2 DEF Scopes
  <2>3. HomeOf(sc, forwards) = Home(FALSE, sc.locals, forwards)
    BY <2>2 DEF HomeOf
  <2> QED
    BY <2>1, <2>3 DEF GoodCode
<1>9. G \subseteq H /\ code \in H
  OBVIOUS
<1>10. Closed(H, forwards)
  <2>1. Codes(G) \subseteq Codes(H)
    BY <1>9, MoreCode
  <2> QED
    BY <1>5, <1>8, <2>1 DEF Closed
<1> HIDE DEF H
<1>11. ScopesOK(outer, forwards, H)
  BY <1>4, <1>9, MoreCode
<1>12. around \in Scopes(H) /\ around = outer[Len(outer)]
  <2>1. outer \in Seq(Scopes(H)) /\ Len(outer) \in 1..Len(outer)
    BY <1>4, <1>11 DEF ScopesOK
  <2> QED
    BY <2>1 DEF around
<1>13. /\ sc.name # NoName => around.top \/ sc.name \in around.assigned
       /\ \A i \in 1..Len(sc.captures) :
            LET cap == sc.captures[i]
            IN  SourceOK(around, HomeOf(around, forwards), Lookup(around, cap.name),
                         cap.name, cap.source)
  BY <1>2, <1>4 DEF Linked
<1>14. sc.name \in Ids /\ sc.captures \in Seq(Capture)
  BY <1>2 DEF Scopes
<1>15. PICK m : ScopeOK(around, forwards, m)
  <2>1. Len(outer) \in 1..Len(outer)
    BY <1>4 DEF ScopesOK
  <2> QED
    BY <1>4, <1>12, <2>1 DEF ScopesOK
<1>16. /\ to \in Places /\ (sc.name = NoName => to.kind = "none")
       /\ sc.name # NoName => PlaceOK(HomeOf(around, forwards), Lookup(around, sc.name), to)
  <2>1. CASE sc.name = NoName
    BY <2>1 DEF NoPlace, Places, Kinds
  <2>2. CASE sc.name # NoName
    <3>1. sc.name \in Names /\ to = Place(around, sc.name)
      BY <1>14, <2>2 DEF Ids
    <3> HIDE DEF to
    <3> QED
      BY <1>12, <1>13, <1>15, <2>2, <3>1, PlaceIsOK
  <2> QED
    BY <2>1, <2>2
<1> HIDE DEF to
<1>17. /\ instr \in Instrs(H) /\ instr.op = "closure" /\ instr.name = sc.name /\ instr.ex = to
       /\ instr.code = code
  BY <1>9, <1>14, <1>16 DEF Instr, Instrs, Ops
<1> HIDE DEF instr
<1>18. ASSUME NEW t, ScopeOK(around, forwards, t)
       PROVE  InstrOK(around, HomeOf(around, forwards), t[Len(around.body) + 1], instr)
  <2> DEFINE bs == Bs(t[Len(around.body) + 1])
             home == HomeOf(around, forwards)
  <2>1. \A n \in Names : SlotAt(home.locals, bs, n) = Lookup(around, n)
    BY <1>12, <1>18, AtTheEnd, HomeParts DEF Reached
  <2> HIDE DEF bs, home
  <2>2. \A i \in 1..Len(sc.captures) : sc.captures[i].name \in Names
    <3>1. \A i \in 1..Len(sc.captures) : sc.captures[i] \in Capture
      BY <1>14
    <3> QED
      BY <3>1 DEF Capture
  <2>3. sc.name # NoName => sc.name \in Names
    BY <1>14 DEF Ids
  <2>4. ClosureOK(around, home, bs, instr)
    BY <1>6, <1>7, <1>13, <1>16, <1>17, <2>1, <2>2, <2>3 DEF ClosureOK, home
  <2> QED
    BY <1>17, <2>4 DEF InstrOK, bs, home
<1>19. ScopesOK(Emit(outer, instr), forwards, H) /\ InitsOK(Emit(outer, instr), forwards)
  <2>1. instr.op \notin {"loop", "end"}
    BY <1>17
  <2> QED
    BY <1>4, <1>11, <1>12, <1>17, <1>18, <2>1, EmitOK
<1> QED
  BY <1>1, <1>9, <1>10, <1>19

-----------------------------------------------------------------------------
(* Slots of parameters and assigned names *)

\* A set can be numbered.
LEMMA Numbering ==
    ASSUME NEW S, IsFiniteSet(S)
    PROVE  \E f \in [S -> 1..Cardinality(S)] : \A a, b \in S : a # b => f[a] # f[b]
<1> DEFINE n == Cardinality(S)
<1>1. n \in Nat /\ ExistsBijection(1..n, S)
  BY FS_CardinalityType
<1> HIDE DEF n
<1>2. PICK g \in Bijection(1..n, S) : TRUE
  BY <1>1 DEF ExistsBijection
<1>3. /\ g \in [1..n -> S] /\ \A y \in S : \E x \in 1..n : g[x] = y
  BY <1>2 DEF Bijection, Injection, Surjection
<1> DEFINE f == [y \in S |-> CHOOSE x \in 1..n : g[x] = y]
<1>4. \A y \in S : f[y] \in 1..n /\ g[f[y]] = y
  BY <1>3
<1>5. f \in [S -> 1..n]
  BY <1>4
<1> HIDE DEF f
<1>6. \A a, b \in S : a # b => f[a] # f[b]
  BY <1>4
<1> QED
  BY <1>5, <1>6 DEF n

LEMMA SlotOfOK ==
    ASSUME NEW ps \in SUBSET Bound, NEW as \in SUBSET Bound
    PROVE  LET U == ps \union as
               c == Cardinality(U)
           IN  /\ c \in Nat
               /\ \A n : SlotOf(ps, as, n) \in 0..c /\ (SlotOf(ps, as, n) # 0 <=> n \in U)
               /\ \A n, m \in U : SlotOf(ps, as, n) = SlotOf(ps, as, m) => n = m
<1> DEFINE U == ps \union as
           c == Cardinality(U)
           Q == as \ ps
           p == Cardinality(ps)
           q == Cardinality(Q)
           Good(f) == /\ \A a, b \in U : a # b => f[a] # f[b]
                      /\ \A a \in ps, b \in Q : f[a] < f[b]
           order == CHOOSE f \in [U -> 1..c] : Good(f)
<1>1. IsFiniteSet(ps) /\ IsFiniteSet(Q) /\ U = ps \union Q /\ ps \intersect Q = {}
  <2>1. ps \in SUBSET Bound /\ Q \in SUBSET Bound /\ IsFiniteSet(Bound)
    BY BoundsAssumption
  <2> QED
    BY <2>1, FS_Subset
<1>2. p \in Nat /\ q \in Nat /\ c = p + q /\ c \in Nat
  <2>1. p \in Nat /\ q \in Nat
    BY <1>1, FS_CardinalityType
  <2>2. Cardinality(ps \union Q) = p + q - Cardinality(ps \intersect Q)
    BY <1>1, FS_Union
  <2>3. Cardinality(ps \intersect Q) = 0
    BY <1>1, FS_EmptySet
  <2>4. c = p + q - 0
    BY <1>1, <2>2, <2>3
  <2> HIDE DEF p, q, c
  <2> QED
    BY <2>1, <2>4
<1>3. PICK f \in [ps -> 1..p] : \A a, b \in ps : a # b => f[a] # f[b]
  BY <1>1, Numbering
<1>4. PICK g \in [Q -> 1..q] : \A a, b \in Q : a # b => g[a] # g[b]
  BY <1>1, Numbering
<1> HIDE DEF p, q, c, Q, U
<1> DEFINE h == [n \in U |-> IF n \in ps THEN f[n] ELSE p + g[n]]
<1>5. \A n \in U : \/ n \in ps /\ h[n] = f[n] /\ f[n] \in 1..p
                   \/ n \notin ps /\ n \in Q /\ h[n] = p + g[n] /\ g[n] \in 1..q
  BY <1>1, <1>3, <1>4
<1>6. h \in [U -> 1..c]
  <2>1. \A n \in U : h[n] \in 1..c
    BY <1>2, <1>5
  <2> QED
    BY <2>1
<1> HIDE DEF h
<1>7. Good(h)
  <2>1. ASSUME NEW a \in U, NEW b \in U, a # b PROVE h[a] # h[b]
    <3>1. CASE a \in ps /\ b \in ps
      BY <1>3, <1>5, <2>1, <3>1
    <3>2. CASE a \in ps /\ b \notin ps
      BY <1>2, <1>5, <3>2
    <3>3. CASE a \notin ps /\ b \in ps
      BY <1>2, <1>5, <3>3
    <3>4. CASE a \notin ps /\ b \notin ps
      <4>1. g[a] # g[b] /\ g[a] \in 1..q /\ g[b] \in 1..q /\ h[a] = p + g[a] /\ h[b] = p + g[b]
        BY <1>4, <1>5, <2>1, <3>4
      <4> QED
        BY <1>2, <4>1
    <3> QED
      BY <3>1, <3>2, <3>3, <3>4
  <2>2. ASSUME NEW a \in ps, NEW b \in Q PROVE h[a] < h[b]
    <3>1. a \in U /\ b \in U /\ b \notin ps
      BY <1>1
    <3>2. h[a] \in 1..p /\ h[b] = p + g[b] /\ g[b] \in 1..q
      BY <1>5, <3>1
    <3> QED
      BY <1>2, <3>2
  <2> QED
    BY <2>1, <2>2
<1>8. order \in [U -> 1..c] /\ Good(order)
  <2> HIDE DEF Good
  <2> QED BY <1>6, <1>7
<1>9. \A n : SlotOf(ps, as, n) = IF n \in U THEN order[n] ELSE 0
  BY DEF SlotOf, U, c, Q
<1> HIDE DEF order
<1>10. \A n : SlotOf(ps, as, n) \in 0..c /\ (SlotOf(ps, as, n) # 0 <=> n \in U)
  <2>1. ASSUME NEW n PROVE SlotOf(ps, as, n) \in 0..c /\ (SlotOf(ps, as, n) # 0 <=> n \in U)
    <3>1. CASE n \in U
      <4>1. order[n] \in 1..c
        BY <1>8, <3>1
      <4>2. order[n] \in 0..c /\ order[n] # 0
        BY <1>2, <4>1
      <4> QED
        BY <1>9, <3>1, <4>2
    <3>2. CASE n \notin U
      <4>1. 0 \in 0..c
        BY <1>2
      <4> QED
        BY <1>9, <3>2, <4>1
    <3> QED
      BY <3>1, <3>2
  <2> QED
    BY <2>1
<1>11. \A n, m \in U : SlotOf(ps, as, n) = SlotOf(ps, as, m) => n = m
  BY <1>8, <1>9
<1> QED
  BY <1>2, <1>10, <1>11 DEF U, c

-----------------------------------------------------------------------------
(* Initial values, one name after the other *)

\* `g` does what `FoldSet` does, for the sets of D.
FoldsTo(g, D, scs) ==
    \A s \in D : g[s] = IF s = {} THEN scs
                        ELSE WithInit(CHOOSE x \in s : TRUE, g[s \ {CHOOSE x \in s : TRUE}])

IsFold(g, S, scs) ==
    g = [s \in SUBSET S |-> IF s = {} THEN scs
                            ELSE WithInit(CHOOSE x \in s : TRUE, g[s \ {CHOOSE x \in s : TRUE}])]

\* Such a function exists.
LEMMA FoldExists ==
    ASSUME NEW S, IsFiniteSet(S), NEW scs
    PROVE  \E g : IsFold(g, S, scs)
<1> DEFINE D(k) == {s \in SUBSET S : Cardinality(s) <= k}
           One(s) == CHOOSE x \in s : TRUE
           To(g, s) == IF s = {} THEN scs ELSE WithInit(One(s), g[s \ {One(s)}])
           Good(k) == \E g : g = [s \in D(k) |-> To(g, s)]
           Bad == {k \in Nat : ~Good(k)}
<1>1. \A s \in SUBSET S : /\ IsFiniteSet(s) /\ Cardinality(s) \in Nat
                          /\ s # {} => /\ One(s) \in s /\ s \ {One(s)} \in SUBSET S
                                       /\ Cardinality(s \ {One(s)}) = Cardinality(s) - 1
  <2>1. SUFFICES ASSUME NEW s \in SUBSET S
                 PROVE  /\ IsFiniteSet(s) /\ Cardinality(s) \in Nat
                        /\ s # {} => /\ One(s) \in s /\ s \ {One(s)} \in SUBSET S
                                     /\ Cardinality(s \ {One(s)}) = Cardinality(s) - 1
    OBVIOUS
  <2>2. IsFiniteSet(s) /\ Cardinality(s) \in Nat
    BY FS_Subset, FS_CardinalityType
  <2>3. s # {} => One(s) \in s /\ s \ {One(s)} \in SUBSET S
    OBVIOUS
  <2> HIDE DEF One
  <2> QED
    BY <2>2, <2>3, FS_RemoveElement
<1> HIDE DEF One
<1>2. \A s \in SUBSET S : Cardinality(s) = 0 <=> s = {}
  BY <1>1, FS_EmptySet
<1>3. Good(0)
  <2> DEFINE g == [s \in D(0) |-> scs]
  <2>1. ASSUME NEW s \in D(0) PROVE s = {}
    <3> DEFINE c == Cardinality(s)
    <3>1. s \in SUBSET S /\ c \in Nat /\ c <= 0
      BY <1>1
    <3> HIDE DEF c
    <3>2. c = 0
      BY <3>1
    <3> QED
      BY <1>2, <3>1, <3>2 DEF c
  <2>2. g = [s \in D(0) |-> To(g, s)]
    BY <2>1
  <2> QED
    BY <2>2
<1>4. ASSUME NEW k \in Nat, Good(k) PROVE Good(k + 1)
  <2>1. PICK g : g = [s \in D(k) |-> To(g, s)]
    BY <1>4
  <2> DEFINE h == [s \in D(k + 1) |-> IF s \in D(k) THEN g[s] ELSE To(g, s)]
  <2>2. ASSUME NEW s \in D(k + 1) PROVE h[s] = To(h, s)
    <3>1. CASE s = {}
      <4>1. s \in D(k)
        BY <1>2, <3>1
      <4> QED
        BY <2>1, <3>1, <4>1
    <3>2. CASE s # {}
      <4> DEFINE t == s \ {One(s)}
      <4>1. t \in D(k) /\ t \in D(k + 1)
        BY <1>1, <2>2, <3>2
      <4>2. h[t] = g[t]
        BY <4>1
      <4>3. h[s] = To(g, s)
        BY <2>1, <2>2
      <4> HIDE DEF h
      <4> QED
        BY <3>2, <4>2, <4>3
    <3> QED
      BY <3>1, <3>2
  <2>3. h = [s \in D(k + 1) |-> h[s]]
    OBVIOUS
  <2> HIDE DEF h, D
  <2>4. h = [s \in D(k + 1) |-> To(h, s)]
    BY <2>2, <2>3
  <2> QED
    BY <2>4
<1> HIDE DEF Good
<1>5. Bad = {}
  <2>1. SUFFICES ASSUME Bad # {} PROVE FALSE
    OBVIOUS
  <2>2. PICK m \in Bad : \A l \in Bad : m <= l
    <3>1. Bad \in SUBSET Nat
      OBVIOUS
    <3> HIDE DEF Bad
    <3> QED BY <2>1, <3>1, LeastNat
  <2>3. m \in Nat /\ ~Good(m) /\ m # 0
    BY <1>3
  <2>4. m - 1 \in Nat /\ m - 1 + 1 = m /\ ~(m <= m - 1)
    BY <2>3
  <2>5. Good(m - 1)
    BY <2>2, <2>4
  <2> QED
    BY <1>4, <2>3, <2>4, <2>5
<1> DEFINE c == Cardinality(S)
<1>6. c \in Nat /\ D(c) = SUBSET S
  BY FS_CardinalityType, FS_Subset
<1>7. Good(c)
  BY <1>5, <1>6
<1> QED
  BY <1>6, <1>7 DEF Good, One, IsFold

LEMMA Unfold ==
    ASSUME NEW S, IsFiniteSet(S), NEW scs
    PROVE  \E g : FoldSet(WithInit, scs, S) = g[S] /\ FoldsTo(g, SUBSET S, scs)
<1> DEFINE iter == CHOOSE g : IsFold(g, S, scs)
<1>1. IsFold(iter, S, scs)
  BY FoldExists
<1>2. FoldSet(WithInit, scs, S) = iter[S]
  BY DEF FoldSet, MapThenFoldSet, IsFold
<1> HIDE DEF iter
<1>3. FoldsTo(iter, SUBSET S, scs)
  BY <1>1 DEF FoldsTo, IsFold
<1> QED
  BY <1>2, <1>3

\* The scopes `res` are `scs`, and the innermost function captures for `n` too.
OneInit(scs, res, n, G) ==
    /\ ScopesOK(res, forwards, G) /\ Len(res) = Len(scs)
    /\ \A k \in 1..Len(scs) - 1 :
         Inits(scs[k], HomeOf(scs[k], forwards), Initial(scs[k]))
           => Inits(res[k], HomeOf(res[k], forwards), Initial(res[k]))
    /\ Initial(res[Len(scs)]) = Initial(scs[Len(scs)])
    /\ \A T : Inits(scs[Len(scs)], HomeOf(scs[Len(scs)], forwards), T)
                => Inits(res[Len(scs)], HomeOf(res[Len(scs)], forwards), T \union {n})

LEMMA WithInitOK ==
    ASSUME NEW G, NEW scs, ScopesOK(scs, forwards, G), Len(scs) > 1,
           forwards \intersect Bound = {}, NEW n \in Initial(scs[Len(scs)])
    PROVE  OneInit(scs, WithInit(n, scs), n, G)
<1> DEFINE si == Len(scs)
           sc == scs[si]
           now == CaptureInto(scs, n, "init")
           last == now[si]
           p == <<last.locals[n], Len(last.captures)>>
           d == [last EXCEPT !.inits = @ \union {p}]
           res == WithInit(n, scs)
<1>1. /\ scs \in Seq(Scopes(G)) /\ si \in Nat /\ si > 1 /\ si \in 1..si /\ sc \in Scopes(G)
  BY DEF ScopesOK
<1>2. n \in Bound /\ n \in Names /\ n \notin forwards
  <2>1. n \in sc.assigned
    BY DEF Initial
  <2>2. sc.assigned \subseteq Bound
    BY <1>1 DEF Scopes
  <2> QED
    BY <2>1, <2>2, BoundsAssumption
<1>3. /\ ScopesOK(now, forwards, G) /\ Len(now) = si
      /\ \A k \in 1..si - 1 :
           Inits(scs[k], HomeOf(scs[k], forwards), Initial(scs[k]))
             => Inits(now[k], HomeOf(now[k], forwards), Initial(now[k]))
      /\ \E cap \in Capture : cap.name = n /\ last = WithCapture(sc, cap)
  BY <1>2, CaptureIntoOK
<1>4. PICK cap \in Capture : cap.name = n /\ last = WithCapture(sc, cap)
  BY <1>3
<1>5. res = [now EXCEPT ![si] = d]
  BY DEF WithInit
<1>6. now \in Seq(Scopes(G)) /\ last \in Scopes(G) /\ \E nest : ScopeOK(last, forwards, nest)
  BY <1>1, <1>3 DEF ScopesOK
<1> HIDE DEF now, sc
<1>7. /\ Initial(last) = Initial(sc) /\ HomeOf(last, forwards) = HomeOf(sc, forwards)
      /\ Len(sc.captures) \in Nat /\ Len(last.captures) = Len(sc.captures) + 1
      /\ last.captures[Len(sc.captures) + 1] = cap /\ last.locals = sc.locals
      /\ \A T : Inits(sc, HomeOf(sc, forwards), T) => Inits(last, HomeOf(last, forwards), T)
  <2> HIDE DEF last
  <2> QED
    BY <1>1, <1>2, <1>4, CaptureMore, CaptureKeepsScope
<1> HIDE DEF last
<1> DEFINE K == Len(last.captures)
<1>8. /\ last.locals \in [Names -> Nat] /\ last.inits \subseteq Nat \X Nat
      /\ last.locals[n] \in Nat /\ K \in Nat /\ K \in 1..K /\ last.captures[K] = cap
  BY <1>2, <1>6, <1>7 DEF Scopes
<1>9. /\ d \in Scopes(G) /\ d.inits = last.inits \union {p} /\ d.body = last.body
      /\ d.top = last.top /\ d.name = last.name /\ d.params = last.params
      /\ d.assigned = last.assigned /\ d.slots = last.slots
      /\ d.locals = last.locals /\ d.captures = last.captures
      /\ d.bindings = last.bindings /\ d.loops = last.loops
  <2>1. \A is \in SUBSET (Nat \X Nat) : [last EXCEPT !.inits = is] \in Scopes(G)
    BY <1>6 DEF Scopes
  <2>2. last.inits \union {p} \in SUBSET (Nat \X Nat)
    BY <1>8
  <2>3. d \in Scopes(G)
    BY <2>1, <2>2
  <2> QED
    BY <1>6, <2>3 DEF Scopes
<1>10. last.slots \in Nat
  BY <1>6 DEF Scopes
<1>11. p[1] = last.locals[n] /\ p[2] = K
  OBVIOUS
<1> HIDE DEF d, p, K
<1>12. Onward(d, last)
  BY <1>9, <1>10 DEF Onward
<1>13. /\ Extends(d, last) /\ HomeOf(d, forwards) = HomeOf(last, forwards)
       /\ Initial(d) = Initial(last)
       /\ \A T : Inits(last, HomeOf(last, forwards), T) => Inits(d, HomeOf(d, forwards), T)
  BY <1>6, <1>9, <1>12, LaterKeeps
<1>14. PICK nest : ScopeOK(last, forwards, nest)
  BY <1>6
<1>15. ScopeOK(d, forwards, nest)
  <2> DEFINE home == HomeOf(last, forwards)
  <2>1. CodeOK(last, home, nest) /\ OpenAt(last, nest[Len(last.body) + 1])
    BY <1>14 DEF ScopeOK, HomeOf
  <2>2. HeadOK(last, home) /\ home.locals = last.locals
    BY <2>1, HomeParts DEF CodeOK
  <2> HIDE DEF home
  <2>3. InitOK(d, home, p)
    <3>1. n \in Initial(d)
      BY <1>7, <1>13 DEF sc
    <3>2. p[1] = home.locals[n] /\ p[2] \in 1..Len(d.captures) /\ d.captures[p[2]].name = n
      BY <1>4, <1>8, <1>9, <1>11, <2>2 DEF K
    <3> QED
      BY <3>1, <3>2 DEF InitOK
  <2>4. \A q \in last.inits : InitOK(d, home, q)
    BY <1>9, <1>13, <2>2 DEF HeadOK, InitOK
  <2>5. HeadOK(d, home)
    BY <1>9, <2>2, <2>3, <2>4 DEF HeadOK
  <2>6. /\ Len(last.captures) \in Nat /\ Len(d.captures) \in Nat /\ d.slots \in Nat
    BY <1>6, <1>9 DEF Scopes
  <2>7. CodeOK(d, home, nest)
    BY <1>9, <1>10, <1>13, <2>1, <2>5, <2>6, CodeExtends
  <2>8. OpenAt(d, nest[Len(d.body) + 1])
    BY <1>9, <2>1 DEF OpenAt
  <2> QED
    BY <1>13, <2>7, <2>8 DEF ScopeOK, HomeOf, home
<1>16. ScopesOK(res, forwards, G) /\ Len(res) = si
  <2>1. Len(now) > 1 /\ now[Len(now)] = last /\ Len(now) > 0
    BY <1>1, <1>3 DEF last
  <2>2. LET r == [now EXCEPT ![Len(now)] = d]
        IN  ScopesOK(r, forwards, G) /\ Len(r) = Len(now)
    BY <1>3, <1>9, <1>12, <1>15, <2>1, LastLater
  <2> QED
    BY <1>3, <1>5, <2>2
<1>17. res[si] = d /\ \A k \in 1..si - 1 : res[k] = now[k]
  <2>1. si \in DOMAIN now /\ \A k \in 1..si - 1 : k \in DOMAIN now /\ k # si
    BY <1>1, <1>3, <1>6
  <2> QED
    BY <1>5, <2>1
<1>18. \A T : Inits(sc, HomeOf(sc, forwards), T) => Inits(d, HomeOf(d, forwards), T \union {n})
  <2>1. SUFFICES ASSUME NEW T, Inits(sc, HomeOf(sc, forwards), T), NEW m \in T \union {n}
                 PROVE  \E i \in 1..Len(d.captures) :
                          <<HomeOf(d, forwards).locals[m], i>> \in d.inits
    BY DEF Inits
  <2>2. CASE m \in T
    <3>1. Inits(d, HomeOf(d, forwards), T)
      BY <1>7, <1>13, <2>1
    <3> QED
      BY <2>2, <3>1 DEF Inits
  <2>3. CASE m = n
    <3>1. HomeOf(d, forwards).locals = last.locals
      BY <1>9, HomeParts
    <3>2. <<last.locals[n], K>> \in d.inits /\ K \in 1..Len(d.captures)
      BY <1>8, <1>9 DEF p, K
    <3> QED
      BY <2>3, <3>1, <3>2
  <2> QED
    BY <2>1, <2>2, <2>3
<1> QED
  BY <1>3, <1>7, <1>13, <1>16, <1>17, <1>18 DEF OneInit, sc

\* The names of T have got their initial values in the function that `scs` end with.
InitsFor(scs, S, T, G) ==
    /\ ScopesOK(scs, forwards, G) /\ Len(scs) > 1
    /\ \A k \in 1..Len(scs) - 1 : Inits(scs[k], HomeOf(scs[k], forwards), Initial(scs[k]))
    /\ Initial(scs[Len(scs)]) = S
    /\ Inits(scs[Len(scs)], HomeOf(scs[Len(scs)], forwards), T)

LEMMA WithInitsOK ==
    ASSUME NEW G, NEW scs, NEW S, InitsFor(scs, S, {}, G), forwards \intersect Bound = {}
    PROVE  ScopesOK(WithInits(scs), forwards, G) /\ InitsOK(WithInits(scs), forwards)
<1>1. /\ ScopesOK(scs, forwards, G) /\ Len(scs) > 1 /\ S = Initial(scs[Len(scs)])
      /\ scs[Len(scs)] \in Scopes(G)
  BY DEF InitsFor, ScopesOK
<1>2. IsFiniteSet(S)
  <2>1. S \in SUBSET Bound
    BY <1>1 DEF Initial, Scopes
  <2> QED
    BY <2>1, BoundsAssumption, FS_Subset
<1>3. PICK g : WithInits(scs) = g[S] /\ FoldsTo(g, SUBSET S, scs)
  BY <1>1, <1>2, Unfold DEF WithInits
<1> DEFINE P(s) == InitsFor(g[s], S, s, G)
           Bad == {k \in Nat : \E s \in SUBSET S : Cardinality(s) = k /\ ~P(s)}
<1>4. P({})
  <2>1. g[{}] = scs
    BY <1>3 DEF FoldsTo
  <2> QED
    BY <2>1
<1>5. ASSUME NEW s \in SUBSET S, s # {}, P(s \ {CHOOSE x \in s : TRUE}) PROVE P(s)
  <2> DEFINE n == CHOOSE x \in s : TRUE
             t == s \ {n}
             old == g[t]
             new == g[s]
  <2>1. n \in s /\ s = t \union {n}
    BY <1>5
  <2>2. new = WithInit(n, old)
    BY <1>3, <1>5 DEF FoldsTo
  <2>3. InitsFor(old, S, t, G)
    BY <1>5
  <2> HIDE DEF n, t, old, new
  <2>4. OneInit(old, new, n, G)
    BY <2>1, <2>2, <2>3, WithInitOK DEF InitsFor
  <2> DEFINE L == Len(old)
  <2>5. /\ ScopesOK(new, forwards, G) /\ Len(new) = L /\ L > 1
        /\ \A k \in 1..L - 1 : Inits(new[k], HomeOf(new[k], forwards), Initial(new[k]))
        /\ Initial(new[L]) = S
        /\ Inits(new[L], HomeOf(new[L], forwards), t \union {n})
    BY <2>3, <2>4 DEF OneInit, InitsFor
  <2> HIDE DEF L
  <2>6. InitsFor(new, S, s, G)
    BY <2>1, <2>5 DEF InitsFor
  <2> QED
    BY <2>6 DEF new
<1> HIDE DEF P
<1>6. Bad = {}
  <2>1. SUFFICES ASSUME Bad # {} PROVE FALSE
    OBVIOUS
  <2>2. PICK m \in Bad : \A l \in Bad : m <= l
    <3>1. Bad \in SUBSET Nat
      OBVIOUS
    <3> HIDE DEF Bad
    <3> QED BY <2>1, <3>1, LeastNat
  <2>3. PICK s \in SUBSET S : Cardinality(s) = m /\ ~P(s)
    OBVIOUS
  <2>4. s # {}
    BY <1>4, <2>3
  <2> DEFINE n == CHOOSE x \in s : TRUE
             t == s \ {n}
  <2>5. n \in s /\ t \in SUBSET S
    BY <2>4
  <2>6. ~P(t)
    BY <1>5, <2>3, <2>4
  <2>7. m \in Nat
    OBVIOUS
  <2> HIDE DEF n
  <2>8. Cardinality(t) = m - 1 /\ Cardinality(t) \in Nat
    <3>1. IsFiniteSet(s)
      BY <1>2, FS_Subset
    <3>2. IsFiniteSet(t) /\ Cardinality(t) = m - 1
      BY <2>3, <2>5, <3>1, FS_RemoveElement
    <3> QED
      BY <3>2, FS_CardinalityType
  <2>9. m - 1 \in Bad
    BY <2>5, <2>6, <2>8
  <2> HIDE DEF Bad
  <2> QED
    BY <2>2, <2>7, <2>9
<1>7. P(S)
  <2>1. Cardinality(S) \in Nat
    BY <1>2, FS_CardinalityType
  <2> QED
    BY <1>6, <2>1
<1> DEFINE res == g[S]
<1>8. InitsFor(res, S, S, G)
  BY <1>7 DEF P
<1> HIDE DEF res
<1>9. InitsOK(res, forwards)
  <2> DEFINE L == Len(res)
  <2>1. L \in Nat /\ L > 1
    BY <1>8 DEF InitsFor, ScopesOK
  <2>2. /\ \A k \in 1..L - 1 : Inits(res[k], HomeOf(res[k], forwards), Initial(res[k]))
        /\ Inits(res[L], HomeOf(res[L], forwards), Initial(res[L]))
    BY <1>8 DEF InitsFor
  <2> HIDE DEF L
  <2>3. \A k \in 1..L : k \in 1..L - 1 \/ k = L
    BY <2>1
  <2>4. \A k \in 1..L : Inits(res[k], HomeOf(res[k], forwards), Initial(res[k]))
    BY <2>2, <2>3
  <2> QED
    BY <2>4 DEF InitsOK, L
<1> QED
  BY <1>3, <1>8, <1>9 DEF InitsFor, res

\* Code without instructions.
LEMMA EmptyNest ==
    /\ Nested(<<>>, <<<<>>>>) /\ <<>> \in Stacks /\ Len(<<<<>>>>) = 1 /\ <<<<>>>>[1] = <<>>
    /\ Bs(<<>>) = <<>> /\ Len(<<>>) = 0
<1>1. <<>> \in Stacks /\ Len(<<>>) = 0
  <2>1. <<>> \in Seq(OpenLoop) /\ Len(<<>>) = 0
    OBVIOUS
  <2> QED
    BY <2>1 DEF Stacks
<1> DEFINE e == <<>>
           nest == <<e>>
<1>2. nest \in Seq(Stacks) /\ Len(nest) = 1 /\ nest[1] = e /\ Len(e) = 0
  BY <1>1
<1> HIDE DEF nest
<1>3. Rooted(e, nest)
  <2>1. \A pc \in 1..Len(nest) : 1..Len(nest[pc]) = {}
    BY <1>2
  <2> QED
    BY <2>1 DEF Rooted
<1>4. Nested(e, nest)
  <2>1. 1..Len(e) = {}
    BY <1>2
  <2> QED
    BY <1>2, <1>3, <2>1 DEF Nested
<1>5. Bs(<<>>) = <<>>
  BY DEF Bs
<1> QED
  BY <1>1, <1>2, <1>4, <1>5 DEF nest

\* A function that begins.
LEMMA FreshOK ==
    ASSUME NEW G, NEW F, NEW sc \in Scopes(G),
           sc.body = <<>> /\ sc.bindings = <<>> /\ sc.loops = <<>>,
           sc.captures = <<>> /\ sc.inits = {},
           sc.locals \in [Names -> 0..sc.slots],
           \A n, m \in Names : sc.locals[n] # 0 /\ sc.locals[n] = sc.locals[m] => n = m,
           sc.name \notin F,
           \A n \in Names : /\ sc.locals[n] # 0 <=> sc.params[n] # 0 \/ n \in sc.assigned
                            /\ sc.params[n] # 0 => sc.params[n] = sc.locals[n]
                            /\ sc.locals[n] # 0 => n \notin F
    PROVE  ScopeOK(sc, F, <<<<>>>>)
<1> DEFINE home == HomeOf(sc, F)
           nest == <<<<>>>>
<1>1. /\ Nested(sc.body, nest) /\ Len(nest) = 1 /\ nest[1] = <<>> /\ Bs(<<>>) = <<>>
      /\ Len(sc.body) = 0 /\ Len(sc.bindings) = 0 /\ Len(sc.loops) = 0 /\ Len(sc.captures) = 0
      /\ 1..0 = {} /\ Len(<<>>) = 0
  BY EmptyNest
<1>2. home.locals = sc.locals /\ home.forwards = F /\ home.top = sc.top
  BY HomeParts
<1> HIDE DEF nest, home
<1>3. HeadOK(sc, home)
  <2>1. \A n \in Names : sc.locals[n] # 0 <=> sc.params[n] # 0 \/ n \in sc.assigned
    OBVIOUS
  <2>2. \A n \in Names : /\ sc.params[n] # 0 => sc.params[n] = sc.locals[n]
                         /\ sc.locals[n] # 0 => n \notin F
    OBVIOUS
  <2>3. \A i \in 1..Len(sc.captures) : FALSE
    BY <1>1
  <2>4. \A p \in sc.inits : FALSE
    OBVIOUS
  <2> QED
    BY <1>2, <2>1, <2>2, <2>3, <2>4 DEF HeadOK
<1>4. BsOK(sc, home, <<>>)
  <2>1. \A k \in 1..Len(<<>>) : FALSE
    BY <1>1
  <2>2. Apart(home.locals, <<>>, sc.slots)
    BY <1>2, <2>1 DEF Apart
  <2> QED
    BY <2>1, <2>2 DEF BsOK
<1>5. CodeOK(sc, home, nest)
  <2>1. \A pc \in 1..Len(sc.body) : FALSE
    BY <1>1
  <2>2. \A pc \in 1..Len(nest) : pc = 1
    BY <1>1
  <2>3. \A pc \in 1..Len(nest) : BsOK(sc, home, Bs(nest[pc]))
    BY <1>1, <1>4, <2>2
  <2> QED
    BY <1>1, <1>3, <2>1, <2>3 DEF CodeOK
<1>6. OpenAt(sc, nest[Len(sc.body) + 1])
  <2>1. nest[Len(sc.body) + 1] = <<>>
    BY <1>1
  <2>2. \A k \in 1..Len(<<>>) : FALSE
    BY <1>1
  <2> QED
    BY <1>1, <2>1, <2>2 DEF OpenAt
<1> QED
  BY <1>5, <1>6 DEF ScopeOK, HomeOf, home, nest

\* One scope more.
LEMMA PushScope ==
    ASSUME NEW G, NEW F, NEW scs, ScopesOK(scs, F, G), InitsOK(scs, F), Len(scs) > 0,
           NEW sc \in Scopes(G), ~sc.top, NEW nest, ScopeOK(sc, F, nest),
           Linked(scs[Len(scs)], sc, F)
    PROVE  /\ ScopesOK(Append(scs, sc), F, G) /\ Len(Append(scs, sc)) = Len(scs) + 1
           /\ Append(scs, sc)[Len(scs) + 1] = sc
           /\ \A k \in 1..Len(scs) : Inits(Append(scs, sc)[k], HomeOf(Append(scs, sc)[k], F),
                                           Initial(Append(scs, sc)[k]))
<1> DEFINE L == Len(scs)
           res == Append(scs, sc)
<1>1. /\ scs \in Seq(Scopes(G)) /\ L \in Nat /\ L > 0
      /\ \A k \in 1..L : \E m : ScopeOK(scs[k], F, m)
      /\ \A k \in 1..L : scs[k].top <=> k = 1
      /\ \A k \in 2..L : Linked(scs[k - 1], scs[k], F)
      /\ TopOK(scs[1])
      /\ \A k \in 1..L : Inits(scs[k], HomeOf(scs[k], F), Initial(scs[k]))
      /\ Linked(scs[L], sc, F)
  BY DEF ScopesOK, InitsOK
<1>2. /\ res \in Seq(Scopes(G)) /\ Len(res) = L + 1 /\ res[L + 1] = sc
      /\ \A k \in 1..L : res[k] = scs[k]
  BY <1>1, AppendProperties
<1> HIDE DEF res, L
<1>3. /\ 1 \in 1..L /\ L \in 1..L /\ L + 1 # 1
      /\ \A k \in 1..L + 1 : k \in 1..L \/ k = L + 1
      /\ \A k \in 2..L + 1 : (k \in 2..L /\ k - 1 \in 1..L /\ k \in 1..L) \/ (k = L + 1 /\ k - 1 = L)
  BY <1>1
<1>4. ScopesOK(res, F, G)
  <2>1. \A k \in 1..L + 1 : \E m : ScopeOK(res[k], F, m)
    BY <1>1, <1>2, <1>3
  <2>2. \A k \in 1..L + 1 : res[k].top <=> k = 1
    <3>1. SUFFICES ASSUME NEW k \in 1..L + 1 PROVE res[k].top <=> k = 1
      OBVIOUS
    <3>2. CASE k \in 1..L
      <4>1. scs[k].top <=> k = 1
        BY <1>1, <3>2
      <4>2. res[k] = scs[k]
        BY <1>2, <3>2
      <4> QED
        BY <4>1, <4>2
    <3>3. CASE k = L + 1
      BY <1>2, <1>3, <3>3
    <3> QED
      BY <1>3, <3>2, <3>3
  <2>3. \A k \in 2..L + 1 : Linked(res[k - 1], res[k], F)
    <3>1. SUFFICES ASSUME NEW k \in 2..L + 1 PROVE Linked(res[k - 1], res[k], F)
      OBVIOUS
    <3>2. CASE k \in 2..L /\ k - 1 \in 1..L /\ k \in 1..L
      BY <1>1, <1>2, <3>2
    <3>3. CASE k = L + 1 /\ k - 1 = L
      BY <1>1, <1>2, <1>3, <3>3
    <3> QED
      BY <1>3, <3>2, <3>3
  <2>4. TopOK(res[1])
    BY <1>1, <1>2, <1>3
  <2> QED
    BY <1>2, <2>1, <2>2, <2>3, <2>4 DEF ScopesOK
<1> QED
  BY <1>1, <1>2, <1>4 DEF res, L

LEMMA TopScopeType ==
    ASSUME NEW G
    PROVE  TopScope \in Scopes(G)
<1>1. \A S : <<>> \in Seq(S)
  OBVIOUS
<1>2. NoName \in Ids /\ [n \in Names |-> 0] \in [Names -> Nat] /\ {} \in SUBSET (Nat \X Nat)
  BY DEF Ids
<1> QED
  BY <1>1, <1>2 DEF TopScope, Scopes

LEMMA BeginFunctionOK ==
    ASSUME NEW G, ScopesOK(scopes, forwards, G), InitsOK(scopes, forwards),
           forwards \subseteq Names \ Bound,
           NEW name \in Bound \union {NoName}, NEW ps \in SUBSET Bound, NEW as \in SUBSET Bound,
           BeginFunction(name, ps, as)
    PROVE  ScopesOK(scopes', forwards, G) /\ InitsOK(scopes', forwards)
<1> DEFINE L == Len(scopes)
           slot == [n \in Names |-> SlotOf(ps, as, n)]
           c == Cardinality(ps \union as)
           params == [n \in Names |-> IF n \in ps THEN slot[n] ELSE 0]
           sc == [TopScope EXCEPT !.top = FALSE, !.name = name, !.assigned = as,
                      !.params = params, !.locals = slot, !.slots = c]
           opened == Append(scopes, sc)
<1>1. /\ scopes \in Seq(Scopes(G)) /\ L > 0 /\ L \in Nat
      /\ name # NoName => scopes[L].top \/ name \in scopes[L].assigned
  BY DEF ScopesOK, BeginFunction
<1>2. scopes' = WithInits(opened)
  BY DEF BeginFunction, Opened
<1>3. /\ c \in Nat
      /\ \A n \in Names : slot[n] \in 0..c /\ (slot[n] # 0 <=> n \in ps \union as)
      /\ \A n, m \in ps \union as : slot[n] = slot[m] => n = m
  BY SlotOfOK, BoundsAssumption
<1> HIDE DEF c
<1>4. slot \in [Names -> 0..c] /\ slot \in [Names -> Nat]
  <2>1. slot = [n \in Names |-> slot[n]] /\ \A n \in Names : slot[n] \in 0..c
    BY <1>3
  <2> HIDE DEF slot
  <2>2. \A i \in 0..c : i \in Nat
    BY <1>3
  <2> QED
    BY <2>1, <2>2
<1> HIDE DEF slot
<1>5. params \in [Names -> Nat]
      /\ \A n \in Names : params[n] = IF n \in ps THEN slot[n] ELSE 0
  BY <1>4
<1> HIDE DEF params
<1>6. /\ sc.top = FALSE /\ sc.name = name /\ sc.assigned = as /\ sc.params = params
      /\ sc.locals = slot /\ sc.slots = c /\ sc.bindings = <<>> /\ sc.captures = <<>>
      /\ sc.inits = {} /\ sc.loops = <<>> /\ sc.body = <<>>
  BY DEF TopScope
<1>7. sc \in Scopes(G)
  <2>1. name \in Ids
    BY BoundsAssumption DEF Ids
  <2>2. TopScope \in Scopes(G)
    BY TopScopeType
  <2>3. \A x \in Scopes(G) :
          [x EXCEPT !.top = FALSE, !.name = name, !.assigned = as,
               !.params = params, !.locals = slot, !.slots = c] \in Scopes(G)
    BY <1>3, <1>4, <1>5, <2>1 DEF Scopes
  <2> QED
    BY <2>2, <2>3
<1> HIDE DEF sc
<1>8. ScopeOK(sc, forwards, <<<<>>>>)
  <2>1. sc.name \notin forwards
    BY <1>6, BoundsAssumption
  <2>2. \A n, m \in Names : sc.locals[n] # 0 /\ sc.locals[n] = sc.locals[m] => n = m
    BY <1>3, <1>6
  <2>3. \A n \in Names : /\ sc.locals[n] # 0 <=> sc.params[n] # 0 \/ n \in sc.assigned
                         /\ sc.params[n] # 0 => sc.params[n] = sc.locals[n]
                         /\ sc.locals[n] # 0 => n \notin forwards
    <3>1. SUFFICES ASSUME NEW n \in Names
                   PROVE  /\ sc.locals[n] # 0 <=> sc.params[n] # 0 \/ n \in sc.assigned
                          /\ sc.params[n] # 0 => sc.params[n] = sc.locals[n]
                          /\ sc.locals[n] # 0 => n \notin forwards
      OBVIOUS
    <3>2. slot[n] # 0 <=> n \in ps \union as
      BY <1>3
    <3>3. params[n] = IF n \in ps THEN slot[n] ELSE 0
      BY <1>5
    <3>4. slot[n] # 0 => n \notin forwards
      BY <3>2
    <3>5. slot[n] # 0 <=> params[n] # 0 \/ n \in as
      BY <3>2, <3>3
    <3> QED
      BY <1>6, <3>3, <3>4, <3>5
  <2>4. sc.locals \in [Names -> 0..sc.slots]
    BY <1>4, <1>6
  <2> QED
    BY <1>6, <1>7, <2>1, <2>2, <2>3, <2>4, FreshOK
<1>9. Linked(scopes[L], sc, forwards)
  <2>1. \A i \in 1..Len(sc.captures) : FALSE
    BY <1>6
  <2> QED
    BY <1>1, <1>6, <2>1 DEF Linked
<1>10. /\ ScopesOK(opened, forwards, G) /\ Len(opened) = L + 1
       /\ opened[L + 1] = sc
       /\ \A k \in 1..L : Inits(opened[k], HomeOf(opened[k], forwards), Initial(opened[k]))
  BY <1>1, <1>6, <1>7, <1>8, <1>9, PushScope
<1>11. InitsFor(opened, Initial(sc), {}, G)
  <2> HIDE DEF opened, L
  <2>1. Len(opened) > 1 /\ Len(opened) - 1 = L
    BY <1>1, <1>10
  <2>2. Inits(sc, HomeOf(sc, forwards), {})
    BY DEF Inits
  <2> QED
    BY <1>10, <2>1, <2>2 DEF InitsFor
<1>12. forwards \intersect Bound = {}
  OBVIOUS
<1> QED
  BY <1>2, <1>11, <1>12, WithInitsOK

LEMMA ReadStatementOK ==
    ASSUME NEW G, forwards \subseteq Names
    PROVE  ScopesOK(<<TopScope>>, forwards, G) /\ InitsOK(<<TopScope>>, forwards)
<1> DEFINE sc == TopScope
           scs == <<sc>>
<1>1. sc \in Scopes(G)
  BY TopScopeType
<1>2. /\ sc.top = TRUE /\ sc.name = NoName /\ sc.assigned = {} /\ sc.captures = <<>>
      /\ sc.inits = {} /\ sc.body = <<>> /\ sc.bindings = <<>> /\ sc.loops = <<>> /\ sc.slots = 0
      /\ \A n \in Names : sc.locals[n] = 0 /\ sc.params[n] = 0
  BY DEF TopScope
<1>3. sc.locals \in [Names -> Nat]
  BY <1>1 DEF Scopes
<1> HIDE DEF sc
<1>4. ScopeOK(sc, forwards, <<<<>>>>)
  <2>1. sc.locals \in [Names -> 0..sc.slots]
    BY <1>2, <1>3
  <2>2. sc.name \notin forwards
    BY <1>2, BoundsAssumption
  <2> QED
    BY <1>1, <1>2, <2>1, <2>2, FreshOK
<1>5. scs \in Seq(Scopes(G)) /\ Len(scs) = 1 /\ scs[1] = sc /\ \A k \in 1..1 : k = 1
  BY <1>1
<1>6. Initial(sc) = {}
  BY <1>2 DEF Initial
<1> HIDE DEF scs
<1>7. ScopesOK(scs, forwards, G)
  <2>1. \A k \in 1..Len(scs) : \E nest : ScopeOK(scs[k], forwards, nest)
    BY <1>4, <1>5
  <2>2. \A k \in 1..Len(scs) : scs[k].top <=> k = 1
    BY <1>2, <1>5
  <2>3. \A k \in 2..Len(scs) : FALSE
    BY <1>5
  <2>4. TopOK(scs[1])
    BY <1>2, <1>5 DEF TopOK
  <2> QED
    BY <1>5, <2>1, <2>2, <2>3, <2>4 DEF ScopesOK
<1>8. InitsOK(scs, forwards)
  BY <1>5, <1>6 DEF InitsOK, Inits
<1> QED
  BY <1>7, <1>8 DEF scs, sc

-----------------------------------------------------------------------------
(* Further in and further out *)

\* The bindings where the k-th loop of a list begins, and after the last.
Before(stack, k) == IF k <= Len(stack) THEN stack[k].bs ELSE Bs(stack)

LEMMA BeforeStep ==
    ASSUME NEW stack \in Stacks, NEW k \in 1..Len(stack) + 1
    PROVE  /\ Before(stack, k) \in Seq(Binding)
           /\ Bs(SubSeq(stack, 1, k - 1)) = Before(stack, k)
           /\ k <= Len(stack) => /\ Before(stack, k + 1) = Inside(stack[k])
                                 /\ stack[k].bs = Before(stack, k) /\ stack[k] \in OpenLoop
           /\ Before(stack, Len(stack) + 1) = Bs(stack)
<1> DEFINE L == Len(stack)
<1>1. L \in Nat /\ stack \in Seq(OpenLoop) /\ k \in Nat /\ k >= 1 /\ k <= L + 1
  BY DEF Stacks
<1>2. /\ Bs(stack) \in Seq(Binding)
      /\ \A i \in 1..L : stack[i].bs \in Seq(Binding) /\ stack[i] \in OpenLoop
  BY BsType
<1>3. \A i \in 1..L : stack[i].bs = IF i = 1 THEN <<>> ELSE Inside(stack[i - 1])
  BY DEF Stacks
<1>4. k <= L => k \in 1..L
  BY <1>1
<1>5. Before(stack, k) \in Seq(Binding)
  BY <1>2, <1>4 DEF Before
<1>6. /\ k - 1 \in 0..L
      /\ k - 1 < L => Bs(SubSeq(stack, 1, k - 1)) = stack[k - 1 + 1].bs
      /\ k - 1 = L => SubSeq(stack, 1, k - 1) = stack
  <2>1. k - 1 \in 0..L
    BY <1>1
  <2> QED
    BY <2>1, PrefixOfStack
<1> HIDE DEF L
<1>7. Bs(SubSeq(stack, 1, k - 1)) = Before(stack, k)
  <2>1. CASE k <= L
    <3>1. k - 1 < L /\ k - 1 + 1 = k
      BY <1>1, <2>1
    <3> QED
      BY <1>6, <2>1, <3>1 DEF Before, L
  <2>2. CASE ~(k <= L)
    <3>1. k - 1 = L
      BY <1>1, <2>2
    <3> QED
      BY <1>6, <2>2, <3>1 DEF Before, L
  <2> QED
    BY <2>1, <2>2
<1>8. ASSUME k <= L PROVE Before(stack, k + 1) = Inside(stack[k])
  <2>1. CASE k = L
    <3>1. ~(k + 1 <= L) /\ stack # <<>>
      BY <1>1, <2>1, EmptySeq DEF L
    <3> QED
      BY <2>1, <3>1 DEF Before, Bs, L
  <2>2. CASE k # L
    <3>1. k + 1 \in 1..L /\ k + 1 # 1 /\ k + 1 - 1 = k /\ k + 1 <= L
      BY <1>1, <1>8, <2>2
    <3>2. stack[k + 1].bs = Inside(stack[k])
      BY <1>3, <3>1
    <3> QED
      BY <3>1, <3>2 DEF Before, L
  <2> QED
    BY <2>1, <2>2
<1>9. k <= L => stack[k].bs = Before(stack, k) /\ stack[k] \in OpenLoop
  BY <1>2, <1>4 DEF Before, L
<1>10. Before(stack, L + 1) = Bs(stack)
  <2>1. ~(L + 1 <= L)
    BY <1>1
  <2> QED
    BY <2>1 DEF Before, L
<1> QED
  BY <1>5, <1>7, <1>8, <1>9, <1>10 DEF L

\* Further in there are the same bindings and more; names that they do not bind
\* keep their slots.
Deeper(locals, stack, k, j) ==
    LET a == Before(stack, k)
        b == Before(stack, j)
    IN  /\ Len(a) <= Len(b) /\ \A i \in 1..Len(a) : b[i] = a[i]
        /\ \A n : (\A i \in k..j - 1 : stack[i].var # n) => SlotAt(locals, b, n) = SlotAt(locals, a, n)

LEMMA OneDeeper ==
    ASSUME NEW locals, NEW stack \in Stacks, NEW k \in 1..Len(stack) + 1, NEW j \in k..Len(stack),
           Deeper(locals, stack, k, j)
    PROVE  Deeper(locals, stack, k, j + 1)
<1> DEFINE a == Before(stack, k)
           b == Before(stack, j)
           c == Before(stack, j + 1)
           l == stack[j]
           L == Len(stack)
<1>1. L \in Nat /\ k \in Nat /\ k >= 1 /\ j \in Nat /\ j >= k /\ j <= L
  BY DEF Stacks
<1>2. /\ j \in 1..L + 1 /\ k \in 1..L + 1 /\ j \in k..j + 1 - 1
      /\ \A i \in k..j - 1 : i \in k..j + 1 - 1
  BY <1>1
<1>3. /\ a \in Seq(Binding) /\ b \in Seq(Binding) /\ c = Inside(l) /\ l.bs = b /\ l \in OpenLoop
  BY <1>1, <1>2, BeforeStep
<1>4. /\ Len(a) <= Len(b) /\ \A i \in 1..Len(a) : b[i] = a[i]
      /\ \A n : (\A i \in k..j - 1 : stack[i].var # n) => SlotAt(locals, b, n) = SlotAt(locals, a, n)
  BY DEF Deeper
<1> HIDE DEF a, b, c, L
<1>5. CASE l.var = NoName
  <2>1. c = b
    BY <1>3, <1>5 DEF Inside
  <2> QED
    BY <1>2, <1>4, <2>1 DEF Deeper, a, b, c
<1>6. CASE l.var # NoName
  <2> DEFINE new == [name |-> l.var, slot |-> l.slot]
  <2>1. c = Append(b, new)
    BY <1>3, <1>6 DEF Inside
  <2>2. new \in Binding /\ new.name = l.var
    BY <1>3, <1>6 DEF Binding, OpenLoop, Ids
  <2> HIDE DEF new, l
  <2>3. Len(a) \in Nat /\ Len(b) \in Nat /\ Len(c) = Len(b) + 1 /\ \A i \in 1..Len(b) : c[i] = b[i]
    BY <1>3, <2>1, <2>2, AppendProperties
  <2>4. Len(a) <= Len(c) /\ \A i \in 1..Len(a) : c[i] = a[i]
    <3> DEFINE p == Len(a)
               q == Len(b)
               r == Len(c)
    <3>1. p \in Nat /\ q \in Nat /\ r = q + 1 /\ p <= q
      BY <1>4, <2>3
    <3>2. (\A i \in 1..q : c[i] = b[i]) /\ (\A i \in 1..p : b[i] = a[i])
      BY <1>4, <2>3
    <3> HIDE DEF p, q, r
    <3>3. p <= r /\ \A i \in 1..p : i \in 1..q
      BY <3>1
    <3>4. \A i \in 1..p : c[i] = a[i]
      BY <3>2, <3>3
    <3> QED
      BY <3>3, <3>4 DEF p, r
  <2>5. ASSUME NEW n, \A i \in k..j + 1 - 1 : stack[i].var # n
        PROVE  SlotAt(locals, c, n) = SlotAt(locals, a, n)
    <3>1. n # new.name /\ \A i \in k..j - 1 : stack[i].var # n
      BY <1>2, <2>2, <2>5 DEF l
    <3>2. SlotAt(locals, c, n) = SlotAt(locals, b, n)
      <4>1. SlotAt(locals, Append(b, new), n)
              = IF n = new.name THEN new.slot ELSE SlotAt(locals, b, n)
        <5>1. b \in Seq(Binding) /\ new \in Binding
          BY <1>3, <2>2
        <5>2. HidesOwn(locals, b, new, n)
          BY ONLY <5>1, SlotAtInside
        <5> QED
          BY <5>2 DEF HidesOwn
      <4> QED
        BY <2>1, <3>1, <4>1
    <3> QED
      BY <1>4, <3>1, <3>2
  <2> QED
    BY <2>4, <2>5 DEF Deeper, a, c
<1> QED
  BY <1>5, <1>6

LEMMA FurtherIn ==
    ASSUME NEW locals, NEW stack \in Stacks, NEW k \in 1..Len(stack) + 1,
           NEW j \in k..Len(stack) + 1
    PROVE  Deeper(locals, stack, k, j)
<1> DEFINE L == Len(stack)
           Bad == {i \in Nat : i >= k /\ i <= L + 1 /\ ~Deeper(locals, stack, k, i)}
<1>1. L \in Nat /\ k \in Nat /\ k >= 1 /\ j \in Nat /\ j >= k /\ j <= L + 1
  BY DEF Stacks
<1>2. Deeper(locals, stack, k, k)
  <2>1. Before(stack, k) \in Seq(Binding)
    BY BeforeStep
  <2>2. Len(Before(stack, k)) \in Nat
    BY <2>1
  <2> QED
    BY <2>2 DEF Deeper
<1>3. Bad = {}
  <2>1. SUFFICES ASSUME Bad # {} PROVE FALSE
    OBVIOUS
  <2>2. PICK m \in Bad : \A l \in Bad : m <= l
    <3>1. Bad \in SUBSET Nat
      OBVIOUS
    <3> HIDE DEF Bad
    <3> QED BY <2>1, <3>1, LeastNat
  <2>3. m \in Nat /\ m >= k /\ m <= L + 1 /\ ~Deeper(locals, stack, k, m) /\ m # k
    BY <1>2
  <2> HIDE DEF L
  <2>4. m - 1 \in Nat /\ m - 1 >= k /\ m - 1 <= L + 1 /\ m - 1 + 1 = m /\ ~(m <= m - 1)
        /\ m - 1 \in k..L
    BY <1>1, <2>3
  <2>5. Deeper(locals, stack, k, m - 1)
    BY <2>2, <2>4
  <2>6. Deeper(locals, stack, k, m - 1 + 1)
    BY <2>4, <2>5, OneDeeper DEF L
  <2> QED
    BY <2>3, <2>4, <2>6
<1> QED
  BY <1>1, <1>3

\* The slots of a name here and of one further out differ, but if it is one name
\* and nothing binds it in between.
Separate(locals, high, stack, n, m, k) ==
    LET inner == SlotAt(locals, Bs(stack), n)
        outer == SlotAt(locals, Before(stack, k), m)
    IN  /\ inner \in 0..high /\ outer \in 0..high
        /\ inner # 0 /\ inner = outer => n = m /\ \A i \in k..Len(stack) : stack[i].var # n

LEMMA TwoSlots ==
    ASSUME NEW locals, NEW high \in Nat, NEW stack \in Stacks, Apart(locals, Bs(stack), high),
           NEW n \in Names, NEW m \in Names, NEW k \in 1..Len(stack) + 1
    PROVE  Separate(locals, high, stack, n, m, k)
<1> DEFINE L == Len(stack)
           bs == Bs(stack)
           a == Before(stack, k)
           inner == SlotAt(locals, bs, n)
           outer == SlotAt(locals, a, m)
<1>1. L \in Nat /\ L + 1 \in k..L + 1 /\ L + 1 \in 1..L + 1 /\ k \in Nat /\ k >= 1
  BY DEF Stacks
<1>2. bs \in Seq(Binding) /\ a \in Seq(Binding) /\ Before(stack, L + 1) = bs
  BY <1>1, BeforeStep
<1>3. Len(a) <= Len(bs) /\ \A i \in 1..Len(a) : bs[i] = a[i]
  BY <1>1, <1>2, FurtherIn DEF Deeper
<1> HIDE DEF a, bs
<1>4. Len(a) \in Nat /\ Len(bs) \in Nat /\ Len(a) \in 0..Len(bs)
  <2>1. Len(a) \in Nat /\ Len(bs) \in Nat
    BY <1>2
  <2> QED
    BY <2>1, <1>3
<1>5. SubSeq(bs, 1, Len(a)) = a
  <2>1. \A i \in 1..Len(a) : bs[i] \in Binding
    BY <1>2, <1>4
  <2>2. /\ SubSeq(bs, 1, Len(a)) \in Seq(Binding) /\ Len(SubSeq(bs, 1, Len(a))) = Len(a)
        /\ \A i \in 1..Len(a) : SubSeq(bs, 1, Len(a))[i] = bs[i]
    BY <1>2, <1>4, <2>1, SubSeqProperties
  <2> QED
    BY <1>2, <1>3, <2>2, SeqEqual
<1>6. /\ inner \in 0..high /\ outer \in 0..high
      /\ inner # 0 /\ inner = outer => n = m /\ \A i \in Len(a) + 1..Len(bs) : bs[i].name # n
  <2>1. Apart(locals, bs, high)
    BY DEF bs
  <2> DEFINE p == Len(a)
             d == SubSeq(bs, 1, p)
             in == SlotAt(locals, bs, n)
             out == SlotAt(locals, d, m)
  <2>2. bs \in Seq(Binding) /\ p \in 0..Len(bs) /\ d = a
    BY <1>2, <1>4, <1>5
  <2>3. /\ in \in 0..high /\ out \in 0..high
        /\ in # 0 /\ in = out => n = m /\ \A i \in p + 1..Len(bs) : bs[i].name # n
    <3> HIDE DEF p
    <3>1. Distinct(locals, bs, high, n, m, p)
      BY <2>1, <2>2, SlotsApart
    <3> QED
      BY <3>1 DEF Distinct
  <2> QED
    BY <2>2, <2>3
<1>7. ASSUME \A i \in Len(a) + 1..Len(bs) : bs[i].name # n, NEW i \in k..L, stack[i].var = n
      PROVE  FALSE
  <2>1. /\ i \in 1..L + 1 /\ i + 1 \in 1..L + 1 /\ i <= L /\ i \in k..L + 1 /\ L + 1 \in i + 1..L + 1
    BY <1>1
  <2> DEFINE b == Before(stack, i)
             c == Before(stack, i + 1)
             new == [name |-> stack[i].var, slot |-> stack[i].slot]
  <2>2. b \in Seq(Binding) /\ c = Inside(stack[i]) /\ stack[i].bs = b /\ stack[i] \in OpenLoop
    BY <2>1, BeforeStep
  <2>3. c = Append(b, new) /\ new \in Binding /\ new.name = n
    BY <1>7, <2>2, BoundsAssumption DEF Inside, OpenLoop, Binding, Ids
  <2>4. Len(a) <= Len(b)
    BY <2>1, FurtherIn DEF Deeper, a
  <2>5. Len(c) <= Len(bs) /\ \A x \in 1..Len(c) : bs[x] = c[x]
    BY <1>1, <1>2, <2>1, FurtherIn DEF Deeper
  <2> HIDE DEF b, c, new
  <2>6. Len(b) \in Nat /\ Len(c) = Len(b) + 1 /\ c[Len(b) + 1] = new
    BY <2>2, <2>3, AppendProperties
  <2> DEFINE p == Len(a)
             q == Len(b)
             r == Len(c)
             t == Len(bs)
  <2>7. p \in Nat /\ q \in Nat /\ r = q + 1 /\ t \in Nat /\ p <= q /\ r <= t
    BY <1>4, <2>4, <2>5, <2>6
  <2>8. bs[r].name # n \/ ~(r \in p + 1..t)
    BY <1>7
  <2>9. r \in 1..r => bs[r] = new
    BY <2>5, <2>6
  <2> HIDE DEF p, q, r, t
  <2>10. r \in p + 1..t /\ r \in 1..r
    BY <2>7
  <2> QED
    BY <2>3, <2>8, <2>9, <2>10
<1> QED
  BY <1>6, <1>7 DEF bs, a, L, Separate

-----------------------------------------------------------------------------
(* Frames and function values *)

Vals(m) == {v \in Int : v >= -1 /\ (v > 100 => v - 100 \in 1..m)}
Envs(m) == [Names -> Vals(m) \union {Dynamic}]
Begun(m) == [var : Ids, slot : Nat, at : Nat, hides : Vals(m) \union {Dynamic}]

Frames(G, m) ==
    [code : Codes(G), pc : Nat, captures : Seq(Vals(m)), self : Vals(m), slots : Seq(Vals(m)),
     loops : Seq(Begun(m)), env : Envs(m)]

Closures(G, m) == [code : G, captures : Seq(Vals(m)), env : Envs(m)]

\* `n`, which has slot `slot` or, if that is 0, none, has value `v` in the frame.
Agree(f, home, slot, n, v) ==
    IF slot # 0 THEN f.slots[slot] = v
    ELSE IF f.code.name = n THEN f.self = v
    ELSE IF home.top \/ n \in home.forwards THEN v = Dynamic
    ELSE /\ v # Dynamic
         /\ \A i \in 1..Len(f.captures) : f.code.captures[i].name = n => f.captures[i] = v

\* The loops of the frame, and what it means by names inside them and around them.
LoopsAt(f, home, stack) ==
    /\ Len(f.loops) = Len(stack)
    /\ \A k \in 1..Len(stack) : /\ f.loops[k].var = stack[k].var /\ f.loops[k].slot = stack[k].slot
                                /\ f.loops[k].at = stack[k].at
    /\ \A n \in Names : Agree(f, home, SlotAt(home.locals, Bs(stack), n), n, f.env[n])
    /\ \A k \in 1..Len(stack) : stack[k].var # NoName =>
         Agree(f, home, SlotAt(home.locals, stack[k].bs, stack[k].var), stack[k].var,
               f.loops[k].hides)

FrameAt(f, home, nest) ==
    /\ CodeOK(f.code, home, nest) /\ nest[Len(f.code.body) + 1] = <<>>
    /\ f.pc \in 1..Len(f.code.body) + 1
    /\ Len(f.slots) = f.code.slots /\ Len(f.captures) = Len(f.code.captures)
    /\ LoopsAt(f, home, nest[f.pc])

FrameOK(f, F) == \E top, locals, nest : FrameAt(f, Home(top, locals, F), nest)

ClosureIsOK(c, F) ==
    /\ Len(c.captures) = Len(c.code.captures)
    /\ \A i \in 1..Len(c.captures) : c.env[c.code.captures[i].name] = c.captures[i]
    /\ \A n \in Names : c.env[n] = Dynamic <=> n \in F

LEMMA MoreVals ==
    ASSUME NEW m \in Nat, NEW l \in Nat, m <= l
    PROVE  Vals(m) \subseteq Vals(l) /\ Envs(m) \subseteq Envs(l) /\ Begun(m) \subseteq Begun(l)
<1>1. Vals(m) \subseteq Vals(l)
  BY DEF Vals
<1>2. Vals(m) \union {Dynamic} \subseteq Vals(l) \union {Dynamic}
  BY <1>1
<1> QED
  BY <1>1, <1>2 DEF Envs, Begun

LEMMA MoreFrames ==
    ASSUME NEW m \in Nat, NEW l \in Nat, m <= l, NEW G, NEW H, G \subseteq H
    PROVE  Seq(Frames(G, m)) \subseteq Seq(Frames(H, l)) /\ Seq(Closures(G, m)) \subseteq Seq(Closures(H, l))
           /\ Frames(G, m) \subseteq Frames(H, l)
<1>1. Vals(m) \subseteq Vals(l) /\ Envs(m) \subseteq Envs(l)
  BY MoreVals
<1>2. Seq(Vals(m)) \subseteq Seq(Vals(l)) /\ Seq(Begun(m)) \subseteq Seq(Begun(l))
  BY MoreVals, SeqMore
<1>3. Codes(G) \subseteq Codes(H)
  BY MoreCode
<1>4. Frames(G, m) \subseteq Frames(H, l)
  BY <1>1, <1>2, <1>3 DEF Frames
<1>5. Closures(G, m) \subseteq Closures(H, l)
  BY <1>1, <1>2 DEF Closures
<1> QED
  BY <1>4, <1>5, SeqMore

\* Where a frame is.
LEMMA AtPc ==
    ASSUME NEW G, NEW m, NEW f \in Frames(G, m), NEW home, NEW nest, FrameAt(f, home, nest)
    PROVE  LET stack == nest[f.pc]
               body == f.code.body
           IN  /\ stack \in Stacks /\ f.pc \in Nat /\ Len(body) \in Nat
               /\ BsOK(f.code, home, Bs(stack)) /\ HeadOK(f.code, home)
               /\ f.pc <= Len(body) => /\ InstrOK(f.code, home, stack, body[f.pc])
                                       /\ body[f.pc] \in Instrs(G)
                                       /\ Follows(body, nest, f.pc)
               /\ \A k \in 1..Len(stack) : Opened1(body, nest, f.pc, k)
<1>1. CodeOK(f.code, home, nest) /\ f.pc \in 1..Len(f.code.body) + 1
  BY DEF FrameAt
<1>2. f.code.body \in Seq(Instrs(G)) /\ f.pc \in Nat /\ Len(f.code.body) \in Nat
  BY DEF Frames, Codes
<1>3. nest \in Seq(Stacks) /\ Len(nest) = Len(f.code.body) + 1 /\ Rooted(f.code.body, nest)
  BY <1>1 DEF CodeOK, Nested
<1>4. f.pc \in 1..Len(nest)
  BY <1>1, <1>3
<1>5. f.pc <= Len(f.code.body) => f.pc \in 1..Len(f.code.body)
  BY <1>1, <1>2
<1>6. nest[f.pc] \in Stacks /\ BsOK(f.code, home, Bs(nest[f.pc]))
  BY <1>1, <1>3, <1>4 DEF CodeOK
<1>7. ASSUME f.pc <= Len(f.code.body)
      PROVE  /\ InstrOK(f.code, home, nest[f.pc], f.code.body[f.pc])
             /\ f.code.body[f.pc] \in Instrs(G) /\ Follows(f.code.body, nest, f.pc)
  BY <1>1, <1>2, <1>5, <1>7 DEF CodeOK, Nested
<1> QED
  BY <1>1, <1>2, <1>3, <1>4, <1>6, <1>7 DEF CodeOK, Rooted

\* Slots of the frame.
LEMMA SlotsOfFrame ==
    ASSUME NEW G, NEW m, NEW f \in Frames(G, m), NEW home, NEW nest, FrameAt(f, home, nest),
           NEW n \in Names
    PROVE  /\ f.code.slots \in Nat /\ Apart(home.locals, Bs(nest[f.pc]), f.code.slots)
           /\ SlotAt(home.locals, Bs(nest[f.pc]), n) \in 0..f.code.slots
           /\ \A k \in 1..Len(nest[f.pc]) :
                SlotAt(home.locals, nest[f.pc][k].bs, n) \in 0..f.code.slots
<1> DEFINE stack == nest[f.pc]
<1>1. /\ f.code.slots \in Nat /\ stack \in Stacks /\ Apart(home.locals, Bs(stack), f.code.slots)
      /\ Len(stack) \in Nat
  BY AtPc, LenProperties DEF Frames, Codes, BsOK, Stacks
<1>2. ASSUME NEW k \in 1..Len(stack) + 1
      PROVE  SlotAt(home.locals, Before(stack, k), n) \in 0..f.code.slots
  <2>1. Separate(home.locals, f.code.slots, stack, n, n, k)
    <3> HIDE DEF stack
    <3> QED BY <1>1, TwoSlots
  <2> QED
    BY <2>1 DEF Separate
<1>3. Before(stack, Len(stack) + 1) = Bs(stack)
  BY <1>1 DEF Before
<1>4. ASSUME NEW k \in 1..Len(stack)
      PROVE  Before(stack, k) = stack[k].bs /\ k \in 1..Len(stack) + 1
  BY <1>1 DEF Before
<1>5. Len(stack) + 1 \in 1..Len(stack) + 1
  BY <1>1
<1> QED
  BY <1>1, <1>2, <1>3, <1>4, <1>5

\* What the code finds is what the name means.
Finds(f, home, n, v, m) ==
    /\ v \in Vals(m) /\ v # Dynamic
    /\ f.env[n] # Dynamic => v = f.env[n]
    /\ f.env[n] = Dynamic => /\ v = LookupGlobal(n)
                             /\ n \in Bound => v = LookupVariable(n)
                             /\ home.top \/ n \in home.forwards

LEMMA EvalIs ==
    ASSUME NEW G, NEW m \in Nat, NEW f \in Frames(G, m), NEW home, NEW n \in Names,
           NEW slot \in 0..f.code.slots, NEW ex \in Places,
           Len(f.slots) = f.code.slots, Len(f.captures) = Len(f.code.captures),
           SourceOK(f.code, home, slot, n, ex), Agree(f, home, slot, n, f.env[n]),
           globals \in [Names -> Vals(m)]
    PROVE  Finds(f, home, n, Eval(f, n, ex), m)
<1>1. /\ f.slots \in Seq(Vals(m)) /\ f.captures \in Seq(Vals(m)) /\ f.self \in Vals(m)
      /\ f.code.slots \in Nat
  BY DEF Frames, Codes
<1>2. \A v \in Vals(m) : v # Dynamic /\ v \in Int
  BY DEF Vals, Dynamic
<1>3. /\ LookupGlobal(n) \in Vals(m) /\ LookupVariable(n) \in Vals(m)
      /\ n \in Bound => LookupGlobal(n) = LookupVariable(n)
  BY BoundsAssumption DEF LookupGlobal, LookupVariable, Vals, Intrinsic
<1>4. CASE slot # 0
  <2>1. ex.kind = "local" /\ ex.at = slot /\ f.slots[slot] = f.env[n]
    BY <1>4 DEF SourceOK, Agree
  <2>2. slot \in 1..Len(f.slots)
    BY <1>1, <1>4
  <2>3. f.slots[slot] \in Vals(m)
    BY <1>1, <2>2
  <2>4. Eval(f, n, ex) = f.slots[slot]
    BY <2>1 DEF Eval
  <2> QED
    BY <1>2, <2>1, <2>3, <2>4 DEF Finds
<1>5. CASE slot = 0 /\ f.code.name = n
  <2>1. ex.kind = "self" /\ f.self = f.env[n]
    BY <1>5 DEF SourceOK, Agree
  <2>2. Eval(f, n, ex) = f.self
    BY <2>1 DEF Eval
  <2> QED
    BY <1>1, <1>2, <2>1, <2>2 DEF Finds
<1>6. CASE slot = 0 /\ f.code.name # n /\ (home.top \/ n \in home.forwards)
  <2>1. /\ f.env[n] = Dynamic
        /\ ex.kind = "global" \/ (ex.kind = "init" /\ n \in Bound)
    BY <1>6 DEF SourceOK, Agree
  <2>2. Eval(f, n, ex) = LookupGlobal(n)
    BY <1>3, <2>1 DEF Eval
  <2> QED
    BY <1>2, <1>3, <1>6, <2>1, <2>2 DEF Finds
<1>7. CASE slot = 0 /\ f.code.name # n /\ ~(home.top \/ n \in home.forwards)
  <2>1. /\ ex.kind = "capture" /\ ex.at \in 1..Len(f.captures)
        /\ f.code.captures[ex.at].name = n
    BY <1>7 DEF SourceOK
  <2>2. f.env[n] # Dynamic /\ f.captures[ex.at] = f.env[n]
    BY <1>7, <2>1 DEF Agree
  <2>3. Eval(f, n, ex) = f.captures[ex.at]
    BY <2>1 DEF Eval
  <2>4. f.captures[ex.at] \in Vals(m)
    BY <1>1, <2>1
  <2> QED
    BY <1>2, <2>2, <2>3, <2>4 DEF Finds
<1> QED
  BY <1>4, <1>5, <1>6, <1>7

\* So it is with what an instruction reads.
LEMMA EvalHere ==
    ASSUME NEW G, NEW m \in Nat, NEW f \in Frames(G, m), NEW home, NEW nest,
           FrameAt(f, home, nest), globals \in [Names -> Vals(m)],
           NEW n \in Names, NEW ex \in Places,
           SourceOK(f.code, home, SlotAt(home.locals, Bs(nest[f.pc]), n), n, ex)
    PROVE  Finds(f, home, n, Eval(f, n, ex), m)
<1>1. /\ Len(f.slots) = f.code.slots /\ Len(f.captures) = Len(f.code.captures)
      /\ Agree(f, home, SlotAt(home.locals, Bs(nest[f.pc]), n), n, f.env[n])
  BY DEF FrameAt, LoopsAt
<1>2. SlotAt(home.locals, Bs(nest[f.pc]), n) \in 0..f.code.slots
  BY SlotsOfFrame
<1> QED
  BY <1>1, <1>2, EvalIs

-----------------------------------------------------------------------------
(* Steps of a frame *)

\* A frame but for its loops and where it is.
FrameCode(f, home, nest) ==
    /\ CodeOK(f.code, home, nest) /\ nest[Len(f.code.body) + 1] = <<>>
    /\ Len(f.slots) = f.code.slots /\ Len(f.captures) = Len(f.code.captures)

LEMMA GotoOK ==
    ASSUME NEW G, NEW m, NEW f \in Frames(G, m), NEW home, NEW nest, FrameCode(f, home, nest),
           NEW pc \in 1..Len(f.code.body) + 1, LoopsAt(f, home, nest[pc])
    PROVE  Goto(f, pc) \in Frames(G, m) /\ FrameAt(Goto(f, pc), home, nest)
<1> DEFINE d == Goto(f, pc)
<1>1. pc \in Nat
  BY DEF Frames, Codes
<1>2. d \in Frames(G, m)
  BY <1>1 DEF Goto, Frames
<1>3. /\ d.code = f.code /\ d.pc = pc /\ d.captures = f.captures /\ d.self = f.self
      /\ d.slots = f.slots /\ d.loops = f.loops /\ d.env = f.env
  BY DEF Goto, Frames
<1> HIDE DEF d
<1>4. ASSUME NEW slot, NEW n, NEW v, Agree(f, home, slot, n, v)
      PROVE  Agree(d, home, slot, n, v)
  BY <1>3, <1>4 DEF Agree
<1>5. LoopsAt(d, home, nest[pc])
  BY <1>3, <1>4 DEF LoopsAt
<1>6. FrameAt(d, home, nest)
  BY <1>3, <1>5 DEF FrameAt, FrameCode
<1> QED
  BY <1>2, <1>6 DEF d

LEMMA FrameParts ==
    ASSUME NEW f, NEW home, NEW nest, FrameAt(f, home, nest)
    PROVE  FrameCode(f, home, nest) /\ LoopsAt(f, home, nest[f.pc])
  BY DEF FrameAt, FrameCode

\* `n` gets a value in its slot.
Keep(f, slot, n, v) == [f EXCEPT !.slots[slot] = v, !.env[n] = v]

\* The loops of the frame, and all names but `n`.
LoopsBut(f, home, stack, n) ==
    /\ Len(f.loops) = Len(stack)
    /\ \A k \in 1..Len(stack) : /\ f.loops[k].var = stack[k].var /\ f.loops[k].slot = stack[k].slot
                                /\ f.loops[k].at = stack[k].at
    /\ \A p \in Names \ {n} : Agree(f, home, SlotAt(home.locals, Bs(stack), p), p, f.env[p])
    /\ \A k \in 1..Len(stack) : stack[k].var # NoName =>
         Agree(f, home, SlotAt(home.locals, stack[k].bs, stack[k].var), stack[k].var,
               f.loops[k].hides)

LEMMA KeepOK ==
    ASSUME NEW G, NEW m, NEW f \in Frames(G, m), NEW home, NEW nest, FrameCode(f, home, nest),
           NEW stack \in Stacks, Apart(home.locals, Bs(stack), f.code.slots),
           NEW n \in Names, NEW v \in Vals(m), NEW slot,
           slot = SlotAt(home.locals, Bs(stack), n), slot # 0, LoopsBut(f, home, stack, n)
    PROVE  /\ Keep(f, slot, n, v) \in Frames(G, m)
           /\ FrameCode(Keep(f, slot, n, v), home, nest)
           /\ LoopsAt(Keep(f, slot, n, v), home, stack)
           /\ Keep(f, slot, n, v).code = f.code /\ Keep(f, slot, n, v).pc = f.pc
           /\ Keep(f, slot, n, v).loops = f.loops
<1> DEFINE d == Keep(f, slot, n, v)
<1>1. /\ f.slots \in Seq(Vals(m)) /\ f.env \in Envs(m) /\ f.code.slots \in Nat
      /\ Len(f.slots) = f.code.slots /\ Len(stack) \in Nat
  BY LenProperties DEF Frames, Codes, FrameCode, Stacks
<1>2. /\ d.code = f.code /\ d.pc = f.pc /\ d.captures = f.captures /\ d.self = f.self
      /\ d.loops = f.loops
      /\ d.slots = [f.slots EXCEPT ![slot] = v] /\ d.env = [f.env EXCEPT ![n] = v]
  BY DEF Keep, Frames
<1>8. ASSUME NEW k \in 1..Len(stack) + 1, NEW p \in Names
      PROVE  /\ slot \in 0..f.code.slots
             /\ SlotAt(home.locals, Before(stack, k), p) \in 0..f.code.slots
             /\ slot = SlotAt(home.locals, Before(stack, k), p) =>
                  n = p /\ \A i \in k..Len(stack) : stack[i].var # n
  <2> DEFINE inner == SlotAt(home.locals, Bs(stack), n)
             outer == SlotAt(home.locals, Before(stack, k), p)
  <2>1. /\ inner \in 0..f.code.slots /\ outer \in 0..f.code.slots
        /\ inner # 0 /\ inner = outer => n = p /\ \A i \in k..Len(stack) : stack[i].var # n
    <3>1. Separate(home.locals, f.code.slots, stack, n, p, k)
      BY <1>1, TwoSlots
    <3> QED
      BY <3>1 DEF Separate
  <2>2. inner = slot /\ slot # 0
    OBVIOUS
  <2> QED
    BY <2>1, <2>2
<1>9. Before(stack, Len(stack) + 1) = Bs(stack) /\ Len(stack) + 1 \in 1..Len(stack) + 1
  BY <1>1 DEF Before
<1>10. slot \in 1..Len(f.slots)
  BY <1>1, <1>8, <1>9
<1>3. /\ [f.slots EXCEPT ![slot] = v] \in Seq(Vals(m))
      /\ Len([f.slots EXCEPT ![slot] = v]) = Len(f.slots)
      /\ \A i \in 1..Len(f.slots) : i # slot => [f.slots EXCEPT ![slot] = v][i] = f.slots[i]
      /\ [f.slots EXCEPT ![slot] = v][slot] = v
  BY <1>1, <1>10, ExceptSeq
<1>4. [f.env EXCEPT ![n] = v] \in Envs(m)
  BY <1>1 DEF Envs
<1>5. d \in Frames(G, m)
  BY <1>3, <1>4 DEF Keep, Frames
<1>6. /\ \A p \in Names \ {n} : d.env[p] = f.env[p]
      /\ d.env[n] = v /\ Len(d.slots) = Len(f.slots)
      /\ \A i \in 1..Len(f.slots) : i # slot => d.slots[i] = f.slots[i]
  BY <1>1, <1>2, <1>3 DEF Envs
<1>7. d.slots[slot] = v
  BY <1>2, <1>3
<1> HIDE DEF d
<1>11. ASSUME NEW other \in 0..f.code.slots, other # slot, NEW p, NEW w, Agree(f, home, other, p, w)
       PROVE  Agree(d, home, other, p, w)
  <2>1. other # 0 => d.slots[other] = f.slots[other]
    BY <1>1, <1>6, <1>11
  <2> QED
    BY <1>2, <1>11, <2>1 DEF Agree
<1>12. ASSUME NEW p \in Names
       PROVE  Agree(d, home, SlotAt(home.locals, Bs(stack), p), p, d.env[p])
  <2>1. CASE p = n
    BY <1>6, <1>7, <1>10, <2>1 DEF Agree
  <2>2. CASE p # n
    <3>1. /\ SlotAt(home.locals, Bs(stack), p) \in 0..f.code.slots
          /\ SlotAt(home.locals, Bs(stack), p) # slot
      BY <1>8, <1>9, <2>2
    <3>2. Agree(f, home, SlotAt(home.locals, Bs(stack), p), p, f.env[p])
      BY <2>2 DEF LoopsBut
    <3> QED
      BY <1>6, <1>11, <2>2, <3>1, <3>2
  <2> QED
    BY <2>1, <2>2
<1>13. ASSUME NEW k \in 1..Len(stack), stack[k].var # NoName
       PROVE  Agree(d, home, SlotAt(home.locals, stack[k].bs, stack[k].var), stack[k].var,
                    d.loops[k].hides)
  <2>1. stack[k].var \in Names
    BY <1>13, BsType DEF OpenLoop, Ids
  <2>2. Before(stack, k) = stack[k].bs /\ k \in 1..Len(stack) + 1 /\ k \in k..Len(stack)
    BY <1>1 DEF Before
  <2>3. /\ SlotAt(home.locals, stack[k].bs, stack[k].var) \in 0..f.code.slots
        /\ SlotAt(home.locals, stack[k].bs, stack[k].var) # slot
    BY <1>8, <2>1, <2>2
  <2>4. Agree(f, home, SlotAt(home.locals, stack[k].bs, stack[k].var), stack[k].var,
              f.loops[k].hides)
    BY <1>13 DEF LoopsBut
  <2> QED
    BY <1>2, <1>11, <2>3, <2>4
<1>14. LoopsAt(d, home, stack)
  BY <1>2, <1>12, <1>13 DEF LoopsAt, LoopsBut
<1>15. FrameCode(d, home, nest)
  BY <1>2, <1>6 DEF FrameCode
<1> QED
  BY <1>2, <1>5, <1>14, <1>15 DEF d

\* `Stored`.
LEMMA StoredOK ==
    ASSUME NEW G, NEW m, NEW f \in Frames(G, m), NEW home, NEW nest, FrameAt(f, home, nest),
           NEW n \in Names, NEW place, NEW v \in Vals(m),
           PlaceOK(home, SlotAt(home.locals, Bs(nest[f.pc]), n), place)
    PROVE  /\ Stored(f, n, place, v) \in Frames(G, m)
           /\ FrameCode(Stored(f, n, place, v), home, nest)
           /\ LoopsAt(Stored(f, n, place, v), home, nest[f.pc])
           /\ Stored(f, n, place, v).code = f.code /\ Stored(f, n, place, v).pc = f.pc
<1> DEFINE slot == SlotAt(home.locals, Bs(nest[f.pc]), n)
<1>1. FrameCode(f, home, nest) /\ LoopsAt(f, home, nest[f.pc])
  BY FrameParts
<1>2. CASE slot # 0
  <2>1. place.kind = "local" /\ place.at = slot
    BY <1>2 DEF PlaceOK
  <2>2. Stored(f, n, place, v) = Keep(f, slot, n, v)
    BY <2>1 DEF Stored, Keep
  <2>3. nest[f.pc] \in Stacks /\ Apart(home.locals, Bs(nest[f.pc]), f.code.slots)
    BY AtPc, SlotsOfFrame
  <2>4. LoopsBut(f, home, nest[f.pc], n)
    BY <1>1 DEF LoopsAt, LoopsBut
  <2> QED
    BY <1>1, <1>2, <2>2, <2>3, <2>4, KeepOK
<1>3. CASE slot = 0
  <2>1. place.kind = "global"
    BY <1>3 DEF PlaceOK
  <2>2. Stored(f, n, place, v) = f
    BY <2>1 DEF Stored
  <2> QED
    BY <1>1, <2>2
<1> QED
  BY <1>2, <1>3

\* A frame where the next instructions are.
LEMMA NextPc ==
    ASSUME NEW G, NEW m, NEW f \in Frames(G, m), NEW home, NEW nest, FrameAt(f, home, nest),
           f.pc <= Len(f.code.body)
    PROVE  /\ f.pc + 1 \in 1..Len(f.code.body) + 1 /\ f.pc \in 1..Len(f.code.body)
           /\ Nested(f.code.body, nest)
           /\ f.code.body \in Seq(Instrs(G))
           /\ \A i \in 1..Len(f.code.body) :
                f.code.body[i].name \in Ids /\ f.code.body[i].ex.at \in Nat
           /\ nest[f.pc + 1] \in Stacks /\ BsOK(f.code, home, Bs(nest[f.pc + 1]))
           /\ f.code.body[f.pc].op \notin {"loop", "end"} => nest[f.pc + 1] = nest[f.pc]
<1> DEFINE body == f.code.body
<1>1. CodeOK(f.code, home, nest) /\ f.pc \in 1..Len(body) + 1
  BY DEF FrameAt
<1>2. body \in Seq(Instrs(G)) /\ Len(body) \in Nat /\ f.pc \in Nat
  BY DEF Frames, Codes
<1>3. \A i \in 1..Len(body) : body[i] \in Instrs(G)
  BY <1>2
<1>4. \A i \in 1..Len(body) : body[i].name \in Ids /\ body[i].ex.at \in Nat
  BY <1>3 DEF Instrs, Places
<1>5. f.pc + 1 \in 1..Len(body) + 1 /\ f.pc \in 1..Len(body)
  BY <1>1, <1>2
<1>6. Nested(body, nest)
  BY <1>1 DEF CodeOK
<1>7. Len(nest) = Len(body) + 1
  BY <1>6 DEF Nested
<1>8. nest[f.pc + 1] \in Stacks /\ (body[f.pc].op \notin {"loop", "end"} => nest[f.pc + 1] = nest[f.pc])
  <2>1. body[f.pc].name \in Ids /\ body[f.pc].ex.at \in Nat
    BY <1>4, <1>5
  <2> HIDE DEF body
  <2> QED
    BY <1>2, <1>5, <1>6, <2>1, StepOfNest DEF StepOf
<1>9. BsOK(f.code, home, Bs(nest[f.pc + 1]))
  BY <1>1, <1>5, <1>7 DEF CodeOK
<1> QED
  BY <1>2, <1>4, <1>5, <1>6, <1>8, <1>9

\* What `Loop` adds to the frame.
LoopOf(f) ==
    LET n == f.code.body[f.pc].name
    IN  [var |-> n, slot |-> f.code.body[f.pc].ex.at, at |-> f.pc,
         hides |-> IF n = NoName THEN Undef ELSE f.env[n]]

Entered(f) == [f EXCEPT !.loops = Append(@, LoopOf(f))]

LEMMA EnterOK ==
    ASSUME NEW G, NEW m, NEW f \in Frames(G, m), NEW home, NEW nest, FrameAt(f, home, nest),
           f.pc <= Len(f.code.body), f.code.body[f.pc].op = "loop", NEW v \in Vals(m)
    PROVE  LET d == WithElement(Entered(f), LoopOf(f), v)
           IN  d \in Frames(G, m) /\ FrameCode(d, home, nest) /\ LoopsAt(d, home, nest[f.pc + 1])
               /\ d.code = f.code
<1> DEFINE instr == f.code.body[f.pc]
           n == instr.name
           stack == nest[f.pc]
           new == Opening(stack, instr, f.pc)
           next == nest[f.pc + 1]
           e == Entered(f)
           loop == LoopOf(f)
           L == Len(stack)
<1>1. /\ stack \in Stacks /\ f.pc \in Nat /\ instr \in Instrs(G) /\ InstrOK(f.code, home, stack, instr)
      /\ Follows(f.code.body, nest, f.pc) /\ L \in Nat
  BY AtPc, LenProperties DEF Stacks
<1>2. n \in Ids /\ instr.ex.at \in Nat /\ f.pc \in Nat \ {0}
  <2>1. f.pc \in 1..Len(f.code.body)
    BY NextPc
  <2> QED
    BY <1>1, <2>1 DEF Instrs, Places
<1>3. next = Append(stack, new)
  BY <1>1 DEF Follows, After
<1>4. new \in OpenLoop /\ new.bs = Bs(stack) /\ new.var = n /\ new.slot = instr.ex.at /\ new.at = f.pc
  BY <1>1, <1>2, BsType DEF Opening, OpenLoop
<1>5. /\ next \in Stacks /\ Len(next) = L + 1 /\ next[L + 1] = new
      /\ \A k \in 1..L : next[k] = stack[k]
      /\ Bs(next) = Inside(new)
  BY <1>1, <1>3, <1>4, PushStack
<1>6. FrameCode(f, home, nest) /\ LoopsAt(f, home, stack)
  BY FrameParts
<1>7. f.loops \in Seq(Begun(m)) /\ f.env \in Envs(m) /\ Len(f.loops) = L
  BY <1>6 DEF Frames, LoopsAt
<1>8. loop \in Begun(m)
  <2>1. (IF n = NoName THEN Undef ELSE f.env[n]) \in Vals(m) \union {Dynamic}
    BY <1>2, <1>7 DEF Ids, Envs, Vals, Undef
  <2> QED
    BY <1>1, <1>2, <2>1 DEF LoopOf, Begun
<1>9. /\ Append(f.loops, loop) \in Seq(Begun(m)) /\ Len(Append(f.loops, loop)) = L + 1
      /\ \A k \in 1..L : Append(f.loops, loop)[k] = f.loops[k]
      /\ Append(f.loops, loop)[L + 1] = loop
  BY <1>7, <1>8, AppendProperties
<1>10. /\ e \in Frames(G, m) /\ e.code = f.code /\ e.captures = f.captures /\ e.self = f.self
       /\ e.slots = f.slots /\ e.env = f.env /\ e.loops = Append(f.loops, loop)
  BY <1>9 DEF Entered, Frames
<1>11. /\ loop.var = n /\ loop.slot = instr.ex.at /\ loop.at = f.pc
       /\ n # NoName => loop.hides = f.env[n]
  BY DEF LoopOf
<1> HIDE DEF e, loop, new, next, stack, instr
<1>12. ASSUME NEW slot, NEW p, NEW w, Agree(f, home, slot, p, w)
       PROVE  Agree(e, home, slot, p, w)
  BY <1>10, <1>12 DEF Agree
<1>13. FrameCode(e, home, nest)
  BY <1>6, <1>10 DEF FrameCode
<1>14. /\ Len(e.loops) = Len(next)
       /\ \A k \in 1..Len(next) : /\ e.loops[k].var = next[k].var /\ e.loops[k].slot = next[k].slot
                                  /\ e.loops[k].at = next[k].at
  <2>1. ASSUME NEW k \in 1..Len(next)
        PROVE  /\ e.loops[k].var = next[k].var /\ e.loops[k].slot = next[k].slot
               /\ e.loops[k].at = next[k].at
    <3>1. CASE k \in 1..L
      BY <1>5, <1>6, <1>9, <1>10, <3>1 DEF LoopsAt
    <3>2. CASE k = L + 1
      BY <1>4, <1>5, <1>9, <1>10, <1>11, <3>2
    <3> QED
      BY <1>1, <1>5, <3>1, <3>2
  <2> QED
    BY <1>5, <1>9, <1>10, <2>1
<1>15. ASSUME NEW k \in 1..Len(next), next[k].var # NoName
       PROVE  Agree(e, home, SlotAt(home.locals, next[k].bs, next[k].var), next[k].var,
                    e.loops[k].hides)
  <2>1. CASE k \in 1..L
    <3>1. Agree(f, home, SlotAt(home.locals, next[k].bs, next[k].var), next[k].var,
                f.loops[k].hides)
      BY <1>5, <1>6, <1>15, <2>1 DEF LoopsAt
    <3> QED
      BY <1>9, <1>10, <1>12, <2>1, <3>1
  <2>2. CASE k = L + 1
    <3>1. /\ next[k].var = n /\ next[k].bs = Bs(stack) /\ n \in Names
          /\ e.loops[k].hides = f.env[n]
      BY <1>2, <1>4, <1>5, <1>9, <1>10, <1>11, <1>15, <2>2 DEF Ids
    <3>2. Agree(f, home, SlotAt(home.locals, Bs(stack), n), n, f.env[n])
      BY <1>6, <3>1 DEF LoopsAt
    <3> QED
      BY <1>12, <3>1, <3>2
  <2> QED
    BY <1>1, <1>5, <2>1, <2>2
<1>16. BsOK(f.code, home, Bs(next))
  BY NextPc DEF next
<1>17. CASE n = NoName
  <2>1. WithElement(e, loop, v) = e
    BY <1>11, <1>17 DEF WithElement
  <2>2. Bs(next) = Bs(stack)
    BY <1>4, <1>5, <1>17 DEF Inside
  <2>3. \A p \in Names : Agree(e, home, SlotAt(home.locals, Bs(next), p), p, e.env[p])
    BY <1>6, <1>10, <1>12, <2>2 DEF LoopsAt
  <2>4. LoopsAt(e, home, next)
    BY <1>14, <1>15, <2>3 DEF LoopsAt
  <2> QED
    BY <1>10, <1>13, <2>1, <2>4 DEF e, next, loop
<1>18. CASE n # NoName
  <2> DEFINE b == [name |-> n, slot |-> new.slot]
  <2>1. Bs(next) = Append(Bs(stack), b) /\ n \in Names /\ b \in Binding
    BY <1>2, <1>4, <1>5, <1>18 DEF Inside, Ids, Binding
  <2>2. Bs(stack) \in Seq(Binding)
    BY <1>1, BsType DEF stack
  <2>3. ASSUME NEW p \in Names
        PROVE  SlotAt(home.locals, Bs(next), p) =
                 IF p = n THEN new.slot ELSE SlotAt(home.locals, Bs(stack), p)
    <3>1. b.name = n /\ b.slot = new.slot
      OBVIOUS
    <3> HIDE DEF b
    <3>2. b \in Binding /\ Bs(stack) \in Seq(Binding)
      BY <2>1, <2>2
    <3>3. HidesOwn(home.locals, Bs(stack), b, p)
      BY ONLY <3>2, SlotAtInside
    <3>4. SlotAt(home.locals, Append(Bs(stack), b), p) =
            IF p = b.name THEN b.slot ELSE SlotAt(home.locals, Bs(stack), p)
      BY <3>3 DEF HidesOwn
    <3> QED
      BY <2>1, <3>1, <3>4
  <2>4. \A p \in Names \ {n} : Agree(e, home, SlotAt(home.locals, Bs(next), p), p, e.env[p])
    BY <1>6, <1>10, <1>12, <2>3 DEF LoopsAt
  <2>5. LoopsBut(e, home, next, n)
    BY <1>14, <1>15, <2>4 DEF LoopsBut
  <2>6. loop.slot = SlotAt(home.locals, Bs(next), n) /\ loop.slot # 0
    <3>1. loop.slot = new.slot
      BY <1>4, <1>11
    <3>2. instr.ex.at \in 1..f.code.slots
      BY <1>1, <1>18 DEF InstrOK, LoopOK, instr
    <3> QED
      BY <1>11, <2>1, <2>3, <3>1, <3>2
  <2>7. WithElement(e, loop, v) = Keep(e, loop.slot, n, v)
    BY <1>11, <1>18 DEF WithElement, Keep
  <2>8. Apart(home.locals, Bs(next), e.code.slots)
    BY <1>10, <1>16 DEF BsOK
  <2>9. /\ Keep(e, loop.slot, n, v) \in Frames(G, m)
        /\ FrameCode(Keep(e, loop.slot, n, v), home, nest)
        /\ LoopsAt(Keep(e, loop.slot, n, v), home, next)
        /\ Keep(e, loop.slot, n, v).code = e.code
    <3> DEFINE slot == loop.slot
    <3>1. /\ e \in Frames(G, m) /\ FrameCode(e, home, nest) /\ next \in Stacks
          /\ Apart(home.locals, Bs(next), e.code.slots) /\ n \in Names /\ v \in Vals(m)
          /\ slot = SlotAt(home.locals, Bs(next), n) /\ slot # 0 /\ LoopsBut(e, home, next, n)
      BY <1>5, <1>10, <1>13, <2>1, <2>5, <2>6, <2>8
    <3> HIDE DEF slot
    <3>2. /\ Keep(e, slot, n, v) \in Frames(G, m)
          /\ FrameCode(Keep(e, slot, n, v), home, nest)
          /\ LoopsAt(Keep(e, slot, n, v), home, next)
          /\ Keep(e, slot, n, v).code = e.code
      BY ONLY <3>1, KeepOK
    <3> QED
      BY <3>2 DEF slot
  <2> QED
    BY <1>10, <2>7, <2>9 DEF e, next, loop
<1> QED
  BY <1>17, <1>18

\* The next element.
LEMMA AgainOK ==
    ASSUME NEW G, NEW m, NEW f \in Frames(G, m), NEW home, NEW nest, FrameAt(f, home, nest),
           f.pc <= Len(f.code.body), f.code.body[f.pc].op = "end", NEW v \in Vals(m)
    PROVE  LET loop == f.loops[Len(f.loops)]
               d == WithElement(f, loop, v)
           IN  /\ d \in Frames(G, m) /\ FrameCode(d, home, nest) /\ d.code = f.code
               /\ LoopsAt(d, home, nest[loop.at + 1])
               /\ loop.at + 1 \in 1..Len(f.code.body) + 1
               /\ Len(f.loops) \in Nat \ {0}
<1> DEFINE stack == nest[f.pc]
           L == Len(f.loops)
           loop == f.loops[L]
           top == stack[L]
<1>1. /\ stack \in Stacks /\ f.pc \in Nat /\ Follows(f.code.body, nest, f.pc) /\ Len(stack) \in Nat
      /\ \A k \in 1..Len(stack) : Opened1(f.code.body, nest, f.pc, k)
      /\ Len(f.code.body) \in Nat
  BY AtPc, LenProperties DEF Stacks
<1>2. FrameCode(f, home, nest) /\ LoopsAt(f, home, stack) /\ f.pc \in 1..Len(f.code.body) + 1
  BY FrameParts DEF FrameAt
<1>3. stack # <<>>
  BY <1>1 DEF Follows
<1>4. Len(stack) # 0
  BY <1>1, <1>3, EmptySeq DEF Stacks
<1>5. L = Len(stack) /\ L \in 1..Len(stack) /\ L \in Nat \ {0}
  BY <1>1, <1>2, <1>4 DEF LoopsAt
<1>6. loop.var = top.var /\ loop.slot = top.slot /\ loop.at = top.at
  BY <1>2, <1>5 DEF LoopsAt
<1>7. /\ top.at \in 1..f.pc - 1 /\ nest[top.at + 1] = SubSeq(stack, 1, L)
  BY <1>1, <1>5 DEF Opened1
<1>8. SubSeq(stack, 1, L) = stack
  BY <1>1, <1>5, PrefixOfStack
<1>9. top \in OpenLoop /\ Bs(stack) = Inside(top) /\ top.bs \in Seq(Binding)
  <2>1. Bs(stack) = Inside(top)
    BY <1>3, <1>5 DEF Bs
  <2> HIDE DEF L
  <2> QED
    BY <1>1, <1>5, <2>1, BsType
<1>10. loop.at + 1 \in 1..Len(f.code.body) + 1 /\ nest[loop.at + 1] = stack
  <2> DEFINE at == top.at
             l == Len(f.code.body)
  <2>1. at \in 1..f.pc - 1 /\ f.pc \in 1..l + 1 /\ l \in Nat /\ f.pc \in Nat
    BY <1>1, <1>2, <1>7
  <2>2. nest[at + 1] = stack
    BY <1>7, <1>8
  <2> HIDE DEF at, l
  <2>3. at + 1 \in 1..l + 1
    BY <2>1
  <2> QED
    BY <1>6, <2>2, <2>3 DEF at, l
<1> HIDE DEF loop, top, stack, L
<1>11. CASE loop.var = NoName
  <2>1. WithElement(f, loop, v) = f
    BY <1>11 DEF WithElement
  <2> QED
    BY <1>2, <1>5, <1>10, <2>1 DEF loop, L
<1>12. CASE loop.var # NoName
  <2> DEFINE n == loop.var
             slot == loop.slot
             b == [name |-> n, slot |-> slot]
  <2>1. n \in Names /\ slot \in Nat /\ b \in Binding
    BY <1>6, <1>9, <1>12 DEF OpenLoop, Ids, Binding
  <2>2. b.name = n /\ b.slot = slot
    OBVIOUS
  <2>3. Bs(stack) = Append(top.bs, b)
    BY <1>6, <1>9, <1>12 DEF Inside
  <2>4. WithElement(f, loop, v) = Keep(f, slot, n, v)
    BY <1>12 DEF WithElement, Keep
  <2>5. Apart(home.locals, Bs(stack), f.code.slots)
    BY SlotsOfFrame, <2>1 DEF stack
  <2> HIDE DEF b, n, slot
  <2>6. SlotAt(home.locals, Append(top.bs, b), n) = slot
    <3>1. HidesOwn(home.locals, top.bs, b, n)
      BY ONLY <1>9, <2>1, SlotAtInside
    <3> QED
      BY <2>2, <3>1 DEF HidesOwn
  <2>7. slot # 0
    <3> DEFINE bs == Bs(stack)
               l == Len(bs)
    <3>1. bs = Append(top.bs, b) /\ bs \in Seq(Binding)
      BY <1>9, <2>1, <2>3
    <3>2. Len(Append(top.bs, b)) = Len(top.bs) + 1 /\ Append(top.bs, b)[Len(top.bs) + 1] = b
          /\ Len(top.bs) \in Nat
      BY <1>9, <2>1, AppendProperties
    <3>3. l \in 1..l /\ bs[l] = b
      BY <3>1, <3>2
    <3>4. bs[l].slot \in 1..f.code.slots
      BY <2>5, <3>3 DEF Apart
    <3> QED
      BY <2>2, <3>3, <3>4
  <2>8. LoopsBut(f, home, stack, n)
    BY <1>2 DEF LoopsAt, LoopsBut
  <2>9. /\ Keep(f, slot, n, v) \in Frames(G, m)
        /\ FrameCode(Keep(f, slot, n, v), home, nest)
        /\ LoopsAt(Keep(f, slot, n, v), home, stack)
        /\ Keep(f, slot, n, v).code = f.code
    <3>1. /\ f \in Frames(G, m) /\ FrameCode(f, home, nest) /\ stack \in Stacks
          /\ Apart(home.locals, Bs(stack), f.code.slots) /\ n \in Names /\ v \in Vals(m)
          /\ slot = SlotAt(home.locals, Bs(stack), n) /\ slot # 0 /\ LoopsBut(f, home, stack, n)
      BY <1>1, <1>2, <2>1, <2>3, <2>5, <2>6, <2>7, <2>8
    <3> QED
      BY ONLY <3>1, KeepOK
  <2> QED
    BY <1>5, <1>10, <2>4, <2>9 DEF loop, L
<1> QED
  BY <1>11, <1>12

\* Loops that are left.
LEMMA LeftOK ==
    ASSUME NEW G, NEW m, NEW f \in Frames(G, m), NEW home, NEW nest, FrameAt(f, home, nest),
           NEW k \in 1..Len(f.loops) + 1
    PROVE  /\ Left(f, k) \in Frames(G, m) /\ FrameCode(Left(f, k), home, nest)
           /\ Left(f, k).code = f.code
           /\ LoopsAt(Left(f, k), home, SubSeq(nest[f.pc], 1, k - 1))
<1> DEFINE stack == nest[f.pc]
           L == Len(stack)
           out == SubSeq(stack, 1, k - 1)
           d == Left(f, k)
           Hid(n) == {j \in k..Len(f.loops) : f.loops[j].var = n}
           env == [n \in Names |-> IF Hid(n) = {} THEN f.env[n] ELSE f.loops[Min(Hid(n))].hides]
<1>1. stack \in Stacks /\ L \in Nat
  BY AtPc, LenProperties DEF Stacks
<1>2. FrameCode(f, home, nest) /\ LoopsAt(f, home, stack)
  BY FrameParts
<1>3. /\ f.loops \in Seq(Begun(m)) /\ f.env \in Envs(m) /\ Len(f.loops) = L
      /\ k \in 1..L + 1 /\ k \in Nat /\ k - 1 \in 0..L
  BY <1>1, <1>2 DEF Frames, LoopsAt
<1>4. /\ SubSeq(f.loops, 1, k - 1) \in Seq(Begun(m)) /\ Len(SubSeq(f.loops, 1, k - 1)) = k - 1
      /\ \A i \in 1..k - 1 : SubSeq(f.loops, 1, k - 1)[i] = f.loops[i]
  BY <1>1, <1>3, SubSeqProperties
<1>5. /\ out \in Stacks /\ Len(out) = k - 1 /\ \A i \in 1..k - 1 : out[i] = stack[i]
      /\ Bs(out) = Before(stack, k)
  BY <1>1, <1>3, PrefixOfStack, BeforeStep
<1>6. ASSUME NEW n \in Names, Hid(n) # {}
      PROVE  /\ Min(Hid(n)) \in k..L /\ stack[Min(Hid(n))].var = n
             /\ \A i \in k..Min(Hid(n)) - 1 : stack[i].var # n
  <2>1. Hid(n) \in SUBSET Nat
    BY <1>3
  <2> DEFINE H == Hid(n)
  <2>2. Min(H) \in H /\ \A i \in H : Min(H) <= i
    BY <1>6, <2>1, MinOf
  <2>3. \A i \in k..L : i \in H <=> f.loops[i].var = n
    BY <1>3
  <2>4. H \subseteq k..L
    BY <1>3
  <2>5. \A i \in k..L : f.loops[i].var = stack[i].var
    BY <1>1, <1>2, <1>3 DEF LoopsAt
  <2> HIDE DEF H
  <2>6. Min(H) \in k..L /\ stack[Min(H)].var = n
    BY <2>2, <2>3, <2>4, <2>5
  <2>7. ASSUME NEW i \in k..Min(H) - 1
        PROVE  stack[i].var # n
    <3>1. i \in k..L /\ ~(Min(H) <= i)
      BY <1>1, <1>3, <2>6
    <3> QED
      BY <2>2, <2>3, <2>5, <3>1
  <2> QED
    BY <2>6, <2>7 DEF H
<1>7. ASSUME NEW n \in Names, Hid(n) = {}
      PROVE  \A i \in k..L : stack[i].var # n
  <2>1. \A i \in k..L : f.loops[i].var = stack[i].var
    BY <1>1, <1>2, <1>3 DEF LoopsAt
  <2>2. \A i \in k..L : f.loops[i].var # n
    BY <1>3, <1>7
  <2> QED
    BY ONLY <2>1, <2>2
<1>8. env \in Envs(m)
  <2>1. ASSUME NEW n \in Names
        PROVE  env[n] \in Vals(m) \union {Dynamic}
    <3>1. CASE Hid(n) = {}
      BY <1>3, <3>1 DEF Envs
    <3>2. CASE Hid(n) # {}
      <4> DEFINE j == Min(Hid(n))
      <4>1. j \in k..L
        BY <1>6, <3>2
      <4>2. env[n] = f.loops[j].hides
        BY <3>2
      <4> HIDE DEF j, env
      <4>3. j \in 1..Len(f.loops)
        BY <1>1, <1>3, <4>1
      <4>4. f.loops[j] \in Begun(m)
        BY <1>3, <4>3
      <4> QED
        BY <4>2, <4>4 DEF Begun
    <3> QED
      BY <3>1, <3>2
  <2> QED
    BY <2>1 DEF Envs
<1>9. /\ d \in Frames(G, m) /\ d.code = f.code /\ d.captures = f.captures /\ d.self = f.self
      /\ d.slots = f.slots /\ d.loops = SubSeq(f.loops, 1, k - 1) /\ d.env = env
  BY <1>4, <1>8 DEF Left, Frames
<1> HIDE DEF d, out
<1>10. ASSUME NEW slot, NEW n, NEW w, Agree(f, home, slot, n, w)
       PROVE  Agree(d, home, slot, n, w)
  BY <1>9, <1>10 DEF Agree
<1>11. ASSUME NEW n \in Names
       PROVE  Agree(d, home, SlotAt(home.locals, Bs(out), n), n, d.env[n])
  <2>1. CASE Hid(n) = {}
    <3>1. Deeper(home.locals, stack, k, L + 1)
      BY <1>1, <1>3, FurtherIn
    <3>2. Before(stack, L + 1) = Bs(stack)
      BY <1>1 DEF Before
    <3>3. \A i \in k..L + 1 - 1 : stack[i].var # n
      BY <1>1, <1>3, <1>7, <2>1
    <3>4. SlotAt(home.locals, Bs(stack), n) = SlotAt(home.locals, Bs(out), n)
      BY <1>5, <3>1, <3>2, <3>3 DEF Deeper
    <3>5. Agree(f, home, SlotAt(home.locals, Bs(stack), n), n, f.env[n])
      BY <1>2 DEF LoopsAt
    <3>6. d.env[n] = f.env[n]
      BY <1>9, <2>1
    <3> QED
      BY <1>10, <3>4, <3>5, <3>6
  <2>2. CASE Hid(n) # {}
    <3> DEFINE j == Min(Hid(n))
    <3>1. /\ j \in k..L /\ stack[j].var = n /\ \A i \in k..j - 1 : stack[i].var # n
      BY <1>6, <2>2
    <3>2. d.env[n] = f.loops[j].hides
      BY <1>9, <2>2
    <3> HIDE DEF j
    <3>3. j \in 1..L /\ j \in k..L + 1
      BY <1>1, <1>3, <3>1
    <3>4. Deeper(home.locals, stack, k, j)
      BY <1>1, <1>3, <3>3, FurtherIn
    <3>5. Before(stack, j) = stack[j].bs
      BY <3>3 DEF Before
    <3>6. SlotAt(home.locals, stack[j].bs, n) = SlotAt(home.locals, Bs(out), n)
      BY <1>5, <3>1, <3>4, <3>5 DEF Deeper
    <3>7. n # NoName
      BY BoundsAssumption
    <3>8. Agree(f, home, SlotAt(home.locals, stack[j].bs, n), n, f.loops[j].hides)
      BY <1>2, <3>1, <3>3, <3>7 DEF LoopsAt
    <3> QED
      BY <1>10, <3>2, <3>6, <3>8
  <2> QED
    BY <2>1, <2>2
<1>12. ASSUME NEW i \in 1..Len(out)
       PROVE  /\ d.loops[i].var = out[i].var /\ d.loops[i].slot = out[i].slot
              /\ d.loops[i].at = out[i].at
              /\ out[i].var # NoName =>
                   Agree(d, home, SlotAt(home.locals, out[i].bs, out[i].var), out[i].var,
                         d.loops[i].hides)
  <2>1. i \in 1..k - 1 /\ i \in 1..L
    BY <1>1, <1>3, <1>5
  <2>2. out[i] = stack[i] /\ d.loops[i] = f.loops[i]
    BY <1>4, <1>5, <1>9, <2>1
  <2>3. /\ f.loops[i].var = stack[i].var /\ f.loops[i].slot = stack[i].slot
        /\ f.loops[i].at = stack[i].at
        /\ stack[i].var # NoName =>
             Agree(f, home, SlotAt(home.locals, stack[i].bs, stack[i].var), stack[i].var,
                   f.loops[i].hides)
    BY <1>2, <2>1 DEF LoopsAt
  <2> QED
    BY <1>10, <2>2, <2>3
<1>13. LoopsAt(d, home, out)
  BY <1>4, <1>5, <1>9, <1>11, <1>12 DEF LoopsAt
<1>14. FrameCode(d, home, nest)
  BY <1>2, <1>9 DEF FrameCode
<1> QED
  BY <1>9, <1>13, <1>14 DEF d, out

\* A loop whose domain is empty goes on behind its end.
LEMMA SkipOK ==
    ASSUME NEW G, NEW m, NEW f \in Frames(G, m), NEW home, NEW nest, FrameAt(f, home, nest),
           NEW pc \in 1..Len(f.code.body), f.code.body[pc].op = "loop"
    PROVE  LET end == EndOf(f.code.body, pc)
           IN  /\ end \in 1..Len(f.code.body) + 1 /\ end + 1 \in 1..Len(f.code.body) + 1
               /\ nest[end] = nest[pc + 1] /\ nest[end + 1] = nest[pc]
<1> DEFINE body == f.code.body
           end == EndOf(body, pc)
           l == Len(body)
<1>1. CodeOK(f.code, home, nest) /\ nest[Len(body) + 1] = <<>>
  BY DEF FrameAt
<1>2. Nested(body, nest) /\ body \in Seq(Instrs(G)) /\ l \in Nat
  BY <1>1 DEF CodeOK, Frames, Codes
<1>3. \A i \in 1..l : body[i] \in Instrs(G)
  BY <1>2
<1>4. \A i \in 1..Len(body) : body[i].name \in Ids /\ body[i].ex.at \in Nat
  BY <1>3 DEF Instrs, Places
<1>5. pc \in 1..Len(body) /\ body[pc].op = "loop"
  OBVIOUS
<1> HIDE DEF body
<1>6. /\ end \in pc + 1..Len(body) /\ body[end].op = "end"
      /\ nest[end] = nest[pc + 1] /\ nest[end + 1] = nest[pc]
  BY <1>1, <1>2, <1>4, <1>5, EndOfLoop
<1>7. end \in pc + 1..l /\ pc \in 1..l
  BY <1>5, <1>6
<1> HIDE DEF end, l
<1>8. end \in 1..l + 1 /\ end + 1 \in 1..l + 1
  BY <1>2, <1>7
<1> QED
  BY <1>6, <1>8 DEF end, l, body

\* The loop that an exit finds.
LEMMA TakerOK ==
    ASSUME NEW G, NEW m, NEW f \in Frames(G, m), NEW home, NEW nest, FrameAt(f, home, nest),
           f.pc <= Len(f.code.body), f.code.body[f.pc].op \in {"break", "continue"}
    PROVE  LET instr == f.code.body[f.pc]
               k == Taker(f, instr.name)
               end == EndOf(f.code.body, f.loops[k].at)
           IN  /\ k \in 1..Len(f.loops) /\ Len(f.loops) \in Nat
               /\ instr.name # NoName => f.loops[k].slot = instr.ex.at
               /\ end \in 1..Len(f.code.body) + 1 /\ end + 1 \in 1..Len(f.code.body) + 1
               /\ nest[end] = SubSeq(nest[f.pc], 1, k)
               /\ nest[end + 1] = SubSeq(nest[f.pc], 1, k - 1)
<1> DEFINE instr == f.code.body[f.pc]
           label == instr.name
           stack == nest[f.pc]
           L == Len(stack)
           ks == {k \in 1..Len(f.loops) : label = NoName \/ f.loops[k].var = label}
           k == Taker(f, label)
           j == f.loops[k].at
           end == EndOf(f.code.body, j)
           l == Len(f.code.body)
<1>1. /\ stack \in Stacks /\ InstrOK(f.code, home, stack, instr) /\ L \in Nat /\ l \in Nat
      /\ \A i \in 1..Len(stack) : Opened1(f.code.body, nest, f.pc, i)
  BY AtPc, LenProperties DEF Stacks
<1>2. LoopsAt(f, home, stack) /\ f.pc \in 1..l + 1 /\ f.pc \in Nat /\ f.loops \in Seq(Begun(m))
  BY FrameParts DEF FrameAt, Frames
<1>3. ExitOK(home, stack, instr)
  BY <1>1 DEF InstrOK
<1>4. L # 0 /\ Len(f.loops) = L
  BY <1>1, <1>2, <1>3, EmptySeq DEF ExitOK, Stacks, LoopsAt
<1>5. \A i \in 1..L : f.loops[i].var = stack[i].var
  BY <1>2 DEF LoopsAt
<1>6. ks # {}
  <2>1. CASE label = NoName
    BY <1>1, <1>4, <2>1
  <2>2. CASE label # NoName
    BY <1>3, <1>4, <1>5, <2>2 DEF ExitOK
  <2> QED
    BY <2>1, <2>2
<1>7. k = Max(ks)
  <2>1. DOMAIN f.loops = 1..Len(f.loops)
    BY <1>2
  <2> QED
    BY <1>6, <2>1 DEF Taker
<1>8. k \in ks /\ \A i \in ks : i <= k
  <2>1. ks \in SUBSET (1..L) /\ L \in Nat
    BY <1>1, <1>4
  <2> HIDE DEF ks, L, k
  <2>2. Max(ks) \in ks /\ \A i \in ks : i <= Max(ks)
    BY <1>6, <2>1, MaxOf
  <2> QED
    BY <1>7, <2>2
<1> HIDE DEF k
<1>9. k \in 1..L /\ k \in Nat
  BY <1>1, <1>4, <1>8
<1>10. f.loops[k].slot = stack[k].slot /\ j = stack[k].at
  BY <1>2, <1>9 DEF LoopsAt
<1>11. ASSUME label # NoName
       PROVE  f.loops[k].slot = instr.ex.at
  <2> DEFINE b == [name |-> label, slot |-> stack[k].slot]
  <2>1. stack[k].var = label
    BY <1>4, <1>5, <1>8, <1>9, <1>11
  <2>2. \A i \in k + 1..L : stack[i].var # label
    <3>1. ASSUME NEW i \in k + 1..L
          PROVE  stack[i].var # label
      <4>1. i \in 1..L /\ ~(i <= k)
        BY <1>1, <1>9
      <4>2. i \notin ks
        BY <1>8, <4>1
      <4> QED
        BY <1>4, <1>5, <4>1, <4>2
    <3> QED
      BY <3>1
  <2>3. /\ stack[k] \in OpenLoop /\ stack[k].bs \in Seq(Binding)
        /\ Before(stack, k + 1) = Inside(stack[k])
    BY <1>1, <1>9, BeforeStep, BsType
  <2>4. b.name = label /\ b.slot = stack[k].slot /\ b \in Binding
    BY <1>11, <2>1, <2>3 DEF OpenLoop, Ids, Binding
  <2>5. Before(stack, k + 1) = Append(stack[k].bs, b)
    BY <1>11, <2>1, <2>3 DEF Inside
  <2>6. Deeper(home.locals, stack, k + 1, L + 1) /\ Before(stack, L + 1) = Bs(stack)
    <3>1. k + 1 \in 1..L + 1 /\ L + 1 \in k + 1..L + 1 /\ ~(L + 1 <= L)
      BY <1>1, <1>9
    <3> QED
      BY <1>1, <3>1, FurtherIn DEF Before
  <2>7. \A i \in k + 1..L + 1 - 1 : stack[i].var # label
    BY <1>1, <2>2
  <2>8. SlotAt(home.locals, Bs(stack), label) = SlotAt(home.locals, Before(stack, k + 1), label)
    BY <2>6, <2>7 DEF Deeper
  <2> HIDE DEF b, label, stack, instr
  <2>9. SlotAt(home.locals, Append(stack[k].bs, b), label) =
          IF label = b.name THEN b.slot ELSE SlotAt(home.locals, stack[k].bs, label)
    <3> DEFINE bs == stack[k].bs
    <3>1. bs \in Seq(Binding) /\ b \in Binding
      BY <2>3, <2>4
    <3> HIDE DEF bs
    <3>2. HidesOwn(home.locals, bs, b, label)
      BY ONLY <3>1, SlotAtInside
    <3> QED
      BY <3>2 DEF bs, HidesOwn
  <2>10. instr.ex.at = SlotAt(home.locals, Bs(stack), label)
    BY <1>3, <1>11 DEF ExitOK, label, instr, stack
  <2> QED
    BY <1>10, <2>4, <2>5, <2>8, <2>9, <2>10
<1>12. /\ j \in 1..f.pc - 1 /\ f.code.body[j].op = "loop"
       /\ nest[j] = SubSeq(stack, 1, k - 1) /\ nest[j + 1] = SubSeq(stack, 1, k)
  BY <1>1, <1>9, <1>10 DEF Opened1
<1> HIDE DEF j
<1>13. j \in 1..l
  <2> HIDE DEF l
  <2> QED
    BY <1>1, <1>2, <1>12
<1>14. /\ end \in 1..l + 1 /\ end + 1 \in 1..l + 1
       /\ nest[end] = nest[j + 1] /\ nest[end + 1] = nest[j]
  BY <1>12, <1>13, SkipOK
<1>15. /\ k \in 1..Len(f.loops) /\ Len(f.loops) \in Nat
       /\ label # NoName => f.loops[k].slot = instr.ex.at
  BY <1>1, <1>4, <1>9, <1>11
<1> QED
  BY <1>12, <1>14, <1>15 DEF k, j

-----------------------------------------------------------------------------
(* The frames *)

FramesOK(fs, G, m, F) == fs \in Seq(Frames(G, m)) /\ \A k \in 1..Len(fs) : FrameOK(fs[k], F)

\* The innermost frame, and the ones below it.
LEMMA TopFrame ==
    ASSUME NEW G, NEW m, NEW F, NEW fs, FramesOK(fs, G, m, F), fs # <<>>
    PROVE  /\ Len(fs) \in Nat \ {0} /\ fs[Len(fs)] \in Frames(G, m) /\ FrameOK(fs[Len(fs)], F)
           /\ FramesOK(SubSeq(fs, 1, Len(fs) - 1), G, m, F)
<1> DEFINE l == Len(fs)
<1>1. fs \in Seq(Frames(G, m)) /\ l \in Nat /\ l # 0
  BY EmptySeq DEF FramesOK
<1> HIDE DEF l
<1>2. l \in 1..l /\ l - 1 \in 1 - 1..l
  BY <1>1
<1>3. fs[l] \in Frames(G, m) /\ FrameOK(fs[l], F)
  BY <1>1, <1>2 DEF FramesOK, l
<1>4. /\ SubSeq(fs, 1, l - 1) \in Seq(Frames(G, m)) /\ Len(SubSeq(fs, 1, l - 1)) = l - 1
      /\ \A i \in 1..l - 1 : SubSeq(fs, 1, l - 1)[i] = fs[i]
  <2> DEFINE p == l - 1
  <2>1. Len(fs) = l /\ 1 \in 1..l + 1 /\ p \in 1 - 1..l /\ p = p - 1 + 1
    BY <1>1, <1>2 DEF l
  <2> HIDE DEF p
  <2>2. /\ SubSeq(fs, 1, p) \in Seq(Frames(G, m)) /\ Len(SubSeq(fs, 1, p)) = p
        /\ \A i \in 1..p : SubSeq(fs, 1, p)[i] = fs[i]
    BY <1>1, <2>1, SubSeqProperties
  <2> QED
    BY <2>2 DEF p
<1>5. \A i \in 1..l - 1 : i \in 1..l
  BY <1>1
<1>6. \A i \in 1..l - 1 : FrameOK(SubSeq(fs, 1, l - 1)[i], F)
  BY <1>4, <1>5 DEF FramesOK, l
<1>7. FramesOK(SubSeq(fs, 1, l - 1), G, m, F)
  BY <1>4, <1>6 DEF FramesOK
<1> QED
  BY <1>1, <1>3, <1>7 DEF l

\* It changes.
WithTop(fs, d) == [fs EXCEPT ![Len(fs)] = d]

LEMMA ChangeOK ==
    ASSUME NEW G, NEW m, NEW F, NEW fs, FramesOK(fs, G, m, F), fs # <<>>,
           NEW d \in Frames(G, m), FrameOK(d, F)
    PROVE  FramesOK(WithTop(fs, d), G, m, F)
<1> DEFINE l == Len(fs)
           gs == WithTop(fs, d)
<1>1. fs \in Seq(Frames(G, m)) /\ l \in 1..Len(fs)
  BY TopFrame DEF FramesOK
<1>2. gs = [fs EXCEPT ![l] = d]
  BY DEF WithTop
<1>3. /\ gs \in Seq(Frames(G, m)) /\ Len(gs) = Len(fs)
      /\ \A i \in 1..Len(fs) : gs[i] = IF i = l THEN d ELSE fs[i]
  BY <1>1, <1>2, ExceptSeq
<1> HIDE DEF gs, l
<1>4. \A i \in 1..Len(fs) : FrameOK(fs[i], F)
  BY DEF FramesOK
<1>5. \A i \in 1..Len(gs) : FrameOK(gs[i], F)
  BY <1>3, <1>4
<1> QED
  BY <1>3, <1>5 DEF FramesOK, gs

\* One frame more.
LEMMA PushFrame ==
    ASSUME NEW G, NEW m, NEW F, NEW fs, FramesOK(fs, G, m, F), NEW d \in Frames(G, m), FrameOK(d, F)
    PROVE  FramesOK(Append(fs, d), G, m, F)
<1> DEFINE l == Len(fs)
           gs == Append(fs, d)
<1>1. fs \in Seq(Frames(G, m)) /\ l \in Nat
  BY DEF FramesOK
<1>2. /\ gs \in Seq(Frames(G, m)) /\ Len(gs) = l + 1 /\ gs[l + 1] = d
      /\ \A i \in 1..l : gs[i] = fs[i]
  BY <1>1, AppendProperties
<1>3. \A i \in 1..l : FrameOK(fs[i], F)
  BY DEF FramesOK
<1> HIDE DEF gs, l
<1>4. ASSUME NEW i \in 1..l + 1
      PROVE  FrameOK(gs[i], F)
  <2>1. i \in 1..l \/ i = l + 1
    BY <1>1
  <2> QED
    BY <1>2, <1>3, <2>1
<1> QED
  BY <1>2, <1>4 DEF FramesOK, gs

-----------------------------------------------------------------------------
(* What runs *)

\* Frames and function values, of code in G.
RunOK(G, F, md, gl, fs) ==
    /\ Closed(G, F) /\ FramesOK(fs, G, Len(md), F)
    /\ md \in Seq(Closures(G, Len(md))) /\ \A k \in 1..Len(md) : ClosureIsOK(md[k], F)
    /\ gl \in [Names -> Vals(Len(md))]

Small(v) == v \in Nat /\ v <= 100

LEMMA SmallVals ==
    ASSUME NEW v, Small(v), NEW m
    PROVE  v \in Vals(m)
  BY DEF Small, Vals

\* Where the values of a new frame's slots come from.
SlotsFrom(c, locals, captures) ==
    /\ \A n \in Names : c.params[n] # 0 => c.params[n] = locals[n]
    /\ \A n, p \in Names : locals[n] # 0 /\ locals[n] = locals[p] => n = p
    /\ \A q \in c.inits : \E n \in Initial(c) : /\ q[1] = locals[n] /\ q[2] \in 1..Len(captures)
                                               /\ c.captures[q[2]].name = n
    /\ \A n \in Initial(c) : \E i \in 1..Len(captures) : <<locals[n], i>> \in c.inits

\* What `NewFrame` puts into slot `s`.
SlotOfNew(c, captures, v, s) ==
    IF \E n \in Names : c.params[n] = s THEN v
    ELSE IF \E i \in DOMAIN captures : <<s, i>> \in c.inits
    THEN captures[CHOOSE i \in DOMAIN captures : <<s, i>> \in c.inits]
    ELSE Undef

CapturesAre(c, captures, env) ==
    \A i \in 1..Len(captures) : env[c.captures[i].name] = captures[i]

NewSlotIs(c, locals, captures, v, env, n) ==
    SlotOfNew(c, captures, v, locals[n]) =
        IF c.params[n] # 0 THEN v ELSE IF n = c.name THEN Undef ELSE env[n]

LEMMA SlotOfNewOK ==
    ASSUME NEW G, NEW c \in Codes(G), NEW locals, NEW S, NEW captures \in Seq(S), NEW v, NEW env,
           SlotsFrom(c, locals, captures), CapturesAre(c, captures, env),
           NEW n \in Names, locals[n] # 0, c.params[n] # 0 \/ n \in c.assigned
    PROVE  NewSlotIs(c, locals, captures, v, env, n)
<1> USE DEF NewSlotIs
<1> DEFINE s == locals[n]
<1>1. DOMAIN captures = 1..Len(captures)
  OBVIOUS
<1>2. Initial(c) = {p \in c.assigned : c.params[p] = 0 /\ c.name # p}
  BY DEF Initial
<1>3. c.assigned \subseteq Names
  BY BoundsAssumption DEF Codes
<1>4. CASE c.params[n] # 0
  <2>1. c.params[n] = s
    BY <1>4 DEF SlotsFrom
  <2> QED
    BY <1>4, <2>1 DEF SlotOfNew
<1>5. CASE c.params[n] = 0
  <2>1. ~ \E p \in Names : c.params[p] = s
    <3>1. ASSUME NEW p \in Names, c.params[p] = s
          PROVE  FALSE
      <4>1. locals[p] = s
        BY <3>1 DEF SlotsFrom
      <4>2. p = n
        BY <4>1 DEF SlotsFrom
      <4> QED
        BY <1>5, <3>1, <4>2
    <3> QED
      BY <3>1
  <2>2. ASSUME NEW i \in 1..Len(captures), <<s, i>> \in c.inits
        PROVE  n \in Initial(c) /\ c.captures[i].name = n
    <3> DEFINE q == <<s, i>>
    <3>1. q \in c.inits /\ q[1] = s /\ q[2] = i
      BY <2>2
    <3> HIDE DEF q
    <3>2. PICK p \in Initial(c) : q[1] = locals[p] /\ c.captures[q[2]].name = p
      BY <3>1 DEF SlotsFrom
    <3>3. p \in Names /\ locals[p] = locals[n]
      BY <1>2, <1>3, <3>1, <3>2
    <3>4. p = n
      BY <3>3 DEF SlotsFrom
    <3> QED
      BY <3>1, <3>2, <3>4
  <2>3. CASE n = c.name
    <3>1. ~ \E i \in 1..Len(captures) : <<s, i>> \in c.inits
      BY <1>2, <2>2, <2>3
    <3> QED
      BY <1>1, <1>5, <2>1, <2>3, <3>1 DEF SlotOfNew
  <2>4. CASE n # c.name
    <3>1. n \in Initial(c)
      BY <1>2, <1>5, <2>4
    <3>2. \E i \in 1..Len(captures) : <<s, i>> \in c.inits
      BY <3>1 DEF SlotsFrom
    <3> DEFINE i == CHOOSE i \in DOMAIN captures : <<s, i>> \in c.inits
    <3>3. i \in 1..Len(captures) /\ <<s, i>> \in c.inits
      BY <1>1, <3>2
    <3>4. SlotOfNew(c, captures, v, s) = captures[i]
      BY <1>1, <2>1, <3>2 DEF SlotOfNew
    <3> HIDE DEF i
    <3>5. c.captures[i].name = n
      BY <2>2, <3>3
    <3>6. captures[i] = env[n]
      BY <3>3, <3>5 DEF CapturesAre
    <3> QED
      BY <1>5, <2>4, <3>4, <3>6
  <2> QED
    BY <2>3, <2>4
<1> QED
  BY <1>4, <1>5

\* `NewFrame`.
LEMMA NewFrameOK ==
    ASSUME NEW G, NEW F, NEW gl, NEW fs, RunOK(G, F, made, gl, fs), NEW k \in 1..Len(made),
           NEW v, Small(v)
    PROVE  NewFrame(k, v) \in Frames(G, Len(made)) /\ FrameOK(NewFrame(k, v), F)
<1> DEFINE m == Len(made)
           mk == made[k]
           c == mk.code
           d == NewFrame(k, v)
<1>1. made \in Seq(Closures(G, m)) /\ m \in Nat /\ k \in 1..m /\ k \in Nat
  BY DEF RunOK
<1>2. mk \in Closures(G, m) /\ ClosureIsOK(mk, F)
  BY <1>1 DEF RunOK
<1>3. c \in G /\ c \in Codes(G) /\ GoodCode(c, F)
  BY <1>2 DEF RunOK, Closed, Closures
<1>4. PICK locals, nest : LET home == Home(FALSE, locals, F)
                          IN  /\ CodeOK(c, home, nest) /\ nest[Len(c.body) + 1] = <<>>
                              /\ Inits(c, home, Initial(c))
  BY <1>3 DEF GoodCode
<1> DEFINE home == Home(FALSE, locals, F)
<1>5. /\ CodeOK(c, home, nest) /\ nest[Len(c.body) + 1] = <<>> /\ Inits(c, home, Initial(c))
      /\ home.top = FALSE /\ home.locals = locals /\ home.forwards = F
  BY <1>4 DEF Home
<1> HIDE DEF home
<1>6. /\ Nested(c.body, nest) /\ nest[1] = <<>> /\ Len(nest) = Len(c.body) + 1
      /\ nest \in Seq(Stacks) /\ Len(c.body) \in Nat
  BY <1>3, <1>5 DEF CodeOK, Nested, Codes
<1>7. Bs(<<>>) = <<>> /\ Len(<<>>) = 0
  BY EmptyNest
<1>8. HeadOK(c, home) /\ BsOK(c, home, <<>>)
  <2>1. 1 \in 1..Len(nest)
    BY <1>6
  <2> QED
    BY <1>5, <1>6, <1>7, <2>1 DEF CodeOK
<1>9. /\ locals \in [Names -> 0..c.slots] /\ c.slots \in Nat
      /\ \A n, p \in Names : locals[n] # 0 /\ locals[n] = locals[p] => n = p
  BY <1>3, <1>5, <1>8 DEF BsOK, Apart, Codes
<1>10. /\ c.name \notin F
       /\ \A n \in Names : /\ locals[n] # 0 <=> c.params[n] # 0 \/ n \in c.assigned
                           /\ c.params[n] # 0 => c.params[n] = locals[n]
                           /\ locals[n] # 0 => n \notin F
       /\ \A i \in 1..Len(c.captures) : c.captures[i].name \notin F
       /\ \A p \in c.inits : InitOK(c, home, p)
  BY <1>5, <1>8 DEF HeadOK
<1>11. /\ mk.captures \in Seq(Vals(m)) /\ mk.env \in Envs(m) /\ Len(mk.captures) = Len(c.captures)
       /\ \A i \in 1..Len(mk.captures) : mk.env[c.captures[i].name] = mk.captures[i]
       /\ \A n \in Names : mk.env[n] = Dynamic <=> n \in F
  BY <1>2 DEF Closures, ClosureIsOK
<1>12. SlotsFrom(c, locals, mk.captures)
  BY <1>5, <1>9, <1>10, <1>11 DEF SlotsFrom, Inits, InitOK
<1> DEFINE slots == [s \in 1..c.slots |-> SlotOfNew(c, mk.captures, v, s)]
           env == [n \in Names |-> IF c.params[n] # 0 THEN v
                                   ELSE IF n = c.name /\ n \in c.assigned THEN Undef
                                   ELSE IF n = c.name THEN Func(k)
                                   ELSE mk.env[n]]
<1>13. d = [code |-> c, pc |-> 1, captures |-> mk.captures, self |-> Func(k),
            slots |-> slots, loops |-> <<>>, env |-> env]
  BY DEF NewFrame, SlotOfNew
<1>14. v \in Vals(m) /\ Undef \in Vals(m) /\ Func(k) \in Vals(m) /\ v # Dynamic /\ Undef # Dynamic /\ Func(k) # Dynamic
  BY <1>1 DEF Small, Vals, Undef, Func, Dynamic
<1>15. slots \in Seq(Vals(m)) /\ Len(slots) = c.slots
  <2>1. ASSUME NEW s \in 1..c.slots
        PROVE  SlotOfNew(c, mk.captures, v, s) \in Vals(m)
    <3>1. \A i \in DOMAIN mk.captures : mk.captures[i] \in Vals(m)
      BY <1>11
    <3> QED
      BY <1>14, <3>1 DEF SlotOfNew
  <2> QED
    BY <1>9, <2>1
<1>16. env \in Envs(m)
  BY <1>11, <1>14 DEF Envs
<1>17. /\ d.code = c /\ d.pc = 1 /\ d.captures = mk.captures /\ d.self = Func(k)
       /\ d.slots = slots /\ d.loops = <<>> /\ d.env = env
  BY <1>13
<1>18. d \in Frames(G, m)
  <2>1. <<>> \in Seq(Begun(m)) /\ 1 \in Nat
    OBVIOUS
  <2> HIDE DEF slots, env
  <2> QED
    BY <1>3, <1>11, <1>13, <1>14, <1>15, <1>16, <2>1 DEF Frames
<1>19. \A s \in 1..c.slots : slots[s] = SlotOfNew(c, mk.captures, v, s)
  OBVIOUS
<1>20. \A n \in Names : env[n] = IF c.params[n] # 0 THEN v
                                 ELSE IF n = c.name /\ n \in c.assigned THEN Undef
                                 ELSE IF n = c.name THEN Func(k)
                                 ELSE mk.env[n]
  OBVIOUS
<1> HIDE DEF d, slots, env
<1>21. ASSUME NEW n \in Names
       PROVE  Agree(d, home, locals[n], n, d.env[n])
  <2>1. CASE locals[n] # 0
    <3>1. locals[n] \in 1..c.slots
      BY <1>9, <2>1
    <3>2. SlotOfNew(c, mk.captures, v, locals[n]) =
            IF c.params[n] # 0 THEN v ELSE IF n = c.name THEN Undef ELSE mk.env[n]
      <4>1. CapturesAre(c, mk.captures, mk.env)
        BY <1>11 DEF CapturesAre
      <4>2. c.params[n] # 0 \/ n \in c.assigned
        BY <1>10, <2>1
      <4> DEFINE caps == mk.captures
                 means == mk.env
      <4>3. /\ c \in Codes(G) /\ caps \in Seq(Vals(m)) /\ SlotsFrom(c, locals, caps)
            /\ CapturesAre(c, caps, means)
        BY <1>3, <1>11, <1>12, <4>1
      <4> HIDE DEF caps, means, c, m
      <4>4. NewSlotIs(c, locals, caps, v, means, n)
        BY ONLY n \in Names, <2>1, <4>2, <4>3, SlotOfNewOK
      <4> QED
        BY <4>4 DEF caps, means, NewSlotIs
    <3>3. c.params[n] # 0 \/ n \in c.assigned
      BY <1>10, <2>1
    <3>4. d.slots[locals[n]] = d.env[n]
      BY <1>17, <1>19, <1>20, <3>1, <3>2, <3>3
    <3> QED
      BY <2>1, <3>4 DEF Agree
  <2>2. CASE locals[n] = 0
    <3>1. c.params[n] = 0 /\ n \notin c.assigned
      BY <1>10, <2>2
    <3>2. CASE n = c.name
      BY <1>17, <1>20, <2>2, <3>1, <3>2 DEF Agree
    <3>3. CASE n # c.name
      <4>1. d.env[n] = mk.env[n]
        BY <1>17, <1>20, <3>1, <3>3
      <4>2. CASE n \in F
        BY <1>5, <1>11, <1>17, <2>2, <3>3, <4>1, <4>2 DEF Agree
      <4>3. CASE n \notin F
        BY <1>5, <1>11, <1>17, <2>2, <3>3, <4>1, <4>3 DEF Agree
      <4> QED
        BY <4>2, <4>3
    <3> QED
      BY <3>2, <3>3
  <2> QED
    BY <2>1, <2>2
<1>22. \A n \in Names : SlotAt(home.locals, Bs(nest[d.pc]), n) = locals[n]
  <2>1. Bs(nest[d.pc]) = <<>>
    BY <1>6, <1>7, <1>17
  <2>2. <<>> \in Seq(Binding) /\ Len(<<>>) = 0
    OBVIOUS
  <2>3. \A n : SlotAt(locals, <<>>, n) = locals[n]
    <3>1. 1..Len(<<>>) = {}
      BY <2>2
    <3> QED
      BY <3>1 DEF SlotAt
  <2> QED
    BY <1>5, <2>1, <2>3
<1>23. LoopsAt(d, home, nest[d.pc])
  <2>1. nest[d.pc] = <<>> /\ d.loops = <<>>
    BY <1>6, <1>17
  <2> QED
    BY <1>7, <1>21, <1>22, <2>1 DEF LoopsAt
<1>24. FrameAt(d, home, nest)
  BY <1>5, <1>6, <1>11, <1>15, <1>17, <1>23 DEF FrameAt
<1> QED
  BY <1>18, <1>24 DEF FrameOK, d, home

\* The frames are left.
LEMMA AllLeft ==
    ASSUME NEW G, NEW F, NEW md, NEW gl, NEW fs, RunOK(G, F, md, gl, fs)
    PROVE  RunOK(G, F, md, gl, <<>>)
<1>1. <<>> \in Seq(Frames(G, Len(md))) /\ 1..Len(<<>>) = {}
  OBVIOUS
<1>2. FramesOK(<<>>, G, Len(md), F)
  BY <1>1 DEF FramesOK
<1> QED
  BY <1>2 DEF RunOK

\* The innermost frame.
LEMMA RunTop ==
    ASSUME NEW G, NEW F, NEW md, NEW gl, NEW fs, RunOK(G, F, md, gl, fs), fs # <<>>
    PROVE  /\ Len(md) \in Nat /\ gl \in [Names -> Vals(Len(md))]
           /\ fs[Len(fs)] \in Frames(G, Len(md)) /\ Len(fs) \in Nat \ {0}
           /\ \E top, locals, nest : FrameAt(fs[Len(fs)], Home(top, locals, F), nest)
<1>1. FramesOK(fs, G, Len(md), F) /\ Len(md) \in Nat /\ gl \in [Names -> Vals(Len(md))]
  BY DEF RunOK
<1>2. /\ fs[Len(fs)] \in Frames(G, Len(md)) /\ FrameOK(fs[Len(fs)], F) /\ Len(fs) \in Nat \ {0}
  BY <1>1, TopFrame
<1> QED
  BY <1>1, <1>2 DEF FrameOK

\* It goes on elsewhere.
LEMMA GoOn ==
    ASSUME NEW G, NEW F, NEW md, NEW gl, NEW fs, RunOK(G, F, md, gl, fs), fs # <<>>,
           NEW d \in Frames(G, Len(md)), NEW top, NEW locals, NEW nest,
           FrameCode(d, Home(top, locals, F), nest), NEW pc \in 1..Len(d.code.body) + 1,
           LoopsAt(d, Home(top, locals, F), nest[pc])
    PROVE  RunOK(G, F, md, gl, WithTop(fs, Goto(d, pc)))
<1>1. FramesOK(fs, G, Len(md), F)
  BY DEF RunOK
<1>2. Goto(d, pc) \in Frames(G, Len(md)) /\ FrameAt(Goto(d, pc), Home(top, locals, F), nest)
  BY GotoOK
<1>3. FrameOK(Goto(d, pc), F)
  BY <1>2 DEF FrameOK
<1>4. FramesOK(WithTop(fs, Goto(d, pc)), G, Len(md), F)
  BY <1>1, <1>2, <1>3, ChangeOK
<1> QED
  BY <1>4 DEF RunOK

\* A call.
LEMMA CallOK ==
    ASSUME NEW G, NEW F, NEW gl, NEW fs, RunOK(G, F, made, gl, fs), NEW k \in 1..Len(made),
           NEW v, Small(v)
    PROVE  RunOK(G, F, made, gl, Append(fs, NewFrame(k, v)))
<1>1. FramesOK(fs, G, Len(made), F)
  BY DEF RunOK
<1>2. NewFrame(k, v) \in Frames(G, Len(made)) /\ FrameOK(NewFrame(k, v), F)
  BY NewFrameOK
<1>3. FramesOK(Append(fs, NewFrame(k, v)), G, Len(made), F)
  BY <1>1, <1>2, PushFrame
<1> QED
  BY <1>3 DEF RunOK

\* The counters.
Counts == data \in Nat /\ data <= 89 /\ calls \in Nat /\ calls <= 10

RunNow(G) == RunOK(G, forwards, made, globals, frames)
RunNext(G) == RunOK(G, forwards, made', globals', frames')

LEMMA NextSmall ==
    ASSUME Counts
    PROVE  Small(data) /\ (data < MaxData => Small(data + 1)) /\ (calls < MaxCalls => Small(Argument(calls)))
  BY BoundsAssumption DEF Counts, Small, Argument

\* Reads.
LEMMA GetOK ==
    ASSUME NEW G, RunNow(G), Counts, Get
    PROVE  RunNext(G)
<1> DEFINE m == Len(made)
           v == Eval(Fr, Here.name, Here.ex)
           fs == [frames EXCEPT ![Len(frames)].pc = @ + 1]
<1>1. /\ frames # <<>> /\ Fr.pc <= Len(Fr.code.body) /\ Here.op = "get"
      /\ made' = made /\ globals' = globals
  BY DEF Get, At, Running
<1>2. /\ m \in Nat /\ globals \in [Names -> Vals(m)] /\ Fr \in Frames(G, m) /\ Len(frames) \in Nat \ {0}
      /\ \E top, locals, nest : FrameAt(Fr, Home(top, locals, forwards), nest)
  BY <1>1, RunTop DEF RunNow, Fr
<1>3. PICK top, locals, nest : FrameAt(Fr, Home(top, locals, forwards), nest)
  BY <1>2
<1> DEFINE home == Home(top, locals, forwards)
<1>4. /\ nest[Fr.pc + 1] = nest[Fr.pc] /\ Fr.pc + 1 \in 1..Len(Fr.code.body) + 1
  BY <1>1, <1>2, <1>3, NextPc DEF Here
<1>5. FrameCode(Fr, home, nest) /\ LoopsAt(Fr, home, nest[Fr.pc])
  BY <1>3, FrameParts
<1>6. fs = WithTop(frames, Goto(Fr, Fr.pc + 1))
  BY DEF WithTop, Goto, Fr
<1>7. RunOK(G, forwards, made, globals, WithTop(frames, Goto(Fr, Fr.pc + 1)))
  BY <1>1, <1>2, <1>4, <1>5, GoOn DEF RunNow
<1>8. v \in Vals(m)
  <2>1. InstrOK(Fr.code, home, nest[Fr.pc], Here) /\ Here \in Instrs(G)
    BY <1>1, <1>2, <1>3, AtPc DEF Here
  <2>2. /\ Here.name \in Names /\ Here.ex \in Places
        /\ SourceOK(Fr.code, home, SlotAt(home.locals, Bs(nest[Fr.pc]), Here.name), Here.name, Here.ex)
    BY <1>1, <2>1 DEF InstrOK, Instrs
  <2>3. Finds(Fr, home, Here.name, v, m)
    BY <1>2, <1>3, <2>2, EvalHere
  <2> QED
    BY <2>3 DEF Finds
<1>9. CASE frames' = <<>>
  BY <1>1, <1>9, AllLeft DEF RunNow, RunNext
<1>10. CASE frames' = fs
  BY <1>1, <1>6, <1>7, <1>10 DEF RunNow, RunNext
<1>11. CASE IsFunc(v) /\ CallFrom(fs, v - 100)
  <2>1. v - 100 \in 1..m
    BY <1>8, <1>11 DEF IsFunc, Vals
  <2>2. Small(Argument(calls)) /\ frames' = Append(fs, NewFrame(v - 100, Argument(calls)))
    BY <1>11, NextSmall DEF CallFrom
  <2>3. RunOK(G, forwards, made, globals, Append(fs, NewFrame(v - 100, Argument(calls))))
    BY <1>6, <1>7, <2>1, <2>2, CallOK
  <2> QED
    BY <1>1, <2>2, <2>3 DEF RunNext
<1>12. \/ frames' = <<>>
       \/ frames' = fs
       \/ IsFunc(v) /\ CallFrom(fs, v - 100)
  BY DEF Get, Fail
<1> QED
  BY <1>9, <1>10, <1>11, <1>12

\* Assignments.
LEMMA PutOK ==
    ASSUME NEW G, RunNow(G), Counts, Put
    PROVE  RunNext(G)
<1> DEFINE m == Len(made)
           v == data + 1
           d == Stored(Fr, Here.name, Here.ex, v)
<1>1. /\ frames # <<>> /\ Fr.pc <= Len(Fr.code.body) /\ Here.op = "put" /\ data < MaxData
      /\ made' = made /\ frames' = WithTop(frames, Goto(d, Fr.pc + 1))
      /\ StoreGlobal(Here.name, Here.ex, v)
  BY DEF Put, At, Running, Change, WithTop
<1>2. /\ m \in Nat /\ globals \in [Names -> Vals(m)] /\ Fr \in Frames(G, m)
      /\ \E top, locals, nest : FrameAt(Fr, Home(top, locals, forwards), nest)
  BY <1>1, RunTop DEF RunNow, Fr
<1>3. PICK top, locals, nest : FrameAt(Fr, Home(top, locals, forwards), nest)
  BY <1>2
<1> DEFINE home == Home(top, locals, forwards)
<1>4. /\ nest[Fr.pc + 1] = nest[Fr.pc] /\ Fr.pc + 1 \in 1..Len(Fr.code.body) + 1
  BY <1>1, <1>2, <1>3, NextPc DEF Here
<1>5. InstrOK(Fr.code, home, nest[Fr.pc], Here)
  BY <1>1, <1>2, <1>3, AtPc DEF Here
<1>6. /\ Here.name \in Names
      /\ PlaceOK(home, SlotAt(home.locals, Bs(nest[Fr.pc]), Here.name), Here.ex)
  BY <1>1, <1>5 DEF InstrOK
<1>7. v \in Vals(m)
  BY <1>1, NextSmall, SmallVals
<1> HIDE DEF v
<1>8. /\ d \in Frames(G, m) /\ FrameCode(d, home, nest) /\ LoopsAt(d, home, nest[Fr.pc])
      /\ d.code = Fr.code
  BY <1>2, <1>3, <1>6, <1>7, StoredOK
<1> HIDE DEF d
<1>9. RunOK(G, forwards, made, globals, WithTop(frames, Goto(d, Fr.pc + 1)))
  BY <1>1, <1>4, <1>8, GoOn DEF RunNow
<1>10. globals' \in [Names -> Vals(m)]
  BY <1>1, <1>2, <1>7 DEF StoreGlobal
<1> QED
  BY <1>1, <1>9, <1>10 DEF RunOK, RunNext

\* A function value, as `MakeClosure` makes it.
MadeIn(f, code) == [code |-> code, captures |-> Captures(f, code), env |-> EnvOf(f, code)]

\* Names declared forward are looked up at each read.
LEMMA ForwardsDynamic ==
    ASSUME NEW G, NEW m, NEW f \in Frames(G, m), NEW home, NEW nest, FrameAt(f, home, nest),
           NEW n \in Names, n \in home.forwards
    PROVE  f.env[n] = Dynamic
<1> DEFINE bs == Bs(nest[f.pc])
<1>1. /\ nest[f.pc] \in Stacks /\ BsOK(f.code, home, bs) /\ HeadOK(f.code, home)
  BY AtPc
<1>2. bs \in Seq(Binding)
  BY <1>1, BsType
<1>3. \A k \in 1..Len(bs) : bs[k].name # n
  BY <1>1 DEF BsOK
<1>4. home.locals[n] = 0 /\ f.code.name # n
  BY <1>1 DEF HeadOK
<1> HIDE DEF bs
<1>5. SlotAt(home.locals, bs, n) = 0
  BY <1>2, <1>3, <1>4, SlotAtFound
<1>6. Agree(f, home, SlotAt(home.locals, bs, n), n, f.env[n])
  BY FrameParts DEF LoopsAt, bs
<1> QED
  BY <1>4, <1>5, <1>6 DEF Agree

LEMMA MadeOK ==
    ASSUME NEW G, NEW f, NEW home, NEW nest, NEW gl, NEW fs, RunOK(G, forwards, made, gl, fs),
           f \in Frames(G, Len(made)), FrameAt(f, home, nest), home.forwards = forwards,
           globals \in [Names -> Vals(Len(made))], forwards \subseteq Names \ Bound,
           f.pc <= Len(f.code.body), f.code.body[f.pc].op = "closure"
    PROVE  LET c == MadeIn(f, f.code.body[f.pc].code)
           IN  c \in Closures(G, Len(made)) /\ ClosureIsOK(c, forwards)
<1> DEFINE m == Len(made)
           instr == f.code.body[f.pc]
           code == instr.code
           bs == Bs(nest[f.pc])
           caps == Captures(f, code)
           env == EnvOf(f, code)
           c == MadeIn(f, code)
<1>1. m \in Nat /\ Closed(G, forwards)
  BY DEF RunOK
<1>2. InstrOK(f.code, home, nest[f.pc], instr) /\ instr \in Instrs(G)
  BY AtPc
<1>3. ClosureOK(f.code, home, bs, instr)
  BY <1>2 DEF InstrOK
<1>4. code \in G
  BY <1>2, <1>3 DEF ClosureOK, Instrs
<1>5. code \in Codes(G) /\ GoodCode(code, forwards)
  BY <1>1, <1>4 DEF Closed
<1>6. code.captures \in Seq(Capture) /\ code.assigned \subseteq Bound /\ Bound \subseteq Names
  BY <1>5, BoundsAssumption DEF Codes
<1>7. \A i \in 1..Len(code.captures) : code.captures[i].name \notin forwards
  <2>1. PICK locals, n2 : HeadOK(code, Home(FALSE, locals, forwards))
    BY <1>5 DEF GoodCode, CodeOK
  <2> QED
    BY <2>1 DEF HeadOK, Home
<1>8. ASSUME NEW i \in 1..Len(code.captures)
      PROVE  /\ code.captures[i].name \in Names /\ code.captures[i].source \in Places
             /\ SourceOK(f.code, home, SlotAt(home.locals, bs, code.captures[i].name),
                         code.captures[i].name, code.captures[i].source)
  <2>1. code.captures[i] \in Capture
    BY <1>6
  <2> QED
    BY <1>3, <2>1 DEF Capture, ClosureOK
<1>9. ASSUME NEW i \in 1..Len(code.captures)
      PROVE  Finds(f, home, code.captures[i].name,
                   Eval(f, code.captures[i].name, code.captures[i].source), m)
  <2> DEFINE n == code.captures[i].name
             ex == code.captures[i].source
  <2>1. /\ n \in Names /\ ex \in Places
        /\ SourceOK(f.code, home, SlotAt(home.locals, Bs(nest[f.pc]), n), n, ex)
    BY <1>8
  <2>2. f \in Frames(G, m) /\ globals \in [Names -> Vals(m)]
    OBVIOUS
  <2> HIDE DEF n, ex, m
  <2>3. Finds(f, home, n, Eval(f, n, ex), m)
    BY <1>1, <2>1, <2>2, EvalHere
  <2> QED
    BY <2>3 DEF n, ex
<1>10. DOMAIN code.captures = 1..Len(code.captures) /\ Len(code.captures) \in Nat
  <2> DEFINE q == code.captures
  <2>1. q \in Seq(Capture)
    BY <1>6
  <2> HIDE DEF q
  <2>2. DOMAIN q = 1..Len(q) /\ Len(q) \in Nat
    BY <2>1
  <2> QED
    BY <2>2 DEF q
<1>11. caps = [i \in 1..Len(code.captures) |->
                 Eval(f, code.captures[i].name, code.captures[i].source)]
  BY <1>10 DEF Captures
<1>12. /\ Len(caps) = Len(code.captures) /\ caps \in Seq(Vals(m))
       /\ \A i \in 1..Len(code.captures) :
            caps[i] = Eval(f, code.captures[i].name, code.captures[i].source)
  <2>1. \A i \in 1..Len(code.captures) :
          Eval(f, code.captures[i].name, code.captures[i].source) \in Vals(m)
    BY <1>9 DEF Finds
  <2> DEFINE l == Len(code.captures)
  <2>2. /\ DOMAIN caps = 1..l /\ l \in Nat
        /\ \A i \in 1..l : caps[i] = Eval(f, code.captures[i].name, code.captures[i].source)
        /\ caps = [i \in 1..l |-> caps[i]]
    BY <1>10, <1>11
  <2>3. \A i \in 1..l : caps[i] \in Vals(m)
    BY <2>1, <2>2
  <2> HIDE DEF caps, l, m
  <2>4. caps \in [1..l -> Vals(m)]
    BY <2>2, <2>3
  <2>5. caps \in Seq(Vals(m)) /\ Len(caps) = l
    BY <2>2, <2>4
  <2> QED
    BY <2>2, <2>5 DEF l
<1>13. f.env \in Envs(m)
  BY DEF Frames
<1>14. \A v \in Vals(m) : v # Dynamic
  BY DEF Vals, Dynamic
<1>15. ASSUME NEW n \in Names
       PROVE  LookupVariable(n) \in Vals(m) /\ LookupGlobal(n) \in Vals(m)
  BY <1>1 DEF LookupVariable, LookupGlobal, Vals, Intrinsic
<1>16. ASSUME NEW n \in Names
       PROVE  env[n] = IF f.env[n] # Dynamic THEN f.env[n]
                       ELSE IF n \in code.assigned THEN LookupVariable(n)
                       ELSE IF n \in forwards THEN Dynamic
                       ELSE LookupGlobal(n)
  BY DEF EnvOf
<1>17. env = [n \in Names |-> env[n]]
  BY DEF EnvOf
<1>18. c.code = code /\ c.captures = caps /\ c.env = env /\ c = [code |-> code, captures |-> caps, env |-> env]
  BY DEF MadeIn
<1> HIDE DEF env, caps, c, code, instr, bs, m
<1>19. env \in Envs(m)
  <2>1. ASSUME NEW n \in Names
        PROVE  env[n] \in Vals(m) \union {Dynamic}
    BY <1>13, <1>15, <1>16 DEF Envs
  <2> QED
    BY <1>17, <2>1 DEF Envs
<1>20. c \in Closures(G, m)
  BY <1>4, <1>12, <1>18, <1>19 DEF Closures
<1>21. ASSUME NEW i \in 1..Len(caps)
       PROVE  env[code.captures[i].name] = caps[i]
  <2> DEFINE n == code.captures[i].name
  <2>1. i \in 1..Len(code.captures)
    BY <1>12
  <2>2. n \in Names /\ n \notin forwards
    BY <1>7, <1>8, <2>1
  <2>3. Finds(f, home, n, caps[i], m)
    BY <1>9, <1>12, <2>1
  <2> HIDE DEF n
  <2>4. n \in code.assigned => n \in Bound
    BY <1>6
  <2>5. caps[i] = env[n]
    BY <1>16, <2>2, <2>3, <2>4 DEF Finds
  <2> QED
    BY <2>5 DEF n
<1>22. ASSUME NEW n \in Names
       PROVE  env[n] = Dynamic <=> n \in forwards
  <2>1. CASE n \in forwards
    <3>1. f.env[n] = Dynamic
      BY <2>1, ForwardsDynamic
    <3>2. n \notin code.assigned
      BY <1>6, <2>1
    <3> QED
      BY <1>16, <2>1, <3>1, <3>2
  <2>2. CASE n \notin forwards
    BY <1>14, <1>15, <1>16, <2>2
  <2> QED
    BY <2>1, <2>2
<1>23. ClosureIsOK(c, forwards)
  BY <1>12, <1>18, <1>21, <1>22 DEF ClosureIsOK
<1> QED
  BY <1>20, <1>23 DEF c, code, instr, m

\* One function value more.
LEMMA GrowOK ==
    ASSUME NEW G, NEW F, NEW gl, NEW fs, RunOK(G, F, made, gl, fs),
           NEW c \in Closures(G, Len(made)), ClosureIsOK(c, F)
    PROVE  /\ RunOK(G, F, Append(made, c), gl, fs) /\ Len(Append(made, c)) = Len(made) + 1
           /\ Len(made) \in Nat
           /\ Frames(G, Len(made)) \subseteq Frames(G, Len(made) + 1)
<1> DEFINE m == Len(made)
           l == m + 1
           more == Append(made, c)
<1>1. made \in Seq(Closures(G, m)) /\ m \in Nat /\ FramesOK(fs, G, m, F)
  BY DEF RunOK
<1>2. /\ more \in Seq(Closures(G, m)) /\ Len(more) = l /\ more[l] = c
      /\ \A i \in 1..m : more[i] = made[i]
  BY <1>1, AppendProperties
<1>3. l \in Nat /\ m <= l /\ G \subseteq G
  BY <1>1
<1> HIDE DEF more
<1>4. /\ Seq(Frames(G, m)) \subseteq Seq(Frames(G, l)) /\ Seq(Closures(G, m)) \subseteq Seq(Closures(G, l))
      /\ Frames(G, m) \subseteq Frames(G, l)
  BY <1>1, <1>3, MoreFrames
<1>5. Vals(m) \subseteq Vals(l)
  BY <1>1, <1>3, MoreVals
<1>6. gl \in [Names -> Vals(l)]
  <2>1. gl \in [Names -> Vals(m)]
    BY DEF RunOK
  <2> HIDE DEF m, l
  <2> QED
    BY <1>5, <2>1
<1>7. \A i \in 1..m : ClosureIsOK(made[i], F)
  BY DEF RunOK
<1>8. ASSUME NEW i \in 1..l
      PROVE  ClosureIsOK(more[i], F)
  <2>1. i \in 1..m \/ i = l
    BY <1>1
  <2> QED
    BY <1>2, <1>7, <2>1
<1>9. FramesOK(fs, G, l, F)
  BY <1>1, <1>4 DEF FramesOK
<1>10. RunOK(G, F, more, gl, fs)
  <2>1. Closed(G, F)
    BY DEF RunOK
  <2>2. more \in Seq(Closures(G, l))
    BY <1>2, <1>4
  <2> HIDE DEF l, m
  <2> QED
    BY <1>2, <1>6, <1>8, <1>9, <2>1, <2>2 DEF RunOK
<1> QED
  BY <1>1, <1>2, <1>4, <1>10 DEF more

LEMMA MakeClosureOK ==
    ASSUME NEW G, RunNow(G), forwards \subseteq Names \ Bound, MakeClosure
    PROVE  RunNext(G)
<1> DEFINE m == Len(made)
           code == Here.code
           v == Func(m + 1)
           c == MadeIn(Fr, code)
           d == Stored(Fr, code.name, Here.ex, v)
           more == Append(made, c)
<1>1. /\ frames # <<>> /\ Fr.pc <= Len(Fr.code.body) /\ Here.op = "closure"
      /\ \/ /\ made' = more /\ frames' = WithTop(frames, Goto(d, Fr.pc + 1))
            /\ StoreGlobal(code.name, Here.ex, v)
         \/ frames' = <<>> /\ made' = made /\ globals' = globals
  BY DEF MakeClosure, At, Running, Change, WithTop, MadeIn, Fail
<1>2. /\ m \in Nat /\ globals \in [Names -> Vals(m)] /\ Fr \in Frames(G, m)
      /\ \E top, locals, nest : FrameAt(Fr, Home(top, locals, forwards), nest)
  BY <1>1, RunTop DEF RunNow, Fr
<1>3. PICK top, locals, nest : FrameAt(Fr, Home(top, locals, forwards), nest)
  BY <1>2
<1> DEFINE home == Home(top, locals, forwards)
<1>4. /\ nest[Fr.pc + 1] = nest[Fr.pc] /\ Fr.pc + 1 \in 1..Len(Fr.code.body) + 1
  BY <1>1, <1>2, <1>3, NextPc DEF Here
<1>5. InstrOK(Fr.code, home, nest[Fr.pc], Here) /\ Here \in Instrs(G)
  BY <1>1, <1>2, <1>3, AtPc DEF Here
<1>6. /\ code.name = Here.name /\ Here.name \in Ids
      /\ IF Here.name = NoName THEN Here.ex.kind = "none"
         ELSE PlaceOK(home, SlotAt(home.locals, Bs(nest[Fr.pc]), Here.name), Here.ex)
  BY <1>1, <1>5 DEF InstrOK, ClosureOK, Instrs
<1>7. c \in Closures(G, m) /\ ClosureIsOK(c, forwards)
  <2>1. home.forwards = forwards
    BY DEF Home
  <2> QED
    BY <1>1, <1>2, <1>3, <2>1, MadeOK DEF RunNow, Here
<1>8. CASE frames' = <<>> /\ made' = made /\ globals' = globals
  BY <1>8, AllLeft DEF RunNow, RunNext
<1>9. CASE /\ made' = more /\ frames' = WithTop(frames, Goto(d, Fr.pc + 1))
           /\ StoreGlobal(code.name, Here.ex, v)
  <2>1. /\ RunOK(G, forwards, more, globals, frames) /\ Len(more) = m + 1
        /\ Frames(G, m) \subseteq Frames(G, m + 1)
    BY <1>7, GrowOK DEF RunNow
  <2> HIDE DEF more
  <2>2. v \in Vals(m + 1) /\ Fr \in Frames(G, m + 1)
    BY <1>2, <2>1 DEF Vals, Func
  <2>3. FrameCode(Fr, home, nest) /\ LoopsAt(Fr, home, nest[Fr.pc])
    BY <1>3, FrameParts
  <2>4. /\ d \in Frames(G, m + 1) /\ FrameCode(d, home, nest) /\ LoopsAt(d, home, nest[Fr.pc])
        /\ d.code = Fr.code
    <3>1. CASE Here.name = NoName
      <4>1. d = Fr
        BY <1>6, <3>1 DEF Stored
      <4> QED
        BY <2>2, <2>3, <4>1
    <3>2. CASE Here.name # NoName
      <4>1. Here.name \in Names
        BY <1>6, <3>2 DEF Ids
      <4> QED
        BY <1>3, <1>6, <2>2, <3>2, <4>1, StoredOK
    <3> QED
      BY <3>1, <3>2
  <2> HIDE DEF d
  <2>5. RunOK(G, forwards, more, globals, WithTop(frames, Goto(d, Fr.pc + 1)))
    BY <1>1, <1>4, <2>1, <2>4, GoOn
  <2>6. globals' \in [Names -> Vals(Len(more))]
    <3>1. globals \in [Names -> Vals(m + 1)]
      BY <2>1 DEF RunOK
    <3> QED
      BY <1>9, <2>1, <2>2, <3>1 DEF StoreGlobal
  <2> QED
    BY <1>9, <2>5, <2>6 DEF RunOK, RunNext
<1> QED
  BY <1>1, <1>8, <1>9

\* What the innermost frame stands at.
LEMMA HereIs ==
    ASSUME NEW G, RunNow(G), NEW ops, At(ops)
    PROVE  /\ frames # <<>> /\ Len(made) \in Nat /\ Fr \in Frames(G, Len(made))
           /\ Fr.pc <= Len(Fr.code.body) /\ Here.op \in ops
           /\ \E top, locals, nest : FrameAt(Fr, Home(top, locals, forwards), nest)
<1>1. frames # <<>> /\ Fr.pc <= Len(Fr.code.body) /\ Here.op \in ops
  BY DEF At, Running
<1> QED
  BY <1>1, RunTop DEF RunNow, Fr

LEMMA LoopStepOK ==
    ASSUME NEW G, RunNow(G), Counts, Loop
    PROVE  RunNext(G)
<1> DEFINE m == Len(made)
           v == data + 1
           d == WithElement(Entered(Fr), LoopOf(Fr), v)
           end == EndOf(Fr.code.body, Fr.pc)
<1>1. /\ At({"loop"}) /\ data < MaxData /\ made' = made /\ globals' = globals
      /\ \/ frames' = WithTop(frames, Goto(d, Fr.pc + 1))
         \/ frames' = WithTop(frames, Goto(Fr, end + 1))
  BY DEF Loop, Change, WithTop, Entered, LoopOf, Here
<1>2. /\ frames # <<>> /\ m \in Nat /\ Fr \in Frames(G, m)
      /\ Fr.pc <= Len(Fr.code.body) /\ Fr.code.body[Fr.pc].op = "loop"
      /\ \E top, locals, nest : FrameAt(Fr, Home(top, locals, forwards), nest)
  BY <1>1, HereIs DEF Here
<1>3. PICK top, locals, nest : FrameAt(Fr, Home(top, locals, forwards), nest)
  BY <1>2
<1> DEFINE home == Home(top, locals, forwards)
<1>4. Fr.pc + 1 \in 1..Len(Fr.code.body) + 1 /\ Fr.pc \in 1..Len(Fr.code.body)
  BY <1>2, <1>3, NextPc
<1>5. CASE frames' = WithTop(frames, Goto(d, Fr.pc + 1))
  <2>1. v \in Vals(m)
    BY <1>1, NextSmall, SmallVals
  <2> HIDE DEF v
  <2>2. /\ d \in Frames(G, m) /\ FrameCode(d, home, nest) /\ LoopsAt(d, home, nest[Fr.pc + 1])
        /\ d.code = Fr.code
    BY <1>2, <1>3, <2>1, EnterOK
  <2> HIDE DEF d
  <2>3. RunOK(G, forwards, made, globals, WithTop(frames, Goto(d, Fr.pc + 1)))
    BY <1>2, <1>4, <2>2, GoOn DEF RunNow
  <2> QED
    BY <1>1, <1>5, <2>3 DEF RunNext
<1>6. CASE frames' = WithTop(frames, Goto(Fr, end + 1))
  <2>1. end + 1 \in 1..Len(Fr.code.body) + 1 /\ nest[end + 1] = nest[Fr.pc]
    BY <1>2, <1>3, <1>4, SkipOK
  <2> HIDE DEF end
  <2>2. FrameCode(Fr, home, nest) /\ LoopsAt(Fr, home, nest[end + 1])
    BY <1>3, <2>1, FrameParts
  <2>3. RunOK(G, forwards, made, globals, WithTop(frames, Goto(Fr, end + 1)))
    BY <1>2, <2>1, <2>2, GoOn DEF RunNow
  <2> QED
    BY <1>1, <1>6, <2>3 DEF RunNext
<1> QED
  BY <1>1, <1>5, <1>6

LEMMA AgainStepOK ==
    ASSUME NEW G, RunNow(G), Counts, Again
    PROVE  RunNext(G)
<1> DEFINE m == Len(made)
           v == data + 1
           L == Len(Fr.loops)
           loop == Fr.loops[L]
           d == WithElement(Fr, loop, v)
           e == Left(Fr, L)
<1>1. /\ At({"end"}) /\ data < MaxData /\ made' = made /\ globals' = globals
      /\ \/ frames' = WithTop(frames, Goto(d, loop.at + 1))
         \/ frames' = WithTop(frames, Goto(e, Fr.pc + 1))
  BY DEF Again, Change, WithTop
<1>2. /\ frames # <<>> /\ m \in Nat /\ Fr \in Frames(G, m)
      /\ Fr.pc <= Len(Fr.code.body) /\ Fr.code.body[Fr.pc].op = "end"
      /\ \E top, locals, nest : FrameAt(Fr, Home(top, locals, forwards), nest)
  BY <1>1, HereIs DEF Here
<1>3. PICK top, locals, nest : FrameAt(Fr, Home(top, locals, forwards), nest)
  BY <1>2
<1> DEFINE home == Home(top, locals, forwards)
<1>4. Fr.pc + 1 \in 1..Len(Fr.code.body) + 1
  BY <1>2, <1>3, NextPc
<1>5. v \in Vals(m)
  BY <1>1, NextSmall, SmallVals
<1> HIDE DEF v
<1>6. /\ d \in Frames(G, m) /\ FrameCode(d, home, nest) /\ d.code = Fr.code
      /\ LoopsAt(d, home, nest[loop.at + 1]) /\ loop.at + 1 \in 1..Len(Fr.code.body) + 1
      /\ L \in Nat \ {0}
  BY <1>2, <1>3, <1>5, AgainOK
<1>7. CASE frames' = WithTop(frames, Goto(d, loop.at + 1))
  <2> DEFINE to == loop.at + 1
  <2>1. /\ d \in Frames(G, m) /\ FrameCode(d, home, nest) /\ d.code = Fr.code
        /\ LoopsAt(d, home, nest[to]) /\ to \in 1..Len(Fr.code.body) + 1
        /\ frames' = WithTop(frames, Goto(d, to))
    BY <1>6, <1>7
  <2> HIDE DEF d, to
  <2>2. RunOK(G, forwards, made, globals, WithTop(frames, Goto(d, to)))
    BY <1>2, <2>1, GoOn DEF RunNow
  <2> QED
    BY <1>1, <2>1, <2>2 DEF RunNext
<1>8. CASE frames' = WithTop(frames, Goto(e, Fr.pc + 1))
  <2>1. L \in 1..L + 1
    BY <1>6
  <2>2. /\ e \in Frames(G, m) /\ FrameCode(e, home, nest) /\ e.code = Fr.code
        /\ LoopsAt(e, home, SubSeq(nest[Fr.pc], 1, L - 1))
    BY <1>2, <1>3, <2>1, LeftOK
  <2>3. nest[Fr.pc + 1] = SubSeq(nest[Fr.pc], 1, L - 1)
    <3>1. Follows(Fr.code.body, nest, Fr.pc)
      BY <1>2, <1>3, AtPc
    <3>2. L = Len(nest[Fr.pc])
      BY <1>3, FrameParts DEF LoopsAt
    <3> QED
      BY <1>2, <3>1, <3>2 DEF Follows, After
  <2> HIDE DEF e
  <2>4. RunOK(G, forwards, made, globals, WithTop(frames, Goto(e, Fr.pc + 1)))
    BY <1>2, <1>4, <2>2, <2>3, GoOn DEF RunNow
  <2> QED
    BY <1>1, <1>8, <2>4 DEF RunNext
<1> QED
  BY <1>1, <1>7, <1>8

LEMMA ExitStepOK ==
    ASSUME NEW G, RunNow(G), TakeExit
    PROVE  RunNext(G)
<1> DEFINE m == Len(made)
           k == Taker(Fr, Here.name)
           end == EndOf(Fr.code.body, Fr.loops[k].at)
<1>1. /\ At({"break", "continue"}) /\ made' = made /\ globals' = globals
      /\ \/ frames' = WithTop(frames, Goto(Fr, Fr.pc + 1))
         \/ frames' = <<>>
         \/ frames' = WithTop(frames, Goto(Left(Fr, k), end + 1))
         \/ frames' = WithTop(frames, Goto(Left(Fr, k + 1), end))
  BY DEF TakeExit, Change, WithTop, Fail
<1>2. /\ frames # <<>> /\ m \in Nat /\ Fr \in Frames(G, m)
      /\ Fr.pc <= Len(Fr.code.body) /\ Fr.code.body[Fr.pc].op \in {"break", "continue"}
      /\ \E top, locals, nest : FrameAt(Fr, Home(top, locals, forwards), nest)
  BY <1>1, HereIs DEF Here
<1>3. PICK top, locals, nest : FrameAt(Fr, Home(top, locals, forwards), nest)
  BY <1>2
<1> DEFINE home == Home(top, locals, forwards)
<1>4. Fr.pc + 1 \in 1..Len(Fr.code.body) + 1 /\ nest[Fr.pc + 1] = nest[Fr.pc]
  BY <1>2, <1>3, NextPc
<1>5. /\ k \in 1..Len(Fr.loops) /\ Len(Fr.loops) \in Nat
      /\ end \in 1..Len(Fr.code.body) + 1 /\ end + 1 \in 1..Len(Fr.code.body) + 1
      /\ nest[end] = SubSeq(nest[Fr.pc], 1, k) /\ nest[end + 1] = SubSeq(nest[Fr.pc], 1, k - 1)
  BY <1>2, <1>3, TakerOK DEF Here
<1> HIDE DEF k, end
<1>6. CASE frames' = WithTop(frames, Goto(Fr, Fr.pc + 1))
  <2>1. FrameCode(Fr, home, nest) /\ LoopsAt(Fr, home, nest[Fr.pc + 1])
    BY <1>3, <1>4, FrameParts
  <2>2. RunOK(G, forwards, made, globals, WithTop(frames, Goto(Fr, Fr.pc + 1)))
    BY <1>2, <1>4, <2>1, GoOn DEF RunNow
  <2> QED
    BY <1>1, <1>6, <2>2 DEF RunNext
<1>7. CASE frames' = <<>>
  BY <1>1, <1>7, AllLeft DEF RunNow, RunNext
<1>8. CASE frames' = WithTop(frames, Goto(Left(Fr, k), end + 1))
  <2> DEFINE e == Left(Fr, k)
  <2>1. k \in 1..Len(Fr.loops) + 1
    BY <1>5
  <2>2. /\ e \in Frames(G, m) /\ FrameCode(e, home, nest) /\ e.code = Fr.code
        /\ LoopsAt(e, home, SubSeq(nest[Fr.pc], 1, k - 1))
    BY <1>2, <1>3, <2>1, LeftOK
  <2> HIDE DEF e
  <2>3. RunOK(G, forwards, made, globals, WithTop(frames, Goto(e, end + 1)))
    BY <1>2, <1>5, <2>2, GoOn DEF RunNow
  <2> QED
    BY <1>1, <1>8, <2>3 DEF RunNext, e
<1>9. CASE frames' = WithTop(frames, Goto(Left(Fr, k + 1), end))
  <2> DEFINE j == k + 1
  <2>1. j \in 1..Len(Fr.loops) + 1 /\ j - 1 = k /\ frames' = WithTop(frames, Goto(Left(Fr, j), end))
    BY <1>5, <1>9
  <2> HIDE DEF j
  <2>2. /\ Left(Fr, j) \in Frames(G, m) /\ FrameCode(Left(Fr, j), home, nest)
        /\ Left(Fr, j).code = Fr.code
        /\ LoopsAt(Left(Fr, j), home, SubSeq(nest[Fr.pc], 1, j - 1))
    BY <1>2, <1>3, <2>1, LeftOK
  <2>3. LoopsAt(Left(Fr, j), home, nest[end])
    BY <1>5, <2>1, <2>2
  <2>4. RunOK(G, forwards, made, globals, WithTop(frames, Goto(Left(Fr, j), end)))
    BY <1>2, <1>5, <2>2, <2>3, GoOn DEF RunNow
  <2> QED
    BY <1>1, <2>1, <2>4 DEF RunNext
<1> QED
  BY <1>1, <1>6, <1>7, <1>8, <1>9

LEMMA ReturnOK ==
    ASSUME NEW G, RunNow(G), Return
    PROVE  RunNext(G)
<1>1. /\ frames # <<>> /\ made' = made /\ globals' = globals
      /\ frames' = SubSeq(frames, 1, Len(frames) - 1)
  BY DEF Return, Running
<1>2. FramesOK(frames, G, Len(made), forwards)
  BY DEF RunNow, RunOK
<1>3. FramesOK(SubSeq(frames, 1, Len(frames) - 1), G, Len(made), forwards)
  BY <1>1, <1>2, TopFrame
<1> QED
  BY <1>1, <1>3 DEF RunNow, RunNext, RunOK

\* The statement is run.
LEMMA RunUnitOK ==
    ASSUME NEW G, RunNow(G), ScopesOK(scopes, forwards, G), RunUnit
    PROVE  RunNext(G)
<1> DEFINE sc == scopes[1]
           m == Len(made)
           code == [name |-> NoName, params |-> sc.params, assigned |-> {}, slots |-> sc.slots,
                    inits |-> {}, captures |-> <<>>, body |-> sc.body]
           slots == [s \in 1..sc.slots |-> Undef]
           env == [n \in Names |-> Dynamic]
           f == [code |-> code, pc |-> 1, captures |-> <<>>, self |-> Undef, slots |-> slots,
                 loops |-> <<>>, env |-> env]
<1>1. /\ Len(scopes) = 1 /\ sc.loops = <<>> /\ frames' = <<f>>
      /\ made' = made /\ globals' = globals
  BY DEF RunUnit, Compiled
<1>2. sc \in Scopes(G) /\ TopOK(sc) /\ sc.top
  BY <1>1 DEF ScopesOK
<1>3. PICK nest : ScopeOK(sc, forwards, nest)
  BY <1>1 DEF ScopesOK
<1>4. code \in Codes(G)
  <2>1. /\ sc.params \in [Names -> Nat] /\ sc.slots \in Nat /\ sc.body \in Seq(Instrs(G))
    BY <1>2 DEF Scopes
  <2>2. <<>> \in Seq(Capture) /\ NoName \in Ids
    BY DEF Ids
  <2> QED
    BY <2>1, <2>2 DEF Codes
<1>5. /\ code.body = sc.body /\ code.slots = sc.slots /\ code.captures = <<>>
      /\ code.name = NoName /\ code.params = sc.params /\ code.assigned = {} /\ code.inits = {}
  OBVIOUS
<1> HIDE DEF code
<1>6. CodeOK(code, HomeOf(sc, forwards), nest) /\ nest[Len(code.body) + 1] = <<>>
  <2>1. /\ code.body = sc.body /\ code.slots = sc.slots /\ code.captures = sc.captures
        /\ code.name = sc.name /\ code.params = sc.params /\ code.assigned = sc.assigned
        /\ code.inits = sc.inits
    BY <1>2, <1>5 DEF TopOK
  <2>2. sc \in Scopes(G) /\ ScopeOK(sc, forwards, nest) /\ sc.loops = <<>> /\ code \in Codes(G)
    BY <1>1, <1>2, <1>3, <1>4
  <2> HIDE DEF sc
  <2> QED
    BY ONLY <2>1, <2>2, CodeOfScope
<1> DEFINE home == Home(TRUE, sc.locals, forwards)
<1>7. HomeOf(sc, forwards) = home /\ home.top = TRUE /\ home.locals = sc.locals
  BY <1>2 DEF HomeOf, Home, Scopes
<1>8. m \in Nat /\ sc.slots \in Nat /\ Undef \in Vals(m)
  BY <1>2 DEF RunNow, RunOK, Scopes, Vals, Undef
<1>9. slots \in Seq(Vals(m)) /\ Len(slots) = sc.slots /\ env \in Envs(m)
  BY <1>8 DEF Envs
<1>10. f \in Frames(G, m)
  <2>1. <<>> \in Seq(Begun(m)) /\ <<>> \in Seq(Vals(m)) /\ 1 \in Nat
    OBVIOUS
  <2> HIDE DEF slots, env
  <2> QED
    BY <1>4, <1>8, <1>9, <2>1 DEF Frames
<1>11. /\ f.code = code /\ f.pc = 1 /\ f.captures = <<>> /\ f.slots = slots /\ f.loops = <<>>
       /\ \A n \in Names : f.env[n] = Dynamic
  OBVIOUS
<1> HIDE DEF f, slots, env, home
<1>12. /\ Nested(code.body, nest) /\ nest[1] = <<>> /\ Len(nest) = Len(code.body) + 1
       /\ Len(code.body) \in Nat /\ HeadOK(code, home)
  BY <1>4, <1>6, <1>7 DEF CodeOK, Nested, Codes
<1>13. Bs(<<>>) = <<>> /\ Len(<<>>) = 0
  BY EmptyNest
<1>14. ASSUME NEW n \in Names
       PROVE  Agree(f, home, SlotAt(home.locals, Bs(nest[f.pc]), n), n, f.env[n])
  <2>1. home.locals[n] = 0
    BY <1>2, <1>5, <1>12 DEF HeadOK, TopOK
  <2>2. Bs(nest[f.pc]) = <<>>
    BY <1>11, <1>12, <1>13
  <2>3. 1..Len(<<>>) = {}
    BY <1>13
  <2>4. SlotAt(home.locals, Bs(nest[f.pc]), n) = 0
    BY <2>1, <2>2, <2>3 DEF SlotAt
  <2>5. f.code.name # n
    BY <1>5, <1>11, BoundsAssumption
  <2> QED
    BY <1>7, <1>11, <2>4, <2>5 DEF Agree
<1>15. LoopsAt(f, home, nest[f.pc])
  BY <1>11, <1>12, <1>13, <1>14 DEF LoopsAt
<1>16. FrameAt(f, home, nest)
  <2>1. CodeOK(f.code, home, nest) /\ nest[Len(f.code.body) + 1] = <<>>
    BY ONLY <1>6, <1>7, <1>11
  <2>2. f.pc \in 1..Len(f.code.body) + 1
    BY ONLY <1>11, <1>12
  <2>3. Len(f.slots) = f.code.slots
    BY ONLY <1>5, <1>9, <1>11
  <2>4. Len(f.captures) = Len(f.code.captures)
    BY ONLY <1>5, <1>11
  <2> QED
    BY ONLY <2>1, <2>2, <2>3, <2>4, <1>15 DEF FrameAt
<1>17. FrameOK(f, forwards)
  BY <1>16 DEF FrameOK, home
<1>18. <<f>> \in Seq(Frames(G, m)) /\ 1..Len(<<f>>) = {1} /\ <<f>>[1] = f
  BY <1>10
<1>19. FramesOK(<<f>>, G, m, forwards)
  BY <1>17, <1>18 DEF FramesOK
<1> QED
  BY <1>1, <1>19 DEF RunNow, RunNext, RunOK

-----------------------------------------------------------------------------
(* The invariant *)

\* The functions being compiled, the frames and the function values, with the
\* code that they are of.
Settled(G) == ScopesOK(scopes, forwards, G) /\ InitsOK(scopes, forwards) /\ RunNow(G)

ScopingInv ==
    /\ uses \in {"names", "exits"} /\ forwards \subseteq Names \ Bound
    /\ uses = "exits" => forwards = {}
    /\ Counts
    /\ scopes = <<>> \/ frames = <<>>
    /\ \E G : Settled(G)

LEMMA NoScopes ==
    ASSUME NEW G, NEW F
    PROVE  ScopesOK(<<>>, F, G) /\ InitsOK(<<>>, F)
<1>1. <<>> \in Seq(Scopes(G)) /\ Len(<<>>) = 0 /\ 1..Len(<<>>) = {} /\ 2..Len(<<>>) = {}
  OBVIOUS
<1>2. ScopesOK(<<>>, F, G)
  BY <1>1 DEF ScopesOK
<1>3. InitsOK(<<>>, F)
  BY <1>1 DEF InitsOK
<1> QED
  BY <1>2, <1>3

\* More code changes nothing for what runs.
LEMMA MoreToRun ==
    ASSUME NEW G, NEW H, NEW F, NEW md, NEW gl, NEW fs, RunOK(G, F, md, gl, fs),
           G \subseteq H, Closed(H, F)
    PROVE  RunOK(H, F, md, gl, fs)
<1> DEFINE m == Len(md)
<1>1. /\ FramesOK(fs, G, m, F) /\ md \in Seq(Closures(G, m)) /\ m \in Nat
  BY DEF RunOK
<1>2. Seq(Frames(G, m)) \subseteq Seq(Frames(H, m)) /\ Seq(Closures(G, m)) \subseteq Seq(Closures(H, m))
  <2>1. m \in Nat /\ m <= m
    BY <1>1
  <2> HIDE DEF m
  <2> QED
    BY <2>1, MoreFrames
<1>3. FramesOK(fs, H, m, F)
  BY <1>1, <1>2 DEF FramesOK
<1>4. md \in Seq(Closures(H, m))
  BY <1>1, <1>2
<1> QED
  BY <1>3, <1>4 DEF RunOK

\* A step of the compiler.
Compiling(G) ==
    \E H : G \subseteq H /\ Closed(H, forwards) /\ ScopesOK(scopes', forwards, H) /\ InitsOK(scopes', forwards)

LEMMA CompileOK ==
    ASSUME NEW G, ScopingInv, Settled(G), Compile
    PROVE  Compiling(G) /\ frames = <<>>
<1>1. /\ ScopesOK(scopes, forwards, G) /\ InitsOK(scopes, forwards) /\ Closed(G, forwards)
  BY DEF Settled, RunNow, RunOK
<1>2. /\ forwards \subseteq Names \ Bound /\ Bound \subseteq Names /\ NoName \notin Names
      /\ uses = "exits" => forwards = {}
      /\ uses \in {"names", "exits"}
  BY BoundsAssumption DEF ScopingInv
<1>3. (ScopesOK(scopes', forwards, G) /\ InitsOK(scopes', forwards)) => Compiling(G)
  BY <1>1 DEF Compiling
<1>4. scopes # <<>> => frames = <<>>
  BY DEF ScopingInv
<1>5. CASE Idle /\ ReadStatement
  <2>1. scopes' = <<TopScope>> /\ frames = <<>>
    BY <1>5 DEF Idle, ReadStatement
  <2>2. ScopesOK(<<TopScope>>, forwards, G) /\ InitsOK(<<TopScope>>, forwards)
    BY <1>2, ReadStatementOK
  <2> QED
    BY <1>3, <2>1, <2>2
<1>6. ASSUME NEW n \in Names, Read(n)
      PROVE  Compiling(G) /\ frames = <<>>
  <2>1. ScopesOK(scopes', forwards, G) /\ InitsOK(scopes', forwards)
    BY <1>1, <1>6, ReadOK
  <2> QED
    BY <1>3, <1>4, <1>6, <2>1 DEF Read
<1>7. ASSUME NEW n \in Bound, Write(n)
      PROVE  Compiling(G) /\ frames = <<>>
  <2>1. ScopesOK(scopes', forwards, G) /\ InitsOK(scopes', forwards)
    BY <1>1, <1>2, <1>7, WriteOK
  <2> QED
    BY <1>3, <1>4, <1>7, <2>1 DEF Write
<1>8. ASSUME NEW n \in Bound \union {NoName}, NEW ps \in SUBSET Bound, NEW as \in SUBSET Bound,
             BeginFunction(n, ps, as)
      PROVE  Compiling(G) /\ frames = <<>>
  <2>1. ScopesOK(scopes', forwards, G) /\ InitsOK(scopes', forwards)
    BY <1>1, <1>2, <1>8, BeginFunctionOK
  <2> QED
    BY <1>3, <1>4, <1>8, <2>1 DEF BeginFunction
<1>9. ASSUME NEW n \in IF uses = "names" THEN Bound ELSE Names \union {NoName}, BeginLoop(n)
      PROVE  Compiling(G) /\ frames = <<>>
  <2>1. n \in Ids /\ n \notin forwards
    BY <1>2, <1>9 DEF Ids
  <2>2. ScopesOK(scopes', forwards, G) /\ InitsOK(scopes', forwards)
    BY <1>1, <1>9, <2>1, BeginLoopOK
  <2> QED
    BY <1>3, <1>4, <1>9, <2>2 DEF BeginLoop
<1>10. ASSUME NEW kind \in {"break", "continue"}, NEW l \in Names \union {NoName}, Exit(kind, l)
       PROVE  Compiling(G) /\ frames = <<>>
  <2>1. ScopesOK(scopes', forwards, G) /\ InitsOK(scopes', forwards)
    BY <1>1, <1>10, ExitIsOK DEF Ids
  <2> QED
    BY <1>3, <1>4, <1>10, <2>1 DEF Exit
<1>11. CASE EndFunction
  <2>1. Compiling(G)
    BY <1>1, <1>11, EndFunctionOK DEF Compiling
  <2>2. Len(scopes) > 1 /\ Len(<<>>) = 0
    BY <1>11 DEF EndFunction
  <2>3. scopes # <<>>
    BY <2>2
  <2> QED
    BY <1>4, <2>1, <2>3
<1>12. CASE EndLoop
  <2>1. ScopesOK(scopes', forwards, G) /\ InitsOK(scopes', forwards)
    BY <1>1, <1>12, EndLoopOK
  <2> QED
    BY <1>3, <1>4, <1>12, <2>1 DEF EndLoop
<1> QED
  BY <1>5, <1>6, <1>7, <1>8, <1>9, <1>10, <1>11, <1>12 DEF Compile

\* The counters stay small.
LEMMA CountsStep ==
    ASSUME Counts, Next
    PROVE  Counts'
<1>1. \/ data' = data
      \/ data < MaxData /\ data' = data + 1
  <2>1. CASE Compile /\ Runtime
    BY <2>1 DEF Runtime
  <2>2. CASE Loop
    BY <2>2 DEF Loop
  <2>3. CASE Again
    BY <2>3 DEF Again
  <2>4. CASE RunUnit \/ Get \/ Put \/ MakeClosure \/ TakeExit \/ Return
    BY <2>4 DEF RunUnit, Get, Put, MakeClosure, TakeExit, Return
  <2>5. CASE (\E n \in Names : SetGlobal(n)) \/ (\E k \in DOMAIN made : CallMade(k))
    BY <2>5 DEF SetGlobal, CallMade
  <2> QED
    BY <2>1, <2>2, <2>3, <2>4, <2>5 DEF Next
<1>2. \/ calls' = calls
      \/ calls < MaxCalls /\ calls' = calls + 1
  <2>1. CASE Compile /\ Runtime
    BY <2>1 DEF Runtime
  <2>2. CASE Get
    BY <2>2 DEF Get, CallFrom
  <2>3. CASE RunUnit \/ Put \/ MakeClosure \/ Loop \/ Again \/ TakeExit \/ Return
    BY <2>3 DEF RunUnit, Put, MakeClosure, Loop, Again, TakeExit, Return
  <2>4. CASE (\E n \in Names : SetGlobal(n)) \/ (\E k \in DOMAIN made : CallMade(k))
    BY <2>4 DEF SetGlobal, CallMade, CallFrom
  <2> QED
    BY <2>1, <2>2, <2>3, <2>4 DEF Next
<1> QED
  BY <1>1, <1>2, BoundsAssumption DEF Counts

\* A step of what has been compiled.
LEMMA RunStep ==
    ASSUME NEW G, ScopingInv, Settled(G),
           Get \/ Put \/ MakeClosure \/ Loop \/ Again \/ TakeExit \/ Return
    PROVE  RunNext(G) /\ scopes = <<>> /\ UNCHANGED <<scopes, forwards, uses>>
<1>1. RunNow(G) /\ Counts /\ forwards \subseteq Names \ Bound
  BY DEF ScopingInv, Settled
<1>2. RunNext(G)
  BY <1>1, GetOK, PutOK, MakeClosureOK, LoopStepOK, AgainStepOK, ExitStepOK, ReturnOK
<1>3. Running
  BY DEF Get, Put, MakeClosure, Loop, Again, TakeExit, Return, At
<1>4. Frozen
  BY DEF Get, Put, MakeClosure, Loop, Again, TakeExit, Return
<1> QED
  BY <1>2, <1>3, <1>4 DEF Running, Frozen

LEMMA ScopingInit ==
    ASSUME Init
    PROVE  ScopingInv
<1>1. /\ uses \in {"names", "exits"} /\ scopes = <<>> /\ frames = <<>> /\ made = <<>>
      /\ data = 1 /\ calls = 0
  BY DEF Init
<1>2. forwards \subseteq Names \ Bound /\ (uses = "exits" => forwards = {})
  BY DEF Init
<1>3. Counts
  BY <1>1 DEF Counts
<1>4. globals \in [Names -> Vals(0)]
  <2>1. PICK b \in IF uses = "names" THEN {{}, Bound} ELSE {{}} :
          globals = [n \in Names |-> IF n \in b THEN 1 ELSE Undef]
    BY DEF Init
  <2>2. 1 \in Vals(0) /\ Undef \in Vals(0)
    BY DEF Vals, Undef
  <2> QED
    BY <2>1, <2>2
<1>5. Closed({}, forwards)
  BY DEF Closed
<1>6. /\ <<>> \in Seq(Frames({}, 0)) /\ <<>> \in Seq(Closures({}, 0)) /\ Len(<<>>) = 0
      /\ 1..Len(<<>>) = {}
  OBVIOUS
<1>7. RunOK({}, forwards, <<>>, globals, <<>>)
  BY <1>4, <1>5, <1>6 DEF RunOK, FramesOK
<1>8. Settled({})
  BY <1>1, <1>7, NoScopes DEF Settled, RunNow
<1> QED
  BY <1>1, <1>2, <1>3, <1>8 DEF ScopingInv

LEMMA ScopingNext ==
    ASSUME ScopingInv, [Next]_vars
    PROVE  ScopingInv'
<1>1. PICK G : Settled(G)
  BY DEF ScopingInv
<1>2. /\ RunNow(G) /\ ScopesOK(scopes, forwards, G) /\ InitsOK(scopes, forwards) /\ Counts
      /\ forwards \subseteq Names \ Bound
  BY <1>1 DEF Settled, ScopingInv
<1>3. ASSUME NEW H, ScopesOK(scopes', forwards, H), InitsOK(scopes', forwards), RunNext(H),
             Counts', scopes' = <<>> \/ frames' = <<>>, uses' = uses, forwards' = forwards
      PROVE  ScopingInv'
  <2>1. Settled(H)'
    BY <1>3 DEF Settled, RunNow, RunNext
  <2> QED
    BY <1>3, <2>1 DEF ScopingInv
<1>4. CASE Compile /\ Runtime
  <2>1. Compiling(G) /\ frames = <<>>
    BY <1>1, <1>4, CompileOK
  <2>2. PICK H : /\ G \subseteq H /\ Closed(H, forwards)
                 /\ ScopesOK(scopes', forwards, H) /\ InitsOK(scopes', forwards)
    BY <2>1 DEF Compiling
  <2>3. /\ forwards' = forwards /\ uses' = uses /\ globals' = globals /\ made' = made
        /\ frames' = frames /\ data' = data /\ calls' = calls
    BY <1>4 DEF Runtime
  <2>4. RunOK(H, forwards, made, globals, frames)
    BY <1>2, <2>2, MoreToRun DEF RunNow
  <2>5. RunNext(H)
    BY <2>3, <2>4 DEF RunNext
  <2>6. Counts'
    BY <1>2, <2>3 DEF Counts
  <2> QED
    BY <1>3, <2>1, <2>2, <2>3, <2>5, <2>6
<1>5. CASE RunUnit
  <2>1. RunNext(G)
    BY <1>2, <1>5, RunUnitOK
  <2>2. /\ scopes' = <<>> /\ forwards' = forwards /\ uses' = uses
    BY <1>5 DEF RunUnit
  <2>3. Counts'
    BY <1>2, <1>5, CountsStep DEF Next
  <2> QED
    BY <1>3, <2>1, <2>2, <2>3, NoScopes
<1>6. CASE Get \/ Put \/ MakeClosure \/ Loop \/ Again \/ TakeExit \/ Return
  <2>1. RunNext(G) /\ scopes = <<>> /\ UNCHANGED <<scopes, forwards, uses>>
    BY <1>1, <1>6, RunStep
  <2>2. Counts'
    BY <1>2, <1>6, CountsStep DEF Next
  <2> QED
    BY <1>2, <1>3, <2>1, <2>2
<1>7. ASSUME NEW n \in Names, SetGlobal(n)
      PROVE  ScopingInv'
  <2>1. /\ scopes' = scopes /\ forwards' = forwards /\ uses' = uses /\ made' = made
        /\ frames' = frames /\ scopes = <<>> /\ data < MaxData
        /\ globals' = [globals EXCEPT ![n] = data + 1]
    BY <1>7 DEF SetGlobal, Idle, Frozen
  <2>2. data + 1 \in Vals(Len(made))
    BY <1>2, <2>1, NextSmall, SmallVals
  <2>3. globals' \in [Names -> Vals(Len(made))]
    BY <1>2, <2>1, <2>2 DEF RunNow, RunOK
  <2>4. RunNext(G)
    BY <1>2, <2>1, <2>3 DEF RunNow, RunNext, RunOK
  <2>5. Counts'
    BY <1>2, <1>7, CountsStep DEF Next
  <2> QED
    BY <1>2, <1>3, <2>1, <2>4, <2>5
<1>8. ASSUME NEW k \in DOMAIN made, CallMade(k)
      PROVE  ScopingInv'
  <2>1. /\ scopes' = scopes /\ forwards' = forwards /\ uses' = uses /\ made' = made
        /\ globals' = globals /\ scopes = <<>> /\ calls < MaxCalls
        /\ frames' = Append(<<>>, NewFrame(k, Argument(calls)))
    BY <1>8 DEF CallMade, CallFrom, Idle, Frozen
  <2>2. k \in 1..Len(made)
    BY <1>2 DEF RunNow, RunOK
  <2>3. RunOK(G, forwards, made, globals, <<>>)
    BY <1>2, AllLeft DEF RunNow
  <2>4. Small(Argument(calls))
    BY <1>2, <2>1, NextSmall
  <2>5. RunOK(G, forwards, made, globals, Append(<<>>, NewFrame(k, Argument(calls))))
    BY <2>2, <2>3, <2>4, CallOK
  <2>6. RunNext(G)
    BY <2>1, <2>5 DEF RunNext
  <2>7. Counts'
    BY <1>2, <1>8, CountsStep DEF Next
  <2> QED
    BY <1>2, <1>3, <2>1, <2>6, <2>7
<1>9. CASE UNCHANGED vars
  <2>1. /\ scopes' = scopes /\ forwards' = forwards /\ uses' = uses /\ made' = made
        /\ globals' = globals /\ frames' = frames /\ data' = data /\ calls' = calls
    BY <1>9 DEF vars
  <2>2. RunNext(G) /\ Counts'
    BY <1>2, <2>1 DEF RunNow, RunNext, Counts
  <2>3. scopes' = <<>> \/ frames' = <<>>
    BY <2>1 DEF ScopingInv
  <2> QED
    BY <1>2, <1>3, <2>1, <2>2, <2>3
<1> QED
  BY <1>4, <1>5, <1>6, <1>7, <1>8, <1>9 DEF Next

\* The scopes, the code, the frames and the function values agree with `env` in
\* every reachable state.
THEOREM ScopingInvariant == Spec => []ScopingInv
<1>1. Init => ScopingInv
  BY ScopingInit
<1>2. ScopingInv /\ [Next]_vars => ScopingInv'
  BY ScopingNext
<1> QED
  BY <1>1, <1>2, PTL DEF Spec

\* Every read sees what the name means where it stands: `resolve`,
\* `capture_source` and `make_closure` find the variable, however functions,
\* loops and calls are nested.
THEOREM ReadsSeeTheirVariableAlways == Spec => []ReadsSeeTheirVariable
<1>1. ASSUME ScopingInv, At({"get"})
      PROVE  Eval(Fr, Here.name, Here.ex) = Means(Fr, Here.name)
  <2>1. PICK G : RunNow(G)
    BY <1>1 DEF ScopingInv, Settled
  <2> DEFINE m == Len(made)
             v == Eval(Fr, Here.name, Here.ex)
  <2>2. /\ frames # <<>> /\ m \in Nat /\ Fr \in Frames(G, m)
        /\ Fr.pc <= Len(Fr.code.body) /\ Here.op = "get"
        /\ \E top, locals, nest : FrameAt(Fr, Home(top, locals, forwards), nest)
    BY <1>1, <2>1, HereIs
  <2>3. PICK top, locals, nest : FrameAt(Fr, Home(top, locals, forwards), nest)
    BY <2>2
  <2> DEFINE home == Home(top, locals, forwards)
  <2>4. InstrOK(Fr.code, home, nest[Fr.pc], Here) /\ Here \in Instrs(G)
    BY <2>2, <2>3, AtPc DEF Here
  <2>5. /\ Here.name \in Names /\ Here.ex \in Places
        /\ SourceOK(Fr.code, home, SlotAt(home.locals, Bs(nest[Fr.pc]), Here.name), Here.name, Here.ex)
    BY <2>2, <2>4 DEF InstrOK, Instrs
  <2>6. globals \in [Names -> Vals(m)]
    BY <2>1 DEF RunNow, RunOK
  <2>7. Finds(Fr, home, Here.name, v, m)
    BY <2>2, <2>3, <2>5, <2>6, EvalHere
  <2> QED
    BY <2>7 DEF Finds, Means
<1>2. ScopingInv => ReadsSeeTheirVariable
  BY <1>1 DEF ReadsSeeTheirVariable
<1> QED
  BY <1>2, ScopingInvariant, PTL

\* Every exit finds a loop of its own function, and the one that its label
\* means where it stands: what `compile_break_continue` checks and what `for`,
\* `while` and `repeat` do with the `Flow` that they are handed.
THEOREM ExitsFindTheirLoopAlways == Spec => []ExitsFindTheirLoop
<1>1. ASSUME ScopingInv, At({"break", "continue"})
      PROVE  LET k == Taker(Fr, Here.name)
             IN  k # 0 /\ (Here.name # NoName => Fr.loops[k].slot = Here.ex.at)
  <2>1. PICK G : RunNow(G)
    BY <1>1 DEF ScopingInv, Settled
  <2>2. /\ Fr \in Frames(G, Len(made)) /\ Fr.pc <= Len(Fr.code.body)
        /\ Fr.code.body[Fr.pc].op \in {"break", "continue"}
        /\ \E top, locals, nest : FrameAt(Fr, Home(top, locals, forwards), nest)
    BY <1>1, <2>1, HereIs DEF Here
  <2>3. PICK top, locals, nest : FrameAt(Fr, Home(top, locals, forwards), nest)
    BY <2>2
  <2> DEFINE k == Taker(Fr, Here.name)
  <2>4. /\ k \in 1..Len(Fr.loops)
        /\ Here.name # NoName => Fr.loops[k].slot = Here.ex.at
    BY <2>2, <2>3, TakerOK DEF Here
  <2> HIDE DEF k
  <2>5. k # 0
    BY <2>4
  <2> QED
    BY <2>4, <2>5 DEF k
<1>2. ScopingInv => ExitsFindTheirLoop
  BY <1>1 DEF ExitsFindTheirLoop
<1> QED
  BY <1>2, ScopingInvariant, PTL

=============================================================================
