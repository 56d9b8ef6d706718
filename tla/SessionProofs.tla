--------------------------- MODULE SessionProofs ---------------------------
(***************************************************************************)
(* What is given runs once, in order and as it asks for; the history has   *)
(* the latest entries with their texts and seeds; an interrupt ends its    *)
(* own entry.  For any files and lines, texts of any length, and any limit *)
(* of the history.                                                         *)
(*                                                                         *)
(* What a token needs to be asked for (`DueIs`) can be told from where it  *)
(* is: it comes before the place where the text stops, its statement       *)
(* compiles, and nothing before it in its statement failed.  The           *)
(* interpreter goes through a text by statements, and has run exactly the  *)
(* tokens asked for before the one it is at (`Advanced`).                  *)
(*                                                                         *)
(* An entry that goes on is given again from its beginning with each line, *)
(* but of an unfinished text nothing has run.  So what ran is from before  *)
(* the entry so far, or of the text that runs now (`Ordered`, `Covered`).  *)
(*                                                                         *)
(* Then, at "What a session prints", the results about the sinks.          *)
(***************************************************************************)
EXTENDS Session, Output, SequenceTheorems, FiniteSetTheorems, WellFoundedInduction, TLAPS

-----------------------------------------------------------------------------
(* Texts *)

LEMMA GreatestOf ==
    ASSUME NEW n \in Nat, NEW S \in SUBSET (0..n), S # {}
    PROVE  Last(S) \in S /\ \A l \in S : l <= Last(S)
<1> DEFINE R == {p \in Nat \X Nat : p[1] < p[2]}
           T == {m \in Nat : n - m \in S}
<1>1. IsWellFoundedOn(R, Nat)
  BY NatLessThanWellFounded DEF OpToRel
<1>2. PICK s \in S : TRUE
  OBVIOUS
<1>3. n - s \in T
  BY <1>2
<1>4. \A j, k \in T : <<j, k>> \in R <=> j < k
  OBVIOUS
<1>5. T \in SUBSET Nat /\ T # {}
  BY <1>3
<1> HIDE DEF R
<1>6. \E m \in T : \A j \in T : ~(<<j, m>> \in R)
  BY <1>1, <1>5, WFMin
<1>7. PICK m \in T : \A j \in T : ~(j < m)
  BY <1>4, <1>6
<1>8. ASSUME NEW l \in S PROVE l <= n - m
  <2>1. n - l \in T /\ l \in Nat /\ m \in Nat
    BY <1>8
  <2>2. ~(n - l < m)
    BY <1>7, <2>1
  <2> QED
    BY ONLY n \in Nat, <2>1, <2>2
<1>9. n - m \in S
  OBVIOUS
<1> HIDE DEF T
<1> QED
  BY <1>8, <1>9 DEF Last

LEMMA LeastOf ==
    ASSUME NEW S \in SUBSET Nat, S # {}
    PROVE  \E k \in S : \A l \in S : k <= l
<1> DEFINE R == {p \in Nat \X Nat : p[1] < p[2]}
<1>1. IsWellFoundedOn(R, Nat)
  BY NatLessThanWellFounded DEF OpToRel
<1>2. \A j, k \in S : <<j, k>> \in R <=> j < k
  OBVIOUS
<1> HIDE DEF R
<1>3. \E m \in S : \A j \in S : ~(<<j, m>> \in R)
  BY <1>1, WFMin
<1>4. PICK m \in S : \A j \in S : ~(j < m)
  BY <1>2, <1>3
<1> QED
  BY <1>4

LEMMA EndsOfText ==
    ASSUME NEW text \in Seq(Tokens)
    PROVE  /\ Len(text) \in Nat
           /\ StatementEnds(text) \subseteq 0..Len(text)
           /\ 0 \in StatementEnds(text)
           /\ Stop(text) \in StatementEnds(text)
           /\ \A j \in StatementEnds(text) : j <= Stop(text)
<1>1. Len(text) \in Nat /\ StatementEnds(text) \in SUBSET (0..Len(text))
  BY DEF StatementEnds
<1>2. Closed(text, 0)
  <2>1. \A token : Count(text, 0, token) = Cardinality({})
    <3>1. 1..0 = {}
      OBVIOUS
    <3> QED
      BY <3>1 DEF Count
  <2> QED
    BY <2>1 DEF Closed
<1>3. \A j \in SyntaxErrors(text) : 0 < j
  BY DEF SyntaxErrors
<1>4. 0 \in StatementEnds(text)
  BY <1>1, <1>2, <1>3 DEF StatementEnds
<1>5. StatementEnds(text) # {}
  BY <1>4
<1> QED
  BY <1>1, <1>4, <1>5, GreatestOf DEF Stop

\* Up to the last end, statements end where brackets are closed.
LEMMA ClosedIsEnd ==
    ASSUME NEW text \in Seq(Tokens), NEW b \in 0..Stop(text)
    PROVE  b \in StatementEnds(text) <=> Closed(text, b)
<1>1. /\ Stop(text) \in 0..Len(text) /\ Len(text) \in Nat
      /\ \A j \in SyntaxErrors(text) : Stop(text) < j /\ j \in Nat
  BY EndsOfText DEF StatementEnds, SyntaxErrors
<1>2. \A j \in SyntaxErrors(text) : b < j
  BY ONLY <1>1, b \in 0..Stop(text)
<1>3. b \in 0..Len(text)
  BY <1>1
<1> QED
  BY <1>2, <1>3, Zenon DEF StatementEnds

\* The statement of a token.
LEMMA StatementOf ==
    ASSUME NEW text \in Seq(Tokens), NEW i \in 1..Stop(text)
    PROVE  LET e == StatementEnd(text, i)
               s == StatementStart(text, i)
           IN  /\ e \in StatementEnds(text) /\ i <= e /\ e <= Stop(text) /\ e \in Nat
               /\ \A k \in StatementEnds(text) : i <= k => e <= k
               /\ s - 1 \in StatementEnds(text) /\ s <= i /\ s \in 1..Stop(text)
               /\ \A k \in StatementEnds(text) : k < i => k <= s - 1
<1>1. /\ StatementEnds(text) \subseteq Nat /\ 0 \in StatementEnds(text)
      /\ Stop(text) \in StatementEnds(text)
      /\ \A j \in StatementEnds(text) : j <= Stop(text)
  BY EndsOfText
<1> DEFINE A == {j \in StatementEnds(text) : i <= j}
           B == {j \in StatementEnds(text) : j < i}
<1>2. A \in SUBSET Nat /\ A # {}
  BY <1>1
<1>3. \E j \in A : \A k \in A : j <= k
  BY <1>2, LeastOf
<1>4. \E j \in StatementEnds(text) :
        i <= j /\ \A k \in StatementEnds(text) : i <= k => j <= k
  BY <1>3
<1>5. B \in SUBSET (0..i) /\ B # {} /\ i \in Nat
  BY <1>1
<1>6. Last(B) \in B /\ \A l \in B : l <= Last(B)
  BY <1>5, GreatestOf
<1>7. /\ StatementEnd(text, i) \in StatementEnds(text) /\ i <= StatementEnd(text, i)
      /\ \A k \in StatementEnds(text) : i <= k => StatementEnd(text, i) <= k
  BY <1>4 DEF StatementEnd
<1>8. StatementStart(text, i) = Last(B) + 1
  BY DEF StatementStart
<1>9. Last(B) \in StatementEnds(text) /\ Last(B) < i
      /\ \A k \in StatementEnds(text) : k < i => k <= Last(B)
  BY <1>6
<1> HIDE DEF A, B
<1> QED
  BY <1>1, <1>7, <1>8, <1>9

\* Tokens are together that are between the two ends of a statement.
LEMMA SameStatement ==
    ASSUME NEW text \in Seq(Tokens), NEW i \in 1..Stop(text), NEW j \in 1..Len(text)
    PROVE  /\ i <= j => (Together(text, i, j) <=> j <= StatementEnd(text, i))
           /\ j <= i => (Together(text, j, i) <=> StatementStart(text, i) <= j)
<1> DEFINE e == StatementEnd(text, i)
           s == StatementStart(text, i)
<1>1. /\ e \in StatementEnds(text) /\ i <= e /\ e <= Stop(text) /\ e \in Nat
      /\ \A k \in StatementEnds(text) : i <= k => e <= k
      /\ s - 1 \in StatementEnds(text) /\ s <= i /\ s \in 1..Stop(text)
      /\ \A k \in StatementEnds(text) : k < i => k <= s - 1
  BY StatementOf
<1>2. Stop(text) \in Nat /\ Len(text) \in Nat
  BY EndsOfText
<1>3. Closed(text, e) /\ Closed(text, s - 1)
  BY <1>1 DEF StatementEnds
<1> HIDE DEF e, s
<1>4. ASSUME i <= j PROVE Together(text, i, j) <=> j <= e
  <2>1. ASSUME j <= e, NEW b \in i..(j - 1), Closed(text, b) PROVE FALSE
    <3>1. b \in 0..Stop(text) /\ b < e /\ i <= b
      BY ONLY <1>1, <1>2, <2>1, i \in 1..Stop(text), j \in 1..Len(text)
    <3>2. b \in StatementEnds(text)
      BY <2>1, <3>1, ClosedIsEnd
    <3>3. e <= b
      BY <1>1, <3>1, <3>2
    <3> QED
      BY ONLY <3>1, <3>3, <1>1, <1>2
  <2>2. ASSUME ~(j <= e) PROVE e \in i..(j - 1)
    BY ONLY <1>1, <1>2, <1>4, <2>2, i \in 1..Stop(text), j \in 1..Len(text)
  <2> QED
    BY <1>3, <2>1, <2>2 DEF Together
<1>5. ASSUME j <= i PROVE Together(text, j, i) <=> s <= j
  <2>1. ASSUME s <= j, NEW b \in j..(i - 1), Closed(text, b) PROVE FALSE
    <3>1. b \in 0..Stop(text) /\ b < i /\ s <= b
      BY ONLY <1>1, <1>2, <2>1, i \in 1..Stop(text), j \in 1..Len(text)
    <3>2. b \in StatementEnds(text)
      BY <2>1, <3>1, ClosedIsEnd
    <3>3. b <= s - 1
      BY <1>1, <3>1, <3>2
    <3> QED
      BY ONLY <3>1, <3>3, <1>1, <1>2
  <2>2. ASSUME ~(s <= j) PROVE s - 1 \in j..(i - 1)
    BY ONLY <1>1, <1>2, <1>5, <2>2, i \in 1..Stop(text), j \in 1..Len(text)
  <2> QED
    BY <1>3, <2>1, <2>2 DEF Together
<1> QED
  BY <1>4, <1>5 DEF e, s

\* A text that can run: it is whole, or something in it is wrong.
Whole(text) == SyntaxErrors(text) # {} \/ Closed(text, Len(text))

\* What a syntax error leaves of a text are its statements before the error.
LEMMA BeforeErrors ==
    ASSUME NEW text \in Seq(Tokens), Whole(text), NEW i \in 1..Len(text)
    PROVE  (\A j \in SyntaxErrors(text) : i < j /\ ~Together(text, i, j)) <=> i <= Stop(text)
<1>1. /\ Len(text) \in Nat /\ StatementEnds(text) \subseteq 0..Len(text)
      /\ Stop(text) \in StatementEnds(text)
      /\ \A j \in StatementEnds(text) : j <= Stop(text)
  BY EndsOfText
<1>2. Closed(text, Stop(text)) /\ \A j \in SyntaxErrors(text) : Stop(text) < j
  BY <1>1 DEF StatementEnds
<1>3. SyntaxErrors(text) \subseteq Nat /\ Stop(text) \in Nat
  BY <1>1 DEF SyntaxErrors
<1>4. ASSUME i <= Stop(text), NEW j \in SyntaxErrors(text)
      PROVE  i < j /\ ~Together(text, i, j)
  <2>1. Stop(text) \in i..(j - 1) /\ i < j
    BY <1>2, <1>3, <1>4
  <2> QED
    BY <1>2, <2>1 DEF Together
<1>5. ASSUME Stop(text) < i, \A j \in SyntaxErrors(text) : i < j /\ ~Together(text, i, j)
      PROVE  FALSE
  <2>1. CASE SyntaxErrors(text) = {}
    <3>1. Len(text) \in StatementEnds(text)
      BY <1>1, <2>1 DEF Whole, StatementEnds
    <3> QED
      BY <1>1, <1>3, <1>5, <3>1
  <2>2. CASE SyntaxErrors(text) # {}
    <3>1. PICK j \in SyntaxErrors(text) : \A k \in SyntaxErrors(text) : j <= k
      BY <1>3, <2>2, LeastOf
    <3>2. PICK b \in i..(j - 1) : Closed(text, b)
      BY <1>5, <3>1 DEF Together
    <3>3. b < j /\ i <= b /\ b \in 0..Len(text)
      BY <1>1, <3>1, <3>2 DEF SyntaxErrors
    <3>4. \A k \in SyntaxErrors(text) : b < k
      BY <1>3, <3>1, <3>3
    <3>5. b \in StatementEnds(text)
      BY <3>2, <3>3, <3>4 DEF StatementEnds
    <3>6. b <= Stop(text)
      BY <1>1, <3>5
    <3> QED
      BY ONLY <1>3, <1>5, <3>3, <3>6, i \in 1..Len(text)
  <2> QED
    BY <2>1, <2>2
<1>6. i <= Stop(text) \/ Stop(text) < i
  BY <1>3
<1> QED
  BY <1>4, <1>5, <1>6

\* The statement of token i compiles.
CompilesIn(text, i) ==
    \A j \in StatementStart(text, i)..StatementEnd(text, i) : text[j] # "wrong"

\* Nothing before token i of its statement failed.
UnfailedIn(text, i) ==
    \A j \in 1..(i - 1) : text[j] = "fail" => ~Together(text, j, i)

\* What is asked for is what running statement by statement comes by.
LEMMA DueIs ==
    ASSUME NEW text \in Seq(Tokens), Whole(text), NEW i \in 1..Len(text)
    PROVE  i \in Due(text) <=> /\ i <= Stop(text) /\ CompilesIn(text, i)
                               /\ UnfailedIn(text, i) /\ text[i] # "fail"
<1>1. /\ Len(text) \in Nat /\ Stop(text) \in 0..Len(text)
  BY EndsOfText
<1>2. SyntaxErrors(text) \subseteq 1..Len(text)
  BY DEF SyntaxErrors
<1>3. i \in Due(text) <=>
        /\ \A j \in SyntaxErrors(text) : i < j /\ ~Together(text, i, j)
        /\ \A j \in 1..Len(text) : text[j] = "wrong" =>
              /\ ~(i <= j /\ Together(text, i, j))
              /\ ~(j <= i /\ Together(text, j, i))
        /\ \A j \in 1..Len(text) : text[j] = "fail" /\ j <= i => ~Together(text, j, i)
  BY <1>2, Zenon DEF Due
<1>4. (\A j \in 1..Len(text) : text[j] = "fail" /\ j <= i => ~Together(text, j, i))
        <=> UnfailedIn(text, i) /\ text[i] # "fail"
  <2>1. Together(text, i, i)
    BY DEF Together
  <2>2. \A j \in 1..Len(text) : j <= i <=> (j \in 1..(i - 1) \/ j = i)
    BY <1>1
  <2>3. 1..(i - 1) \subseteq 1..Len(text)
    BY <1>1
  <2> QED
    BY <2>1, <2>2, <2>3 DEF UnfailedIn
<1>5. ASSUME i <= Stop(text)
      PROVE  (\A j \in 1..Len(text) : text[j] = "wrong" =>
                 /\ ~(i <= j /\ Together(text, i, j))
                 /\ ~(j <= i /\ Together(text, j, i)))
             <=> CompilesIn(text, i)
  <2>1. i \in 1..Stop(text)
    BY <1>1, <1>5
  <2>2. /\ StatementStart(text, i) \in 1..Stop(text) /\ StatementStart(text, i) <= i
        /\ StatementEnd(text, i) \in Nat /\ i <= StatementEnd(text, i)
        /\ StatementEnd(text, i) <= Stop(text)
    BY <2>1, StatementOf
  <2>3. ASSUME NEW j \in 1..Len(text)
        PROVE  (\/ i <= j /\ Together(text, i, j)
                \/ j <= i /\ Together(text, j, i))
               <=> j \in StatementStart(text, i)..StatementEnd(text, i)
    <3>1. /\ i <= j => (Together(text, i, j) <=> j <= StatementEnd(text, i))
          /\ j <= i => (Together(text, j, i) <=> StatementStart(text, i) <= j)
      BY <2>1, SameStatement
    <3>2. i \in Nat /\ j \in Nat
      OBVIOUS
    <3> QED
      BY ONLY <1>1, <2>2, <3>1, <3>2
  <2>4. StatementStart(text, i)..StatementEnd(text, i) \subseteq 1..Len(text)
    BY <1>1, <2>2
  <2> QED
    BY <2>3, <2>4, Zenon DEF CompilesIn
<1> QED
  BY <1>3, <1>4, <1>5, BeforeErrors

-----------------------------------------------------------------------------
(* What there is *)

Entry == [number : Nat \ {0}, text : Seq(Tokens), seed : Nat]
Ending == [first : Nat, last : Nat, how : {"refused", "failed", "done", "interrupted"},
           number : Nat]

\* The entry so far is the last part of what was given.
IsLastGiven(g, b) ==
    /\ g \in Seq(Tokens) /\ b \in Seq(Tokens) /\ Len(b) <= Len(g)
    /\ \A i \in 1..Len(b) : b[i] = g[Len(g) - Len(b) + i]

Typed ==
    /\ mode \in {"files", "repl", "stdin"}
    /\ pc \in {"read", "given", "run", "seen", "over"}
    /\ IsLastGiven(given, buf)
    /\ at \in 1..(Len(buf) + 1)
    /\ pc \in {"read", "given"} => at = 1
    /\ pc \in {"run", "seen"} => Whole(buf) /\ at <= Stop(buf) + 1
    /\ pc = "seen" => at <= Stop(buf)
    /\ seed \in Nat /\ entrySeed \in Nat
    /\ history \in Seq(Entry) /\ next \in Nat \ {0} /\ historySize \in Nat
    /\ ran \in Seq(Nat) /\ ended \in Seq(Ending)
    /\ mode = "files" => history = <<>>

LatestOf(K, S, entries, limit) ==
    /\ K \in Seq(S) /\ Len(K) <= limit /\ Len(K) <= Len(entries)
    /\ \A i \in 1..Len(K) : K[i] = entries[Len(entries) - Len(K) + i]

LEMMA KeptFacts ==
    ASSUME NEW S, NEW entries \in Seq(S), NEW limit \in Nat
    PROVE  LatestOf(Kept(entries, limit), S, entries, limit)
<1>1. Len(entries) \in Nat
  OBVIOUS
<1>2. CASE Len(entries) <= limit
  <2>1. Kept(entries, limit) = entries
    BY <1>1, <1>2 DEF Kept
  <2> QED
    BY <1>1, <1>2, <2>1 DEF LatestOf
<1>3. CASE ~(Len(entries) <= limit)
  <2> DEFINE m == Len(entries) - limit + 1
             K == SubSeq(entries, m, Len(entries))
  <2>1. Kept(entries, limit) = K
    BY <1>3 DEF Kept
  <2>2. m \in 1..(Len(entries) + 1) /\ m \in Nat
    BY <1>1, <1>3
  <2>3. K \in Seq(S) /\ Len(K) = limit /\ \A i \in 1..limit : K[i] = entries[m + i - 1]
    <3>1. \A i \in m..Len(entries) : entries[i] \in S
      BY <2>2, ElementOfSeq
    <3>2. /\ K \in Seq(S)
          /\ Len(K) = IF m <= Len(entries) THEN Len(entries) - m + 1 ELSE 0
          /\ \A i \in 1..(Len(entries) - m + 1) : K[i] = entries[m + i - 1]
      BY <1>1, <2>2, <3>1, SubSeqProperties
    <3> QED
      BY <1>1, <1>3, <3>2
  <2>4. LatestOf(K, S, entries, limit)
    <3> HIDE DEF K
    <3> QED
      BY <1>1, <1>3, <2>3 DEF LatestOf
  <2> QED
    BY ONLY <2>1, <2>4
<1> QED
  BY <1>2, <1>3

LEMMA LastGivenGrows ==
    ASSUME NEW g, NEW b, IsLastGiven(g, b), NEW line \in Seq(Tokens)
    PROVE  /\ IsLastGiven(g \o line, b \o line)
           /\ Len(g \o line) = Len(g) + Len(line) /\ Len(b \o line) = Len(b) + Len(line)
           /\ \A i \in 1..Len(g) : (g \o line)[i] = g[i]
<1>1. g \in Seq(Tokens) /\ b \in Seq(Tokens) /\ Len(b) <= Len(g)
      /\ Len(g) \in Nat /\ Len(b) \in Nat /\ Len(line) \in Nat
  BY DEF IsLastGiven
<1>2. \A s \in Seq(Tokens) :
        /\ s \o line \in Seq(Tokens) /\ Len(s \o line) = Len(s) + Len(line)
        /\ \A i \in 1..(Len(s) + Len(line)) :
             (s \o line)[i] = IF i <= Len(s) THEN s[i] ELSE line[i - Len(s)]
  BY ConcatProperties
<1>3. ASSUME NEW i \in 1..Len(b \o line)
      PROVE  (b \o line)[i] = (g \o line)[Len(g \o line) - Len(b \o line) + i]
  <2>1. Len(g \o line) - Len(b \o line) + i = Len(g) - Len(b) + i
    BY <1>1, <1>2
  <2>2. i \in 1..(Len(b) + Len(line)) /\ Len(g) - Len(b) + i \in 1..(Len(g) + Len(line))
    BY <1>1, <1>2
  <2>3. CASE i <= Len(b)
    <3>1. b[i] = g[Len(g) - Len(b) + i]
      BY <1>1, <2>2, <2>3 DEF IsLastGiven
    <3>2. Len(g) - Len(b) + i <= Len(g)
      BY ONLY <1>1, <2>2, <2>3
    <3> QED
      BY <1>1, <1>2, <2>1, <2>2, <2>3, <3>1, <3>2
  <2>4. CASE ~(i <= Len(b))
    <3>1. ~(Len(g) - Len(b) + i <= Len(g)) /\ (Len(g) - Len(b) + i) - Len(g) = i - Len(b)
      BY ONLY <1>1, <2>2, <2>4
    <3> QED
      BY <1>1, <1>2, <2>1, <2>2, <2>4, <3>1
  <2> QED
    BY <2>3, <2>4
<1> QED
  BY <1>1, <1>2, <1>3 DEF IsLastGiven

LEMMA NothingIsLastGiven ==
    ASSUME NEW g \in Seq(Tokens)
    PROVE  IsLastGiven(g, <<>>)
BY DEF IsLastGiven

\* The text that ends is recorded by its places.
LEMMA RecordedText ==
    ASSUME NEW g, NEW b, IsLastGiven(g, b)
    PROVE  b = SubSeq(g, Len(g) - Len(b) + 1, Len(g))
<1>1. g \in Seq(Tokens) /\ b \in Seq(Tokens) /\ Len(b) <= Len(g)
      /\ Len(g) \in Nat /\ Len(b) \in Nat
      /\ \A i \in 1..Len(b) : b[i] = g[Len(g) - Len(b) + i]
  BY DEF IsLastGiven
<1> DEFINE m == Len(g) - Len(b) + 1
           K == SubSeq(g, m, Len(g))
<1>2. m \in Nat /\ m \in 1..(Len(g) + 1)
  BY <1>1
<1>3. \A i \in m..Len(g) : g[i] \in Tokens
  BY <1>1, <1>2, ElementOfSeq
<1>4. /\ K \in Seq(Tokens)
      /\ Len(K) = IF m <= Len(g) THEN Len(g) - m + 1 ELSE 0
      /\ \A i \in 1..(Len(g) - m + 1) : K[i] = g[m + i - 1]
  BY <1>1, <1>2, <1>3, SubSeqProperties
<1>5. Len(K) = Len(b)
  BY <1>1, <1>4
<1>6. \A i \in 1..Len(b) : K[i] = b[i]
  <2> TAKE i \in 1..Len(b)
  <2>1. i \in 1..(Len(g) - m + 1) /\ m + i - 1 = Len(g) - Len(b) + i
    BY <1>1
  <2> QED
    BY <1>1, <1>4, <2>1
<1> HIDE DEF K
<1>7. b = K
  BY <1>1, <1>4, <1>5, <1>6, SeqEqual
<1> QED
  BY <1>7 DEF K

-----------------------------------------------------------------------------
(* The steps keep the types *)

LEMMA InitTyped == Init => Typed
<1> SUFFICES ASSUME Init PROVE Typed
  OBVIOUS
<1>1. <<>> \in Seq(Tokens) /\ <<>> \in Seq(Entry) /\ <<>> \in Seq(Nat) /\ <<>> \in Seq(Ending)
  OBVIOUS
<1>2. IsLastGiven(<<>>, <<>>)
  BY <1>1, NothingIsLastGiven
<1> QED
  BY <1>1, <1>2, SessionAssumption DEF Init, Typed

LEMMA ReadTyped ==
    ASSUME Typed, pc = "read", NEW line \in Seq(Tokens), ReadLine(line)
    PROVE  Typed'
<1>1. IsLastGiven(given', buf') /\ Len(buf') = Len(buf) + Len(line)
  BY LastGivenGrows DEF Typed, ReadLine
<1>2. at' \in 1..(Len(buf') + 1) /\ at' = 1
  BY <1>1 DEF Typed, ReadLine, IsLastGiven
<1>3. entrySeed' \in Nat
  BY DEF Typed, ReadLine
<1> QED
  BY <1>1, <1>2, <1>3 DEF Typed, ReadLine, input, archive, settings

LEMMA PushTyped ==
    ASSUME Typed, Push(buf)
    PROVE  /\ next' = next + 1 /\ next' \in Nat \ {0}
           /\ history' \in Seq(Entry)
           /\ Len(history') <= historySize
           /\ Len(history') <= Len(history) + 1
           /\ \A i \in 1..Len(history') :
                LET j == Len(history) + 1 - Len(history') + i
                IN  /\ j \in 1..(Len(history) + 1)
                    /\ j <= Len(history) => history'[i] = history[j]
                    /\ j = Len(history) + 1 =>
                          history'[i] = [number |-> next, text |-> buf, seed |-> entrySeed]
<1> DEFINE e == [number |-> next, text |-> buf, seed |-> entrySeed]
           all == Append(history, e)
<1>1. e \in Entry /\ history \in Seq(Entry) /\ historySize \in Nat /\ next \in Nat \ {0}
  BY DEF Entry, Typed, IsLastGiven
<1> HIDE DEF e
<1>2. /\ all \in Seq(Entry) /\ Len(all) = Len(history) + 1
      /\ \A i \in 1..Len(history) : all[i] = history[i]
      /\ all[Len(history) + 1] = e
  BY <1>1, AppendProperties
<1> HIDE DEF all
<1>3. history' = Kept(all, historySize) /\ next' = next + 1
  BY DEF Push, all, e
<1>4. /\ history' \in Seq(Entry)
      /\ Len(history') <= historySize /\ Len(history') <= Len(all)
      /\ \A i \in 1..Len(history') : history'[i] = all[Len(all) - Len(history') + i]
  <2> DEFINE K == Kept(all, historySize)
  <2>1. /\ K \in Seq(Entry) /\ Len(K) <= historySize /\ Len(K) <= Len(all)
        /\ \A i \in 1..Len(K) : K[i] = all[Len(all) - Len(K) + i]
    <3>1. LatestOf(K, Entry, all, historySize)
      BY ONLY <1>1, <1>2, KeptFacts
    <3> HIDE DEF K
    <3> QED
      BY ONLY <3>1 DEF LatestOf
  <2>2. history' = K
    BY <1>3
  <2> HIDE DEF K
  <2> QED
    BY <2>1, <2>2
<1>5. Len(history') \in Nat /\ Len(history) \in Nat
  BY <1>1, <1>4
<1>6. ASSUME NEW i \in 1..Len(history')
      PROVE  LET j == Len(history) + 1 - Len(history') + i
             IN  /\ j \in 1..(Len(history) + 1)
                 /\ j <= Len(history) => history'[i] = history[j]
                 /\ j = Len(history) + 1 => history'[i] = e
  <2> DEFINE j == Len(history) + 1 - Len(history') + i
  <2>1. j \in 1..(Len(history) + 1)
    BY <1>2, <1>4, <1>5
  <2>2. history'[i] = all[j]
    BY <1>2, <1>4
  <2> HIDE DEF j
  <2>3. j <= Len(history) => history'[i] = history[j]
    BY <1>2, <2>1, <2>2
  <2>4. j = Len(history) + 1 => history'[i] = e
    BY <1>2, <2>2
  <2> QED
    BY <2>1, <2>3, <2>4 DEF j
<1>7. next' \in Nat \ {0}
  BY <1>1, <1>3
<1> QED
  BY <1>2, <1>3, <1>4, <1>6, <1>7 DEF e

LEMMA EndTyped ==
    ASSUME Typed, NEW how \in {"refused", "failed", "done", "interrupted"}, NEW stop \in BOOLEAN,
           EndText(how, stop), mode' = mode, given' = given, seed' = seed,
           historySize' = historySize, ran' = ran
    PROVE  Typed'
<1>1. IsLastGiven(given', buf') /\ buf' = <<>>
  BY NothingIsLastGiven DEF Typed, IsLastGiven, EndText, BufferAfter
<1>2. at' = 1 /\ at' \in 1..(Len(buf') + 1)
  BY <1>1 DEF EndText
<1>3. ended' \in Seq(Ending)
  <2>1. Place(1) \in Nat /\ Len(given) \in Nat
    BY DEF Place, Typed, IsLastGiven
  <2>2. [first |-> Place(1), last |-> Len(given), how |-> how,
         number |-> IF mode = "files" THEN 0 ELSE next] \in Ending
    BY <2>1 DEF Ending, Typed
  <2> QED
    BY <2>2, AppendProperties DEF EndText, Typed
<1>4. /\ history' \in Seq(Entry) /\ next' \in Nat \ {0}
      /\ mode' = "files" => history' = <<>>
  <2>1. CASE mode = "files"
    BY <2>1 DEF EndText, archive, Typed
  <2>2. CASE mode # "files"
    BY <2>2, PushTyped DEF EndText
  <2> QED
    BY <2>1, <2>2
<1>5. pc' \in {"over", "read"}
  BY DEF EndText
<1> QED
  BY <1>1, <1>2, <1>3, <1>4, <1>5 DEF Typed, EndText

\* Where a statement runs.
LEMMA RunningFacts ==
    ASSUME Typed, Running \/ pc = "seen"
    PROVE  /\ at \in 1..Stop(buf) /\ at \in 1..Len(buf) /\ Stop(buf) \in 0..Len(buf)
           /\ Len(buf) \in Nat /\ Len(given) \in Nat /\ Len(buf) <= Len(given)
           /\ Place(at) \in Nat
<1>1. buf \in Seq(Tokens) /\ given \in Seq(Tokens) /\ Len(buf) <= Len(given)
  BY DEF Typed, IsLastGiven
<1>2. Stop(buf) \in 0..Len(buf)
  BY <1>1, EndsOfText
<1>3. at \in 1..Stop(buf)
  BY <1>2 DEF Typed, Running
<1> QED
  BY <1>1, <1>2, <1>3 DEF Place

LEMMA RunsTyped ==
    ASSUME Typed, NEW tokens, Runs(tokens), seed' \in Nat, historySize' \in Nat
    PROVE  Typed'
<1>1. Running /\ at' = at + 1 /\ pc = "run"
  BY DEF Runs, Running
<1>2. at \in 1..Stop(buf) /\ at \in 1..Len(buf) /\ Place(at) \in Nat
  BY <1>1, RunningFacts
<1>3. at' \in 1..(Len(buf) + 1) /\ at' <= Stop(buf) + 1
  <2>1. Len(buf) \in Nat /\ Stop(buf) \in Nat
    BY <1>1, RunningFacts
  <2> QED
    BY <1>1, <1>2, <2>1
<1>4. ran' \in Seq(Nat)
  BY <1>2, AppendProperties DEF Runs, Typed
<1> QED
  BY <1>1, <1>3, <1>4 DEF Typed, Runs, input, prompt, archive

LEMMA NextTyped == Typed /\ [Next]_vars => Typed'
<1> SUFFICES ASSUME Typed, [Next]_vars PROVE Typed'
  OBVIOUS
<1>0. Lines \subseteq Seq(Tokens) /\ buf \in Seq(Tokens)
  BY SessionAssumption DEF Typed, IsLastGiven
<1>1. ASSUME NEW line \in Lines, Type(line) \/ NextFile(line) PROVE Typed'
  BY <1>0, <1>1, ReadTyped DEF Type, NextFile
<1>2. ASSUME NEW i \in 1..Len(history), Recall(history[i]) PROVE Typed'
  <2>1. history[i] \in Entry
    BY ElementOfSeq DEF Typed
  <2>2. history[i].text \in Seq(Tokens)
    BY <2>1 DEF Entry
  <2> QED
    BY <1>2, <2>2, ReadTyped DEF Recall
<1>3. CASE StartSession
  BY <1>3 DEF StartSession, Typed, prompt, archive, settings, record
<1>4. CASE DiscardInput
  BY <1>4, NothingIsLastGiven
     DEF DiscardInput, Typed, input, archive, settings, record, IsLastGiven
<1>5. CASE EndOfInput
  <2>1. /\ history' \in Seq(Entry) /\ next' \in Nat \ {0}
    BY <1>5, PushTyped DEF EndOfInput, archive, Typed
  <2> QED
    BY <1>5, <2>1 DEF EndOfInput, Typed, input, prompt, settings, record
<1>6. CASE CtrlC
  BY <1>6 DEF CtrlC, Typed, input, prompt, archive, settings, record
<1>7. CASE Execute
  <2>1. CASE GoesOn(buf) /\ pc' = "read" /\ UNCHANGED <<prompt, at, archive, ended>>
    BY <1>7, <2>1 DEF Execute, Typed, input, prompt, archive, settings
  <2>2. CASE Refused(buf) /\ EndText("refused", StopsAtError)
    <3>1. StopsAtError \in BOOLEAN
      BY DEF StopsAtError
    <3> QED
      BY <1>7, <2>2, EndTyped DEF Execute, input, settings, StopsAtError
  <2>3. CASE /\ ~GoesOn(buf) /\ ~Refused(buf)
             /\ pc' = "run" /\ at' = 1 /\ UNCHANGED <<prompt, archive, ended>>
    <3>1. Whole(buf)
      BY <2>3 DEF GoesOn, Refused, Incomplete, Whole
    <3>2. Stop(buf) \in Nat /\ Len(buf) \in Nat
      BY <1>0, EndsOfText
    <3> QED
      BY <1>7, <2>3, <3>1, <3>2 DEF Execute, Typed, input, prompt, archive, settings
  <2> QED
    BY <1>7, <2>1, <2>2, <2>3 DEF Execute
<1>8. CASE Bracket
  BY <1>8, RunsTyped DEF Bracket, settings, Typed
<1>9. CASE Draw
  BY <1>9, RunsTyped DEF Draw, settings, Typed
<1>10. CASE LeaveLoop
  BY <1>10, RunsTyped DEF LeaveLoop, settings, Typed
<1>11. CASE SetQuitOnError
  BY <1>11, RunsTyped DEF SetQuitOnError, Typed
<1>12. CASE SetHistorySize
  BY <1>12, RunsTyped DEF SetHistorySize, Typed
<1>13. CASE Fail
  <2>1. CASE mode # "files" /\ ~quitOnError
    <3>1. at \in 1..Stop(buf) /\ Stop(buf) \in 0..Len(buf) /\ Len(buf) \in Nat
      BY <1>13, RunningFacts DEF Fail
    <3>2. at <= StatementEnd(buf, at) /\ StatementEnd(buf, at) <= Stop(buf)
          /\ StatementEnd(buf, at) \in Nat
      BY <1>0, <3>1, StatementOf
    <3>3. at' = StatementEnd(buf, at) + 1
      BY <1>13, <2>1 DEF Fail, NextStatement
    <3>4. at' \in 1..(Len(buf) + 1) /\ at' <= Stop(buf) + 1
      BY <3>1, <3>2, <3>3
    <3> QED
      BY <1>13, <2>1, <3>4 DEF Fail, Running, Typed, input, prompt, archive, settings
  <2>2. CASE ~(mode # "files" /\ ~quitOnError)
    BY <1>13, <2>2, EndTyped DEF Fail, input, settings, StopsAtError
  <2> QED
    BY <2>1, <2>2
<1>14. CASE Quit
  BY <1>14 DEF Quit, Typed, input, prompt, archive, settings, record
<1>15. CASE Finish
  BY <1>15, EndTyped DEF Finish, input, settings, StopsAtError
<1>16. CASE SeeInterrupt
  BY <1>16 DEF SeeInterrupt, Running, Typed, input, prompt, archive, settings, record
<1>17. CASE TakeInterrupt
  BY <1>17, EndTyped DEF TakeInterrupt, input, settings, StopsAtError
<1>18. CASE UNCHANGED vars
  BY <1>18 DEF vars, Typed, input, prompt, archive, settings, record
<1> QED
  BY <1>1, <1>2, <1>3, <1>4, <1>5, <1>6, <1>7, <1>8, <1>9, <1>10, <1>11, <1>12, <1>13, <1>14,
     <1>15, <1>16, <1>17, <1>18 DEF Next, Interpreter

-----------------------------------------------------------------------------
(* Statements run in the order in which they were given *)

\* Where the statements that are still to run begin.
Reached ==
    IF pc \in {"read", "given"} THEN Place(1)
    ELSE IF pc = "over" THEN Len(given) + 1 ELSE Place(at)

Ordered == StatementsRunOnce /\ \A i \in 1..Len(ran) : 1 <= ran[i] /\ ran[i] < Reached

OrderInv == Typed /\ Ordered

LEMMA PlaceFacts ==
    ASSUME Typed
    PROVE  /\ Len(given) \in Nat /\ Len(buf) \in Nat /\ Len(buf) <= Len(given)
           /\ at \in Nat /\ 1 <= at /\ at <= Len(buf) + 1
           /\ \A i \in Nat : Place(i) = Len(given) - Len(buf) + i
           /\ Reached \in Nat /\ 1 <= Reached /\ Reached <= Len(given) + 1
<1>1. /\ Len(given) \in Nat /\ Len(buf) \in Nat /\ Len(buf) <= Len(given)
      /\ at \in Nat /\ 1 <= at /\ at <= Len(buf) + 1
  BY DEF Typed, IsLastGiven
<1> QED
  BY <1>1 DEF Place, Reached

LEMMA OrderKept ==
    ASSUME OrderInv, Typed', ran' = ran, Reached <= Reached'
    PROVE  Ordered'
<1>1. Reached \in Nat /\ Reached' \in Nat
  <2>1. Reached \in Nat
    BY PlaceFacts DEF OrderInv
  <2>2. Len(given') \in Nat /\ Len(buf') \in Nat /\ Len(buf') <= Len(given') /\ at' \in Nat
    BY DEF Typed, IsLastGiven
  <2> QED
    BY <2>1, <2>2 DEF Reached, Place
<1>2. \A i \in 1..Len(ran) : ran[i] \in Nat
  <2>1. ran \in Seq(Nat)
    BY DEF OrderInv, Typed
  <2> QED
    BY ONLY <2>1
<1>3. ASSUME NEW i \in 1..Len(ran) PROVE 1 <= ran[i] /\ ran[i] < Reached'
  BY <1>1, <1>2 DEF OrderInv, Ordered
<1> QED
  BY <1>3 DEF OrderInv, Ordered, StatementsRunOnce

LEMMA OneMoreInOrder ==
    ASSUME NEW s \in Seq(Nat), NEW x \in Nat, 1 <= x,
           \A i, j \in 1..Len(s) : i < j => s[i] < s[j],
           \A i \in 1..Len(s) : 1 <= s[i] /\ s[i] < x,
           NEW t, t = Append(s, x)
    PROVE  /\ \A i, j \in 1..Len(t) : i < j => t[i] < t[j]
           /\ \A i \in 1..Len(t) : 1 <= t[i] /\ t[i] < x + 1
<1> DEFINE n == Len(s)
<1>1. /\ Len(t) = n + 1 /\ n \in Nat
      /\ \A i \in 1..n : t[i] = s[i]
      /\ t[n + 1] = x
  BY AppendProperties
<1>2. \A i \in 1..n : s[i] \in Nat
  OBVIOUS
<1>3. \A i \in 1..Len(t) : i \in 1..n \/ i = n + 1
  BY <1>1
<1> HIDE DEF n
<1>4. \A i \in 1..n : t[i] \in Nat /\ 1 <= t[i] /\ t[i] < x
  BY <1>1, <1>2 DEF n
<1>5. ASSUME NEW i \in 1..Len(t), NEW j \in 1..Len(t), i < j PROVE t[i] < t[j]
  <2>1. i \in 1..n /\ (j \in 1..n \/ j = n + 1)
    BY <1>1, <1>3, <1>5
  <2>2. CASE j \in 1..n
    BY <1>1, <1>5, <2>1, <2>2 DEF n
  <2>3. CASE j = n + 1
    BY <1>1, <1>4, <2>1, <2>3
  <2> QED
    BY <2>1, <2>2, <2>3
<1>6. ASSUME NEW i \in 1..Len(t) PROVE 1 <= t[i] /\ t[i] < x + 1
  BY <1>1, <1>3, <1>4, x \in Nat, 1 <= x
<1> QED
  BY <1>5, <1>6

LEMMA RunsInOrder ==
    ASSUME OrderInv, NEW tokens, Runs(tokens)
    PROVE  Ordered'
<1>1. Running /\ at' = at + 1 /\ pc = "run" /\ pc' = "run" /\ buf' = buf /\ given' = given
      /\ ran' = Append(ran, Place(at)) /\ Typed
  BY DEF Runs, Running, prompt, OrderInv
<1>2. Place(at) \in Nat /\ 1 <= Place(at) /\ Reached = Place(at) /\ Reached' = Place(at) + 1
  <2>1. Reached = Place(at) /\ Reached' = Place(at + 1)
    BY <1>1 DEF Reached, Place
  <2> QED
    BY <1>1, <2>1, PlaceFacts
<1>3. ran \in Seq(Nat) /\ Len(ran) \in Nat
  BY <1>1 DEF Typed
<1>4. \A i \in 1..Len(ran) : 1 <= ran[i] /\ ran[i] < Place(at)
  BY <1>2 DEF OrderInv, Ordered
<1>5. \A i, j \in 1..Len(ran) : i < j => ran[i] < ran[j]
  BY DEF OrderInv, Ordered, StatementsRunOnce
<1>6. /\ \A i, j \in 1..Len(ran') : i < j => ran'[i] < ran'[j]
      /\ \A i \in 1..Len(ran') : 1 <= ran'[i] /\ ran'[i] < Place(at) + 1
  BY <1>1, <1>2, <1>3, <1>4, <1>5, OneMoreInOrder
<1> QED
  BY <1>2, <1>6 DEF Ordered, StatementsRunOnce

LEMMA EndReaches ==
    ASSUME Typed, NEW how, NEW stop \in BOOLEAN, EndText(how, stop), given' = given
    PROVE  Reached' = Len(given) + 1 /\ Reached <= Reached'
<1>1. Len(buf') = 0 /\ pc' \in {"over", "read"}
  BY DEF EndText, BufferAfter
<1>2. Len(given) \in Nat
  BY DEF Typed, IsLastGiven
<1>3. Reached' = Len(given) + 1
  BY <1>1, <1>2 DEF Reached, Place
<1> QED
  BY <1>3, PlaceFacts

LEMMA NextOrder == OrderInv /\ [Next]_vars => OrderInv'
<1> SUFFICES ASSUME OrderInv, [Next]_vars PROVE Ordered'
  BY NextTyped DEF OrderInv
<1>0. /\ Typed /\ Typed'
      /\ Lines \subseteq Seq(Tokens) /\ buf \in Seq(Tokens)
      /\ Len(given) \in Nat /\ Len(buf) \in Nat /\ Len(buf) <= Len(given)
      /\ at \in Nat /\ 1 <= at /\ at <= Len(buf) + 1
      /\ \A i \in Nat : Place(i) = Len(given) - Len(buf) + i
      /\ Reached \in Nat /\ 1 <= Reached /\ Reached <= Len(given) + 1
  BY NextTyped, PlaceFacts, SessionAssumption DEF OrderInv, Typed, IsLastGiven
<1>a. ASSUME NEW line \in Seq(Tokens), pc = "read", ReadLine(line) PROVE Ordered'
  <2>1. Len(given') = Len(given) + Len(line) /\ Len(buf') = Len(buf) + Len(line)
        /\ Len(line) \in Nat
    BY <1>0, <1>a, LastGivenGrows DEF Typed, ReadLine
  <2>2. Reached' = Reached
    BY <1>0, <1>a, <2>1 DEF ReadLine, Reached, Place
  <2> QED
    BY <1>0, <1>a, <2>2, OrderKept DEF ReadLine
<1>b. ASSUME NEW how, NEW stop \in BOOLEAN, EndText(how, stop), given' = given, ran' = ran
      PROVE  Ordered'
  BY <1>0, <1>b, EndReaches, OrderKept
<1>1. ASSUME NEW line \in Lines, Type(line) \/ NextFile(line) PROVE Ordered'
  BY <1>0, <1>1, <1>a DEF Type, NextFile
<1>2. ASSUME NEW i \in 1..Len(history), Recall(history[i]) PROVE Ordered'
  <2>1. history[i] \in Entry
    BY <1>0, ElementOfSeq DEF Typed
  <2> QED
    BY <1>2, <2>1, <1>a DEF Recall, Entry
<1>3. CASE StartSession
  <2>1. Reached' = Reached /\ ran' = ran
    BY <1>3 DEF StartSession, prompt, record, Reached, Place
  <2> QED
    BY <1>0, <2>1, OrderKept
<1>4. CASE DiscardInput
  <2>1. Reached' = Len(given) + 1 /\ ran' = ran
    BY <1>0, <1>4 DEF DiscardInput, record, Reached, Place
  <2> QED
    BY <1>0, <2>1, OrderKept
<1>5. CASE EndOfInput
  <2>1. Reached' = Len(given) + 1 /\ ran' = ran
    BY <1>5 DEF EndOfInput, record, Reached
  <2> QED
    BY <1>0, <2>1, OrderKept
<1>6. CASE CtrlC
  <2>1. Reached' = Reached /\ ran' = ran
    BY <1>6 DEF CtrlC, prompt, record, Reached, Place
  <2> QED
    BY <1>0, <2>1, OrderKept
<1>7. CASE Execute
  <2>0. pc = "given" /\ given' = given /\ ran' = ran /\ at = 1
    BY <1>0, <1>7 DEF Execute, Typed
  <2>1. CASE GoesOn(buf) /\ pc' = "read" /\ UNCHANGED <<prompt, at, archive, ended>>
    <3>1. Reached' = Reached
      BY <2>0, <2>1 DEF prompt, Reached, Place
    <3> QED
      BY <1>0, <2>0, <3>1, OrderKept
  <2>2. CASE Refused(buf) /\ EndText("refused", StopsAtError)
    <3>1. StopsAtError \in BOOLEAN
      BY DEF StopsAtError
    <3> QED
      BY <1>b, <2>0, <2>2, <3>1
  <2>3. CASE /\ ~GoesOn(buf) /\ ~Refused(buf)
             /\ pc' = "run" /\ at' = 1 /\ UNCHANGED <<prompt, archive, ended>>
    <3>1. Reached' = Reached
      BY <2>0, <2>3 DEF prompt, Reached, Place
    <3> QED
      BY <1>0, <2>0, <3>1, OrderKept
  <2> QED
    BY <1>7, <2>1, <2>2, <2>3 DEF Execute
<1>8. CASE Bracket \/ Draw \/ LeaveLoop \/ SetQuitOnError \/ SetHistorySize
  BY <1>8, RunsInOrder DEF Bracket, Draw, LeaveLoop, SetQuitOnError, SetHistorySize
<1>9. CASE Fail
  <2>1. CASE mode # "files" /\ ~quitOnError
    <3>1. at \in 1..Stop(buf)
      BY <1>0, <1>9, RunningFacts DEF Fail
    <3>2. at <= StatementEnd(buf, at) /\ StatementEnd(buf, at) \in Nat
      BY <1>0, <3>1, StatementOf
    <3>3. at' = StatementEnd(buf, at) + 1 /\ buf' = buf /\ given' = given /\ ran' = ran
          /\ pc = "run" /\ pc' = "run"
      BY <1>9, <2>1 DEF Fail, Running, NextStatement, prompt
    <3>4. Reached <= Reached'
      <4>1. Reached = Len(given) - Len(buf) + at
            /\ Reached' = Len(given) - Len(buf) + at'
        BY <3>3 DEF Reached, Place
      <4>2. Len(given) - Len(buf) \in Int /\ at \in Nat
        BY <1>0
      <4>3. at <= at' /\ at' \in Nat
        BY ONLY <3>2, <3>3, <4>2
      <4> QED
        BY ONLY <4>1, <4>2, <4>3
    <3> QED
      BY <1>0, <3>3, <3>4, OrderKept
  <2>2. CASE ~(mode # "files" /\ ~quitOnError)
    BY <1>9, <2>2, <1>b DEF Fail, StopsAtError
  <2> QED
    BY <2>1, <2>2
<1>10. CASE Quit
  <2>1. Reached' = Len(given) + 1 /\ ran' = ran
    BY <1>10 DEF Quit, record, Reached
  <2> QED
    BY <1>0, <2>1, OrderKept
<1>11. CASE Finish
  BY <1>11, <1>b DEF Finish, StopsAtError
<1>12. CASE SeeInterrupt
  <2>1. Reached' = Reached /\ ran' = ran
    BY <1>12 DEF SeeInterrupt, Running, prompt, record, Reached, Place
  <2> QED
    BY <1>0, <2>1, OrderKept
<1>13. CASE TakeInterrupt
  BY <1>13, <1>b DEF TakeInterrupt, StopsAtError
<1>14. CASE UNCHANGED vars
  <2>1. Reached' = Reached /\ ran' = ran
    BY <1>14 DEF vars, prompt, record, Reached, Place
  <2> QED
    BY <1>0, <2>1, OrderKept
<1> QED
  BY <1>1, <1>2, <1>3, <1>4, <1>5, <1>6, <1>7, <1>8, <1>9, <1>10, <1>11, <1>12, <1>13, <1>14
     DEF Next, Interpreter

LEMMA InitOrder == Init => OrderInv
BY InitTyped DEF Init, OrderInv, Ordered, StatementsRunOnce

\* No statement runs twice and none before an earlier one, whatever is typed
\* over several lines, recalled, interrupted or goes wrong (`run_input` gives
\* the interpreter the whole entry again with each line).
THEOREM NoStatementRunsTwice == Spec => []StatementsRunOnce
<1>1. OrderInv => StatementsRunOnce
  BY DEF OrderInv, Ordered
<1> QED
  BY <1>1, InitOrder, NextOrder, PTL DEF Spec

-----------------------------------------------------------------------------
(* A text runs the statements that it asks for *)

LEMMA NoneClosedWithin ==
    ASSUME NEW text \in Seq(Tokens), NEW i \in 1..Stop(text),
           NEW x \in Nat, NEW y \in Nat,
           StatementStart(text, i) <= x, x <= y, y <= StatementEnd(text, i)
    PROVE  Together(text, x, y)
<1> DEFINE e == StatementEnd(text, i)
           s == StatementStart(text, i)
<1>1. /\ e <= Stop(text) /\ e \in Nat /\ s \in 1..Stop(text)
      /\ \A k \in StatementEnds(text) : i <= k => e <= k
      /\ \A k \in StatementEnds(text) : k < i => k <= s - 1
  BY StatementOf
<1>2. Stop(text) \in Nat
  BY EndsOfText
<1> HIDE DEF e, s
<1>3. ASSUME NEW b \in x..(y - 1), Closed(text, b) PROVE FALSE
  <2>1. b \in 0..Stop(text) /\ s <= b /\ b < e /\ b \in Nat
    BY <1>1, <1>2, <1>3 DEF e, s
  <2>2. b \in StatementEnds(text)
    BY <1>3, <2>1, ClosedIsEnd
  <2>3. CASE i <= b
    BY <1>1, <2>1, <2>2, <2>3
  <2>4. CASE b < i
    BY <1>1, <2>1, <2>2, <2>4
  <2> QED
    BY <2>1, <2>3, <2>4
<1> QED
  BY <1>3 DEF Together

\* When token i fails, the rest of its statement is not asked for.
LEMMA FailureLeavesOut ==
    ASSUME NEW text \in Seq(Tokens), NEW i \in 1..Stop(text),
           text[i] = "fail" \/ ~CompilesIn(text, i),
           NEW k \in 1..Len(text), i <= k, k <= StatementEnd(text, i)
    PROVE  k \notin Due(text)
<1>1. /\ StatementEnd(text, i) <= Stop(text) /\ StatementEnd(text, i) \in Nat
      /\ StatementStart(text, i) \in 1..Stop(text) /\ StatementStart(text, i) <= i
      /\ Stop(text) \in 0..Len(text) /\ Len(text) \in Nat
  BY StatementOf, EndsOfText
<1>2. CASE text[i] = "fail"
  <2>1. Together(text, i, k) /\ i \in 1..Len(text)
    BY <1>1, NoneClosedWithin
  <2> QED
    BY <1>2, <2>1 DEF Due
<1>3. CASE ~CompilesIn(text, i)
  <2>1. PICK j \in StatementStart(text, i)..StatementEnd(text, i) : text[j] = "wrong"
    BY <1>3 DEF CompilesIn
  <2>2. j \in 1..Len(text) /\ j \in Nat /\ k \in Nat
    BY <1>1, <2>1
  <2>3. CASE k <= j
    <3>1. Together(text, k, j)
      BY <1>1, <2>1, <2>2, <2>3, NoneClosedWithin
    <3> QED
      BY <2>1, <2>2, <2>3, <3>1 DEF Due
  <2>4. CASE j <= k
    <3>1. Together(text, j, k)
      BY <1>1, <2>1, <2>2, <2>4, NoneClosedWithin
    <3> QED
      BY <2>1, <2>2, <2>4, <3>1 DEF Due
  <2> QED
    BY <2>2, <2>3, <2>4
<1> QED
  BY <1>2, <1>3

HasRun == {ran[i] : i \in 1..Len(ran)}

RanOf(R, e) == {p - e.first + 1 : p \in R \cap (e.first..e.last)}
DueOf(g, e) == Due(SubSeq(g, e.first, e.last))

\* A text that has ended ran what it asks for, as far as it came.
AsGiven(R, g, e) ==
    /\ e.how = "done" => RanOf(R, e) = DueOf(g, e)
    /\ e.how = "refused" => RanOf(R, e) = {}
    /\ e.how \in {"failed", "interrupted"} =>
        \E n \in 0..(e.last - e.first) : RanOf(R, e) = DueOf(g, e) \cap 1..n

\* It is among what was given before the entry so far.
Settled(e, m) == 1 <= e.first /\ e.first <= e.last + 1 /\ e.last <= m

EndedBefore == \A k \in 1..Len(ended) : Settled(ended[k], Len(given) - Len(buf))
EndedAsGiven == \A k \in 1..Len(ended) : AsGiven(HasRun, given, ended[k])

\* What has run is of texts that have ended, or of the one that runs.
Covered ==
    \A p \in HasRun :
        Place(1) <= p \/ \E k \in 1..Len(ended) : p \in ended[k].first..ended[k].last

\* The text that runs has run what it asks for up to here.
Advanced ==
    pc \in {"run", "seen"} =>
        /\ UnfailedIn(buf, at)
        /\ \A i \in 1..Len(buf) : Place(i) \in HasRun <=> i \in Due(buf) /\ i < at

TextsInv == OrderInv /\ EndedBefore /\ EndedAsGiven /\ Covered /\ Advanced

LEMMA SubSeqStays ==
    ASSUME NEW g \in Seq(Tokens), NEW h \in Seq(Tokens), Len(g) <= Len(h),
           \A i \in 1..Len(g) : h[i] = g[i],
           NEW a \in Nat, NEW b \in Nat, 1 <= a, b <= Len(g)
    PROVE  SubSeq(h, a, b) = SubSeq(g, a, b)
<1>1. Len(g) \in Nat /\ Len(h) \in Nat
  OBVIOUS
<1>2. \A i \in a..b : i \in 1..Len(g) /\ i \in 1..Len(h)
  BY <1>1
<1>3. \A i \in a..b : g[i] \in Tokens /\ h[i] \in Tokens
  BY <1>2, ElementOfSeq
<1> DEFINE K == SubSeq(g, a, b)
           L == SubSeq(h, a, b)
<1>4. /\ K \in Seq(Tokens) /\ Len(K) = IF a <= b THEN b - a + 1 ELSE 0
      /\ \A i \in 1..(b - a + 1) : K[i] = g[a + i - 1]
  BY <1>3, SubSeqProperties
<1>5. /\ L \in Seq(Tokens) /\ Len(L) = IF a <= b THEN b - a + 1 ELSE 0
      /\ \A i \in 1..(b - a + 1) : L[i] = h[a + i - 1]
  BY <1>3, SubSeqProperties
<1>6. \A i \in 1..Len(K) : i \in 1..(b - a + 1) /\ a + i - 1 \in 1..Len(g)
  BY <1>1, <1>4
<1>7. \A i \in 1..Len(K) : L[i] = K[i]
  BY <1>4, <1>5, <1>6
<1>8. Len(L) = Len(K)
  BY <1>4, <1>5
<1> HIDE DEF K, L
<1>9. L = K
  BY <1>4, <1>5, <1>7, <1>8, SeqEqual
<1> QED
  BY <1>9 DEF K, L

\* What runs and is given later is nothing to a text that has ended.
LEMMA AsGivenStays ==
    ASSUME NEW e \in Ending, NEW m \in Nat, Settled(e, m),
           NEW g \in Seq(Tokens), NEW h \in Seq(Tokens), m <= Len(g), Len(g) <= Len(h),
           \A i \in 1..Len(g) : h[i] = g[i],
           NEW R \in SUBSET Nat, NEW T \in SUBSET Nat, R \subseteq T,
           \A p \in T : p \in R \/ m < p,
           AsGiven(R, g, e)
    PROVE  AsGiven(T, h, e)
<1>1. e.first \in Nat /\ e.last \in Nat /\ 1 <= e.first /\ e.last <= m
  BY DEF Ending, Settled
<1>2. e.last <= Len(g)
  BY <1>1
<1>3. DueOf(h, e) = DueOf(g, e)
  BY <1>1, <1>2, SubSeqStays DEF DueOf
<1>4. T \cap (e.first..e.last) = R \cap (e.first..e.last)
  BY <1>1
<1>5. RanOf(T, e) = RanOf(R, e)
  BY <1>4, Zenon DEF RanOf
<1> QED
  BY <1>3, <1>5, Zenon DEF AsGiven

LEMMA RanTyped ==
    ASSUME OrderInv
    PROVE  HasRun \in SUBSET Nat /\ \A p \in HasRun : 1 <= p /\ p < Reached
BY DEF OrderInv, Ordered, Typed, HasRun

LEMMA EndingTyped ==
    ASSUME Typed
    PROVE  \A k \in 1..Len(ended) : ended[k] \in Ending
BY ElementOfSeq DEF Typed

\* Texts that have ended are as they were.
LEMMA TextsKept ==
    ASSUME TextsInv, Typed', ran' = ran, ended' = ended,
           Len(given) <= Len(given'), \A i \in 1..Len(given) : given'[i] = given[i],
           \/ Len(given') - Len(buf') = Len(given) - Len(buf)
           \/ pc \in {"read", "given"} /\ Len(given) - Len(buf) <= Len(given') - Len(buf')
    PROVE  EndedBefore' /\ EndedAsGiven' /\ Covered'
<1> DEFINE m == Len(given) - Len(buf)
           n == Len(given') - Len(buf')
<1>1. /\ given \in Seq(Tokens) /\ Len(given) \in Nat /\ Len(buf) \in Nat /\ Len(buf) <= Len(given)
      /\ given' \in Seq(Tokens) /\ Len(given') \in Nat /\ Len(buf') \in Nat
  <2>1. /\ given \in Seq(Tokens) /\ buf \in Seq(Tokens) /\ Len(buf) <= Len(given)
        /\ given' \in Seq(Tokens) /\ buf' \in Seq(Tokens)
    BY DEF TextsInv, OrderInv, Typed, IsLastGiven
  <2> QED
    BY ONLY <2>1
<1>2. m \in Nat /\ n \in Int /\ m <= n /\ m <= Len(given)
  BY <1>1
<1>3. \A k \in 1..Len(ended) : ended[k] \in Ending /\ Settled(ended[k], m)
  BY EndingTyped DEF TextsInv, OrderInv, EndedBefore
<1>4. HasRun \in SUBSET Nat /\ HasRun' = HasRun
  BY RanTyped DEF TextsInv, HasRun
<1>5. Place(1) = m + 1 /\ Place(1)' = n + 1
  BY <1>1 DEF Place
<1> HIDE DEF m, n
<1>6. \A k \in 1..Len(ended) : Settled(ended[k], n)
  BY <1>2, <1>3 DEF Settled, Ending
<1>7. \A k \in 1..Len(ended) : AsGiven(HasRun, given', ended[k])
  <2> TAKE k \in 1..Len(ended)
  <2>1. AsGiven(HasRun, given, ended[k])
    BY DEF TextsInv, EndedAsGiven
  <2> QED
    BY <1>1, <1>2, <1>3, <1>4, <2>1, AsGivenStays
<1>8. \A p \in HasRun : Place(1)' <= p \/ \E k \in 1..Len(ended) : p \in ended[k].first..ended[k].last
  <2> TAKE p \in HasRun
  <2>1. Place(1) <= p \/ \E k \in 1..Len(ended) : p \in ended[k].first..ended[k].last
    BY DEF TextsInv, Covered
  <2>2. CASE n = m
    BY <1>5, <2>1, <2>2
  <2>3. CASE pc \in {"read", "given"}
    <3>1. p < Place(1) /\ p \in Nat
      BY <2>3, RanTyped DEF TextsInv, Reached
    <3> QED
      BY <1>2, <1>5, <2>1, <3>1
  <2> QED
    BY <2>2, <2>3 DEF m, n
<1>9. EndedBefore'
  BY <1>6 DEF EndedBefore, n
<1>10. EndedAsGiven'
  BY <1>4, <1>7 DEF EndedAsGiven
<1>11. Covered'
  BY <1>4, <1>8 DEF Covered
<1> QED
  BY <1>9, <1>10, <1>11

\* Where a text ends depends on what became of it.
LEMMA TextEnds ==
    ASSUME TextsInv, OrderInv', NEW how \in {"refused", "failed", "done", "interrupted"},
           NEW stop \in BOOLEAN, EndText(how, stop), given' = given, ran' = ran,
           how = "refused" => pc = "given",
           how # "refused" => pc \in {"run", "seen"},
           how = "done" => Stop(buf) < at,
           how \in {"failed", "interrupted"} => at <= Stop(buf)
    PROVE  TextsInv'
<1> DEFINE m == Len(given) - Len(buf)
           e == [first |-> Place(1), last |-> Len(given), how |-> how,
                 number |-> IF mode = "files" THEN 0 ELSE next]
<1>1. /\ Typed /\ given \in Seq(Tokens) /\ buf \in Seq(Tokens)
      /\ Len(given) \in Nat /\ Len(buf) \in Nat /\ Len(buf) <= Len(given)
      /\ at \in Nat /\ 1 <= at
      /\ \A i \in Nat : Place(i) = m + i
      /\ Stop(buf) \in 0..Len(buf)
  BY PlaceFacts, EndsOfText DEF TextsInv, OrderInv, Typed, IsLastGiven
<1>2. ended' = Append(ended, e) /\ buf' = <<>> /\ pc' \in {"over", "read"}
  BY DEF EndText, BufferAfter
<1>a. m \in Nat /\ m + Len(buf) = Len(given)
  BY <1>1
<1>d. \A i \in Nat : Place(i) = m + i
  BY <1>1
<1> HIDE DEF m
<1>b. 1 \in Nat /\ Place(1) = m + 1
  BY <1>d
<1>e. Place(1) \in Nat
  BY <1>a, <1>b
<1>c. Place(1) \in Nat /\ next \in Nat /\ \A i \in Nat : Place(i) = m + i
  BY <1>1, <1>d, <1>e DEF Typed
<1>3. e \in Ending
  BY <1>1, <1>c DEF Ending
<1>4. e.first = m + 1 /\ e.last = Len(given) /\ e.how = how /\ m \in Nat /\ m + Len(buf) = Len(given)
      /\ e.first = Place(1)
  BY <1>a, <1>b
<1>5. HasRun \in SUBSET Nat /\ HasRun' = HasRun
  BY RanTyped DEF TextsInv, HasRun
<1>6. \A p \in HasRun : 1 <= p /\ p < Reached
  BY RanTyped DEF TextsInv
<1> HIDE DEF e
<1>7. /\ ended' \in Seq(Ending) /\ Len(ended') = Len(ended) + 1 /\ Len(ended) \in Nat
      /\ \A k \in 1..Len(ended) : ended'[k] = ended[k]
      /\ ended'[Len(ended) + 1] = e
  BY <1>1, <1>2, <1>3, AppendProperties DEF Typed
<1>8. \A k \in 1..Len(ended') : k \in 1..Len(ended) \/ k = Len(ended) + 1
  BY <1>7
<1>9. DueOf(given, e) = Due(buf)
  <2>1. buf = SubSeq(given, Len(given) - Len(buf) + 1, Len(given))
    BY <1>1, RecordedText DEF Typed
  <2>2. e.first = Len(given) - Len(buf) + 1
    BY <1>4
  <2> QED
    BY <1>4, <2>1, <2>2 DEF DueOf
<1>10. RanOf(HasRun, e) = {i \in 1..Len(buf) : Place(i) \in HasRun}
  <2>1. ASSUME NEW p \in HasRun \cap (e.first..e.last)
        PROVE  p - e.first + 1 \in 1..Len(buf) /\ Place(p - e.first + 1) = p
    <3>1. p \in Nat /\ m + 1 <= p /\ p <= m + Len(buf)
      BY <1>4, <1>5, <2>1
    <3>2. p - e.first + 1 \in Nat /\ p - e.first + 1 = p - m
      BY <1>4, <3>1
    <3> QED
      BY ONLY <1>a, <1>c, <1>4, <3>1, <3>2, Len(buf) \in Nat, <1>1
  <2>2. ASSUME NEW i \in 1..Len(buf), Place(i) \in HasRun
        PROVE  i \in RanOf(HasRun, e)
    <3>1. Place(i) = m + i /\ i \in Nat
      BY <1>c
    <3>2. Place(i) \in HasRun \cap (e.first..e.last) /\ Place(i) - e.first + 1 = i
      BY <1>1, <1>4, <2>2, <3>1
    <3> QED
      BY <3>2 DEF RanOf
  <2>3. ASSUME NEW i \in RanOf(HasRun, e) PROVE i \in 1..Len(buf) /\ Place(i) \in HasRun
    BY <2>1, <2>3 DEF RanOf
  <2> QED
    BY <2>2, <2>3
<1>11. Due(buf) \subseteq 1..Len(buf)
  BY DEF Due
<1>12. AsGiven(HasRun, given, e)
  <2>1. CASE how = "refused"
    <3>1. \A i \in 1..Len(buf) : Place(i) \notin HasRun
      <4>1. Reached = m + 1
        BY <1>1, <2>1 DEF Reached
      <4> QED
        BY <1>1, <1>4, <1>6, <4>1
    <3> QED
      BY <1>4, <1>10, <2>1, <3>1 DEF AsGiven
  <2>2. CASE how # "refused"
    <3>1. \A i \in 1..Len(buf) : Place(i) \in HasRun <=> i \in Due(buf) /\ i < at
      BY <2>2 DEF TextsInv, Advanced
    <3>2. Whole(buf)
      BY <1>1, <2>2 DEF Typed
    <3>3. CASE how = "done"
      <4>1. ASSUME NEW i \in Due(buf) PROVE i < at
        <5>1. i \in 1..Len(buf) /\ i <= Stop(buf)
          BY <1>1, <1>11, <3>2, <4>1, DueIs
        <5> QED
          BY <1>1, <3>3, <5>1
      <4>2. RanOf(HasRun, e) = Due(buf)
        BY <1>10, <1>11, <3>1, <4>1
      <4> QED
        BY <1>4, <1>9, <3>3, <4>2 DEF AsGiven
    <3>4. CASE how \in {"failed", "interrupted"}
      <4>1. at <= Len(buf) /\ at - 1 \in 0..(e.last - e.first)
        <5>1. at <= Stop(buf)
          BY <3>4
        <5>2. Stop(buf) \in Nat /\ Stop(buf) <= Len(buf)
          BY ONLY <1>1
        <5>3. e.last - e.first = Len(buf) - 1
          BY ONLY <1>1, <1>a, <1>4
        <5> QED
          BY ONLY <1>1, <5>1, <5>2, <5>3
      <4>2. RanOf(HasRun, e) = Due(buf) \cap 1..(at - 1)
        <5>1. \A i \in 1..Len(buf) : i < at <=> i \in 1..(at - 1)
          BY ONLY <1>1
        <5> QED
          BY ONLY <1>10, <1>11, <3>1, <5>1
      <4> QED
        BY <1>4, <1>9, <3>4, <4>1, <4>2 DEF AsGiven
    <3> QED
      BY <2>2, <3>3, <3>4
  <2> QED
    BY <2>1, <2>2
<1>13. EndedAsGiven'
  <2>1. ASSUME NEW k \in 1..Len(ended') PROVE AsGiven(HasRun, given, ended'[k])
    <3>1. CASE k \in 1..Len(ended)
      BY <1>7, <3>1 DEF TextsInv, EndedAsGiven
    <3>2. CASE k = Len(ended) + 1
      BY <1>7, <1>12, <3>2
    <3> QED
      BY <1>8, <3>1, <3>2
  <2> QED
    BY <1>5, <2>1 DEF EndedAsGiven
<1>14. EndedBefore'
  <2>1. Len(given') - Len(buf') = Len(given)
    BY <1>1, <1>2
  <2>2. Settled(e, Len(given))
    BY <1>1, <1>4 DEF Settled
  <2>3. ASSUME NEW k \in 1..Len(ended) PROVE Settled(ended[k], Len(given))
    <3>1. Settled(ended[k], m) /\ ended[k] \in Ending
      BY <1>1, EndingTyped DEF TextsInv, EndedBefore, m
    <3>2. m <= Len(given) /\ m \in Nat /\ Len(given) \in Nat
      BY ONLY <1>1, <1>a
    <3>3. /\ ended[k].last \in Nat /\ ended[k].last <= m
          /\ 1 <= ended[k].first /\ ended[k].first <= ended[k].last + 1
      BY <3>1 DEF Settled, Ending
    <3>4. ended[k].last <= Len(given)
      BY ONLY <3>2, <3>3
    <3> QED
      BY <3>3, <3>4 DEF Settled
  <2>4. ASSUME NEW k \in 1..Len(ended') PROVE Settled(ended'[k], Len(given))
    BY <1>7, <1>8, <2>2, <2>3
  <2> QED
    BY <2>1, <2>4 DEF EndedBefore
<1>15. Covered'
  <2>1. ASSUME NEW p \in HasRun
        PROVE  \E k \in 1..Len(ended') : p \in ended'[k].first..ended'[k].last
    <3>1. Place(1) <= p \/ \E k \in 1..Len(ended) : p \in ended[k].first..ended[k].last
      BY DEF TextsInv, Covered
    <3>2. CASE Place(1) <= p
      <4>1. p < Len(given) + 1 /\ p \in Nat /\ Place(1) = e.first
        <5>1. Reached <= Len(given) + 1 /\ Reached \in Nat
          BY <1>1, PlaceFacts
        <5> QED
          BY <1>1, <1>4, <1>5, <1>6, <5>1
      <4>2. p \in e.first..e.last
        BY <1>1, <1>4, <3>2, <4>1
      <4>3. Len(ended) + 1 \in 1..Len(ended')
        BY <1>7
      <4> QED
        BY <1>7, <4>2, <4>3
    <3>3. CASE \E k \in 1..Len(ended) : p \in ended[k].first..ended[k].last
      <4>1. PICK k \in 1..Len(ended) : p \in ended[k].first..ended[k].last
        BY <3>3
      <4>2. k \in 1..Len(ended')
        BY <1>7
      <4> QED
        BY <1>7, <4>1, <4>2
    <3> QED
      BY <3>1, <3>2, <3>3
  <2> QED
    BY <1>5, <2>1 DEF Covered
<1> QED
  BY <1>2, <1>13, <1>14, <1>15 DEF TextsInv, Advanced

LEMMA TextRuns ==
    ASSUME TextsInv, OrderInv', NEW tokens, Runs(tokens), "fail" \notin tokens
    PROVE  TextsInv'
<1> DEFINE m == Len(given) - Len(buf)
<1>1. /\ Running /\ at' = at + 1 /\ pc = "run" /\ pc' = "run" /\ buf' = buf /\ given' = given
      /\ ended' = ended /\ ran' = Append(ran, Place(at)) /\ Typed /\ OrderInv
      /\ buf[at] # "fail" /\ Compiles(at)
  BY DEF Runs, Running, prompt, TextsInv, OrderInv
<1>2. /\ at \in 1..Stop(buf) /\ at \in 1..Len(buf) /\ Stop(buf) \in 0..Len(buf)
      /\ Len(buf) \in Nat /\ Len(given) \in Nat /\ Len(buf) <= Len(given)
      /\ Place(at) \in Nat
      /\ buf \in Seq(Tokens) /\ given \in Seq(Tokens) /\ Whole(buf)
  BY <1>1, RunningFacts DEF Typed, IsLastGiven
<1>3. m \in Nat /\ m <= Len(given) /\ \A i \in Nat : Place(i) = m + i
  BY <1>1, <1>2, PlaceFacts
<1> HIDE DEF m
<1>4. m < Place(at) /\ Place(1) = m + 1 /\ Place(1) <= Place(at)
  <2>1. Place(at) = m + at /\ Place(1) = m + 1
    BY <1>2, <1>3
  <2>2. at \in Nat /\ 1 <= at
    BY <1>2
  <2> QED
    BY <1>3, <2>1, <2>2
<1>5. HasRun \in SUBSET Nat /\ HasRun' \in SUBSET Nat /\ HasRun' = HasRun \union {Place(at)}
  <2>1. ran \in Seq(Nat) /\ Len(ran) \in Nat
    BY <1>1 DEF Typed
  <2>2. /\ Len(ran') = Len(ran) + 1
        /\ \A i \in 1..Len(ran) : ran'[i] = ran[i]
        /\ ran'[Len(ran) + 1] = Place(at)
    BY <1>1, <1>2, <2>1, AppendProperties
  <2>3. 1..Len(ran') = (1..Len(ran)) \union {Len(ran) + 1}
    BY <2>1, <2>2
  <2>4. HasRun' = HasRun \union {Place(at)}
    BY <2>2, <2>3 DEF HasRun
  <2>5. HasRun \in SUBSET Nat
    BY <1>1, RanTyped
  <2> QED
    BY <1>2, <2>4, <2>5
<1>6. EndedBefore'
  BY <1>1 DEF TextsInv, EndedBefore
<1>7. EndedAsGiven'
  <2>1. ASSUME NEW k \in 1..Len(ended) PROVE AsGiven(HasRun', given, ended[k])
    <3>1. ended[k] \in Ending /\ Settled(ended[k], m)
      BY <1>1, EndingTyped DEF TextsInv, EndedBefore, m
    <3>2. AsGiven(HasRun, given, ended[k])
      BY DEF TextsInv, EndedAsGiven
    <3>3. \A p \in HasRun' : p \in HasRun \/ m < p
      BY <1>4, <1>5
    <3>4. \A i \in 1..Len(given) : given[i] = given[i]
      OBVIOUS
    <3>5. Len(given) <= Len(given)
      BY <1>2
    <3> QED
      BY <1>2, <1>3, <1>5, <3>1, <3>2, <3>3, <3>4, <3>5, AsGivenStays
  <2> QED
    BY <1>1, <2>1 DEF EndedAsGiven
<1>8. Covered'
  <2>1. Place(1)' = Place(1)
    BY <1>1 DEF Place
  <2>2. \A p \in HasRun' :
          Place(1) <= p \/ \E k \in 1..Len(ended) : p \in ended[k].first..ended[k].last
    BY <1>4, <1>5 DEF TextsInv, Covered
  <2> QED
    BY <1>1, <2>1, <2>2 DEF Covered
<1>9. /\ UnfailedIn(buf, at)
      /\ \A i \in 1..Len(buf) : Place(i) \in HasRun <=> i \in Due(buf) /\ i < at
  BY <1>1 DEF TextsInv, Advanced
<1>10. at \in Due(buf)
  <2>1. CompilesIn(buf, at)
    BY <1>1 DEF Compiles, CompilesIn
  <2> QED
    BY <1>1, <1>2, <1>9, <2>1, DueIs
<1>11. UnfailedIn(buf, at + 1)
  <2> SUFFICES ASSUME NEW j \in 1..at, buf[j] = "fail", Together(buf, j, at + 1) PROVE FALSE
    BY <1>2 DEF UnfailedIn
  <2>1. j # at
    BY <1>1
  <2>2. j \in 1..(at - 1)
    BY <1>2, <2>1
  <2>3. j..(at - 1) \subseteq j..((at + 1) - 1)
    BY <1>2, <2>2
  <2>4. Together(buf, j, at)
    BY <2>3, Zenon DEF Together
  <2> QED
    BY <1>9, <2>2, <2>4 DEF UnfailedIn
<1>12. ASSUME NEW i \in 1..Len(buf)
       PROVE  Place(i) \in HasRun' <=> i \in Due(buf) /\ i < at + 1
  <2>1. Place(i) = m + i /\ Place(at) = m + at /\ i \in Nat /\ at \in Nat
    BY <1>2, <1>3
  <2>2. Place(i) = Place(at) <=> i = at
    BY <1>3, <2>1
  <2>3. i < at + 1 <=> (i < at \/ i = at)
    BY <2>1
  <2> QED
    BY ONLY <1>5, <1>9, <1>10, <2>2, <2>3, <1>12
<1>13. Advanced'
  <2>1. \A i : Place(i)' = Place(i)
    BY <1>1 DEF Place
  <2> QED
    BY <1>1, <1>11, <1>12, <2>1 DEF Advanced
<1> QED
  BY <1>6, <1>7, <1>8, <1>13 DEF TextsInv

LEMMA TextSkips ==
    ASSUME TextsInv, OrderInv', Fail, mode # "files", ~quitOnError
    PROVE  TextsInv'
<1>1. /\ Running /\ pc = "run" /\ pc' = "run" /\ buf' = buf /\ given' = given
      /\ ended' = ended /\ ran' = ran /\ Typed /\ OrderInv /\ Typed'
      /\ at' = StatementEnd(buf, at) + 1
      /\ buf[at] = "fail" \/ ~CompilesIn(buf, at)
  BY DEF Fail, Running, prompt, NextStatement, TextsInv, OrderInv, Compiles, CompilesIn
<1>2. /\ at \in 1..Stop(buf) /\ at \in 1..Len(buf) /\ Len(buf) \in Nat /\ Len(given) \in Nat
      /\ buf \in Seq(Tokens)
  BY <1>1, RunningFacts DEF Typed, IsLastGiven
<1> DEFINE e == StatementEnd(buf, at)
<1>3. e \in Nat /\ at <= e /\ e \in StatementEnds(buf)
  BY <1>2, StatementOf
<1>4. Closed(buf, e)
  BY <1>3 DEF StatementEnds
<1>5. \A k \in 1..Len(buf) : at <= k /\ k <= e => k \notin Due(buf)
  BY <1>1, <1>2, FailureLeavesOut
<1>6. at' = e + 1
  BY <1>1
<1> HIDE DEF e
<1>7. UnfailedIn(buf, e + 1)
  <2>1. ASSUME NEW j \in 1..((e + 1) - 1) PROVE ~Together(buf, j, e + 1)
    <3>1. e \in j..((e + 1) - 1)
      BY <1>3
    <3> QED
      BY <1>4, <3>1 DEF Together
  <2> QED
    BY <2>1 DEF UnfailedIn
<1>8. \A i \in 1..Len(buf) : Place(i) \in HasRun <=> i \in Due(buf) /\ i < at
  BY <1>1 DEF TextsInv, Advanced
<1>9. ASSUME NEW i \in 1..Len(buf)
      PROVE  Place(i) \in HasRun <=> i \in Due(buf) /\ i < e + 1
  <2>1. i < e + 1 <=> (i < at \/ (at <= i /\ i <= e))
    BY <1>2, <1>3
  <2>2. i \in Due(buf) => ~(at <= i /\ i <= e)
    BY <1>5
  <2>3. Place(i) \in HasRun <=> i \in Due(buf) /\ i < at
    BY <1>8
  <2> QED
    BY <1>2, <1>3, <2>1, <2>2, <2>3
<1>10. HasRun' = HasRun /\ \A i : Place(i)' = Place(i)
  BY <1>1 DEF HasRun, Place
<1>11. Advanced'
  BY <1>1, <1>6, <1>7, <1>9, <1>10 DEF Advanced
<1>12. Len(given) <= Len(given') /\ Len(given') - Len(buf') = Len(given) - Len(buf)
       /\ \A i \in 1..Len(given) : given'[i] = given[i]
  BY <1>1, <1>2
<1>13. EndedBefore' /\ EndedAsGiven' /\ Covered'
  BY <1>1, <1>12, TextsKept
<1> QED
  BY <1>11, <1>13 DEF TextsInv

LEMMA TextBegins ==
    ASSUME TextsInv, OrderInv', Execute, pc' = "run", at' = 1, UNCHANGED <<prompt, ended>>
    PROVE  TextsInv'
<1>1. /\ pc = "given" /\ buf' = buf /\ given' = given /\ ended' = ended /\ ran' = ran
      /\ Typed /\ Typed'
  BY DEF Execute, prompt, TextsInv, OrderInv
<1>2. Len(given) \in Nat /\ Len(buf) \in Nat
  BY <1>1 DEF Typed, IsLastGiven
<1>3. Len(given) <= Len(given') /\ Len(given') - Len(buf') = Len(given) - Len(buf)
      /\ \A i \in 1..Len(given) : given'[i] = given[i]
  BY <1>1, <1>2
<1>4. EndedBefore' /\ EndedAsGiven' /\ Covered'
  BY <1>1, <1>3, TextsKept
<1>5. UnfailedIn(buf, 1)
  BY DEF UnfailedIn
<1>6. \A i \in 1..Len(buf) : Place(i) \notin HasRun /\ ~(i < 1)
  <2>1. Reached = Len(given) - Len(buf) + 1
    BY <1>1 DEF Reached, Place
  <2>2. \A i \in 1..Len(buf) : Place(i) = Len(given) - Len(buf) + i
    BY DEF Place
  <2>3. \A p \in HasRun : p < Reached
    BY RanTyped DEF TextsInv
  <2> QED
    BY <1>2, <2>1, <2>2, <2>3
<1>7. HasRun' = HasRun /\ \A i : Place(i)' = Place(i)
  BY <1>1 DEF HasRun, Place
<1>8. Advanced'
  BY <1>1, <1>5, <1>6, <1>7 DEF Advanced
<1> QED
  BY <1>4, <1>8 DEF TextsInv

LEMMA NextTexts == TextsInv /\ [Next]_vars => TextsInv'
<1> SUFFICES ASSUME TextsInv, [Next]_vars PROVE TextsInv'
  OBVIOUS
<1>0. /\ OrderInv /\ OrderInv' /\ Typed /\ Typed'
      /\ Lines \subseteq Seq(Tokens) /\ given \in Seq(Tokens)
      /\ Len(given) \in Nat /\ Len(buf) \in Nat /\ Len(buf) <= Len(given)
  <2>1. OrderInv /\ OrderInv'
    BY NextOrder DEF TextsInv
  <2>2. Typed /\ Typed' /\ IsLastGiven(given, buf)
    BY ONLY <2>1 DEF OrderInv, Typed
  <2>3. given \in Seq(Tokens) /\ buf \in Seq(Tokens)
    BY ONLY <2>2 DEF IsLastGiven
  <2>4. Len(buf) <= Len(given)
    BY ONLY <2>2 DEF IsLastGiven
  <2>5. Lines \subseteq Seq(Tokens)
    BY SessionAssumption
  <2> QED
    BY ONLY <2>1, <2>2, <2>3, <2>4, <2>5
<1>a. ASSUME NEW line \in Seq(Tokens), pc = "read", ReadLine(line) PROVE TextsInv'
  <2>1. /\ Len(given') = Len(given) + Len(line) /\ Len(buf') = Len(buf) + Len(line)
        /\ Len(line) \in Nat /\ \A i \in 1..Len(given) : given'[i] = given[i]
    BY <1>0, <1>a, LastGivenGrows DEF Typed, ReadLine
  <2>2. Len(given) <= Len(given') /\ Len(given') - Len(buf') = Len(given) - Len(buf)
    BY <1>0, <2>1
  <2>3. ran' = ran /\ ended' = ended /\ pc' = "given"
    BY <1>a DEF ReadLine
  <2>4. EndedBefore' /\ EndedAsGiven' /\ Covered'
    BY <1>0, <2>1, <2>2, <2>3, TextsKept
  <2> QED
    BY <1>0, <2>3, <2>4 DEF TextsInv, Advanced
\* Neither the text nor what has run of it changes.
<1>b. ASSUME UNCHANGED <<buf, record>>, \/ pc' \notin {"run", "seen"}
                                        \/ pc \in {"run", "seen"} /\ at' = at
      PROVE  TextsInv'
  <2>1. /\ Len(given) <= Len(given') /\ Len(given') - Len(buf') = Len(given) - Len(buf)
        /\ \A i \in 1..Len(given) : given'[i] = given[i]
    BY <1>0, <1>b DEF record
  <2>2. EndedBefore' /\ EndedAsGiven' /\ Covered'
    BY <1>0, <1>b, <2>1, TextsKept DEF record
  <2>3. Advanced'
    <3>1. HasRun' = HasRun /\ \A i : Place(i)' = Place(i)
      BY <1>b DEF record, HasRun, Place
    <3> QED
      BY <1>b, <3>1 DEF TextsInv, Advanced
  <2> QED
    BY <1>0, <2>2, <2>3 DEF TextsInv
<1>1. ASSUME NEW line \in Lines, Type(line) \/ NextFile(line) PROVE TextsInv'
  BY <1>0, <1>1, <1>a DEF Type, NextFile
<1>2. ASSUME NEW i \in 1..Len(history), Recall(history[i]) PROVE TextsInv'
  <2>1. history[i] \in Entry
    BY <1>0, ElementOfSeq DEF Typed
  <2> QED
    BY <1>2, <2>1, <1>a DEF Recall, Entry
<1>3. CASE StartSession
  BY <1>3, <1>b DEF StartSession, prompt
<1>4. CASE DiscardInput
  <2>1. /\ pc = "read" /\ pc' = "read" /\ buf' = <<>>
        /\ given' = given /\ ran' = ran /\ ended' = ended
    BY <1>4 DEF DiscardInput, record
  <2>2. /\ Len(given) <= Len(given') /\ Len(given) - Len(buf) <= Len(given') - Len(buf')
        /\ \A i \in 1..Len(given) : given'[i] = given[i]
    <3>1. Len(buf') = 0
      BY <2>1
    <3> QED
      BY <1>0, <2>1, <3>1
  <2>3. EndedBefore' /\ EndedAsGiven' /\ Covered'
    BY <1>0, <2>1, <2>2, TextsKept
  <2> QED
    BY <1>0, <2>1, <2>3 DEF TextsInv, Advanced
<1>5. CASE EndOfInput
  BY <1>5, <1>b DEF EndOfInput, prompt
<1>6. CASE CtrlC
  <2>1. UNCHANGED <<buf, record>> /\ pc' = pc /\ at' = at
    BY <1>6 DEF CtrlC, prompt
  <2> QED
    BY <1>b, <2>1
<1>7. CASE Execute
  <2>1. pc = "given" /\ given' = given /\ ran' = ran
    BY <1>7 DEF Execute
  <2>2. CASE GoesOn(buf) /\ pc' = "read" /\ UNCHANGED <<prompt, at, archive, ended>>
    BY <1>b, <2>1, <2>2 DEF prompt, record
  <2>3. CASE Refused(buf) /\ EndText("refused", StopsAtError)
    <3>1. StopsAtError \in BOOLEAN
      BY DEF StopsAtError
    <3> QED
      BY <1>0, <2>1, <2>3, <3>1, TextEnds
  <2>4. CASE /\ ~GoesOn(buf) /\ ~Refused(buf)
             /\ pc' = "run" /\ at' = 1 /\ UNCHANGED <<prompt, archive, ended>>
    BY <1>0, <1>7, <2>4, TextBegins
  <2> QED
    BY <1>7, <2>2, <2>3, <2>4 DEF Execute
<1>8. CASE Bracket \/ Draw \/ LeaveLoop \/ SetQuitOnError \/ SetHistorySize
  BY <1>0, <1>8, TextRuns DEF Bracket, Draw, LeaveLoop, SetQuitOnError, SetHistorySize
<1>9. CASE Fail
  <2>1. CASE mode # "files" /\ ~quitOnError
    BY <1>0, <1>9, <2>1, TextSkips
  <2>2. CASE ~(mode # "files" /\ ~quitOnError)
    <3>1. pc = "run" /\ at <= Stop(buf) /\ given' = given /\ ran' = ran
          /\ EndText("failed", StopsAtError)
      BY <1>9, <2>2 DEF Fail, Running
    <3>2. StopsAtError \in BOOLEAN
      BY DEF StopsAtError
    <3> QED
      BY <1>0, <3>1, <3>2, TextEnds
  <2> QED
    BY <2>1, <2>2
<1>10. CASE Quit
  BY <1>10, <1>b DEF Quit, prompt
<1>11. CASE Finish
  <2>1. pc = "run" /\ Stop(buf) < at /\ given' = given /\ ran' = ran
        /\ EndText("done", SyntaxErrors(buf) # {} /\ StopsAtError)
    <3>1. Stop(buf) \in Nat /\ at \in Nat
      BY <1>0, EndsOfText DEF Typed, IsLastGiven
    <3> QED
      BY <1>11, <3>1 DEF Finish
  <2>2. (SyntaxErrors(buf) # {} /\ StopsAtError) \in BOOLEAN
    BY DEF StopsAtError
  <2> QED
    BY <1>0, <2>1, <2>2, TextEnds
<1>12. CASE SeeInterrupt
  <2>1. UNCHANGED <<buf, record>> /\ pc = "run" /\ at' = at
    BY <1>12 DEF SeeInterrupt, Running, prompt
  <2> QED
    BY <1>b, <2>1
<1>13. CASE TakeInterrupt
  <2>1. pc = "seen" /\ given' = given /\ ran' = ran /\ EndText("interrupted", StopsAtError)
    BY <1>13 DEF TakeInterrupt
  <2>2. at <= Stop(buf) /\ StopsAtError \in BOOLEAN
    BY <1>0, <2>1 DEF Typed, StopsAtError
  <2> QED
    BY <1>0, <2>1, <2>2, TextEnds
<1>14. CASE UNCHANGED vars
  <2>1. UNCHANGED <<buf, record>> /\ pc' = pc /\ at' = at
    BY <1>14 DEF vars, prompt
  <2> QED
    BY <1>b, <2>1
<1> QED
  BY <1>1, <1>2, <1>3, <1>4, <1>5, <1>6, <1>7, <1>8, <1>9, <1>10, <1>11, <1>12, <1>13, <1>14
     DEF Next, Interpreter

LEMMA InitTexts == Init => TextsInv
<1> SUFFICES ASSUME Init PROVE TextsInv
  OBVIOUS
<1>1. OrderInv
  BY InitOrder
<1>2. Len(ended) = 0 /\ Len(ran) = 0 /\ pc = "read"
  BY DEF Init
<1> QED
  BY <1>1, <1>2 DEF TextsInv, EndedBefore, EndedAsGiven, Covered, Advanced, HasRun

LEMMA TextsInvImplies == TextsInv => TextsRunAsGiven
<1> SUFFICES ASSUME TextsInv PROVE TextsRunAsGiven
  OBVIOUS
<1>1. \A k \in 1..Len(ended) : AsGiven(HasRun, given, ended[k])
  BY DEF TextsInv, EndedAsGiven
<1>2. ASSUME pc \in {"read", "given"}, NEW p \in HasRun
      PROVE  \E k \in 1..Len(ended) : p \in ended[k].first..ended[k].last
  <2>1. Reached = Place(1) /\ Reached \in Nat
    BY <1>2, PlaceFacts DEF TextsInv, OrderInv, Reached
  <2>2. p \in Nat /\ p < Place(1)
    BY <2>1, RanTyped DEF TextsInv
  <2> QED
    BY <2>1, <2>2 DEF TextsInv, Covered
<1> QED
  BY <1>1, <1>2, Zenon DEF TextsRunAsGiven, AsGiven, RanOf, DueOf, HasRun

\* For any lines, files and answers to errors: a text that comes to its end
\* has run what it asks for, one that is stopped has left out the last part,
\* and nothing runs of what is unfinished, discarded or refused.
THEOREM WhatIsAskedForRuns == Spec => []TextsRunAsGiven
BY InitTexts, NextTexts, TextsInvImplies, PTL DEF Spec

-----------------------------------------------------------------------------
(* The history *)

\* Random numbers drawn before place p of the tokens g, by the statements
\* among r that drew them.
Draws(r, g, p) == {j \in 1..Len(r) : r[j] < p /\ g[r[j]] = "draw"}
Drawn(r, g, p) == Cardinality(Draws(r, g, p))

\* The generator counts them; the entry begins with the count at its place.
Seeded ==
    /\ seed = Drawn(ran, given, Len(given) + 1)
    /\ (pc \in {"given", "run", "seen"} \/ (pc = "read" /\ buf # <<>>)) =>
          entrySeed = Drawn(ran, given, Place(1))

Numbered ==
    /\ \A i \in 1..Len(history) : history[i].number = next - Len(history) + i - 1
    /\ \A k \in 1..Len(ended) : ended[k].number < next
    /\ pc \in {"read", "given"} => Len(history) <= historySize

\* Entry h of the history, if it is that of the text that ended as e, has its
\* tokens of those given, g, and the seed n.
Agrees(h, e, g, n) ==
    h.number = e.number => h.text = SubSeq(g, e.first, e.last) /\ h.seed = n

Agreeing ==
    \A i \in 1..Len(history), k \in 1..Len(ended) :
        Agrees(history[i], ended[k], given, Drawn(ran, given, ended[k].first))

HistoryInv == TextsInv /\ Seeded /\ Numbered /\ Agreeing

LEMMA RanWithin ==
    ASSUME OrderInv
    PROVE  \A j \in 1..Len(ran) : ran[j] \in 1..Len(given) /\ ran[j] < Reached
<1>1. Reached \in Nat /\ Reached <= Len(given) + 1 /\ Len(given) \in Nat
  BY PlaceFacts DEF OrderInv
<1>2. \A j \in 1..Len(ran) : ran[j] \in Nat /\ 1 <= ran[j] /\ ran[j] < Reached
  BY DEF OrderInv, Ordered, Typed
<1> QED
  BY <1>1, <1>2

LEMMA DrawsStay ==
    ASSUME OrderInv, ran' = ran, \A i \in 1..Len(given) : given'[i] = given[i]
    PROVE  \A p : /\ Draws(ran', given', p) = Draws(ran, given, p)
                  /\ Drawn(ran', given', p) = Drawn(ran, given, p)
<1>1. \A j \in 1..Len(ran) : given'[ran[j]] = given[ran[j]]
  BY RanWithin
<1>2. \A p : Draws(ran', given', p) = Draws(ran, given, p)
  BY <1>1 DEF Draws
<1> QED
  BY <1>2 DEF Drawn

LEMMA AllDrawn ==
    ASSUME OrderInv, NEW p \in Nat, Reached <= p, NEW q \in Nat, Reached <= q
    PROVE  Drawn(ran, given, p) = Drawn(ran, given, q)
<1>1. \A j \in 1..Len(ran) : ran[j] \in Nat /\ ran[j] < Reached
  BY RanWithin
<1>2. Reached \in Nat
  BY PlaceFacts DEF OrderInv
<1>3. \A j \in 1..Len(ran) : ran[j] < p /\ ran[j] < q
  BY <1>1, <1>2
<1>4. Draws(ran, given, p) = Draws(ran, given, q)
  BY <1>3 DEF Draws
<1> QED
  BY <1>4 DEF Drawn

LEMMA DrawsFinite ==
    ASSUME OrderInv
    PROVE  \A p : /\ IsFiniteSet(Draws(ran, given, p))
                  /\ Drawn(ran, given, p) \in Nat
                  /\ Len(ran) + 1 \notin Draws(ran, given, p)
<1> TAKE p
<1>1. Len(ran) \in Nat
  BY DEF OrderInv, Typed
<1>2. IsFiniteSet(1..Len(ran)) /\ Draws(ran, given, p) \in SUBSET (1..Len(ran))
  BY <1>1, FS_Interval DEF Draws
<1>3. IsFiniteSet(Draws(ran, given, p))
  BY <1>2, FS_Subset
<1>4. Len(ran) + 1 \notin Draws(ran, given, p)
  BY <1>1, <1>2
<1> QED
  BY <1>3, <1>4, FS_CardinalityType DEF Drawn

\* A statement draws where it is, and nowhere before.
LEMMA RunsDraw ==
    ASSUME OrderInv, NEW tokens, Runs(tokens)
    PROVE  /\ \A p \in Nat : p <= Place(at) => Drawn(ran', given', p) = Drawn(ran, given, p)
           /\ Drawn(ran', given', Len(given) + 1) =
                Drawn(ran, given, Len(given) + 1) + (IF buf[at] = "draw" THEN 1 ELSE 0)
<1>1. /\ Running /\ given' = given /\ ran' = Append(ran, Place(at)) /\ Typed
  BY DEF Runs, OrderInv
<1>2. /\ at \in 1..Len(buf) /\ Len(buf) \in Nat /\ Len(given) \in Nat /\ Len(buf) <= Len(given)
      /\ Place(at) \in Nat
  BY <1>1, RunningFacts
<1>3. ran \in Seq(Nat) /\ Len(ran) \in Nat
  BY <1>1 DEF Typed
<1>4. /\ Len(ran') = Len(ran) + 1
      /\ \A i \in 1..Len(ran) : ran'[i] = ran[i]
      /\ ran'[Len(ran) + 1] = Place(at)
  BY <1>1, <1>2, <1>3, AppendProperties
<1>5. given[Place(at)] = buf[at] /\ Place(at) < Len(given) + 1
  <2>1. Place(at) = Len(given) - Len(buf) + at
    BY DEF Place
  <2>2. buf[at] = given[Len(given) - Len(buf) + at]
    BY <1>1, <1>2 DEF Typed, IsLastGiven
  <2> QED
    BY <1>2, <2>1, <2>2
<1>6. \A j : j \in 1..Len(ran') <=> j \in 1..Len(ran) \/ j = Len(ran) + 1
  BY <1>3, <1>4
<1>7. ASSUME NEW p \in Nat, p <= Place(at) PROVE Draws(ran', given', p) = Draws(ran, given, p)
  <2>1. ~(Place(at) < p)
    BY <1>2, <1>7
  <2>2. \A j : j \in Draws(ran', given', p) <=> j \in Draws(ran, given, p)
    BY <1>1, <1>4, <1>6, <2>1 DEF Draws
  <2> QED
    BY <2>2
<1>8. CASE buf[at] = "draw"
  <2> DEFINE D == Draws(ran, given, Len(given) + 1)
  <2>1. \A j : j \in Draws(ran', given', Len(given) + 1) <=> j \in D \/ j = Len(ran) + 1
    BY <1>1, <1>4, <1>5, <1>6, <1>8 DEF Draws
  <2>2. Draws(ran', given', Len(given) + 1) = D \union {Len(ran) + 1}
    BY <2>1
  <2>3. IsFiniteSet(D) /\ Len(ran) + 1 \notin D
    BY DrawsFinite
  <2> HIDE DEF D
  <2>4. Cardinality(D \union {Len(ran) + 1}) = Cardinality(D) + 1
    BY <2>3, FS_AddElement
  <2> QED
    BY <1>7, <1>8, <2>2, <2>4 DEF Drawn, D
<1>9. CASE buf[at] # "draw"
  <2>1. \A j : j \in Draws(ran', given', Len(given) + 1) <=> j \in Draws(ran, given, Len(given) + 1)
    BY <1>1, <1>4, <1>5, <1>6, <1>9 DEF Draws
  <2>2. Draws(ran', given', Len(given) + 1) = Draws(ran, given, Len(given) + 1)
    BY <2>1
  <2>3. Drawn(ran, given, Len(given) + 1) \in Nat
    BY DrawsFinite
  <2> QED
    BY <1>7, <1>9, <2>2, <2>3 DEF Drawn
<1> QED
  BY <1>8, <1>9

LEMMA EndingFacts ==
    ASSUME TextsInv
    PROVE  \A k \in 1..Len(ended) :
              /\ ended[k] \in Ending
              /\ ended[k].first \in Nat /\ ended[k].last \in Nat /\ 1 <= ended[k].first
              /\ ended[k].last <= Len(given) /\ ended[k].first <= Place(1)
<1> TAKE k \in 1..Len(ended)
<1>1. Len(given) \in Nat /\ Len(buf) \in Nat /\ Len(buf) <= Len(given)
  BY DEF TextsInv, OrderInv, Typed, IsLastGiven
<1>2. ended[k] \in Ending /\ Settled(ended[k], Len(given) - Len(buf))
  BY EndingTyped DEF TextsInv, OrderInv, EndedBefore
<1>3. /\ ended[k].first \in Nat /\ ended[k].last \in Nat /\ 1 <= ended[k].first
      /\ ended[k].first <= ended[k].last + 1 /\ ended[k].last <= Len(given) - Len(buf)
  BY <1>2 DEF Ending, Settled
<1>4. Place(1) = Len(given) - Len(buf) + 1
  BY DEF Place
<1> QED
  BY <1>1, <1>2, <1>3, <1>4

LEMMA AgreesStill ==
    ASSUME NEW h, NEW e, NEW n, NEW g \in Seq(Tokens), NEW f \in Seq(Tokens), Len(g) <= Len(f),
           \A i \in 1..Len(g) : f[i] = g[i],
           e.first \in Nat, e.last \in Nat, 1 <= e.first, e.last <= Len(g),
           Agrees(h, e, g, n)
    PROVE  Agrees(h, e, f, n)
<1>1. SubSeq(f, e.first, e.last) = SubSeq(g, e.first, e.last)
  BY SubSeqStays
<1> QED
  BY <1>1, Zenon DEF Agrees

\* A step that adds nothing to the history and ends no text.
LEMMA AgreeingKept ==
    ASSUME TextsInv, Agreeing, given' \in Seq(Tokens), Len(given) <= Len(given'),
           \A i \in 1..Len(given) : given'[i] = given[i],
           history' = history, ended' = ended,
           \A k \in 1..Len(ended) :
                Drawn(ran', given', ended[k].first) = Drawn(ran, given, ended[k].first)
    PROVE  Agreeing'
<1>1. given \in Seq(Tokens)
  BY DEF TextsInv, OrderInv, Typed, IsLastGiven
<1>2. ASSUME NEW i \in 1..Len(history), NEW k \in 1..Len(ended)
      PROVE  Agrees(history[i], ended[k], given', Drawn(ran', given', ended[k].first))
  <2>1. Agrees(history[i], ended[k], given, Drawn(ran, given, ended[k].first))
    BY DEF Agreeing
  <2>2. Agrees(history[i], ended[k], given', Drawn(ran, given, ended[k].first))
    BY <1>1, <2>1, EndingFacts, AgreesStill
  <2> QED
    BY <2>2
<1> QED
  BY <1>2 DEF Agreeing

\* What `Push` leaves: entries that were there, and that of the text.
LEMMA PushKeepsLatest ==
    ASSUME HistoryInv, Push(buf)
    PROVE  \A i \in 1..Len(history') :
              /\ history'[i].number = next' - Len(history') + i - 1
              /\ \/ \E j \in 1..Len(history) : history'[i] = history[j]
                 \/ history'[i] = [number |-> next, text |-> buf, seed |-> entrySeed]
<1> DEFINE e == [number |-> next, text |-> buf, seed |-> entrySeed]
<1>1. Typed /\ Len(history) \in Nat /\ next \in Nat
  BY DEF HistoryInv, TextsInv, OrderInv, Typed
<1>2. /\ next' = next + 1 /\ history' \in Seq(Entry)
      /\ \A i \in 1..Len(history') :
            LET j == Len(history) + 1 - Len(history') + i
            IN  /\ j \in 1..(Len(history) + 1)
                /\ j <= Len(history) => history'[i] = history[j]
                /\ j = Len(history) + 1 => history'[i] = e
  BY <1>1, PushTyped
<1>3. Len(history') \in Nat
  BY <1>2
<1>4. e.number = next
  OBVIOUS
<1> HIDE DEF e
<1> TAKE i \in 1..Len(history')
<1>5. PICK j \in 1..(Len(history) + 1) :
        /\ j = Len(history) + 1 - Len(history') + i
        /\ j <= Len(history) => history'[i] = history[j]
        /\ j = Len(history) + 1 => history'[i] = e
  BY <1>2
<1>6. CASE j <= Len(history)
  <2>1. history'[i] = history[j] /\ j \in 1..Len(history)
    BY <1>1, <1>5, <1>6
  <2>2. history[j].number = next - Len(history) + j - 1
    BY <2>1 DEF HistoryInv, Numbered
  <2>3. next - Len(history) + j - 1 = next' - Len(history') + i - 1
    BY ONLY <1>1, <1>2, <1>3, <1>5, i \in Nat
  <2> QED
    BY <2>1, <2>2, <2>3
<1>7. CASE j = Len(history) + 1
  <2>1. history'[i] = e
    BY <1>5, <1>7
  <2>2. next = next' - Len(history') + i - 1
    BY <1>1, <1>2, <1>3, <1>5, <1>7
  <2> QED
    BY <1>4, <2>1, <2>2 DEF e
<1> QED
  BY <1>1, <1>5, <1>6, <1>7

\* A step that neither adds to the history nor ends a text nor runs anything.
LEMMA HistoryKept ==
    ASSUME HistoryInv, TextsInv', Seeded', ran' = ran, Len(given) <= Len(given'),
           \A i \in 1..Len(given) : given'[i] = given[i],
           history' = history, next' = next, ended' = ended, historySize' = historySize,
           pc' \in {"read", "given"} => pc \in {"read", "given"}
    PROVE  HistoryInv'
<1>1. given' \in Seq(Tokens)
  BY DEF TextsInv, OrderInv, Typed, IsLastGiven
<1>2. Agreeing'
  BY <1>1, DrawsStay, AgreeingKept DEF HistoryInv, TextsInv
<1>3. Numbered'
  BY DEF HistoryInv, Numbered
<1> QED
  BY <1>2, <1>3 DEF HistoryInv

LEMMA SeededKept ==
    ASSUME HistoryInv, given' = given, ran' = ran, seed' = seed,
           \/ pc' = "over"
           \/ pc' = "read" /\ buf' = <<>>
           \/ /\ buf' = buf /\ entrySeed' = entrySeed
              /\ pc \in {"given", "run", "seen"} \/ (pc = "read" /\ pc' = "read")
    PROVE  Seeded'
<1>1. \A p : Drawn(ran', given', p) = Drawn(ran, given, p)
  BY DrawsStay DEF HistoryInv, TextsInv
<1>2. Seeded
  BY DEF HistoryInv
<1> QED
  BY <1>1, <1>2 DEF Seeded, Place

LEMMA HistoryEnds ==
    ASSUME HistoryInv, TextsInv', NEW how, NEW stop \in BOOLEAN, EndText(how, stop),
           pc \in {"given", "run", "seen"},
           mode' = mode, given' = given, ran' = ran, seed' = seed, historySize' = historySize
    PROVE  HistoryInv'
<1> DEFINE e == [first |-> Place(1), last |-> Len(given), how |-> how,
                 number |-> IF mode = "files" THEN 0 ELSE next]
<1>1. /\ TextsInv /\ Typed /\ Typed' /\ OrderInv /\ given \in Seq(Tokens) /\ next \in Nat \ {0}
      /\ history \in Seq(Entry) /\ Len(history) \in Nat
      /\ ended \in Seq(Ending) /\ Len(ended) \in Nat /\ historySize \in Nat
  BY DEF HistoryInv, TextsInv, OrderInv, Typed, IsLastGiven
<1>2. /\ ended' = Append(ended, e) /\ buf' = <<>> /\ pc' \in {"over", "read"}
  BY DEF EndText, BufferAfter
<1>3. /\ e.first = Place(1) /\ e.last = Len(given)
      /\ e.number = IF mode = "files" THEN 0 ELSE next
  OBVIOUS
<1> HIDE DEF e
<1>4. /\ Len(ended') = Len(ended) + 1
      /\ \A k \in 1..Len(ended) : ended'[k] = ended[k]
      /\ ended'[Len(ended) + 1] = e
  <2>1. ended' \in Seq(Ending) /\ Len(ended') = Len(ended) + 1
    BY <1>1, <1>2 DEF Typed
  <2>2. Len(ended) + 1 \in 1..Len(ended')
    BY <1>1, <2>1
  <2>3. ended'[Len(ended) + 1] = e /\ \A k \in 1..Len(ended) : ended'[k] = ended[k]
    BY <1>1, <1>2
  <2> QED
    BY <2>1, <2>3
<1>5. \A k \in 1..Len(ended') : k \in 1..Len(ended) \/ k = Len(ended) + 1
  BY <1>1, <1>4
<1>6. \A p : Drawn(ran', given', p) = Drawn(ran, given, p)
  BY <1>1, DrawsStay
<1>7. Seeded'
  BY <1>2, SeededKept
<1>8. entrySeed = Drawn(ran, given, Place(1))
  BY DEF HistoryInv, Seeded
<1>9. buf = SubSeq(given, e.first, e.last)
  <2>1. buf = SubSeq(given, Len(given) - Len(buf) + 1, Len(given))
    BY <1>1, RecordedText DEF Typed
  <2> QED
    BY <1>3, <2>1 DEF Place
<1>10. \A k \in 1..Len(ended) : ended[k].number < next /\ ended[k].number \in Nat
  BY <1>1, EndingFacts DEF HistoryInv, Numbered, Ending
<1>11. \A i \in 1..Len(history) :
          /\ history[i].number = next - Len(history) + i - 1 /\ history[i].number \in Nat \ {0}
          /\ \A k \in 1..Len(ended) :
                Agrees(history[i], ended[k], given, Drawn(ran, given, ended[k].first))
  <2>1. \A i \in 1..Len(history) : history[i] \in Entry
    BY <1>1, ElementOfSeq
  <2> QED
    BY <2>1 DEF HistoryInv, Numbered, Agreeing, Entry
<1>12. \A i \in 1..Len(history) : history[i].number < next
  BY <1>1, <1>11
<1>13. CASE mode = "files"
  <2>1. history' = history /\ next' = next /\ history = <<>>
    BY <1>1, <1>13 DEF EndText, archive, Typed
  <2>2. Len(history') = 0
    BY <2>1
  <2>3. Agreeing'
    BY <2>2 DEF Agreeing
  <2>4. \A k \in 1..Len(ended') : ended'[k].number < next
    <3>1. e.number < next
      BY <1>1, <1>3, <1>13
    <3> QED
      BY <1>4, <1>5, <1>10, <3>1
  <2>5. Numbered'
    BY <1>1, <2>1, <2>2, <2>4 DEF Numbered
  <2> QED
    BY <1>7, <2>3, <2>5 DEF HistoryInv
<1>14. CASE mode # "files"
  <2> DEFINE h == [number |-> next, text |-> buf, seed |-> entrySeed]
  <2>1. Push(buf) /\ e.number = next
    BY <1>3, <1>14 DEF EndText
  <2>2. next' = next + 1 /\ Len(history') <= historySize
    BY <1>1, <2>1, PushTyped
  <2>3. \A i \in 1..Len(history') :
          /\ history'[i].number = next' - Len(history') + i - 1
          /\ \/ \E j \in 1..Len(history) : history'[i] = history[j]
             \/ history'[i] = h
    BY <2>1, PushKeepsLatest
  <2>4. h.number = next /\ h.text = buf /\ h.seed = entrySeed
    OBVIOUS
  <2> HIDE DEF h
  <2>5. \A k \in 1..Len(ended') : ended'[k].number < next'
    <3>1. e.number < next'
      BY <1>1, <2>1, <2>2
    <3>2. \A k \in 1..Len(ended) : ended[k].number < next'
      BY <1>1, <1>10, <2>2
    <3> QED
      BY <1>4, <1>5, <3>1, <3>2
  <2>6. Numbered'
    BY <2>2, <2>3, <2>5 DEF Numbered
  <2>7. ASSUME NEW i \in 1..Len(history'), NEW k \in 1..Len(ended')
        PROVE  Agrees(history'[i], ended'[k], given, Drawn(ran, given, ended'[k].first))
    <3>1. CASE k = Len(ended) + 1 /\ history'[i] = h
      BY <1>3, <1>4, <1>8, <1>9, <2>4, <3>1 DEF Agrees
    <3>2. CASE k \in 1..Len(ended) /\ history'[i] = h
      <4>1. ended'[k].number # h.number
        BY <1>1, <1>4, <1>10, <2>4, <3>2
      <4> QED
        BY <3>2, <4>1 DEF Agrees
    <3>3. ASSUME NEW j \in 1..Len(history), history'[i] = history[j], k = Len(ended) + 1
          PROVE  Agrees(history'[i], ended'[k], given, Drawn(ran, given, ended'[k].first))
      <4>1. history[j].number # e.number
        BY <1>1, <1>11, <1>12, <2>1
      <4> QED
        BY <1>4, <3>3, <4>1 DEF Agrees
    <3>4. ASSUME NEW j \in 1..Len(history), history'[i] = history[j], k \in 1..Len(ended)
          PROVE  Agrees(history'[i], ended'[k], given, Drawn(ran, given, ended'[k].first))
      <4>1. Agrees(history[j], ended[k], given, Drawn(ran, given, ended[k].first))
        BY <1>11, <3>4
      <4>2. history'[i] = history[j] /\ ended'[k] = ended[k]
        BY <1>4, <3>4
      <4> QED
        BY <4>1, <4>2
    <3> QED
      BY <1>5, <2>3, <3>1, <3>2, <3>3, <3>4
  <2>8. Agreeing'
    <3>1. ASSUME NEW i \in 1..Len(history'), NEW k \in 1..Len(ended')
          PROVE  Agrees(history'[i], ended'[k], given', Drawn(ran', given', ended'[k].first))
      <4>1. Drawn(ran', given', ended'[k].first) = Drawn(ran, given, ended'[k].first)
        BY <1>6
      <4> QED
        BY <2>7, <4>1
    <3> QED
      BY <3>1 DEF Agreeing
  <2> QED
    BY <1>7, <2>6, <2>8 DEF HistoryInv
<1> QED
  BY <1>13, <1>14

LEMMA HistoryRuns ==
    ASSUME HistoryInv, TextsInv', NEW tokens, Runs(tokens), historySize' \in Nat,
           seed' = seed + (IF buf[at] = "draw" THEN 1 ELSE 0)
    PROVE  HistoryInv'
<1>1. /\ Running /\ pc = "run" /\ pc' = "run" /\ given' = given /\ buf' = buf
      /\ entrySeed' = entrySeed /\ history' = history /\ next' = next /\ ended' = ended
      /\ TextsInv /\ OrderInv /\ Typed
  BY DEF Runs, Running, prompt, archive, HistoryInv, TextsInv, OrderInv
<1>2. /\ \A p \in Nat : p <= Place(at) => Drawn(ran', given', p) = Drawn(ran, given, p)
      /\ Drawn(ran', given', Len(given) + 1) =
            Drawn(ran, given, Len(given) + 1) + (IF buf[at] = "draw" THEN 1 ELSE 0)
  BY <1>1, RunsDraw
<1>3. Place(1) \in Nat /\ Place(at) \in Nat /\ Place(1) <= Place(at)
  <2>1. /\ Len(given) \in Nat /\ Len(buf) \in Nat /\ Len(buf) <= Len(given)
        /\ at \in Nat /\ 1 <= at
    BY <1>1, PlaceFacts
  <2> QED
    BY <2>1 DEF Place
<1>4. Drawn(ran', given', Place(1)) = Drawn(ran, given, Place(1)) /\ Place(1)' = Place(1)
  BY <1>1, <1>2, <1>3 DEF Place
<1>5. Seeded'
  <2>1. Seeded
    BY DEF HistoryInv
  <2> QED
    BY <1>1, <1>2, <1>4, <2>1 DEF Seeded
<1>6. Numbered'
  BY <1>1 DEF HistoryInv, Numbered
<1>7. ASSUME NEW k \in 1..Len(ended)
      PROVE  Drawn(ran', given', ended[k].first) = Drawn(ran, given, ended[k].first)
  <2>1. ended[k].first \in Nat /\ ended[k].first <= Place(1)
    BY <1>1, EndingFacts
  <2> QED
    BY <1>2, <1>3, <2>1
<1>8. /\ given' \in Seq(Tokens) /\ Len(given) <= Len(given')
      /\ \A i \in 1..Len(given) : given'[i] = given[i]
  <2>1. given \in Seq(Tokens) /\ Len(given) \in Nat
    BY <1>1 DEF Typed, IsLastGiven
  <2> QED
    BY <1>1, <2>1
<1>9. Agreeing'
  BY <1>1, <1>7, <1>8, AgreeingKept DEF HistoryInv
<1> QED
  BY <1>5, <1>6, <1>9 DEF HistoryInv

\* What is left of a pipe becomes history, but it has not ended as a text.
LEMMA HistoryAtEnd ==
    ASSUME HistoryInv, TextsInv', EndOfInput
    PROVE  HistoryInv'
<1>1. /\ TextsInv /\ OrderInv /\ Typed /\ pc' = "over" /\ given' = given /\ ran' = ran
      /\ ended' = ended /\ seed' = seed /\ historySize' = historySize
      /\ next \in Nat \ {0} /\ Len(given) \in Nat
  BY DEF EndOfInput, record, settings, HistoryInv, TextsInv, OrderInv, Typed, IsLastGiven
<1>2. Seeded'
  BY <1>1, SeededKept
<1>3. CASE UNCHANGED archive
  BY <1>1, <1>2, <1>3, HistoryKept DEF archive
<1>4. CASE Push(buf)
  <2> DEFINE h == [number |-> next, text |-> buf, seed |-> entrySeed]
  <2>1. next' = next + 1
    BY <1>1, <1>4, PushTyped
  <2>2. \A i \in 1..Len(history') :
          /\ history'[i].number = next' - Len(history') + i - 1
          /\ \/ \E j \in 1..Len(history) : history'[i] = history[j]
             \/ history'[i] = h
    BY <1>4, PushKeepsLatest
  <2>3. h.number = next
    OBVIOUS
  <2> HIDE DEF h
  <2>4. \A k \in 1..Len(ended) : ended[k].number < next /\ ended[k].number \in Nat
    BY <1>1, EndingFacts DEF HistoryInv, Numbered, Ending
  <2>5. Numbered'
    BY <1>1, <2>1, <2>2, <2>4 DEF Numbered
  <2>6. ASSUME NEW i \in 1..Len(history'), NEW k \in 1..Len(ended)
        PROVE  Agrees(history'[i], ended[k], given, Drawn(ran, given, ended[k].first))
    <3>1. CASE history'[i] = h
      <4>1. ended[k].number # h.number
        BY <1>1, <2>3, <2>4
      <4> QED
        BY <3>1, <4>1 DEF Agrees
    <3>2. CASE \E j \in 1..Len(history) : history'[i] = history[j]
      BY <3>2 DEF HistoryInv, Agreeing
    <3> QED
      BY <2>2, <3>1, <3>2
  <2>7. Agreeing'
    BY <1>1, <2>6 DEF Agreeing
  <2> QED
    BY <1>2, <2>5, <2>7 DEF HistoryInv
<1> QED
  BY <1>3, <1>4 DEF EndOfInput

LEMMA HistoryReads ==
    ASSUME HistoryInv, TextsInv', pc = "read", NEW line \in Seq(Tokens), ReadLine(line)
    PROVE  HistoryInv'
<1>1. /\ OrderInv /\ Typed /\ ran' = ran /\ ended' = ended /\ seed' = seed /\ pc' = "given"
      /\ history' = history /\ next' = next /\ historySize' = historySize
      /\ entrySeed' = IF buf = <<>> THEN seed ELSE entrySeed
      /\ given \in Seq(Tokens) /\ Len(given) \in Nat /\ Len(buf) \in Nat
      /\ Len(buf) <= Len(given)
  BY DEF ReadLine, archive, settings, HistoryInv, TextsInv, OrderInv, Typed, IsLastGiven
<1>2. /\ Len(given') = Len(given) + Len(line) /\ Len(buf') = Len(buf) + Len(line)
      /\ Len(line) \in Nat /\ \A i \in 1..Len(given) : given'[i] = given[i]
  BY <1>1, LastGivenGrows DEF Typed, ReadLine
<1>3. \A p : Drawn(ran', given', p) = Drawn(ran, given, p)
  BY <1>1, <1>2, DrawsStay
<1>4. Drawn(ran', given', Len(given') + 1) = seed
  <2>1. Reached <= Len(given) + 1 /\ Reached \in Nat
    BY <1>1, PlaceFacts
  <2>2. Drawn(ran, given, Len(given') + 1) = Drawn(ran, given, Len(given) + 1)
    BY <1>1, <1>2, <2>1, AllDrawn
  <2> QED
    BY <1>3, <2>2 DEF HistoryInv, Seeded
<1>5. Place(1)' = Place(1)
  <2>1. Len(given') - Len(buf') = Len(given) - Len(buf)
    BY <1>1, <1>2
  <2> QED
    BY <2>1 DEF Place
<1>6. entrySeed' = Drawn(ran, given, Place(1))
  <2>1. CASE buf = <<>>
    <3>1. Place(1) = Len(given) + 1
      BY <1>1, <2>1 DEF Place
    <3> QED
      BY <1>1, <2>1, <3>1 DEF HistoryInv, Seeded
  <2>2. CASE buf # <<>>
    BY <1>1, <2>2 DEF HistoryInv, Seeded
  <2> QED
    BY <2>1, <2>2
<1>7. Seeded'
  BY <1>1, <1>3, <1>4, <1>5, <1>6 DEF Seeded
<1>8. Len(given) <= Len(given')
  BY <1>1, <1>2
<1> QED
  BY <1>1, <1>2, <1>7, <1>8, HistoryKept

LEMMA NextHistory == HistoryInv /\ [Next]_vars => HistoryInv'
<1> SUFFICES ASSUME HistoryInv, [Next]_vars PROVE HistoryInv'
  OBVIOUS
<1>0. /\ TextsInv /\ TextsInv' /\ Typed /\ Lines \subseteq Seq(Tokens)
      /\ Len(given) \in Nat
  <2>1. TextsInv /\ TextsInv'
    BY NextTexts DEF HistoryInv
  <2>2. Typed
    BY ONLY <2>1 DEF TextsInv, OrderInv
  <2>3. given \in Seq(Tokens)
    BY ONLY <2>2 DEF Typed, IsLastGiven
  <2>4. Lines \subseteq Seq(Tokens)
    BY SessionAssumption
  <2> QED
    BY ONLY <2>1, <2>2, <2>3, <2>4
\* Nothing that the history is about changes.
<1>b. ASSUME UNCHANGED <<record, archive, seed, historySize>>,
             \/ pc' = "over"
             \/ pc' = "read" /\ buf' = <<>> /\ pc = "read"
             \/ /\ buf' = buf /\ entrySeed' = entrySeed
                /\ \/ pc' = pc
                   \/ pc = "given" /\ pc' \in {"read", "run"}
                   \/ pc = "run" /\ pc' = "seen"
      PROVE  HistoryInv'
  <2>1. given' = given /\ ran' = ran /\ ended' = ended /\ history' = history /\ next' = next
    BY <1>b DEF record, archive
  <2>2. pc \in {"read", "given", "run", "seen", "over"}
    BY <1>0 DEF Typed
  <2>3. Seeded'
    BY <1>b, <2>1, <2>2, SeededKept
  <2>4. Len(given) <= Len(given') /\ \A i \in 1..Len(given) : given'[i] = given[i]
    BY <1>0, <2>1
  <2>5. pc' \in {"read", "given"} => pc \in {"read", "given"}
    BY <1>b
  <2> QED
    BY <1>0, <1>b, <2>1, <2>3, <2>4, <2>5, HistoryKept
<1>c. StopsAtError \in BOOLEAN /\ (SyntaxErrors(buf) # {} /\ StopsAtError) \in BOOLEAN
  BY DEF StopsAtError
<1>1. ASSUME NEW line \in Lines, Type(line) \/ NextFile(line) PROVE HistoryInv'
  BY <1>0, <1>1, HistoryReads DEF Type, NextFile
<1>2. ASSUME NEW i \in 1..Len(history), Recall(history[i]) PROVE HistoryInv'
  <2>1. history[i] \in Entry
    BY <1>0, ElementOfSeq DEF Typed
  <2> QED
    BY <1>0, <1>2, <2>1, HistoryReads DEF Recall, Entry
<1>3. CASE StartSession
  BY <1>3, <1>b DEF StartSession, prompt, settings
<1>4. CASE DiscardInput
  BY <1>4, <1>b DEF DiscardInput, settings
<1>5. CASE EndOfInput
  BY <1>0, <1>5, HistoryAtEnd
<1>6. CASE CtrlC
  <2>1. UNCHANGED <<record, archive, seed, historySize, buf, entrySeed, pc>>
    BY <1>6 DEF CtrlC, prompt, settings
  <2> QED
    BY <1>b, <2>1
<1>7. CASE Execute
  <2>1. pc = "given" /\ mode' = mode /\ given' = given /\ ran' = ran /\ seed' = seed
        /\ historySize' = historySize
    BY <1>7 DEF Execute, input, settings
  <2>2. CASE GoesOn(buf) /\ pc' = "read" /\ UNCHANGED <<prompt, at, archive, ended>>
    BY <1>b, <2>1, <2>2 DEF prompt, record
  <2>3. CASE Refused(buf) /\ EndText("refused", StopsAtError)
    BY <1>0, <1>c, <2>1, <2>3, HistoryEnds
  <2>4. CASE /\ ~GoesOn(buf) /\ ~Refused(buf)
             /\ pc' = "run" /\ at' = 1 /\ UNCHANGED <<prompt, archive, ended>>
    BY <1>b, <2>1, <2>4 DEF prompt, record
  <2> QED
    BY <1>7, <2>2, <2>3, <2>4 DEF Execute
<1>8. CASE Draw
  BY <1>0, <1>8, HistoryRuns DEF Draw, settings, Runs, Typed
<1>9. CASE Bracket \/ LeaveLoop \/ SetQuitOnError \/ SetHistorySize
  <2>1. PICK tokens \in {{"open", "close"}, {"loop"}, {"strict"}, {"forget", "keep"}} : Runs(tokens)
    BY <1>9 DEF Bracket, LeaveLoop, SetQuitOnError, SetHistorySize
  <2>2. seed' = seed /\ historySize' \in Nat /\ seed \in Nat
    BY <1>0, <1>9 DEF Bracket, LeaveLoop, SetQuitOnError, SetHistorySize, settings, Typed
  <2>3. buf[at] # "draw"
    BY <2>1 DEF Runs
  <2> QED
    BY <1>0, <2>1, <2>2, <2>3, HistoryRuns
<1>10. CASE Fail
  <2>1. pc = "run" /\ mode' = mode /\ given' = given /\ ran' = ran /\ seed' = seed
        /\ historySize' = historySize
    BY <1>10 DEF Fail, Running, input, settings
  <2>2. CASE mode # "files" /\ ~quitOnError
    BY <1>10, <1>b, <2>1, <2>2 DEF Fail, prompt, record
  <2>3. CASE ~(mode # "files" /\ ~quitOnError)
    <3>1. EndText("failed", StopsAtError)
      BY <1>10, <2>3 DEF Fail
    <3> QED
      BY <1>0, <1>c, <2>1, <3>1, HistoryEnds
  <2> QED
    BY <2>2, <2>3
<1>11. CASE Quit
  BY <1>11, <1>b DEF Quit, settings
<1>12. CASE Finish
  BY <1>0, <1>12, <1>c, HistoryEnds DEF Finish, input, settings
<1>13. CASE SeeInterrupt
  <2>1. UNCHANGED <<record, archive, seed, historySize, buf, entrySeed>>
        /\ pc = "run" /\ pc' = "seen"
    BY <1>13 DEF SeeInterrupt, Running, prompt, settings
  <2> QED
    BY <1>b, <2>1
<1>14. CASE TakeInterrupt
  BY <1>0, <1>14, <1>c, HistoryEnds DEF TakeInterrupt, input, settings
<1>15. CASE UNCHANGED vars
  <2>1. UNCHANGED <<record, archive, seed, historySize, buf, entrySeed, pc>>
    BY <1>15 DEF vars, prompt, settings
  <2> QED
    BY <1>b, <2>1
<1> QED
  BY <1>1, <1>2, <1>3, <1>4, <1>5, <1>6, <1>7, <1>8, <1>9, <1>10, <1>11, <1>12, <1>13, <1>14,
     <1>15 DEF Next, Interpreter

LEMMA InitHistory == Init => HistoryInv
<1> SUFFICES ASSUME Init PROVE HistoryInv
  OBVIOUS
<1>1. TextsInv /\ historySize \in Nat
  BY InitTexts DEF TextsInv, OrderInv, Typed
<1>2. /\ Len(ended) = 0 /\ Len(history) = 0 /\ Len(ran) = 0 /\ pc = "read" /\ buf = <<>>
      /\ seed = 0
  BY DEF Init
<1>3. Drawn(ran, given, Len(given) + 1) = 0
  <2>1. Draws(ran, given, Len(given) + 1) = {}
    BY <1>2 DEF Draws
  <2> QED
    BY <2>1, FS_EmptySet DEF Drawn
<1>4. Seeded /\ Numbered /\ Agreeing
  BY <1>1, <1>2, <1>3 DEF Seeded, Numbered, Agreeing
<1> QED
  BY <1>1, <1>4 DEF HistoryInv

\* The history has consecutive numbers up to the latest entry, no more
\* entries than are to be kept, and each with the text that ran under its
\* number, in any number of lines and after any change of the limit
\* (`push_history`).
THEOREM HistoryHoldsTheLatest == Spec => []HistoryIsLatest
<1>1. HistoryInv => HistoryIsLatest
  BY DEF HistoryInv, Numbered, Agreeing, Agrees, HistoryIsLatest
<1> QED
  BY <1>1, InitHistory, NextHistory, PTL DEF Spec

\* The seed kept with an entry is the state the generator had when its first
\* statement ran, though lines are given and discarded before and after it.
THEOREM EntriesKeepTheirSeed == Spec => []SeedsReproduce
<1>1. HistoryInv => SeedsReproduce
  BY DEF HistoryInv, Agreeing, Agrees, Drawn, Draws, SeedsReproduce
<1> QED
  BY <1>1, InitHistory, NextHistory, PTL DEF Spec

-----------------------------------------------------------------------------
(* Interrupts *)

\* At the prompt of `repl` the flag is that of this entry once it runs.
FlagInv ==
    /\ pc \in {"run", "seen"} /\ mode = "repl" /\ interrupt => pressed
    /\ pc = "seen" /\ mode = "repl" => pressed

LEMMA NextFlag == FlagInv /\ [Next]_vars => FlagInv'
<1> SUFFICES ASSUME FlagInv, [Next]_vars PROVE FlagInv'
  OBVIOUS
<1>1. ASSUME NEW line \in Lines, Type(line) \/ NextFile(line) PROVE FlagInv'
  BY <1>1 DEF Type, NextFile, ReadLine, FlagInv
<1>2. ASSUME NEW i \in 1..Len(history), Recall(history[i]) PROVE FlagInv'
  BY <1>2 DEF Recall, ReadLine, FlagInv
<1>3. CASE StartSession
  BY <1>3 DEF StartSession, FlagInv
<1>4. CASE DiscardInput \/ EndOfInput \/ Quit
  BY <1>4 DEF DiscardInput, EndOfInput, Quit, FlagInv
<1>5. CASE CtrlC
  BY <1>5 DEF CtrlC, FlagInv, input
<1>6. CASE Execute
  BY <1>6 DEF Execute, ClearFlag, EndText, FlagInv, input
<1>7. CASE Bracket \/ Draw \/ LeaveLoop \/ SetQuitOnError \/ SetHistorySize
  BY <1>7 DEF Bracket, Draw, LeaveLoop, SetQuitOnError, SetHistorySize, Runs, FlagInv, input, signal
<1>8. CASE Fail \/ Finish \/ TakeInterrupt
  BY <1>8 DEF Fail, Finish, TakeInterrupt, EndText, FlagInv, input, signal
<1>9. CASE SeeInterrupt
  BY <1>9 DEF SeeInterrupt, Running, FlagInv, input, signal
<1>10. CASE UNCHANGED vars
  BY <1>10 DEF vars, FlagInv, input, signal
<1> QED
  BY <1>1, <1>2, <1>3, <1>4, <1>5, <1>6, <1>7, <1>8, <1>9, <1>10 DEF Next, Interpreter

\* A Ctrl-C at the prompt of `repl` ends the entry during which it was
\* pressed, never a later one: the flag is cleared before each (`repl`).
THEOREM InterruptsAreOfTheEntry == Spec => []InterruptsEndTheirEntry
<1>1. Init => FlagInv
  BY DEF Init, FlagInv
<1>2. FlagInv => InterruptsEndTheirEntry
  BY DEF FlagInv, InterruptsEndTheirEntry
<1> QED
  BY <1>1, <1>2, NextFlag, PTL DEF Spec

-----------------------------------------------------------------------------
(***************************************************************************)
(* What a session prints, module Output: three results for any files and   *)
(* any nesting of `Print`.                                                 *)
(*                                                                         *)
(* Redirections replace each other and standard output stays at the bottom *)
(* of the stack, also when `Print` redirects output itself                 *)
(* (OneRedirection): every step pushes a sink that is not a file, pops a   *)
(* capture, changes the text of a capture, or takes the one file out.      *)
(*                                                                         *)
(* A text is printed once (NothingTwice): each step moves texts from one   *)
(* place to another, drops them, or makes one that is in no place yet.     *)
(*                                                                         *)
(* For programs that redirect output outside `Print` the stack is standard *)
(* output, a file or none, and a capture for each `Print` in progress; with*)
(* that every step maps to one of Redirection (ImplementsRedirection).     *)
(***************************************************************************)

SinkRecord == [to : Files \union {Stdout, Captured}, got : Seq(Nat)]
LevelRecord == [open : BOOLEAN, text : Seq(Nat)]

\* A stack of sinks as OneRedirection wants it.
Sound(s) ==
    /\ s \in Seq(SinkRecord)
    /\ Len(s) > 0 /\ s[1].to = Stdout
    /\ \A i, j \in DOMAIN s : s[i].to \in Files /\ s[j].to \in Files => i = j

\* The inductive invariant: the texts are typed for the captures to be.
IInv ==
    /\ Sound(stack)
    /\ levels \in Seq(LevelRecord) /\ Depth > 0
    /\ marks \in Nat

-----------------------------------------------------------------------------
(* The operations on a stack *)

LEMMA SinkTyped ==
    ASSUME NEW to \in Files \union {Stdout, Captured}
    PROVE  Sink(to) \in SinkRecord /\ Sink(to).to = to
BY DEF Sink, SinkRecord

LEMMA ConcatTyped ==
    ASSUME NEW a \in Seq(Nat), NEW b \in Seq(Nat)
    PROVE  a \o b \in Seq(Nat)
OBVIOUS

LEMMA SinkExtended ==
    ASSUME NEW sink \in SinkRecord, NEW text \in Seq(Nat)
    PROVE  LET top == [sink EXCEPT !.got = @ \o text]
           IN  top \in SinkRecord /\ top.to = sink.to
<1>1. sink.got \in Seq(Nat)
  BY DEF SinkRecord
<1>2. sink.got \o text \in Seq(Nat)
  BY <1>1, ConcatTyped
<1> QED BY <1>2 DEF SinkRecord

LEMMA LevelExtended ==
    ASSUME NEW l \in LevelRecord, NEW text \in Seq(Nat)
    PROVE  [l EXCEPT !.text = @ \o text] \in LevelRecord
<1>1. l.text \in Seq(Nat)
  BY DEF LevelRecord
<1>2. l.text \o text \in Seq(Nat)
  BY <1>1, ConcatTyped
<1> QED BY <1>2 DEF LevelRecord

LEMMA SoundFacts ==
    ASSUME NEW s, Sound(s)
    PROVE  /\ DOMAIN s = 1..Len(s) /\ Len(s) \in Nat
           /\ \A i \in 1..Len(s) : s[i] \in SinkRecord
           /\ s[Len(s)] \in SinkRecord
BY DEF Sound

LEMMA PushSound ==
    ASSUME NEW s, Sound(s), NEW sink \in SinkRecord,
           sink.to \in Files => \A i \in DOMAIN s : s[i].to \notin Files
    PROVE  Sound(Append(s, sink))
<1>1. Append(s, sink) \in Seq(SinkRecord) /\ Len(Append(s, sink)) = Len(s) + 1
      /\ \A i \in 1..Len(s) : Append(s, sink)[i] = s[i]
      /\ Append(s, sink)[Len(s) + 1] = sink
  BY DEF Sound
<1>2. DOMAIN Append(s, sink) = 1..(Len(s) + 1)
  BY <1>1
<1>3. Len(s) \in Nat /\ DOMAIN s = 1..Len(s)
  BY SoundFacts
<1>4. ASSUME NEW i \in 1..(Len(s) + 1), NEW j \in 1..(Len(s) + 1),
             Append(s, sink)[i].to \in Files, Append(s, sink)[j].to \in Files
      PROVE  i = j
  <2>1. CASE i = Len(s) + 1 \/ j = Len(s) + 1
    BY <1>1, <1>3, <1>4, <2>1
  <2>2. CASE i # Len(s) + 1 /\ j # Len(s) + 1
    <3>1. i \in 1..Len(s) /\ j \in 1..Len(s)
      BY <1>3, <2>2
    <3> QED BY <1>1, <1>3, <1>4, <3>1 DEF Sound
  <2> QED BY <2>1, <2>2
<1> QED BY <1>1, <1>2, <1>3, <1>4 DEF Sound

LEMMA PopSound ==
    ASSUME NEW s, Sound(s)
    PROVE  Sound(PopCapture(s))
<1>1. CASE s[Len(s)].to # Captured
  BY <1>1 DEF PopCapture
<1>2. CASE s[Len(s)].to = Captured
  <2> DEFINE t == SubSeq(s, 1, Len(s) - 1)
  <2>1. Len(s) \in Nat /\ Len(s) > 1
    BY <1>2, SoundFacts, OutputAssumption DEF Sound
  <2>2. t \in Seq(SinkRecord) /\ Len(t) = Len(s) - 1
        /\ \A i \in 1..(Len(s) - 1) : t[i] = s[i]
    BY <2>1 DEF Sound
  <2>3. DOMAIN t = 1..(Len(s) - 1) /\ DOMAIN t \subseteq DOMAIN s
    BY <2>1, <2>2, SoundFacts
  <2> HIDE DEF t
  <2>4. Sound(t)
    BY <2>1, <2>2, <2>3 DEF Sound
  <2> QED BY <1>2, <2>4 DEF PopCapture, t
<1> QED BY <1>1, <1>2

LEMMA WriteSound ==
    ASSUME NEW s, Sound(s), NEW text \in Seq(Nat)
    PROVE  Sound([s EXCEPT ![Len(s)].got = @ \o text])
<1> DEFINE top == [s[Len(s)] EXCEPT !.got = @ \o text]
           t == [s EXCEPT ![Len(s)] = top]
<1>1. top \in SinkRecord /\ top.to = s[Len(s)].to
  BY SoundFacts, SinkExtended
<1> HIDE DEF top
<1>2. Len(s) \in Nat /\ Len(s) \in 1..Len(s) /\ DOMAIN s = 1..Len(s)
  BY SoundFacts DEF Sound
<1>3. t \in Seq(SinkRecord) /\ Len(t) = Len(s) /\ DOMAIN t = DOMAIN s
  BY <1>1, <1>2 DEF Sound
<1>4. \A i \in DOMAIN s : t[i].to = s[i].to
  BY <1>1, <1>2
<1> HIDE DEF t
<1>5. 1 \in DOMAIN s /\ Len(t) > 0 /\ t[1].to = Stdout
  BY <1>2, <1>3, <1>4 DEF Sound
<1>6. \A i, j \in DOMAIN t : t[i].to \in Files /\ t[j].to \in Files => i = j
  BY <1>3, <1>4 DEF Sound
<1>7. Sound(t)
  BY <1>3, <1>5, <1>6 DEF Sound
<1> QED BY <1>7 DEF t, top

LEMMA UnredirectSound ==
    ASSUME NEW s, Sound(s)
    PROVE  LET t == Unredirect(s) IN Sound(t) /\ \A i \in DOMAIN t : t[i].to \notin Files
<1>1. DOMAIN s = 1..Len(s) /\ Len(s) \in Nat /\ Len(s) > 0
  BY SoundFacts DEF Sound
<1>2. s[1].to \notin Files
  BY OutputAssumption DEF Sound
<1>3. CASE Redirections(s) = {}
  <2>1. \A i \in DOMAIN s : s[i].to \notin Files
    BY <1>1, <1>2, <1>3 DEF Redirections
  <2> QED BY <1>3, <2>1 DEF Unredirect
<1>4. CASE Redirections(s) # {}
  <2> DEFINE r == CHOOSE i \in Redirections(s) : \A j \in Redirections(s) : j <= i
             t == RemoveIndex(s, r)
  <2>1. PICK k \in 2..Len(s) : s[k].to \in Files
    BY <1>4 DEF Redirections
  <2>2. \A j \in DOMAIN s : s[j].to \in Files => j = k
    BY <1>1, <2>1 DEF Sound
  <2>3. Redirections(s) = {k}
    BY <1>1, <2>1, <2>2 DEF Redirections
  <2>4. r = k /\ r \in 2..Len(s)
    BY <1>1, <2>1, <2>3
  <2> HIDE DEF r
  <2>5. Len(s) - 1 \in Nat /\ t = [j \in 1..(Len(s) - 1) |-> IF j < r THEN s[j] ELSE s[j + 1]]
    BY <1>1, <2>4 DEF RemoveIndex
  <2> HIDE DEF t
  <2>6. \A j \in 1..(Len(s) - 1) : t[j] \in SinkRecord /\ t[j].to \notin Files
    <3> SUFFICES ASSUME NEW j \in 1..(Len(s) - 1)
                 PROVE  t[j] \in SinkRecord /\ t[j].to \notin Files
      OBVIOUS
    <3>1. CASE j < r
      <4>1. j \in DOMAIN s /\ j # k /\ t[j] = s[j]
        BY <1>1, <2>4, <2>5, <3>1
      <4> QED BY <4>1, <1>1, <2>2, SoundFacts
    <3>2. CASE ~(j < r)
      <4>1. j + 1 \in DOMAIN s /\ j + 1 # k /\ t[j] = s[j + 1]
        BY <1>1, <2>4, <2>5, <3>2
      <4> QED BY <4>1, <1>1, <2>2, SoundFacts
    <3> QED BY <3>1, <3>2
  <2>7. t \in [1..(Len(s) - 1) -> SinkRecord]
    BY <2>5, <2>6
  <2>8. t \in Seq(SinkRecord) /\ Len(t) = Len(s) - 1 /\ DOMAIN t = 1..(Len(s) - 1)
    BY <2>5, <2>7
  <2>9. 1 \in 1..(Len(s) - 1) /\ t[1] = s[1]
    BY <1>1, <2>4, <2>5
  <2>10. Sound(t) /\ \A i \in DOMAIN t : t[i].to \notin Files
    BY <1>1, <2>6, <2>8, <2>9 DEF Sound
  <2> QED BY <1>4, <2>10 DEF Unredirect, t, r
<1> QED BY <1>3, <1>4

LEMMA RedirectSound ==
    ASSUME NEW s, Sound(s), NEW f \in Files
    PROVE  Sound(Redirect(s, f))
BY UnredirectSound, SinkTyped, PushSound DEF Redirect

-----------------------------------------------------------------------------
(* Every step keeps the invariant *)

LEMMA LevelsFacts ==
    ASSUME IInv
    PROVE  /\ Depth \in Nat /\ Depth \in 1..Depth /\ Inner \in LevelRecord
           /\ Inner.text \in Seq(Nat) /\ CapturedText \in Seq(Nat)
           /\ Idle \in LevelRecord
<1>1. Depth \in Nat /\ Depth \in 1..Depth /\ Inner \in LevelRecord
  BY DEF IInv, Depth, Inner
<1>2. Inner.text \in Seq(Nat)
  BY <1>1 DEF LevelRecord
<1>3. <<>> \in Seq(Nat)
  OBVIOUS
<1>4. Top \in SinkRecord
  BY SoundFacts DEF IInv, Top
<1>5. CapturedText \in Seq(Nat)
  BY <1>3, <1>4 DEF CapturedText, SinkRecord
<1>6. Idle \in LevelRecord
  BY <1>3 DEF Idle, LevelRecord
<1> QED BY <1>1, <1>2, <1>5, <1>6

\* The level on top changes.
LEMMA TopLevel ==
    ASSUME IInv, NEW l \in LevelRecord
    PROVE  [levels EXCEPT ![Depth] = l] \in Seq(LevelRecord)
           /\ Len([levels EXCEPT ![Depth] = l]) = Depth
BY LevelsFacts DEF IInv, Depth

\* A `Print` is over and the level below changes.
LEMMA LowerLevel ==
    ASSUME IInv, Depth > 1, NEW l \in LevelRecord
    PROVE  LET low == [SubSeq(levels, 1, Depth - 1) EXCEPT ![Depth - 1] = l]
           IN  low \in Seq(LevelRecord) /\ Len(low) = Depth - 1
<1>1. SubSeq(levels, 1, Depth - 1) \in Seq(LevelRecord)
      /\ Len(SubSeq(levels, 1, Depth - 1)) = Depth - 1
  BY LevelsFacts DEF IInv, Depth
<1> QED BY <1>1, LevelsFacts

LEMMA InitInv == OutputInit => IInv
<1> SUFFICES ASSUME OutputInit PROVE IInv
  OBVIOUS
<1>1. Sink(Stdout) \in SinkRecord /\ Sink(Stdout).to = Stdout
  BY SinkTyped
<1>2. stack \in Seq(SinkRecord) /\ Len(stack) = 1 /\ stack[1] = Sink(Stdout)
      /\ DOMAIN stack = {1}
  BY <1>1 DEF OutputInit
<1>3. Sound(stack)
  BY <1>1, <1>2 DEF Sound
<1>4. <<>> \in Seq(Nat)
  OBVIOUS
<1>5. Idle \in LevelRecord
  BY <1>4 DEF Idle, LevelRecord
<1>6. levels \in Seq(LevelRecord) /\ Len(levels) = 1
  BY <1>5 DEF OutputInit
<1> QED BY <1>3, <1>6 DEF IInv, Depth, OutputInit

LEMMA NextInv == IInv /\ [OutputNext]_outputVars => IInv'
<1> SUFFICES ASSUME IInv, [OutputNext]_outputVars PROVE IInv'
  OBVIOUS
<1>0. Sound(stack) /\ marks \in Nat /\ Depth > 0 /\ levels \in Seq(LevelRecord)
  BY DEF IInv
<1>1. CASE BeginStatement
  <2> DEFINE l == [open |-> TRUE, text |-> <<marks + 1>>]
  <2>1. l \in LevelRecord
    BY <1>0 DEF LevelRecord
  <2>2. levels' = [levels EXCEPT ![Depth] = l] /\ marks' \in Nat /\ stack' = stack
    BY <1>0, <1>1 DEF BeginStatement
  <2> HIDE DEF l
  <2> QED BY <1>0, <2>1, <2>2, TopLevel DEF IInv, Depth
<1>2. CASE EndStatement
  <2>1. Sound(stack')
    <3>1. Inner.text \in Seq(Nat)
      BY LevelsFacts
    <3>2. CASE Top.to = Captured
      <4>1. stack' = [stack EXCEPT ![Len(stack)].got = @ \o Inner.text]
        BY <1>2, <3>2 DEF EndStatement, Write
      <4> QED BY <1>0, <3>1, <4>1, WriteSound
    <3>3. CASE Top.to # Captured
      BY <1>0, <1>2, <3>3 DEF EndStatement, Write
    <3> QED BY <3>2, <3>3
  <2>2. levels' = [levels EXCEPT ![Depth] = Idle] /\ marks' = marks
    BY <1>2 DEF EndStatement
  <2> QED BY <1>0, <2>1, <2>2, LevelsFacts, TopLevel DEF IInv, Depth
<1>3. CASE BeginPrint
  <2>1. Sink(Captured) \in SinkRecord /\ Sink(Captured).to \notin Files
    BY SinkTyped, OutputAssumption
  <2>2. Sound(stack')
    BY <1>0, <1>3, <2>1, PushSound DEF BeginPrint
  <2>3. levels' \in Seq(LevelRecord) /\ Len(levels') > 0
    BY <1>0, <1>3, LevelsFacts DEF BeginPrint, Depth
  <2>4. marks' = marks
    BY <1>3 DEF BeginPrint
  <2> QED BY <1>0, <2>2, <2>3, <2>4 DEF IInv, Depth
<1>4. CASE EndPrint
  <2> DEFINE low == SubSeq(levels, 1, Depth - 1)
             l == [low[Depth - 1] EXCEPT !.text = @ \o CapturedText]
  <2>1. Depth > 1 /\ marks' = marks /\ stack' = PopCapture(stack)
        /\ levels' = [low EXCEPT ![Depth - 1] = l]
    BY <1>4 DEF EndPrint
  <2>2. low[Depth - 1] \in LevelRecord
    BY <1>0, <2>1, LevelsFacts DEF Depth
  <2>3. l \in LevelRecord
    BY <2>2, LevelsFacts, LevelExtended
  <2> HIDE DEF l
  <2>4. levels' \in Seq(LevelRecord) /\ Len(levels') = Depth - 1
    BY <2>1, <2>3, LowerLevel
  <2> QED BY <1>0, <2>1, <2>4, PopSound, LevelsFacts DEF IInv, Depth
<1>5. CASE FailPrint
  <2>1. Depth > 1 /\ marks' = marks /\ stack' = PopCapture(stack)
        /\ levels' = [SubSeq(levels, 1, Depth - 1) EXCEPT ![Depth - 1] = Idle]
    BY <1>5 DEF FailPrint
  <2>2. levels' \in Seq(LevelRecord) /\ Len(levels') = Depth - 1
    BY <2>1, LevelsFacts, LowerLevel
  <2> QED BY <1>0, <2>1, <2>2, PopSound, LevelsFacts DEF IInv, Depth
<1>6. ASSUME NEW f \in Files, NEW overwrite \in BOOLEAN, SetOutputFile(f, overwrite)
      PROVE  IInv'
  <2>1. stack' = Redirect(stack, f) /\ UNCHANGED program
    BY <1>6 DEF SetOutputFile
  <2> QED BY <1>0, <2>1, RedirectSound DEF IInv, program, Depth
<1>7. CASE UnsetOutputFile
  <2>1. stack' = Unredirect(stack) /\ UNCHANGED program
    BY <1>7 DEF UnsetOutputFile
  <2> QED BY <1>0, <2>1, UnredirectSound DEF IInv, program, Depth
<1>8. ASSUME NEW overwrite \in BOOLEAN, SetLogFile(overwrite) PROVE IInv'
  BY <1>0, <1>8 DEF SetLogFile, IInv, program, Depth
<1>9. CASE UnsetLogFile
  BY <1>0, <1>9 DEF UnsetLogFile, IInv, program, Depth
<1>10. CASE UNCHANGED outputVars
  BY <1>0, <1>10 DEF outputVars, IInv, Depth
<1> QED BY <1>1, <1>2, <1>3, <1>4, <1>5, <1>6, <1>7, <1>8, <1>9, <1>10 DEF OutputNext, Step

\* Standard output is never lost and redirections never pile up, whatever
\* `Print` intrinsics do with the output (`redirect_to_file`, `unredirect`,
\* `end_capture`).
THEOREM RedirectionsReplaceEachOther == OutputSpec => []OneRedirection
<1>1. IInv => OneRedirection
  BY DEF IInv, Sound, OneRedirection
<1> QED BY <1>1, InitInv, NextInv, PTL DEF OutputSpec

-----------------------------------------------------------------------------
(* Where the texts are *)

Dests == Files \union {Stdout}

\* The places of texts: destinations, buffers and statements under way, also
\* those there are none of, which hold nothing.
Spots == ({"shown"} \X Dests) \union ({"sink", "level"} \X Nat)

SinkText(sinks, k) == IF k \in DOMAIN sinks THEN sinks[k].got ELSE <<>>
LevelText(lvls, k) == IF k \in DOMAIN lvls THEN lvls[k].text ELSE <<>>

At(received, sinks, lvls) ==
    [p \in Spots |->
        IF p[1] = "shown" THEN received[p[2]]
        ELSE IF p[1] = "sink" THEN SinkText(sinks, p[2]) ELSE LevelText(lvls, p[2])]

Now == At(shown, stack, levels)

\* No text is twice in what the places hold.
Once(T) ==
    \A p, q \in Spots : \A i \in DOMAIN T[p], j \in DOMAIN T[q] :
        T[p][i] = T[q][j] => p = q /\ i = j

\* They hold texts up to `m`.
Within(T, m) == \A p \in Spots : \A i \in DOMAIN T[p] : T[p][i] <= m

Held(T, m) == T \in [Spots -> Seq(Nat)] /\ Once(T) /\ Within(T, m)

\* One place gets what another held.
LEMMA JoinedOnce ==
    ASSUME NEW T, NEW m \in Nat, Held(T, m), NEW to \in Spots, NEW from \in Spots, to # from,
           NEW U \in [Spots -> Seq(Nat)],
           U[to] = T[to] \o T[from], U[from] = <<>>,
           \A p \in Spots : p # to => U[p] = <<>> \/ U[p] = T[p]
    PROVE  Held(U, m)
<1> DEFINE a == T[to]
           b == T[from]
           c == a \o b
           there(p, i) == p # to \/ i <= Len(a)
           place(p, i) == IF there(p, i) THEN p ELSE from
           index(p, i) == IF there(p, i) THEN i ELSE i - Len(a)
<1>1. /\ a \in Seq(Nat) /\ b \in Seq(Nat) /\ Len(a) \in Nat /\ Len(b) \in Nat
      /\ DOMAIN a = 1..Len(a) /\ DOMAIN b = 1..Len(b)
  BY DEF Held
<1> HIDE DEF a, b
<1>2. /\ c \in Seq(Nat) /\ Len(c) = Len(a) + Len(b)
      /\ \A i \in 1..Len(c) : c[i] = IF i <= Len(a) THEN a[i] ELSE b[i - Len(a)]
  BY ONLY <1>1, ConcatProperties
<1> HIDE DEF c
<1>3. \A i \in DOMAIN c : /\ i \in Int
                          /\ i <= Len(a) => i \in DOMAIN a /\ c[i] = a[i]
                          /\ ~(i <= Len(a)) => i - Len(a) \in DOMAIN b /\ c[i] = b[i - Len(a)]
  <2>1. DOMAIN c = 1..Len(c)
    BY ONLY <1>2
  <2>2. ASSUME NEW i \in 1..Len(c)
        PROVE  /\ i \in Int
               /\ i <= Len(a) => i \in 1..Len(a)
               /\ ~(i <= Len(a)) => i - Len(a) \in 1..Len(b)
    BY ONLY <1>1, <1>2, <2>2
  <2>3. \A i \in 1..Len(c) : c[i] = IF i <= Len(a) THEN a[i] ELSE b[i - Len(a)]
    BY ONLY <1>2
  <2> QED
    BY ONLY <1>1, <2>1, <2>2, <2>3
<1>4. U[to] = c
  BY DEF a, b, c
<1>5. ASSUME NEW p \in Spots, NEW i \in DOMAIN U[p]
      PROVE  /\ p # to => p # from /\ U[p] = T[p]
             /\ p = to => i \in DOMAIN c /\ U[p][i] = c[i]
  BY <1>4, <1>5
<1>6. ASSUME NEW p \in Spots, NEW i \in DOMAIN U[p]
      PROVE  /\ place(p, i) \in Spots /\ index(p, i) \in DOMAIN T[place(p, i)]
             /\ U[p][i] = T[place(p, i)][index(p, i)]
  <2>1. CASE p # to
    BY <1>5, <1>6, <2>1
  <2>2. CASE p = to /\ i <= Len(a)
    BY <1>3, <1>5, <1>6, <2>2 DEF a
  <2>3. CASE p = to /\ ~(i <= Len(a))
    BY <1>3, <1>5, <1>6, <2>3 DEF b
  <2> QED
    BY <2>1, <2>2, <2>3
<1>7. ASSUME NEW p \in Spots, NEW q \in Spots, NEW i \in DOMAIN U[p], NEW j \in DOMAIN U[q],
             place(p, i) = place(q, j), index(p, i) = index(q, j)
      PROVE  p = q /\ i = j
  <2>1. p # to => p # from
    BY <1>5
  <2>2. q # to => q # from
    BY <1>5
  <2>3. CASE there(p, i) /\ there(q, j)
    BY <1>7, <2>3
  <2>4. CASE ~there(p, i) /\ ~there(q, j)
    <3>1. p = to /\ q = to /\ i \in Int /\ j \in Int /\ i - Len(a) = j - Len(a)
      BY <1>3, <1>5, <1>7, <2>4
    <3> QED
      BY ONLY <1>1, <3>1
  <2>5. CASE there(p, i) /\ ~there(q, j)
    BY <1>7, <2>1, <2>5
  <2>6. CASE ~there(p, i) /\ there(q, j)
    BY <1>7, <2>2, <2>6
  <2> QED
    BY <2>3, <2>4, <2>5, <2>6
<1> HIDE DEF place, index
<1>8. Within(U, m)
  BY <1>6 DEF Held, Within
<1>9. Once(U)
  <2> SUFFICES ASSUME NEW p \in Spots, NEW q \in Spots, NEW i \in DOMAIN U[p],
                      NEW j \in DOMAIN U[q], U[p][i] = U[q][j]
               PROVE  p = q /\ i = j
    BY DEF Once
  <2>1. /\ place(p, i) \in Spots /\ index(p, i) \in DOMAIN T[place(p, i)]
        /\ place(q, j) \in Spots /\ index(q, j) \in DOMAIN T[place(q, j)]
        /\ T[place(p, i)][index(p, i)] = T[place(q, j)][index(q, j)]
    BY <1>6
  <2>2. place(p, i) = place(q, j) /\ index(p, i) = index(q, j)
    BY <2>1 DEF Held, Once
  <2> QED
    BY <1>7, <2>2
<1> QED
  BY <1>8, <1>9 DEF Held

\* One place gets a text that no place holds.
LEMMA FreshOnce ==
    ASSUME NEW T, NEW m \in Nat, Held(T, m), NEW to \in Spots,
           NEW U \in [Spots -> Seq(Nat)],
           U[to] = <<m + 1>>,
           \A p \in Spots : p # to => U[p] = T[p]
    PROVE  Held(U, m + 1)
<1>1. DOMAIN U[to] = {1} /\ U[to][1] = m + 1
  OBVIOUS
<1>2. \A p \in Spots : \A i \in DOMAIN T[p] : T[p][i] \in Nat /\ T[p][i] <= m
  BY DEF Held, Within
<1>3. Within(U, m + 1)
  BY <1>1, <1>2 DEF Within
<1>4. Once(U)
  <2> SUFFICES ASSUME NEW p \in Spots, NEW q \in Spots, NEW i \in DOMAIN U[p],
                      NEW j \in DOMAIN U[q], U[p][i] = U[q][j]
               PROVE  p = q /\ i = j
    BY DEF Once
  <2>1. CASE p = to \/ q = to
    <3>1. U[p][i] = m + 1 \/ U[q][j] = m + 1
      BY <1>1, <2>1
    <3>2. /\ p # to => U[p][i] \in Nat /\ U[p][i] <= m
          /\ q # to => U[q][j] \in Nat /\ U[q][j] <= m
      BY <1>2
    <3>3. p = to /\ q = to
      BY <3>1, <3>2
    <3> QED
      BY <1>1, <3>3
  <2>2. CASE p # to /\ q # to
    BY <2>2 DEF Held, Once
  <2> QED
    BY <2>1, <2>2
<1> QED
  BY <1>3, <1>4 DEF Held

Shown(d) == <<"shown", d>>
SinkAt(k) == <<"sink", k>>
LevelAt(k) == <<"level", k>>

LEMMA SpotsAre ==
    /\ \A d \in Dests : Shown(d) \in Spots
    /\ \A k \in Nat : SinkAt(k) \in Spots /\ LevelAt(k) \in Spots
    /\ \A p \in Spots : \/ \E d \in Dests : p = Shown(d)
                        \/ \E k \in Nat : p = SinkAt(k)
                        \/ \E k \in Nat : p = LevelAt(k)
BY DEF Spots, Shown, SinkAt, LevelAt

LEMMA SpotsDiffer ==
    /\ \A d, e : Shown(d) = Shown(e) => d = e
    /\ \A j, k : SinkAt(j) = SinkAt(k) => j = k
    /\ \A j, k : LevelAt(j) = LevelAt(k) => j = k
    /\ \A d, k : Shown(d) # SinkAt(k) /\ Shown(d) # LevelAt(k)
    /\ \A j, k : SinkAt(j) # LevelAt(k)
BY DEF Shown, SinkAt, LevelAt

\* The texts of sinks, of levels and of what was received.
LEMMA AtIs ==
    ASSUME NEW received, NEW sinks, NEW lvls
    PROVE  /\ DOMAIN At(received, sinks, lvls) = Spots
           /\ \A d \in Dests : At(received, sinks, lvls)[Shown(d)] = received[d]
           /\ \A k \in Nat : At(received, sinks, lvls)[SinkAt(k)] = SinkText(sinks, k)
           /\ \A k \in Nat : At(received, sinks, lvls)[LevelAt(k)] = LevelText(lvls, k)
BY DEF At, Spots, Shown, SinkAt, LevelAt

LEMMA AtTyped ==
    ASSUME NEW received \in [Dests -> Seq(Nat)], NEW sinks \in Seq(SinkRecord),
           NEW lvls \in Seq(LevelRecord)
    PROVE  At(received, sinks, lvls) \in [Spots -> Seq(Nat)]
<1> DEFINE T == At(received, sinks, lvls)
<1>1. <<>> \in Seq(Nat)
  OBVIOUS
<1>2. \A d \in Dests : received[d] \in Seq(Nat)
  OBVIOUS
<1>3. \A k \in DOMAIN sinks : sinks[k].got \in Seq(Nat)
  <2>1. \A k \in DOMAIN sinks : sinks[k] \in SinkRecord
    OBVIOUS
  <2> QED
    BY ONLY <2>1 DEF SinkRecord
<1>4. \A k \in DOMAIN lvls : lvls[k].text \in Seq(Nat)
  <2>1. \A k \in DOMAIN lvls : lvls[k] \in LevelRecord
    OBVIOUS
  <2> QED
    BY ONLY <2>1 DEF LevelRecord
<1>5. T = [p \in Spots |-> T[p]]
  BY DEF At
<1>6. /\ \A d \in Dests : T[Shown(d)] = received[d]
      /\ \A k \in Nat : T[SinkAt(k)] = SinkText(sinks, k)
      /\ \A k \in Nat : T[LevelAt(k)] = LevelText(lvls, k)
  BY AtIs
<1> HIDE DEF T
<1>7. \A k \in Nat : T[SinkAt(k)] \in Seq(Nat) /\ T[LevelAt(k)] \in Seq(Nat)
  BY ONLY <1>1, <1>3, <1>4, <1>6 DEF SinkText, LevelText
<1>8. \A d \in Dests : T[Shown(d)] \in Seq(Nat)
  BY ONLY <1>2, <1>6
<1>9. \A p \in Spots : T[p] \in Seq(Nat)
  BY ONLY <1>7, <1>8, SpotsAre
<1> QED
  BY <1>5, <1>9 DEF T

\* The inductive invariant of texts.
PlacesInv ==
    /\ IInv /\ shown \in [Dests -> Seq(Nat)]
    /\ Held(Now, marks)

LEMMA InitPlacesInv == OutputInit => PlacesInv
<1> SUFFICES ASSUME OutputInit PROVE PlacesInv
  OBVIOUS
<1>1. <<>> \in Seq(Nat)
  OBVIOUS
<1>2. IInv /\ shown \in [Dests -> Seq(Nat)]
  BY <1>1, InitInv DEF OutputInit, Dests
<1>3. Now \in [Spots -> Seq(Nat)]
  BY <1>2, AtTyped DEF Now, IInv, Sound
<1>4. /\ \A d \in Dests : shown[d] = <<>>
      /\ \A k \in DOMAIN stack : stack[k].got = <<>>
      /\ \A k \in DOMAIN levels : levels[k].text = <<>>
  BY DEF OutputInit, Dests, Sink, Idle
<1>5. \A p \in Spots : Now[p] = <<>>
  <2>1. /\ \A d \in Dests : Now[Shown(d)] = <<>>
        /\ \A k \in Nat : Now[SinkAt(k)] = <<>> /\ Now[LevelAt(k)] = <<>>
    BY <1>4, AtIs DEF Now, SinkText, LevelText
  <2> QED
    BY ONLY <2>1, SpotsAre
<1>6. Once(Now) /\ Within(Now, marks)
  BY <1>5 DEF Once, Within
<1> QED
  BY <1>2, <1>3, <1>6 DEF PlacesInv, Held

-----------------------------------------------------------------------------
(* Every step moves texts, drops them or prints one *)

LEMMA LevelsAreTyped ==
    ASSUME IInv
    PROVE  /\ Depth \in Nat /\ Depth \in 1..Depth /\ DOMAIN levels = 1..Depth
           /\ levels \in Seq(LevelRecord) /\ Inner = levels[Depth]
           /\ Inner.text = LevelText(levels, Depth)
BY LevelsFacts DEF IInv, Depth, Inner, LevelText

LEMMA StackIsTyped ==
    ASSUME IInv
    PROVE  /\ Len(stack) \in Nat /\ Len(stack) \in 1..Len(stack) /\ DOMAIN stack = 1..Len(stack)
           /\ stack \in Seq(SinkRecord) /\ Top = stack[Len(stack)] /\ Top \in SinkRecord
           /\ Top.got = SinkText(stack, Len(stack))
BY SoundFacts DEF IInv, Sound, Top, SinkText

LEMMA TopLevelText ==
    ASSUME IInv, NEW l, NEW k \in Nat
    PROVE  LevelText([levels EXCEPT ![Depth] = l], k)
             = IF k = Depth THEN l.text ELSE LevelText(levels, k)
BY LevelsAreTyped DEF LevelText

LEMMA LowerLevelText ==
    ASSUME IInv, Depth > 1, NEW l, NEW k \in Nat
    PROVE  LevelText([SubSeq(levels, 1, Depth - 1) EXCEPT ![Depth - 1] = l], k)
             = IF k = Depth - 1 THEN l.text
               ELSE IF k = Depth THEN <<>> ELSE LevelText(levels, k)
<1> DEFINE low == SubSeq(levels, 1, Depth - 1)
<1>1. DOMAIN low = 1..(Depth - 1) /\ \A i \in 1..(Depth - 1) : low[i] = levels[i]
  BY LevelsAreTyped
<1> HIDE DEF low
<1>2. DOMAIN [low EXCEPT ![Depth - 1] = l] = 1..(Depth - 1)
  BY <1>1
<1>3. \A i \in 1..(Depth - 1) : [low EXCEPT ![Depth - 1] = l][i]
                                  = IF i = Depth - 1 THEN l ELSE levels[i]
  BY <1>1
<1> QED
  BY <1>2, <1>3, LevelsAreTyped DEF LevelText, low

LEMMA PopText ==
    ASSUME IInv, NEW k \in Nat
    PROVE  SinkText(PopCapture(stack), k)
             = IF Top.to = Captured /\ k = Len(stack) THEN <<>> ELSE SinkText(stack, k)
<1>1. CASE Top.to # Captured
  BY <1>1 DEF PopCapture, Top
<1>2. CASE Top.to = Captured
  <2> DEFINE low == SubSeq(stack, 1, Len(stack) - 1)
  <2>1. PopCapture(stack) = low
    BY <1>2 DEF PopCapture, Top
  <2>2. Len(stack) > 1
    BY <1>2, OutputAssumption, StackIsTyped DEF IInv, Sound
  <2>3. DOMAIN low = 1..(Len(stack) - 1) /\ \A i \in 1..(Len(stack) - 1) : low[i] = stack[i]
    BY <2>2, StackIsTyped
  <2> HIDE DEF low
  <2> QED
    BY <1>2, <2>1, <2>3, StackIsTyped DEF SinkText
<1> QED
  BY <1>1, <1>2

LEMMA PushText ==
    ASSUME NEW s \in Seq(SinkRecord), NEW to, NEW k \in Nat
    PROVE  SinkText(Append(s, Sink(to)), k)
             = IF k = Len(s) + 1 THEN <<>> ELSE SinkText(s, k)
<1>1. /\ DOMAIN s = 1..Len(s) /\ Len(s) \in Nat
      /\ DOMAIN Append(s, Sink(to)) = 1..(Len(s) + 1)
      /\ \A i \in 1..(Len(s) + 1) : Append(s, Sink(to))[i] = IF i = Len(s) + 1 THEN Sink(to) ELSE s[i]
  OBVIOUS
<1>2. Sink(to).got = <<>>
  BY DEF Sink
<1> QED
  BY <1>1, <1>2 DEF SinkText

\* The sink with the number `r` is gone, and those above move down.
Dropped(received2, received) ==
    \A d \in Dests : received2[d] = <<>> \/ received2[d] = received[d]

Removed(sinks2, sinks, r) ==
    \A k \in Nat : \/ SinkText(sinks2, k) = <<>>
                   \/ SinkText(sinks2, k) = SinkText(sinks, IF k < r THEN k ELSE k + 1)

LEMMA RemovedHeld ==
    ASSUME NEW received, NEW sinks, NEW lvls, NEW m \in Nat, Held(At(received, sinks, lvls), m),
           NEW received2 \in [Dests -> Seq(Nat)], NEW sinks2 \in Seq(SinkRecord),
           lvls \in Seq(LevelRecord), NEW r \in Nat,
           Dropped(received2, received), Removed(sinks2, sinks, r)
    PROVE  Held(At(received2, sinks2, lvls), m)
<1> DEFINE T == At(received, sinks, lvls)
           U == At(received2, sinks2, lvls)
           above(k) == IF k < r THEN k ELSE k + 1
           from == [p \in Spots |-> IF p[1] = "sink" THEN SinkAt(above(p[2])) ELSE p]
<1>1. U \in [Spots -> Seq(Nat)] /\ Held(T, m) /\ m \in Nat
  BY AtTyped
<1>2. \A k \in Nat : above(k) \in Nat
  OBVIOUS
<1>3. \A j, k \in Nat : above(j) = above(k) => j = k
  OBVIOUS
<1>4. /\ \A d \in Dests : T[Shown(d)] = received[d]
      /\ \A k \in Nat : T[SinkAt(k)] = SinkText(sinks, k)
      /\ \A k \in Nat : T[LevelAt(k)] = LevelText(lvls, k)
  BY AtIs
<1>5. /\ \A d \in Dests : U[Shown(d)] = received2[d]
      /\ \A k \in Nat : U[SinkAt(k)] = SinkText(sinks2, k)
      /\ \A k \in Nat : U[LevelAt(k)] = LevelText(lvls, k)
  BY AtIs
<1>6. /\ \A d \in Dests : received2[d] = <<>> \/ received2[d] = received[d]
      /\ \A k \in Nat : \/ SinkText(sinks2, k) = <<>>
                        \/ SinkText(sinks2, k) = SinkText(sinks, above(k))
  BY DEF Dropped, Removed
<1> HIDE DEF T, U, above
<1>7. /\ \A d \in Dests : from[Shown(d)] = Shown(d)
      /\ \A k \in Nat : from[SinkAt(k)] = SinkAt(above(k))
      /\ \A k \in Nat : from[LevelAt(k)] = LevelAt(k)
  <2>1. /\ \A d : Shown(d)[1] # "sink"
        /\ \A k : SinkAt(k)[1] = "sink" /\ SinkAt(k)[2] = k
        /\ \A k : LevelAt(k)[1] # "sink"
    BY DEF Shown, SinkAt, LevelAt
  <2> QED
    BY <2>1, SpotsAre
<1> HIDE DEF from
<1>8. \A p \in Spots : from[p] \in Spots
  <2>1. \A d \in Dests : from[Shown(d)] \in Spots
    BY <1>7, SpotsAre
  <2>2. \A k \in Nat : from[SinkAt(k)] \in Spots
    BY <1>2, <1>7, SpotsAre
  <2>3. \A k \in Nat : from[LevelAt(k)] \in Spots
    BY <1>7, SpotsAre
  <2> QED
    BY ONLY <2>1, <2>2, <2>3, SpotsAre
<1>9. \A p \in Spots : U[p] = <<>> \/ U[p] = T[from[p]]
  <2>1. \A d \in Dests : U[Shown(d)] = <<>> \/ U[Shown(d)] = T[from[Shown(d)]]
    BY <1>4, <1>5, <1>6, <1>7
  <2>2. \A k \in Nat : U[SinkAt(k)] = <<>> \/ U[SinkAt(k)] = T[from[SinkAt(k)]]
    BY ONLY <1>2, <1>4, <1>5, <1>6, <1>7
  <2>3. \A k \in Nat : U[LevelAt(k)] = T[from[LevelAt(k)]]
    BY <1>4, <1>5, <1>7
  <2> HIDE DEF T, U, from
  <2>4. ASSUME NEW p \in Spots PROVE U[p] = <<>> \/ U[p] = T[from[p]]
    <3>1. CASE \E d \in Dests : p = Shown(d)
      BY ONLY <2>1, <3>1
    <3>2. CASE \E k \in Nat : p = SinkAt(k)
      BY ONLY <2>2, <3>2
    <3>3. CASE \E k \in Nat : p = LevelAt(k)
      BY ONLY <2>3, <3>3
    <3> QED
      BY ONLY <2>4, <3>1, <3>2, <3>3, SpotsAre
  <2> QED
    BY ONLY <2>4
<1>10. \A p, q \in Spots : from[p] = from[q] => p = q
  <2> SUFFICES ASSUME NEW p \in Spots, NEW q \in Spots, from[p] = from[q] PROVE p = q
    OBVIOUS
  <2>1. CASE \E d \in Dests : p = Shown(d)
    <3>1. PICK d \in Dests : p = Shown(d)
      BY ONLY <2>1
    <3>2. from[q] = Shown(d)
      BY ONLY <1>7, <3>1, from[p] = from[q]
    <3>3. ASSUME NEW k \in Nat, q = SinkAt(k) PROVE FALSE
      <4>1. from[q] = SinkAt(above(k))
        BY ONLY <1>7, <3>3
      <4> QED
        BY ONLY <3>2, <4>1, SpotsDiffer
    <3>5. ASSUME NEW k \in Nat, q = LevelAt(k) PROVE FALSE
      <4>1. from[q] = LevelAt(k)
        BY ONLY <1>7, <3>5
      <4> QED
        BY ONLY <3>2, <4>1, SpotsDiffer
    <3>4. PICK e \in Dests : q = Shown(e)
      BY ONLY <3>3, <3>5, q \in Spots, SpotsAre
    <3> QED
      BY ONLY <1>7, <3>1, <3>2, <3>4
  <2>2. CASE \E k \in Nat : p = LevelAt(k)
    <3>1. PICK k \in Nat : p = LevelAt(k)
      BY ONLY <2>2
    <3>2. from[q] = LevelAt(k)
      BY ONLY <1>7, <3>1, from[p] = from[q]
    <3>3. /\ \A d \in Dests : q # Shown(d)
          /\ \A j \in Nat : q # SinkAt(j)
      BY ONLY <1>7, <3>2, SpotsDiffer
    <3>4. PICK j \in Nat : q = LevelAt(j)
      BY ONLY <3>3, q \in Spots, SpotsAre
    <3> QED
      BY ONLY <1>7, <3>1, <3>2, <3>4
  <2>3. CASE \E k \in Nat : p = SinkAt(k)
    <3>1. PICK k \in Nat : p = SinkAt(k)
      BY <2>3
    <3>2. from[q] = SinkAt(above(k))
      BY ONLY <1>7, <3>1, from[p] = from[q]
    <3>6. \A d \in Dests : q # Shown(d)
      BY ONLY <1>7, <3>2, SpotsDiffer
    <3>7. \A j \in Nat : q # LevelAt(j)
      BY ONLY <1>7, <3>2, SpotsDiffer
    <3>3. PICK j \in Nat : q = SinkAt(j)
      BY <3>6, <3>7, SpotsAre
    <3>4. SinkAt(above(j)) = SinkAt(above(k))
      BY ONLY <1>7, <3>2, <3>3
    <3>5. above(j) = above(k)
      BY ONLY <3>4, SpotsDiffer
    <3> QED
      BY ONLY <1>3, <3>1, <3>3, <3>5
  <2> QED
    BY <2>1, <2>2, <2>3, SpotsAre
<1>11. \A p \in Spots : \A i \in DOMAIN U[p] : U[p] = T[from[p]]
  BY <1>9
<1>12. Within(U, m)
  BY <1>1, <1>8, <1>11 DEF Held, Within
<1>13. Once(U)
  <2> SUFFICES ASSUME NEW p \in Spots, NEW q \in Spots, NEW i \in DOMAIN U[p],
                      NEW j \in DOMAIN U[q], U[p][i] = U[q][j]
               PROVE  p = q /\ i = j
    BY DEF Once
  <2>1. U[p] = T[from[p]] /\ U[q] = T[from[q]] /\ from[p] \in Spots /\ from[q] \in Spots
    BY <1>8, <1>11
  <2>2. Once(T)
    BY ONLY <1>1 DEF Held
  <2>3. /\ i \in DOMAIN T[from[p]] /\ j \in DOMAIN T[from[q]]
        /\ T[from[p]][i] = T[from[q]][j]
    BY ONLY <2>1, i \in DOMAIN U[p], j \in DOMAIN U[q], U[p][i] = U[q][j]
  <2>4. from[p] = from[q] /\ i = j
    BY ONLY <2>1, <2>2, <2>3 DEF Once
  <2> QED
    BY <1>10, <2>4
<1> QED
  BY <1>1, <1>12, <1>13 DEF Held, U

\* Without a file in it the stack stays, else one sink is taken out of it.
LEMMA UnredirectText ==
    ASSUME NEW s, Sound(s)
    PROVE  \E r \in Nat : \A k \in Nat :
             \/ SinkText(Unredirect(s), k) = <<>>
             \/ SinkText(Unredirect(s), k) = SinkText(s, IF k < r THEN k ELSE k + 1)
<1>1. DOMAIN s = 1..Len(s) /\ Len(s) \in Nat /\ Len(s) > 0
  BY SoundFacts DEF Sound
<1>2. CASE Redirections(s) = {}
  <2>1. \A k \in Nat : k < Len(s) + 1 \/ SinkText(s, k) = <<>>
    BY <1>1 DEF SinkText
  <2>2. Len(s) + 1 \in Nat /\ Unredirect(s) = s
    BY <1>1, <1>2 DEF Unredirect
  <2> QED
    BY <2>1, <2>2
<1>3. CASE Redirections(s) # {}
  <2> DEFINE r == CHOOSE i \in Redirections(s) : \A j \in Redirections(s) : j <= i
             t == RemoveIndex(s, r)
  <2>1. PICK i \in 2..Len(s) : s[i].to \in Files
    BY <1>3 DEF Redirections
  <2>2. Redirections(s) = {i}
    BY <1>1, <2>1 DEF Redirections, Sound
  <2>3. r = i
    BY <1>1, <2>1, <2>2
  <2>4. t = Unredirect(s)
    BY <1>3 DEF Unredirect
  <2> HIDE DEF r
  <2>5. r \in Nat /\ r >= 2 /\ r <= Len(s)
    BY <1>1, <2>1, <2>3
  <2>6. /\ DOMAIN t = 1..(Len(s) - 1)
        /\ \A j \in 1..(Len(s) - 1) : t[j] = IF j < r THEN s[j] ELSE s[j + 1]
    BY DEF RemoveIndex
  <2> HIDE DEF t
  <2>7. ASSUME NEW k \in Nat
        PROVE  SinkText(t, k) = <<>> \/ SinkText(t, k) = SinkText(s, IF k < r THEN k ELSE k + 1)
    <3>1. CASE k \notin DOMAIN t
      BY <3>1 DEF SinkText
    <3>2. CASE k \in DOMAIN t /\ k < r
      BY <1>1, <2>5, <2>6, <3>2 DEF SinkText
    <3>3. CASE k \in DOMAIN t /\ ~(k < r)
      <4>1. k + 1 \in DOMAIN s /\ t[k] = s[k + 1]
        BY <1>1, <2>6, <3>3
      <4> QED
        BY <3>3, <4>1 DEF SinkText
    <3> QED
      BY <3>1, <3>2, <3>3
  <2> QED
    BY <2>4, <2>5, <2>7
<1> QED
  BY <1>2, <1>3

LEMMA NowIs ==
    /\ \A d \in Dests : Now[Shown(d)] = shown[d] /\ Now'[Shown(d)] = shown'[d]
    /\ \A k \in Nat : Now[SinkAt(k)] = SinkText(stack, k) /\ Now'[SinkAt(k)] = SinkText(stack', k)
    /\ \A k \in Nat : Now[LevelAt(k)] = LevelText(levels, k) /\ Now'[LevelAt(k)] = LevelText(levels', k)
BY AtIs DEF Now

\* Places keep their texts or lose them.
LEMMA SameButHeld ==
    ASSUME PlacesInv, IInv', shown' \in [Dests -> Seq(Nat)], marks' = marks,
           \A d \in Dests : shown'[d] = <<>> \/ shown'[d] = shown[d],
           \A k \in Nat : SinkText(stack', k) = <<>> \/ SinkText(stack', k) = SinkText(stack, k),
           \A k \in Nat : LevelText(levels', k) = <<>> \/ LevelText(levels', k) = LevelText(levels, k)
    PROVE  PlacesInv'
<1>1. Now' \in [Spots -> Seq(Nat)]
  BY AtTyped DEF IInv, Sound, Now
<1>2. \A p \in Spots : Now'[p] = <<>> \/ Now'[p] = Now[p]
  <2>1. \A d \in Dests : Now'[Shown(d)] = <<>> \/ Now'[Shown(d)] = Now[Shown(d)]
    BY NowIs
  <2>2. \A k \in Nat : Now'[SinkAt(k)] = <<>> \/ Now'[SinkAt(k)] = Now[SinkAt(k)]
    BY NowIs
  <2>3. \A k \in Nat : Now'[LevelAt(k)] = <<>> \/ Now'[LevelAt(k)] = Now[LevelAt(k)]
    BY NowIs
  <2> QED
    BY ONLY <2>1, <2>2, <2>3, SpotsAre
<1>3. \A p \in Spots : \A i \in DOMAIN Now'[p] : Now'[p] = Now[p]
  BY <1>2
<1>4. Held(Now, marks)
  BY DEF PlacesInv
<1>5. Held(Now', marks)
  BY ONLY <1>1, <1>3, <1>4 DEF Held, Once, Within
<1> QED
  BY <1>5 DEF PlacesInv

\* A text moves from one place to another.
LEMMA JoinHeld ==
    ASSUME PlacesInv, IInv', shown' \in [Dests -> Seq(Nat)], marks' = marks,
           NEW to \in Spots, NEW from \in Spots, to # from,
           Now'[to] = Now[to] \o Now[from], Now'[from] = <<>>,
           \A p \in Spots : p # to => Now'[p] = <<>> \/ Now'[p] = Now[p]
    PROVE  PlacesInv'
<1>1. Now' \in [Spots -> Seq(Nat)]
  BY AtTyped DEF IInv, Sound, Now
<1>2. Held(Now, marks) /\ marks \in Nat
  BY DEF PlacesInv, IInv
<1>3. Held(Now', marks)
  BY <1>1, <1>2, JoinedOnce
<1> QED
  BY <1>3 DEF PlacesInv

LEMMA BeginStatementTexts ==
    ASSUME PlacesInv, BeginStatement, IInv' PROVE PlacesInv'
<1> DEFINE l == [open |-> TRUE, text |-> <<marks + 1>>]
           to == LevelAt(Depth)
<1>1. shown' = shown /\ stack' = stack /\ levels' = [levels EXCEPT ![Depth] = l] /\ marks' = marks + 1
  BY DEF BeginStatement
<1>2. l.text = <<marks + 1>>
  OBVIOUS
<1> HIDE DEF l
<1>3. IInv /\ Held(Now, marks) /\ marks \in Nat /\ shown' \in [Dests -> Seq(Nat)] /\ Depth \in Nat
  BY <1>1, LevelsAreTyped DEF PlacesInv, IInv
<1>4. \A k \in Nat : LevelText(levels', k) = IF k = Depth THEN <<marks + 1>> ELSE LevelText(levels, k)
  BY <1>1, <1>2, <1>3, TopLevelText
<1>5. to \in Spots /\ Now'[to] = <<marks + 1>>
  BY <1>3, <1>4, NowIs, SpotsAre
<1>6. \A p \in Spots : p # to => Now'[p] = Now[p]
  <2>1. \A d \in Dests : Now'[Shown(d)] = Now[Shown(d)]
    BY <1>1, NowIs
  <2>2. \A k \in Nat : Now'[SinkAt(k)] = Now[SinkAt(k)]
    BY <1>1, NowIs
  <2>3. \A k \in Nat : LevelAt(k) # to => Now'[LevelAt(k)] = Now[LevelAt(k)]
    BY <1>4, NowIs
  <2> QED
    BY ONLY <2>1, <2>2, <2>3, SpotsAre
<1>7. Now' \in [Spots -> Seq(Nat)]
  BY <1>3, AtTyped DEF IInv, Sound, Now
<1> HIDE DEF to
<1>8. Held(Now', marks + 1)
  BY <1>3, <1>5, <1>6, <1>7, FreshOnce
<1> QED
  BY <1>1, <1>3, <1>8 DEF PlacesInv

LEMMA EndStatementTexts ==
    ASSUME PlacesInv, EndStatement, IInv' PROVE PlacesInv'
<1> DEFINE from == LevelAt(Depth)
<1>1. /\ levels' = [levels EXCEPT ![Depth] = Idle] /\ marks' = marks /\ Write(Inner.text)
      /\ IInv /\ shown \in [Dests -> Seq(Nat)]
  BY DEF EndStatement, PlacesInv
<1>2. /\ Depth \in Nat /\ Inner.text = LevelText(levels, Depth) /\ Inner.text \in Seq(Nat)
      /\ Top \in SinkRecord /\ Len(stack) \in Nat
  BY <1>1, LevelsAreTyped, LevelsFacts, StackIsTyped
<1>3. \A k \in Nat : LevelText(levels', k) = IF k = Depth THEN <<>> ELSE LevelText(levels, k)
  BY <1>1, TopLevelText DEF Idle
<1>4. from \in Spots /\ Now'[from] = <<>> /\ Now[from] = Inner.text
  BY <1>2, <1>3, NowIs, SpotsAre
<1>5. \A k \in Nat : Now'[LevelAt(k)] = <<>> \/ Now'[LevelAt(k)] = Now[LevelAt(k)]
  BY <1>3, NowIs
<1>6. CASE Top.to = Captured
  <2> DEFINE to == SinkAt(Len(stack))
             top == [Top EXCEPT !.got = @ \o Inner.text]
  <2>1. shown' = shown /\ stack' = [stack EXCEPT ![Len(stack)] = top]
    BY <1>1, <1>6 DEF Write, Top
  <2>2. top.got = Top.got \o Inner.text
    BY <1>2 DEF SinkRecord
  <2> HIDE DEF top
  <2>3. \A k \in Nat : SinkText(stack', k) = IF k = Len(stack) THEN Top.got \o Inner.text
                                             ELSE SinkText(stack, k)
    BY <1>1, <2>1, <2>2, StackIsTyped DEF SinkText
  <2>4. to \in Spots /\ to # from /\ Now'[to] = Now[to] \o Now[from]
    <3>1. to \in Spots /\ to # from
      BY <1>2, SpotsAre, SpotsDiffer
    <3>2. Now[to] = Top.got /\ Now'[to] = Top.got \o Inner.text
      BY <1>1, <1>2, <2>3, NowIs, StackIsTyped
    <3> QED
      BY <1>4, <3>1, <3>2
  <2>5. \A k \in Nat : SinkAt(k) # to => Now'[SinkAt(k)] = Now[SinkAt(k)]
    BY <2>3, NowIs
  <2>6. \A d \in Dests : Now'[Shown(d)] = Now[Shown(d)]
    BY <2>1, NowIs
  <2>7. \A p \in Spots : p # to => Now'[p] = <<>> \/ Now'[p] = Now[p]
    BY ONLY <1>5, <2>5, <2>6, SpotsAre
  <2> HIDE DEF to, from
  <2> QED
    BY <1>1, <1>4, <2>1, <2>4, <2>7, JoinHeld
<1>7. CASE Top.to # Captured
  <2> DEFINE to == Shown(Top.to)
  <2>1. /\ Top.to \in Dests /\ stack' = stack
        /\ shown' = [shown EXCEPT ![Top.to] = @ \o Inner.text]
    BY <1>1, <1>2, <1>7 DEF Write, SinkRecord, Dests
  <2>2. shown[Top.to] \o Inner.text \in Seq(Nat)
    BY <1>1, <1>2, <2>1, ConcatTyped
  <2>3. /\ shown' \in [Dests -> Seq(Nat)] /\ shown'[Top.to] = shown[Top.to] \o Inner.text
        /\ \A d \in Dests : d # Top.to => shown'[d] = shown[d]
    BY <1>1, <2>1, <2>2
  <2>4. to \in Spots /\ to # from /\ Now'[to] = Now[to] \o Now[from]
    <3>1. to \in Spots /\ to # from
      BY ONLY <1>4, <2>1, SpotsAre, SpotsDiffer
    <3>2. Now[to] = shown[Top.to] /\ Now'[to] = shown'[Top.to]
      BY ONLY <2>1, NowIs
    <3> HIDE DEF to
    <3> QED
      BY ONLY <1>4, <2>3, <3>1, <3>2
  <2>5. \A d \in Dests : Shown(d) # to => Now'[Shown(d)] = Now[Shown(d)]
    BY <2>3, NowIs
  <2>6. \A k \in Nat : Now'[SinkAt(k)] = Now[SinkAt(k)]
    BY <2>1, NowIs
  <2>7. \A p \in Spots : p # to => Now'[p] = <<>> \/ Now'[p] = Now[p]
    BY ONLY <1>5, <2>5, <2>6, SpotsAre
  <2> HIDE DEF to, from
  <2> QED
    BY <1>1, <1>4, <2>3, <2>4, <2>7, JoinHeld
<1> QED
  BY <1>6, <1>7

LEMMA BeginPrintTexts ==
    ASSUME PlacesInv, BeginPrint, IInv' PROVE PlacesInv'
<1>1. /\ stack' = Append(stack, Sink(Captured)) /\ levels' = Append(levels, Idle)
      /\ shown' = shown /\ marks' = marks /\ IInv /\ shown \in [Dests -> Seq(Nat)]
  BY DEF BeginPrint, PlacesInv
<1>2. \A k \in Nat : SinkText(stack', k) = <<>> \/ SinkText(stack', k) = SinkText(stack, k)
  BY <1>1, StackIsTyped, PushText
<1>3. \A k \in Nat : LevelText(levels', k) = <<>> \/ LevelText(levels', k) = LevelText(levels, k)
  <2>1. /\ DOMAIN levels' = 1..(Depth + 1)
        /\ \A k \in 1..(Depth + 1) : levels'[k] = IF k = Depth + 1 THEN Idle ELSE levels[k]
    BY <1>1, LevelsAreTyped DEF Depth
  <2>2. Idle.text = <<>>
    BY DEF Idle
  <2> QED
    BY <1>1, <2>1, <2>2, LevelsAreTyped DEF LevelText
<1> QED
  BY <1>1, <1>2, <1>3, SameButHeld

LEMMA EndPrintTexts ==
    ASSUME PlacesInv, EndPrint, IInv' PROVE PlacesInv'
<1> DEFINE low == SubSeq(levels, 1, Depth - 1)
           l == [low[Depth - 1] EXCEPT !.text = @ \o CapturedText]
           below == levels[Depth - 1].text
<1>1. /\ stack' = PopCapture(stack) /\ levels' = [low EXCEPT ![Depth - 1] = l]
      /\ shown' = shown /\ marks' = marks /\ Depth > 1
      /\ IInv /\ shown \in [Dests -> Seq(Nat)]
  BY DEF EndPrint, PlacesInv
<1>2. /\ Depth \in Nat /\ Depth - 1 \in Nat /\ Depth - 1 # Depth /\ Len(stack) \in Nat
      /\ levels[Depth - 1] \in LevelRecord /\ low[Depth - 1] = levels[Depth - 1]
      /\ below = LevelText(levels, Depth - 1)
  <2>1. Depth \in Nat /\ Depth - 1 \in 1..Depth /\ Depth - 1 \in 1..(Depth - 1)
    BY <1>1, LevelsAreTyped
  <2>2. levels[Depth - 1] \in LevelRecord
    BY <1>1, <2>1, LevelsAreTyped, ElementOfSeq DEF Depth
  <2> QED
    BY <1>1, <2>1, <2>2, LevelsAreTyped, StackIsTyped DEF LevelText
<1>3. l.text = below \o CapturedText /\ below \in Seq(Nat)
  BY <1>2 DEF LevelRecord
<1> HIDE DEF l, below
<1>4. \A k \in Nat : LevelText(levels', k) = IF k = Depth - 1 THEN below \o CapturedText
                                             ELSE IF k = Depth THEN <<>> ELSE LevelText(levels, k)
  BY <1>1, <1>3, LowerLevelText
<1>5. \A k \in Nat : SinkText(stack', k) = IF Top.to = Captured /\ k = Len(stack) THEN <<>>
                                           ELSE SinkText(stack, k)
  BY <1>1, PopText
<1>6. CASE Top.to = Captured
  <2> DEFINE to == LevelAt(Depth - 1)
             from == SinkAt(Len(stack))
  <2>1. CapturedText = SinkText(stack, Len(stack))
    BY <1>1, <1>6, StackIsTyped DEF CapturedText
  <2>2. to \in Spots /\ from \in Spots /\ to # from
    BY <1>2, SpotsAre, SpotsDiffer
  <2>3. Now'[to] = Now[to] \o Now[from] /\ Now'[from] = <<>>
    <3>1. Now[to] = below /\ Now[from] = CapturedText
      BY <1>2, <2>1, NowIs
    <3>2. Now'[to] = below \o CapturedText /\ Now'[from] = <<>>
      BY <1>2, <1>4, <1>5, <1>6, NowIs
    <3> QED
      BY <3>1, <3>2
  <2>4. \A d \in Dests : Now'[Shown(d)] = Now[Shown(d)]
    BY <1>1, NowIs
  <2>5. \A k \in Nat : Now'[SinkAt(k)] = <<>> \/ Now'[SinkAt(k)] = Now[SinkAt(k)]
    BY <1>5, NowIs
  <2>6. \A k \in Nat : LevelAt(k) # to => Now'[LevelAt(k)] = <<>> \/ Now'[LevelAt(k)] = Now[LevelAt(k)]
    BY <1>4, NowIs
  <2>7. \A p \in Spots : p # to => Now'[p] = <<>> \/ Now'[p] = Now[p]
    BY ONLY <2>4, <2>5, <2>6, SpotsAre
  <2> HIDE DEF to, from
  <2> QED
    BY <1>1, <2>2, <2>3, <2>7, JoinHeld
<1>7. CASE Top.to # Captured
  <2>1. below \o CapturedText = below
    BY <1>3, <1>7, ConcatEmptySeq DEF CapturedText
  <2>2. \A k \in Nat : LevelText(levels', k) = <<>> \/ LevelText(levels', k) = LevelText(levels, k)
    BY <1>2, <1>4, <2>1
  <2> QED
    BY <1>1, <1>5, <2>2, SameButHeld
<1> QED
  BY <1>6, <1>7

LEMMA FailPrintTexts ==
    ASSUME PlacesInv, FailPrint, IInv' PROVE PlacesInv'
<1>1. /\ stack' = PopCapture(stack)
      /\ levels' = [SubSeq(levels, 1, Depth - 1) EXCEPT ![Depth - 1] = Idle]
      /\ shown' = shown /\ marks' = marks /\ Depth > 1
      /\ IInv /\ shown \in [Dests -> Seq(Nat)]
  BY DEF FailPrint, PlacesInv
<1>2. \A k \in Nat : LevelText(levels', k) = <<>> \/ LevelText(levels', k) = LevelText(levels, k)
  BY <1>1, LowerLevelText DEF Idle
<1>3. \A k \in Nat : SinkText(stack', k) = <<>> \/ SinkText(stack', k) = SinkText(stack, k)
  BY <1>1, PopText
<1> QED
  BY <1>1, <1>2, <1>3, SameButHeld

\* A file comes into the stack or goes out of it.
LEMMA RedirectionTexts ==
    ASSUME PlacesInv, IInv', UNCHANGED program, shown' \in [Dests -> Seq(Nat)],
           \A d \in Dests : shown'[d] = <<>> \/ shown'[d] = shown[d],
           stack' = Unredirect(stack) \/ \E f \in Files : stack' = Redirect(stack, f)
    PROVE  PlacesInv'
<1>1. /\ IInv /\ Sound(stack) /\ levels' = levels /\ marks' = marks /\ marks \in Nat
      /\ levels \in Seq(LevelRecord) /\ stack' \in Seq(SinkRecord)
      /\ Held(At(shown, stack, levels), marks)
  BY DEF PlacesInv, IInv, Sound, program, Now
<1>0. /\ shown' \in [Dests -> Seq(Nat)]
      /\ \A d \in Dests : shown'[d] = <<>> \/ shown'[d] = shown[d]
  OBVIOUS
<1>2. PICK r \in Nat : \A k \in Nat :
        \/ SinkText(Unredirect(stack), k) = <<>>
        \/ SinkText(Unredirect(stack), k) = SinkText(stack, IF k < r THEN k ELSE k + 1)
  BY <1>1, UnredirectText
<1>3. \A k \in Nat : SinkText(stack', k) = <<>> \/ SinkText(stack', k) = SinkText(Unredirect(stack), k)
  <2>1. Unredirect(stack) \in Seq(SinkRecord)
    BY <1>1, UnredirectSound DEF Sound
  <2>2. CASE stack' = Unredirect(stack)
    BY <2>2
  <2>3. ASSUME NEW f \in Files, stack' = Append(Unredirect(stack), Sink(f)), NEW k \in Nat
        PROVE  SinkText(stack', k) = <<>> \/ SinkText(stack', k) = SinkText(Unredirect(stack), k)
    BY <2>1, <2>3, PushText
  <2> QED
    BY <2>2, <2>3 DEF Redirect
<1>4. \A k \in Nat : \/ SinkText(stack', k) = <<>>
                     \/ SinkText(stack', k) = SinkText(stack, IF k < r THEN k ELSE k + 1)
  BY <1>2, <1>3
<1>5. Held(At(shown', stack', levels), marks)
  <2>1. Dropped(shown', shown)
    BY DEF Dropped
  <2>2. Removed(stack', stack, r)
    BY ONLY <1>4 DEF Removed
  <2> QED
    BY ONLY <1>0, <1>1, <2>1, <2>2, r \in Nat, RemovedHeld
<1> QED
  BY <1>1, <1>5 DEF PlacesInv, Now

LEMMA NextPlacesInv == PlacesInv /\ [OutputNext]_outputVars => PlacesInv'
<1> SUFFICES ASSUME PlacesInv, [OutputNext]_outputVars PROVE PlacesInv'
  OBVIOUS
<1>1. IInv /\ IInv' /\ shown \in [Dests -> Seq(Nat)]
  BY NextInv DEF PlacesInv
<1>2. ASSUME NEW f \in Files, NEW overwrite \in BOOLEAN, SetOutputFile(f, overwrite)
      PROVE  PlacesInv'
  <2>1. <<>> \in Seq(Nat) /\ f \in Dests
    BY DEF Dests
  <2>2. shown' = IF overwrite THEN [shown EXCEPT ![f] = <<>>] ELSE shown
    BY <1>2 DEF SetOutputFile
  <2>3. shown' \in [Dests -> Seq(Nat)] /\ \A d \in Dests : shown'[d] = <<>> \/ shown'[d] = shown[d]
    BY <1>1, <2>1, <2>2
  <2> QED
    BY <1>1, <1>2, <2>3, RedirectionTexts DEF SetOutputFile
<1>3. CASE UnsetOutputFile
  BY <1>1, <1>3, RedirectionTexts DEF UnsetOutputFile
<1>4. CASE shown' = shown /\ stack' = stack /\ levels' = levels /\ marks' = marks
  BY <1>1, <1>4, SameButHeld
<1>5. ASSUME NEW overwrite \in BOOLEAN, SetLogFile(overwrite)
      PROVE  PlacesInv'
  BY <1>4, <1>5 DEF SetLogFile, program
<1>6. CASE UnsetLogFile
  BY <1>4, <1>6 DEF UnsetLogFile, program
<1>7. CASE UNCHANGED outputVars
  BY <1>4, <1>7 DEF outputVars
<1> QED
  BY <1>1, <1>2, <1>3, <1>5, <1>6, <1>7, BeginStatementTexts, EndStatementTexts,
     BeginPrintTexts, EndPrintTexts, FailPrintTexts DEF OutputNext, Step

\* Of what is there once the length counts the elements.
LEMMA OnceEachCount ==
    ASSUME NEW s \in Seq(Nat), \A i, j \in DOMAIN s : s[i] = s[j] => i = j
    PROVE  Cardinality(Elems(s)) = Len(s)
<1> DEFINE f == [i \in 1..Len(s) |-> s[i]]
<1>1. Len(s) \in Nat /\ DOMAIN s = 1..Len(s)
  OBVIOUS
<1>2. IsFiniteSet(1..Len(s)) /\ Cardinality(1..Len(s)) = Len(s)
  BY <1>1, FS_Interval
<1>3. f \in Bijection(1..Len(s), Elems(s))
  BY <1>1 DEF Elems, Bijection, Injection, IsInjective, Surjection
<1> HIDE DEF f
<1> QED
  BY <1>2, <1>3, FS_Bijection DEF ExistsBijection

\* Where a place of the property is among the spots.
SpotOf(p) == <<p[1], p[2]>>

LEMMA PlacesAreSpots ==
    ASSUME PlacesInv, NEW p \in Places
    PROVE  SpotOf(p) \in Spots /\ Now[SpotOf(p)] = p[3]
<1>1. /\ DOMAIN shown = Dests /\ DOMAIN stack \subseteq Nat /\ DOMAIN levels \subseteq Nat
  BY LevelsAreTyped, StackIsTyped DEF PlacesInv
<1>2. CASE \E d \in DOMAIN shown : p = <<"shown", d, shown[d]>>
  <2>1. PICK d \in Dests : p = <<"shown", d, shown[d]>>
    BY <1>1, <1>2
  <2>2. SpotOf(p) = Shown(d) /\ p[3] = shown[d]
    BY <2>1 DEF SpotOf, Shown
  <2> QED
    BY <2>2, NowIs, SpotsAre
<1>3. CASE \E i \in DOMAIN stack : p = <<"sink", i, stack[i].got>>
  <2>1. PICK i \in DOMAIN stack : p = <<"sink", i, stack[i].got>>
    BY <1>3
  <2>2. SpotOf(p) = SinkAt(i) /\ p[3] = SinkText(stack, i)
    BY <2>1 DEF SpotOf, SinkAt, SinkText
  <2> QED
    BY <1>1, <2>2, NowIs, SpotsAre
<1>4. CASE \E k \in DOMAIN levels : p = <<"level", k, levels[k].text>>
  <2>1. PICK k \in DOMAIN levels : p = <<"level", k, levels[k].text>>
    BY <1>4
  <2>2. SpotOf(p) = LevelAt(k) /\ p[3] = LevelText(levels, k)
    BY <2>1 DEF SpotOf, LevelAt, LevelText
  <2> QED
    BY <1>1, <2>2, NowIs, SpotsAre
<1> QED
  BY <1>2, <1>3, <1>4 DEF Places

\* No text is printed twice, whatever `Print` intrinsics fail, redirect
\* output or leave their capture on the stack (`write`, `end_capture`).
THEOREM TextsArePrintedOnce == OutputSpec => []NothingTwice
<1>1. PlacesInv => NothingTwice
  <2> SUFFICES ASSUME PlacesInv PROVE NothingTwice
    OBVIOUS
  <2>1. Once(Now) /\ Now \in [Spots -> Seq(Nat)]
    BY DEF PlacesInv, Held
  <2>2. ASSUME NEW p \in Places PROVE Cardinality(Elems(p[3])) = Len(p[3])
    <3>1. p[3] \in Seq(Nat) /\ \A i, j \in DOMAIN p[3] : p[3][i] = p[3][j] => i = j
      BY <2>1, PlacesAreSpots DEF Once
    <3> QED
      BY <3>1, OnceEachCount
  <2>3. ASSUME NEW p \in Places, NEW q \in Places, p[1] # q[1] \/ p[2] # q[2]
        PROVE  Elems(p[3]) \cap Elems(q[3]) = {}
    <3>1. SpotOf(p) # SpotOf(q)
      BY <2>3 DEF SpotOf
    <3> QED
      BY <2>1, <3>1, PlacesAreSpots DEF Once, Elems
  <2> QED
    BY <2>2, <2>3 DEF NothingTwice
<1> QED
  BY <1>1, InitPlacesInv, NextPlacesInv, PTL DEF OutputSpec

-----------------------------------------------------------------------------
(* States in which sinks are nested *)

DestIn(s) == IF Redirections(s) = {} THEN Stdout
             ELSE s[CHOOSE i \in Redirections(s) : TRUE].to

LEMMA DestIs ==
    ASSUME NEW s, Sound(s), NEW b \in 1..2, b <= Len(s), b = 2 => s[2].to \in Files,
           \A i \in DOMAIN s : i > b => s[i].to = Captured
    PROVE  DestIn(s) = s[b].to
<1>1. DOMAIN s = 1..Len(s) /\ Len(s) \in Nat
  BY SoundFacts
<1>2. s[1].to = Stdout /\ Stdout \notin Files /\ Captured \notin Files
  BY OutputAssumption DEF Sound
<1>3. CASE b = 1
  <2>1. Redirections(s) = {}
    BY <1>1, <1>2, <1>3 DEF Redirections
  <2> QED
    BY <1>2, <1>3, <2>1 DEF DestIn
<1>4. CASE b = 2
  <2>1. Redirections(s) = {2}
    BY <1>1, <1>2, <1>4 DEF Redirections
  <2> QED
    BY <1>4, <2>1 DEF DestIn
<1> QED
  BY <1>3, <1>4

LEMMA NestedFacts ==
    ASSUME IInv, Nested
    PROVE  /\ Len(stack) \in Nat /\ Depth \in Nat /\ Depth >= 1
           /\ Len(stack) = Base + Depth - 1 /\ Base \in 1..2
           /\ DOMAIN stack = 1..Len(stack) /\ DOMAIN levels = 1..Depth
           /\ stack[1].to = Stdout /\ Stdout \notin Files
           /\ Depth > 1 => Top.to = Captured
           /\ Depth = 1 => Top = stack[Base] /\ Top.to # Captured
           /\ Base = 1 <=> Dest = Stdout
           /\ Dest = stack[Base].to
<1>1. /\ Len(stack) \in Nat /\ Depth \in Nat /\ Depth >= 1 /\ Base \in 1..2
      /\ Len(stack) = Base + Depth - 1
      /\ DOMAIN stack = 1..Len(stack) /\ DOMAIN levels = 1..Depth
  BY LevelsAreTyped, StackIsTyped DEF Nested, Base
<1>2. stack[1].to = Stdout /\ Stdout \notin Files /\ Captured \notin Files /\ Stdout # Captured
  BY OutputAssumption DEF IInv, Sound
<1>3. Depth > 1 => Top.to = Captured
  BY <1>1, StackIsTyped DEF Nested
<1>4. Depth = 1 => Top = stack[Base] /\ Top.to # Captured
  BY <1>1, <1>2, StackIsTyped DEF Nested
<1>5. Base <= Len(stack)
  BY <1>1
<1>6. DestIn(stack) = stack[Base].to
  BY <1>1, <1>5, DestIs DEF IInv, Nested
<1>7. Dest = stack[Base].to
  BY <1>6 DEF Dest, DestIn
<1>8. Base = 1 <=> Dest = Stdout
  BY <1>1, <1>2, <1>7 DEF Nested
<1> QED
  BY <1>1, <1>2, <1>3, <1>4, <1>7, <1>8

LEMMA NextDest ==
    ASSUME IInv', Nested'
    PROVE  Dest' = stack'[Base'].to
<1>1. Sound(stack') /\ Base' \in 1..2
  BY DEF IInv, Nested
<1>2. Base' <= Len(stack')
  <2>1. Len(levels') \in Nat /\ Len(levels') > 0 /\ Len(stack') \in Nat
    BY <1>1, SoundFacts DEF IInv, Depth
  <2> QED
    BY <2>1 DEF Base, Depth
<1>3. DestIn(stack') = stack'[Base'].to
  BY <1>1, <1>2, DestIs DEF Nested
<1> QED
  BY <1>3 DEF Dest, DestIn

\* The levels of the promise.
Got(sinks, n, k) == IF k = 1 THEN <<>> ELSE sinks[Len(sinks) - n + k].got

Printed(sinks, lvls, k) ==
    [open |-> lvls[k].open, text |-> lvls[k].text, got |-> Got(sinks, Len(lvls), k)]

LEMMA PrintingIs ==
    ASSUME IInv
    PROVE  /\ Printing = [k \in 1..Depth |-> Printed(stack, levels, k)]
           /\ Len(Printing) = Depth
           /\ Promise!Depth = Depth /\ Promise!Top = Printing[Depth]
           /\ Promise!Top.open = Inner.open /\ Promise!Top.text = Inner.text
<1>1. Printing = [k \in 1..Depth |-> Printed(stack, levels, k)]
  BY LevelsAreTyped DEF Printing, Printed, Got, Depth
<1>2. Len(Printing) = Depth
  BY <1>1, LevelsAreTyped
<1>3. Promise!Depth = Depth /\ Promise!Top = Printing[Depth]
  BY <1>2 DEF Promise!Depth, Promise!Top
<1> QED
  BY <1>1, <1>2, <1>3, LevelsAreTyped DEF Printed

LevelWith(o, t) == [open |-> o, text |-> t]

\* What the level on top has printed.
LEMMA TopIs ==
    ASSUME IInv
    PROVE  /\ Depth \in Nat /\ Depth \in 1..Depth /\ DOMAIN Printing = 1..Depth
           /\ Printing = [k \in 1..Depth |-> Printing[k]]
           /\ Printing[Depth].got = Got(stack, Depth, Depth)
           /\ Printing[Depth].text = Inner.text /\ Printing[Depth].open = Inner.open
BY PrintingIs, LevelsAreTyped DEF Printed, Depth

\* The level on top is another.
LEMMA TopPrinted ==
    ASSUME IInv, NEW o, NEW t, levels' = [levels EXCEPT ![Depth] = LevelWith(o, t)],
           \A k \in 1..(Depth - 1) : Got(stack', Depth, k) = Got(stack, Depth, k)
    PROVE  /\ Depth' = Depth
           /\ Printing' = [k \in 1..Depth |->
                IF k = Depth
                THEN [open |-> o, text |-> t, got |-> Got(stack', Depth, Depth)]
                ELSE Printing[k]]
<1> DEFINE l == LevelWith(o, t)
<1>0. l.open = o /\ l.text = t /\ levels' = [levels EXCEPT ![Depth] = l]
  BY DEF LevelWith
<1> HIDE DEF l
<1>1. Depth \in Nat /\ Depth >= 1 /\ DOMAIN levels = 1..Depth
  BY LevelsAreTyped
<1>2. Len(levels') = Depth /\ Depth' = Depth /\ DOMAIN levels' = 1..Depth
  BY <1>0, <1>1 DEF Depth
<1>3. Printing' = [k \in 1..Depth |-> Printed(stack', levels', k)]
  BY <1>2 DEF Printing, Printed, Got, Depth
<1>4. ASSUME NEW k \in 1..Depth
      PROVE  Printed(stack', levels', k) =
               IF k = Depth
               THEN [open |-> o, text |-> t, got |-> Got(stack', Depth, Depth)]
               ELSE Printing[k]
  <2>1. levels'[k] = IF k = Depth THEN l ELSE levels[k]
    BY <1>0, <1>1
  <2>2. CASE k = Depth
    BY <1>0, <1>2, <2>1, <2>2 DEF Printed
  <2>3. CASE k # Depth
    <3>1. k \in 1..(Depth - 1)
      BY <1>1, <2>3
    <3>2. Got(stack', Depth, k) = Got(stack, Depth, k)
      BY <3>1
    <3>3. Printing[k] = Printed(stack, levels, k) /\ Len(levels) = Depth
      BY PrintingIs DEF Depth
    <3> QED
      BY ONLY <1>2, <2>1, <2>3, <3>2, <3>3 DEF Printed
  <2> QED
    BY <2>2, <2>3
<1> QED
  BY <1>2, <1>3, <1>4

\* The level on top is gone and the one below is another.
LEMMA LowerPrinted ==
    ASSUME IInv, Depth > 1, NEW o, NEW t,
           levels' = [SubSeq(levels, 1, Depth - 1) EXCEPT ![Depth - 1] = LevelWith(o, t)],
           \A k \in 1..(Depth - 1) : Got(stack', Depth - 1, k) = Got(stack, Depth, k)
    PROVE  /\ Depth' = Depth - 1
           /\ Printing' = [k \in 1..(Depth - 1) |->
                IF k = Depth - 1
                THEN [open |-> o, text |-> t, got |-> Printing[Depth - 1].got]
                ELSE Printing[k]]
<1> DEFINE l == LevelWith(o, t)
<1>0. /\ l.open = o /\ l.text = t
      /\ levels' = [SubSeq(levels, 1, Depth - 1) EXCEPT ![Depth - 1] = l]
  BY DEF LevelWith
<1> HIDE DEF l
<1>1. Depth \in Nat /\ Depth - 1 \in 1..(Depth - 1) /\ Depth - 1 \in Nat
  BY LevelsAreTyped
<1> DEFINE low == SubSeq(levels, 1, Depth - 1)
<1>2. /\ DOMAIN low = 1..(Depth - 1) /\ Len(low) = Depth - 1
      /\ \A k \in 1..(Depth - 1) : low[k] = levels[k]
  BY <1>1, LevelsAreTyped
<1>3. low \in Seq(LevelRecord)
  BY <1>1, LevelsAreTyped
<1>4. levels' = [low EXCEPT ![Depth - 1] = l]
  BY <1>0
<1> HIDE DEF low
<1>5. /\ Len(levels') = Depth - 1 /\ Depth' = Depth - 1 /\ DOMAIN levels' = 1..(Depth - 1)
      /\ \A k \in 1..(Depth - 1) : levels'[k] = IF k = Depth - 1 THEN l ELSE levels[k]
  BY <1>1, <1>2, <1>3, <1>4 DEF Depth
<1>6. Printing' = [k \in 1..(Depth - 1) |-> Printed(stack', levels', k)]
  BY <1>5 DEF Printing, Printed, Got, Depth
<1>7. ASSUME NEW k \in 1..(Depth - 1)
      PROVE  Printed(stack', levels', k) =
               IF k = Depth - 1
               THEN [open |-> o, text |-> t, got |-> Printing[Depth - 1].got]
               ELSE Printing[k]
  <2>1. Got(stack', Depth - 1, k) = Got(stack, Depth, k)
    OBVIOUS
  <2>2. Printing[k] = Printed(stack, levels, k) /\ Len(levels) = Depth
    BY <1>1, PrintingIs DEF Depth
  <2>3. Printing[k].got = Got(stack, Depth, k)
    BY <2>2 DEF Printed
  <2>4. CASE k = Depth - 1
    BY ONLY <1>0, <1>5, <2>1, <2>3, <2>4, k \in 1..(Depth - 1) DEF Printed
  <2>5. CASE k # Depth - 1
    BY ONLY <1>5, <2>1, <2>2, <2>5, k \in 1..(Depth - 1) DEF Printed
  <2> QED
    BY <2>4, <2>5
<1> QED
  BY <1>5, <1>6, <1>7

LEMMA BeginStatementPromised ==
    ASSUME IInv, Nested, BeginStatement, IInv'
    PROVE  Nested' /\ Promise!BeginStatement
<1>1. /\ stack' = stack /\ shown' = shown /\ logging' = logging /\ log' = log
      /\ marks' = marks + 1 /\ marks < MaxMarks /\ ~Inner.open
      /\ levels' = [levels EXCEPT ![Depth] = LevelWith(TRUE, <<marks + 1>>)]
  BY DEF BeginStatement, LevelWith
<1>2. \A k \in 1..(Depth - 1) : Got(stack', Depth, k) = Got(stack, Depth, k)
  BY <1>1
<1>3. /\ Depth' = Depth
      /\ Printing' = [k \in 1..Depth |->
           IF k = Depth
           THEN [open |-> TRUE, text |-> <<marks + 1>>, got |-> Got(stack', Depth, Depth)]
           ELSE Printing[k]]
  BY ONLY IInv, <1>1, <1>2, TopPrinted
<1>4. Printing' = [Printing EXCEPT ![Depth] = Promise!Level(TRUE, <<marks + 1>>, Printing[Depth].got)]
  BY ONLY IInv, <1>1, <1>3, TopIs DEF Promise!Level
<1>5. Nested' /\ Dest' = Dest
  BY <1>1, <1>3 DEF Dest, Nested, Base
<1> QED
  BY <1>1, <1>4, <1>5, PrintingIs DEF Promise!BeginStatement

LEMMA EndStatementPromised ==
    ASSUME IInv, Nested, EndStatement, IInv'
    PROVE  Nested' /\ Promise!EndStatement
<1>1. /\ logging' = logging /\ marks' = marks /\ Inner.open
      /\ levels' = [levels EXCEPT ![Depth] = LevelWith(FALSE, <<>>)]
      /\ Write(Inner.text)
  BY DEF EndStatement, LevelWith, Idle
<1>2. CASE Depth = 1
  <2>1. Top = stack[Base] /\ Top.to # Captured /\ Dest = Top.to /\ Len(stack) = Base
        /\ (Base = 1 <=> Dest = Stdout)
    BY <1>2, NestedFacts
  <2>2. /\ stack' = stack /\ shown' = [shown EXCEPT ![Dest] = @ \o Inner.text]
        /\ log' = IF logging /\ Dest = Stdout THEN log \o Inner.text ELSE log
    BY <1>1, <2>1 DEF Write
  <2>3. \A k \in 1..(Depth - 1) : Got(stack', Depth, k) = Got(stack, Depth, k)
    BY <2>2
  <2>4. /\ Depth' = Depth
        /\ Printing' = [k \in 1..Depth |->
             IF k = Depth
             THEN [open |-> FALSE, text |-> <<>>, got |-> Got(stack', Depth, Depth)]
             ELSE Printing[k]]
    BY ONLY IInv, <1>1, <2>3, TopPrinted
  <2>5. Printing' = [Printing EXCEPT ![Depth] =
                       Promise!Level(FALSE, <<>>, Printing[Depth].got)]
    BY ONLY IInv, <2>2, <2>4, TopIs DEF Promise!Level
  <2>6. Nested' /\ Dest' = Dest
    BY <2>2, <2>4 DEF Dest, Nested, Base
  <2> QED
    BY <1>1, <1>2, <2>2, <2>5, <2>6, PrintingIs DEF Promise!EndStatement
<1>3. CASE Depth > 1
  <2>1. /\ Top.to = Captured /\ Len(stack) \in Nat /\ Depth \in Nat
        /\ Len(stack) = Base + Depth - 1 /\ Base \in 1..2 /\ DOMAIN stack = 1..Len(stack)
    BY <1>3, NestedFacts
  <2>2. /\ stack' = [stack EXCEPT ![Len(stack)].got = @ \o Inner.text]
        /\ shown' = shown /\ log' = log
    BY <1>1, <1>3, <2>1 DEF Write
  <2>3. /\ Len(stack') = Len(stack) /\ DOMAIN stack' = DOMAIN stack
        /\ \A i \in DOMAIN stack : i # Len(stack) => stack'[i] = stack[i]
        /\ stack'[Len(stack)] = [Top EXCEPT !.got = @ \o Inner.text]
    <3> DEFINE top == [Top EXCEPT !.got = @ \o Inner.text]
    <3>1. stack' = [stack EXCEPT ![Len(stack)] = top] /\ stack \in Seq(SinkRecord)
      BY <2>2 DEF Top, IInv, Sound
    <3> HIDE DEF top
    <3>2. Len(stack) \in DOMAIN stack
      BY <1>3, <2>1
    <3>3. /\ Len(stack') = Len(stack) /\ DOMAIN stack' = DOMAIN stack
          /\ \A i \in DOMAIN stack : i # Len(stack) => stack'[i] = stack[i]
          /\ stack'[Len(stack)] = top
      BY <2>1, <3>1, <3>2
    <3> QED
      BY <3>3 DEF top
  <2>4. Top \in SinkRecord
    BY SoundFacts DEF IInv, Top
  <2>5. stack'[Len(stack)].to = Top.to /\ stack'[Len(stack)].got = Top.got \o Inner.text
    BY <2>3, <2>4 DEF SinkRecord
  <2>6. \A i \in DOMAIN stack : stack'[i].to = stack[i].to
    BY <2>3, <2>5 DEF Top
  <2>7. \A k \in 1..(Depth - 1) : Got(stack', Depth, k) = Got(stack, Depth, k)
    BY <2>1, <2>3 DEF Got
  <2>8. /\ Depth' = Depth
        /\ Printing' = [k \in 1..Depth |->
             IF k = Depth
             THEN [open |-> FALSE, text |-> <<>>, got |-> Got(stack', Depth, Depth)]
             ELSE Printing[k]]
    BY ONLY IInv, <1>1, <2>7, TopPrinted
  <2>9. Got(stack', Depth, Depth) = Got(stack, Depth, Depth) \o Inner.text
    <3>1. Len(stack) - Depth + Depth = Len(stack) /\ Depth # 1
      BY <1>3, <2>1
    <3> QED
      BY ONLY <2>3, <2>5, <3>1 DEF Got, Top
  <2>10. Printing' = [Printing EXCEPT ![Depth] =
                       Promise!Level(FALSE, <<>>, Printing[Depth].got \o Inner.text)]
    BY ONLY IInv, <2>8, <2>9, TopIs DEF Promise!Level
  <2>11. Base' = Base
    BY <2>3, <2>8 DEF Base
  <2>12. Nested'
    BY <2>1, <2>3, <2>6, <2>11, <1>3 DEF Nested
  <2>13. Dest' = Dest
    BY <2>1, <2>6, <2>11, <2>12, <1>3, NextDest, NestedFacts
  <2>14. /\ Promise!Depth = Depth /\ Depth # 1 /\ Promise!Top.open
         /\ Promise!Top.got = Printing[Depth].got /\ Promise!Top.text = Inner.text
    <3>1. Depth # 1
      BY <1>3, <2>1
    <3>2. Promise!Depth = Depth /\ Promise!Top = Printing[Depth]
          /\ Promise!Top.open = Inner.open /\ Promise!Top.text = Inner.text
      BY PrintingIs
    <3>3. Promise!Top.open
      BY ONLY <1>1, <3>2, Zenon
    <3> QED
      BY ONLY <3>1, <3>2, <3>3, Zenon
  <2> QED
    BY ONLY <1>1, <2>2, <2>10, <2>12, <2>13, <2>14 DEF Promise!EndStatement
<1> QED
  BY <1>2, <1>3, LevelsAreTyped

LEMMA BeginPrintPromised ==
    ASSUME IInv, Nested, BeginPrint, IInv'
    PROVE  Nested' /\ Promise!BeginPrint
<1>1. /\ stack' = Append(stack, Sink(Captured)) /\ levels' = Append(levels, Idle)
      /\ shown' = shown /\ logging' = logging /\ log' = log /\ marks' = marks
      /\ Inner.open /\ Depth < MaxLevel
  BY DEF BeginPrint
<1>2. /\ Len(stack) \in Nat /\ Depth \in Nat /\ Depth >= 1
      /\ Len(stack) = Base + Depth - 1 /\ Base \in 1..2 /\ DOMAIN stack = 1..Len(stack)
      /\ DOMAIN levels = 1..Depth
  BY NestedFacts
<1>3. /\ Len(stack') = Len(stack) + 1 /\ DOMAIN stack' = 1..(Len(stack) + 1)
      /\ \A i \in DOMAIN stack : stack'[i] = stack[i]
      /\ stack'[Len(stack) + 1] = Sink(Captured)
  BY <1>1, <1>2 DEF IInv, Sound
<1>4. /\ Depth' = Depth + 1 /\ DOMAIN levels' = 1..(Depth + 1)
      /\ \A k \in 1..Depth : levels'[k] = levels[k]
      /\ levels'[Depth + 1] = Idle
  BY <1>1, <1>2 DEF IInv, Depth
<1>5. Base' = Base
  BY <1>2, <1>3, <1>4 DEF Base
<1>6. Sink(Captured).to = Captured /\ Sink(Captured).got = <<>>
  BY DEF Sink
<1>7. Nested'
  BY <1>2, <1>3, <1>5, <1>6 DEF Nested
<1>8. Dest' = Dest
  BY <1>2, <1>3, <1>5, <1>7, NextDest, NestedFacts
<1>9. Printing' = [k \in 1..(Depth + 1) |-> Printed(stack', levels', k)]
  BY <1>4 DEF Printing, Printed, Got, Depth
<1>10. ASSUME NEW k \in 1..Depth
       PROVE  Printed(stack', levels', k) = Printing[k]
  <2>1. Got(stack', Len(levels'), k) = Got(stack, Len(levels), k)
    BY <1>2, <1>3, <1>4 DEF Got, Depth
  <2>2. Printing[k] = Printed(stack, levels, k)
    BY PrintingIs
  <2> QED
    BY ONLY <1>4, <2>1, <2>2, k \in 1..Depth DEF Printed
<1>11. Printed(stack', levels', Depth + 1) = Promise!Idle
  <2>1. Got(stack', Len(levels'), Depth + 1) = <<>>
    BY <1>2, <1>3, <1>4, <1>6 DEF Got, Depth
  <2>2. levels'[Depth + 1].open = FALSE /\ levels'[Depth + 1].text = <<>>
        /\ Len(levels') = Depth + 1
    BY <1>4 DEF Idle, Depth
  <2> QED
    BY ONLY <1>4, <2>1, <2>2 DEF Printed, Promise!Idle, Promise!Level
<1>12. Printing' = Append(Printing, Promise!Idle)
  <2>1. Printing = [k \in 1..Depth |-> Printing[k]] /\ Len(Printing) = Depth
    BY PrintingIs, TopIs
  <2>2. Append(Printing, Promise!Idle)
          = [k \in 1..(Depth + 1) |-> IF k = Depth + 1 THEN Promise!Idle ELSE Printing[k]]
    BY ONLY <1>2, <2>1
  <2> QED
    BY ONLY <1>2, <1>9, <1>10, <1>11, <2>2
<1> QED
  BY <1>1, <1>7, <1>8, <1>12, PrintingIs DEF Promise!BeginPrint

\* A `Print` is over: its capture goes, and what is below stays.
LEMMA CaptureGone ==
    ASSUME IInv, Nested, IInv', Depth > 1, stack' = PopCapture(stack), Depth' = Depth - 1
    PROVE  /\ Nested' /\ Dest' = Dest
           /\ CapturedText = Got(stack, Depth, Depth)
           /\ \A k \in 1..(Depth - 1) : Got(stack', Depth - 1, k) = Got(stack, Depth, k)
<1>1. /\ Len(stack) \in Nat /\ Depth \in Nat /\ Base \in 1..2
      /\ Len(stack) = Base + Depth - 1 /\ DOMAIN stack = 1..Len(stack)
      /\ Top.to = Captured /\ Dest = stack[Base].to
  BY NestedFacts
<1>2. stack' = SubSeq(stack, 1, Len(stack) - 1)
  BY <1>1 DEF PopCapture, Top
<1>3. /\ Len(stack') = Len(stack) - 1 /\ DOMAIN stack' = 1..(Len(stack) - 1)
      /\ \A i \in 1..(Len(stack) - 1) : stack'[i] = stack[i]
  BY <1>1, <1>2 DEF IInv, Sound
<1>4. Base' = Base /\ Base \in DOMAIN stack'
  BY <1>1, <1>3 DEF Base
<1>5. Nested'
  BY <1>1, <1>3, <1>4 DEF Nested
<1>6. Dest' = Dest
  BY <1>1, <1>3, <1>4, <1>5, NextDest
<1>7. CapturedText = Got(stack, Depth, Depth)
  <2>1. Len(stack) - Depth + Depth = Len(stack) /\ Depth # 1
    BY <1>1
  <2> QED
    BY <1>1, <2>1 DEF CapturedText, Got, Top
<1>8. ASSUME NEW k \in 1..(Depth - 1)
      PROVE  Got(stack', Depth - 1, k) = Got(stack, Depth, k)
  <2>1. Len(stack') - (Depth - 1) + k = Len(stack) - Depth + k
    BY <1>1, <1>3
  <2>2. k # 1 => Len(stack) - Depth + k \in 1..(Len(stack) - 1)
    BY <1>1
  <2> QED
    BY ONLY <1>3, <2>1, <2>2 DEF Got
<1> QED
  BY <1>5, <1>6, <1>7, <1>8

LEMMA PrintedBelow ==
    ASSUME IInv, Depth > 1
    PROVE  /\ SubSeq(Printing, 1, Depth - 1) = [k \in 1..(Depth - 1) |-> Printing[k]]
           /\ Depth - 1 \in 1..(Depth - 1)
           /\ Printing[Depth - 1] = [open |-> levels[Depth - 1].open,
                                     text |-> levels[Depth - 1].text,
                                     got |-> Printing[Depth - 1].got]
<1>1. Depth \in Nat /\ DOMAIN Printing = 1..Depth
  BY TopIs
<1>2. SubSeq(Printing, 1, Depth - 1) = [k \in 1..(Depth - 1) |-> Printing[k]]
  BY <1>1
<1>3. Depth - 1 \in 1..Depth /\ Depth - 1 \in 1..(Depth - 1)
  BY <1>1
<1>4. Printing[Depth - 1] = Printed(stack, levels, Depth - 1)
  BY <1>3, PrintingIs
<1> QED
  BY <1>2, <1>3, <1>4 DEF Printed

LEMMA EndPrintPromised ==
    ASSUME IInv, Nested, EndPrint, IInv'
    PROVE  Nested' /\ Promise!EndPrint
<1> DEFINE o == levels[Depth - 1].open
           t == levels[Depth - 1].text \o CapturedText
           low == SubSeq(levels, 1, Depth - 1)
<1>1. /\ stack' = PopCapture(stack) /\ Depth > 1 /\ ~Inner.open
      /\ levels' = [low EXCEPT ![Depth - 1].text = @ \o CapturedText]
      /\ shown' = shown /\ logging' = logging /\ log' = log /\ marks' = marks
  BY DEF EndPrint
<1>2. /\ Depth \in Nat /\ DOMAIN low = 1..(Depth - 1) /\ Depth - 1 \in 1..(Depth - 1)
      /\ Len(low) = Depth - 1 /\ low[Depth - 1] = levels[Depth - 1]
      /\ levels[Depth - 1] \in LevelRecord
  BY <1>1, LevelsAreTyped
<1>3. [levels[Depth - 1] EXCEPT !.text = @ \o CapturedText] = LevelWith(o, t)
  <2> DEFINE p == levels[Depth - 1]
             x == levels[Depth - 1].text
  <2>1. p = [open |-> o, text |-> x]
    BY <1>2 DEF LevelRecord
  <2>2. t = x \o CapturedText
    OBVIOUS
  <2> HIDE DEF p, x, o, t
  <2>3. [p EXCEPT !.text = t] = [open |-> o, text |-> t]
    BY <2>1
  <2> QED
    BY <2>2, <2>3 DEF LevelWith, p, x
<1>4. levels' = [low EXCEPT ![Depth - 1] = LevelWith(o, t)]
  BY <1>1, <1>2, <1>3
<1>5. Depth' = Depth - 1
  BY <1>2, <1>4 DEF Depth
<1>6. /\ Nested' /\ Dest' = Dest /\ CapturedText = Got(stack, Depth, Depth)
      /\ \A k \in 1..(Depth - 1) : Got(stack', Depth - 1, k) = Got(stack, Depth, k)
  BY <1>1, <1>5, CaptureGone
<1>7. t = Printing[Depth - 1].text \o Printing[Depth].got
  <2>1. Printing[Depth - 1].text = levels[Depth - 1].text
    BY <1>1, PrintedBelow
  <2>2. Printing[Depth].got = CapturedText
    BY <1>6, TopIs
  <2> QED
    BY <2>1, <2>2
<1> HIDE DEF o, t
<1>12. levels' = [SubSeq(levels, 1, Depth - 1) EXCEPT ![Depth - 1] = LevelWith(o, t)]
  BY <1>4
<1> HIDE DEF low
<1>8. Printing' = [k \in 1..(Depth - 1) |->
        IF k = Depth - 1
        THEN [open |-> o, text |-> t, got |-> Printing[Depth - 1].got]
        ELSE Printing[k]]
  <2>1. Depth > 1
    BY <1>1
  <2>2. \A k \in 1..(Depth - 1) : Got(stack', Depth - 1, k) = Got(stack, Depth, k)
    BY <1>6
  <2> QED
    BY ONLY IInv, <1>12, <2>1, <2>2, LowerPrinted
<1>9. Printing[Depth - 1] = [open |-> o, text |-> levels[Depth - 1].text,
                             got |-> Printing[Depth - 1].got]
  BY <1>1, PrintedBelow DEF o
<1>10. [Printing[Depth - 1] EXCEPT !.text = @ \o Printing[Depth].got]
          = [open |-> o, text |-> t, got |-> Printing[Depth - 1].got]
  <2> DEFINE p == Printing[Depth - 1]
             x == levels[Depth - 1].text
             g == Printing[Depth - 1].got
             w == Printing[Depth - 1].text \o Printing[Depth].got
  <2>1. p = [open |-> o, text |-> x, got |-> g] /\ w = t
    BY <1>7, <1>9
  <2> HIDE DEF p, x, g, w
  <2>2. [p EXCEPT !.text = w] = [open |-> o, text |-> t, got |-> g]
    BY <2>1
  <2> QED
    BY <2>2 DEF p, g, w
<1>11. Printing' = [SubSeq(Printing, 1, Depth - 1) EXCEPT
                      ![Depth - 1].text = @ \o Printing[Depth].got]
  BY <1>1, <1>2, <1>8, <1>10, PrintedBelow
<1> QED
  BY <1>1, <1>6, <1>11, PrintingIs DEF Promise!EndPrint

LEMMA FailPrintPromised ==
    ASSUME IInv, Nested, FailPrint, IInv'
    PROVE  Nested' /\ Promise!FailPrint
<1>1. /\ stack' = PopCapture(stack) /\ Depth > 1
      /\ levels' = [SubSeq(levels, 1, Depth - 1) EXCEPT ![Depth - 1] = LevelWith(FALSE, <<>>)]
      /\ shown' = shown /\ logging' = logging /\ log' = log /\ marks' = marks
  BY DEF FailPrint, Idle, LevelWith
<1>2. Depth' = Depth - 1
  BY <1>1, LevelsAreTyped DEF Depth
<1>3. /\ Nested' /\ Dest' = Dest
      /\ \A k \in 1..(Depth - 1) : Got(stack', Depth - 1, k) = Got(stack, Depth, k)
  BY <1>1, <1>2, CaptureGone
<1>4. Printing' = [k \in 1..(Depth - 1) |->
        IF k = Depth - 1
        THEN [open |-> FALSE, text |-> <<>>, got |-> Printing[Depth - 1].got]
        ELSE Printing[k]]
  BY ONLY IInv, <1>1, <1>3, LowerPrinted
<1>5. Printing' = [SubSeq(Printing, 1, Depth - 1) EXCEPT
                     ![Depth - 1] = Promise!Level(FALSE, <<>>, @.got)]
  BY <1>1, <1>4, PrintedBelow DEF Promise!Level
<1> QED
  BY <1>1, <1>3, <1>5, PrintingIs DEF Promise!FailPrint

\* Without the file, if any, captures are on standard output.
LEMMA UnredirectNested ==
    ASSUME IInv, Nested, NEW u, u = Unredirect(stack)
    PROVE  /\ Len(u) = Depth /\ DOMAIN u = 1..Depth /\ u \in Seq(SinkRecord)
           /\ u[1] = stack[1]
           /\ \A i \in 2..Depth : u[i] = stack[Base + i - 1] /\ u[i].to = Captured
<1>1. /\ Len(stack) \in Nat /\ Depth \in Nat /\ Depth >= 1
      /\ Len(stack) = Base + Depth - 1 /\ Base \in 1..2
      /\ DOMAIN stack = 1..Len(stack)
  BY NestedFacts
<1>2. u \in Seq(SinkRecord)
  BY UnredirectSound DEF IInv, Sound
<1>3. \A i \in 2..Depth : stack[Base + i - 1].to = Captured
  BY <1>1 DEF Nested
<1>4. CASE Base = 1
  <2>1. Redirections(stack) = {}
    <3>1. Captured \notin Files
      BY OutputAssumption
    <3> QED
      BY <1>1, <1>4, <3>1 DEF Redirections, Nested
  <2>2. u = stack
    BY <2>1 DEF Unredirect
  <2> QED
    BY <1>1, <1>2, <1>3, <1>4, <2>2
<1>5. CASE Base = 2
  <2>1. Redirections(stack) = {2}
    <3>1. Captured \notin Files
      BY OutputAssumption
    <3> QED
      BY <1>1, <1>5, <3>1 DEF Redirections, Nested
  <2>2. (CHOOSE i \in Redirections(stack) : \A j \in Redirections(stack) : j <= i) = 2
    BY <2>1
  <2>3. u = RemoveIndex(stack, 2)
    BY <2>1, <2>2 DEF Unredirect
  <2>4. u = [j \in 1..Depth |-> IF j < 2 THEN stack[j] ELSE stack[j + 1]]
    BY <1>1, <1>5, <2>3 DEF RemoveIndex
  <2>5. Len(u) = Depth /\ DOMAIN u = 1..Depth
    BY <1>1, <1>2, <2>4
  <2>6. u[1] = stack[1] /\ \A i \in 2..Depth : u[i] = stack[i + 1]
    BY <1>1, <2>4
  <2>7. \A i \in 2..Depth : Base + i - 1 = i + 1
    BY <1>1, <1>5
  <2> QED
    BY <1>2, <1>3, <2>5, <2>6, <2>7
<1>6. Base = 1 \/ Base = 2
  BY <1>1
<1> QED
  BY <1>4, <1>5, <1>6, Zenon

\* The statements are the same, and what has been captured.
LEMMA SamePrinting ==
    ASSUME IInv, IInv', levels' = levels,
           \A k \in 1..Depth : Got(stack', Depth, k) = Got(stack, Depth, k)
    PROVE  Printing' = Printing
<1>1. DOMAIN levels = 1..Depth /\ DOMAIN levels' = 1..Depth /\ Len(levels) = Depth
  BY LevelsAreTyped DEF Depth
<1>2. Printing' = [k \in 1..Depth |-> Printed(stack', levels', k)]
  BY <1>1 DEF Printing, Printed, Got, Depth
<1>3. Printing = [k \in 1..Depth |-> Printed(stack, levels, k)]
  BY PrintingIs
<1>4. \A k \in 1..Depth : Printed(stack', levels', k) = Printed(stack, levels, k)
  BY <1>1 DEF Printed
<1> QED
  BY <1>2, <1>3, <1>4

LEMMA SetOutputFilePromised ==
    ASSUME IInv, Nested, NEW f \in Files, NEW overwrite \in BOOLEAN,
           SetOutputFile(f, overwrite), Depth = 1, IInv'
    PROVE  Nested' /\ Promise!SetOutputFile(f, overwrite)
<1>1. /\ ~Inner.open /\ levels' = levels
      /\ stack' = Append(Unredirect(stack), Sink(f))
      /\ shown' = IF overwrite THEN [shown EXCEPT ![f] = <<>>] ELSE shown
      /\ logging' = logging /\ log' = log /\ marks' = marks
  BY DEF SetOutputFile, MayRedirect, Redirect, program
<1>2. /\ Len(stack') = 2 /\ DOMAIN stack' = {1, 2} /\ stack'[2] = Sink(f)
  <2> DEFINE u == Unredirect(stack)
  <2>1. u \in Seq(SinkRecord) /\ Len(u) = 1
    BY UnredirectNested
  <2>2. Sink(f) \in SinkRecord /\ stack' = Append(u, Sink(f))
    BY <1>1, SinkTyped
  <2> HIDE DEF u
  <2>3. /\ Append(u, Sink(f)) \in Seq(SinkRecord) /\ Len(Append(u, Sink(f))) = Len(u) + 1
        /\ Append(u, Sink(f))[Len(u) + 1] = Sink(f)
    BY <2>1, <2>2, AppendProperties
  <2>4. Len(stack') = 2 /\ stack'[2] = Sink(f) /\ stack' \in Seq(SinkRecord)
    BY ONLY <2>1, <2>2, <2>3
  <2> QED
    BY <2>4
<1>3. Sink(f).to = f
  BY DEF Sink
<1>4. Base' = 2
  <2>1. Len(levels') = 1
    BY ONLY <1>1, Depth = 1 DEF Depth
  <2> QED
    BY ONLY <1>2, <2>1 DEF Base, Depth
<1>5. Nested'
  BY <1>2, <1>3, <1>4 DEF Nested
<1>6. Dest' = f
  BY <1>2, <1>3, <1>4, <1>5, NextDest
<1>7. Printing' = Printing
  <2>1. \A k \in 1..Depth : k = 1
    OBVIOUS
  <2>2. \A k \in 1..Depth : Got(stack', Depth, k) = Got(stack, Depth, k)
    BY <2>1 DEF Got
  <2> QED
    BY <1>1, <2>2, SamePrinting
<1> QED
  BY <1>1, <1>5, <1>6, <1>7, PrintingIs DEF Promise!SetOutputFile

\* The captures above the file move down with what they have.
LEMMA UnsetOutputFilePromised ==
    ASSUME IInv, Nested, UnsetOutputFile, IInv'
    PROVE  Nested' /\ Promise!UnsetOutputFile
<1>1. /\ ~Inner.open /\ levels' = levels /\ stack' = Unredirect(stack)
      /\ shown' = shown /\ logging' = logging /\ log' = log /\ marks' = marks
  BY DEF UnsetOutputFile, MayRedirect, program
<1>2. /\ Len(stack') = Depth /\ DOMAIN stack' = 1..Depth /\ stack'[1] = stack[1]
      /\ \A i \in 2..Depth : stack'[i] = stack[Base + i - 1] /\ stack'[i].to = Captured
  BY <1>1, UnredirectNested
<1>3. /\ Len(stack) \in Nat /\ Depth \in Nat /\ Depth >= 1
      /\ Len(stack) = Base + Depth - 1 /\ Base \in 1..2 /\ stack[1].to = Stdout
  BY NestedFacts
<1>4. Depth' = Depth
  BY <1>1 DEF Depth
<1>5. Base' = 1
  BY <1>2, <1>3, <1>4 DEF Base
<1>6. Nested'
  BY <1>2, <1>3, <1>5 DEF Nested
<1>7. Dest' = Stdout
  BY <1>2, <1>3, <1>5, <1>6, NextDest
<1>8. Printing' = Printing
  <2> SUFFICES ASSUME NEW k \in 1..Depth
               PROVE  Got(stack', Depth, k) = Got(stack, Depth, k)
    BY <1>1, SamePrinting
  <2>1. CASE k = 1
    BY <2>1 DEF Got
  <2>2. CASE k # 1
    <3>1. k \in 2..Depth /\ Len(stack') - Depth + k = k /\ Len(stack) - Depth + k = Base + k - 1
      BY <1>2, <1>3, <2>2
    <3>2. stack'[k] = stack[Base + k - 1]
      BY <1>2, <3>1
    <3> QED
      BY ONLY <2>2, <3>1, <3>2 DEF Got
  <2> QED
    BY <2>1, <2>2
<1> QED
  BY <1>1, <1>6, <1>7, <1>8, PrintingIs DEF Promise!UnsetOutputFile

\* What the log does leaves the sinks and the statements as they are.
LEMMA LogPromised ==
    ASSUME IInv, Nested, UNCHANGED <<stack, levels>>
    PROVE  Nested' /\ Dest' = Dest /\ Printing' = Printing
BY DEF Nested, Base, Depth, Dest, Printing

LEMMA SetLogFilePromised ==
    ASSUME IInv, Nested, NEW overwrite \in BOOLEAN, SetLogFile(overwrite)
    PROVE  Nested' /\ Promise!SetLogFile(overwrite)
BY LogPromised, PrintingIs DEF SetLogFile, program, Promise!SetLogFile

LEMMA UnsetLogFilePromised ==
    ASSUME IInv, Nested, UnsetLogFile
    PROVE  Nested' /\ Promise!UnsetLogFile
BY LogPromised, PrintingIs DEF UnsetLogFile, program, Promise!UnsetLogFile

-----------------------------------------------------------------------------
(* Every step maps to a step of the promise *)

LEMMA InitPromised ==
    ASSUME OutputInit
    PROVE  Nested /\ Promise!Init
<1>1. stack = <<Sink(Stdout)>> /\ levels = <<Idle>>
  BY DEF OutputInit
<1>2. Len(stack) = 1 /\ Len(levels) = 1 /\ DOMAIN stack = {1} /\ DOMAIN levels = 1..1
  BY <1>1
<1>3. Base = 1 /\ Nested
  BY <1>2 DEF Base, Depth, Nested
<1>4. Dest = Stdout
  BY <1>3, InitInv, NestedFacts
<1>5. Printing = [k \in 1..1 |-> Promise!Idle]
  <2>1. levels[1].open = FALSE /\ levels[1].text = <<>>
    BY <1>1 DEF Idle
  <2>2. [open |-> levels[1].open, text |-> levels[1].text, got |-> <<>>] = Promise!Idle
    BY ONLY <2>1 DEF Promise!Idle, Promise!Level
  <2> QED
    BY <1>2, <2>2 DEF Printing
<1>6. Printing = <<Promise!Idle>>
  BY <1>5
<1> QED
  BY <1>3, <1>4, <1>6 DEF OutputInit, Promise!Init

LEMMA StepPromised ==
    ASSUME IInv, Nested, Step, IInv'
    PROVE  RedirectsInside \/ (Promise!Next /\ Nested')
<1>1. CASE BeginStatement
  BY <1>1, BeginStatementPromised DEF Promise!Next
<1>2. CASE EndStatement
  BY <1>2, EndStatementPromised DEF Promise!Next
<1>3. CASE BeginPrint
  BY <1>3, BeginPrintPromised DEF Promise!Next
<1>4. CASE EndPrint
  BY <1>4, EndPrintPromised DEF Promise!Next
<1>5. CASE FailPrint
  BY <1>5, FailPrintPromised DEF Promise!Next
<1>6. ASSUME NEW f \in Files, NEW overwrite \in BOOLEAN, SetOutputFile(f, overwrite)
      PROVE  RedirectsInside \/ (Promise!Next /\ Nested')
  <2>1. CASE Depth = 1
    BY <1>6, <2>1, SetOutputFilePromised DEF Promise!Next
  <2>2. CASE Depth > 1
    BY <1>6, <2>2 DEF RedirectsInside
  <2> QED
    BY <2>1, <2>2, LevelsAreTyped
<1>7. CASE UnsetOutputFile
  BY <1>7, UnsetOutputFilePromised DEF Promise!Next
<1>8. ASSUME NEW overwrite \in BOOLEAN, SetLogFile(overwrite)
      PROVE  Promise!Next /\ Nested'
  BY <1>8, SetLogFilePromised DEF Promise!Next
<1>9. CASE UnsetLogFile
  BY <1>9, UnsetLogFilePromised DEF Promise!Next
<1> QED
  BY <1>1, <1>2, <1>3, <1>4, <1>5, <1>6, <1>7, <1>8, <1>9 DEF Step

\* Wherever sinks are nested, and they are at first, every step is one that
\* the promise allows and leaves them nested, except that a `Print` redirects
\* output; for any files and any nesting of `Print`.  A write to the sink on
\* top (`write`, output.rs) adds to the destination or to the text that the
\* `Print` in progress contributes.
THEOREM RedirectionIsKept == OutputSpec => ImplementsRedirection
<1>1. OutputInit => IInv /\ Nested /\ Promise!Init
  BY InitInv, InitPromised
<1>2. IInv /\ [OutputNext]_outputVars => IInv'
  BY NextInv
<1>3. IInv /\ IInv' /\ [OutputNext]_outputVars
        => [Nested => RedirectsInside \/ (Promise!Next /\ Nested')]_outputVars
  BY StepPromised DEF OutputNext
<1> QED
  BY <1>1, <1>2, <1>3, PTL DEF OutputSpec, ImplementsRedirection

=============================================================================
