------------------------- MODULE ActivationsProofs -------------------------
(***************************************************************************)
(* `nresults_stack` follows the active calls for any functions, depth      *)
(* limit and nesting of calls, handlers, loaded and attached files; and    *)
(* without attached files so do `depth` and `trace`, and `quit` is final.  *)
(* Counting the calls on the stack is a matter of finite sets of           *)
(* positions; the lemmas say how a push and a pop change the count.        *)
(***************************************************************************)
EXTENDS Activations, FiniteSetTheorems, SequenceTheorems, TLAPS

Inv == TypeOK /\ NresultsOfActiveCalls

\* The positions of calls in `s`, up to `j`.
CallsIn(s, j) == {k \in 1..j : s[k].kind = "call"}

-----------------------------------------------------------------------------
(* Counting calls *)

LEMMA CallsFinite ==
    ASSUME NEW s, NEW j \in Nat
    PROVE  IsFiniteSet(CallsIn(s, j)) /\ Cardinality(CallsIn(s, j)) \in Nat
<1>1. IsFiniteSet(1..j)
  BY FS_Interval
<1>2. IsFiniteSet(CallsIn(s, j))
  BY <1>1, FS_Subset DEF CallsIn
<1> QED BY <1>2, FS_CardinalityType

LEMMA CallsStep ==
    ASSUME NEW s, NEW j \in Nat
    PROVE  Cardinality(CallsIn(s, j + 1)) =
               Cardinality(CallsIn(s, j)) + (IF s[j + 1].kind = "call" THEN 1 ELSE 0)
<1>1. IsFiniteSet(CallsIn(s, j)) /\ Cardinality(CallsIn(s, j)) \in Nat /\ j + 1 \notin CallsIn(s, j)
  BY CallsFinite DEF CallsIn
<1>2. CASE s[j + 1].kind = "call"
  <2>1. CallsIn(s, j + 1) = CallsIn(s, j) \union {j + 1}
    BY <1>2 DEF CallsIn
  <2> QED BY <1>1, <1>2, <2>1, FS_AddElement
<1>3. CASE s[j + 1].kind # "call"
  <2>1. CallsIn(s, j + 1) = CallsIn(s, j)
    BY <1>3 DEF CallsIn
  <2> QED BY <1>1, <1>3, <2>1
<1> QED BY <1>2, <1>3

\* Among the calls up to `j`, the one at `k` is at most the last.
LEMMA CallsRank ==
    ASSUME NEW s, NEW j \in Nat, NEW k \in CallsIn(s, j)
    PROVE  Cardinality(CallsIn(s, k)) \in 1..Cardinality(CallsIn(s, j))
<1>1. k \in Nat /\ k \in CallsIn(s, k) /\ CallsIn(s, k) \subseteq CallsIn(s, j)
  BY DEF CallsIn
<1>2. Cardinality(CallsIn(s, k)) <= Cardinality(CallsIn(s, j))
  BY <1>1, CallsFinite, FS_Subset
<1>3. Cardinality(CallsIn(s, k)) # 0
  BY <1>1, CallsFinite, FS_EmptySet
<1> QED BY <1>1, <1>2, <1>3, CallsFinite

\* Stacks with the same calls up to `j` count the same.
LEMMA CallsSame ==
    ASSUME NEW s, NEW t, NEW j \in Nat, \A k \in 1..j : s[k].kind = t[k].kind
    PROVE  CallsIn(s, j) = CallsIn(t, j)
BY DEF CallsIn

-----------------------------------------------------------------------------
(* `results` lists what the calls of the stack `s` were asked for. *)

Follows(s, results) ==
    /\ Len(results) = Cardinality(CallsIn(s, Len(s)))
    /\ \A k \in CallsIn(s, Len(s)) : results[Cardinality(CallsIn(s, k))] = s[k].nres

LEMMA FollowsIsProperty == NresultsOfActiveCalls <=> Follows(stack, nresults)
BY DEF NresultsOfActiveCalls, Follows, Calls, CallsIn

\* Pushing anything but a call.
LEMMA PushOther ==
    ASSUME NEW S, NEW s \in Seq(S), NEW a, a.kind # "call", NEW results, Follows(s, results)
    PROVE  Follows(Append(s, a), results)
<1> DEFINE t == Append(s, a)
<1>1. Len(s) \in Nat /\ Len(t) = Len(s) + 1 /\ t[Len(s) + 1] = a
      /\ \A k \in 1..Len(s) : t[k] = s[k]
  OBVIOUS
<1> HIDE DEF t
<1>2. \A j \in 0..Len(s) : CallsIn(t, j) = CallsIn(s, j)
  BY <1>1, CallsSame
<1>3. CallsIn(t, Len(t)) = CallsIn(s, Len(s))
  BY <1>1 DEF CallsIn
<1>4. \A k \in CallsIn(s, Len(s)) : k \in 0..Len(s) /\ t[k] = s[k]
  BY <1>1 DEF CallsIn
<1> QED BY <1>2, <1>3, <1>4 DEF Follows, t

LEMMA PushCall ==
    ASSUME NEW S, NEW s \in Seq(S), NEW a, a.kind = "call",
           NEW results \in Seq(Results), Follows(s, results), a.nres \in Results
    PROVE  Follows(Append(s, a), Append(results, a.nres))
<1> DEFINE t == Append(s, a)
           r == Append(results, a.nres)
           n == Cardinality(CallsIn(s, Len(s)))
<1>1. Len(s) \in Nat /\ Len(t) = Len(s) + 1 /\ t[Len(s) + 1] = a
      /\ \A k \in 1..Len(s) : t[k] = s[k]
  OBVIOUS
<1>2. Len(results) = n /\ n \in Nat /\ Len(r) = n + 1 /\ r[n + 1] = a.nres
      /\ \A k \in 1..n : r[k] = results[k]
  BY <1>1, CallsFinite DEF Follows
<1> HIDE DEF t, r, n
<1>3. \A j \in 0..Len(s) : CallsIn(t, j) = CallsIn(s, j)
  BY <1>1, CallsSame
<1>4. Cardinality(CallsIn(t, Len(t))) = n + 1
  <2>1. CallsIn(t, Len(s)) = CallsIn(s, Len(s))
    BY <1>1, <1>3
  <2>2. Cardinality(CallsIn(t, Len(s) + 1)) = Cardinality(CallsIn(t, Len(s))) + 1
    BY <1>1, CallsStep
  <2> QED BY <1>1, <2>1, <2>2 DEF n
<1>5. ASSUME NEW k \in CallsIn(t, Len(t)) PROVE r[Cardinality(CallsIn(t, k))] = t[k].nres
  <2>1. CASE k = Len(t)
    BY <2>1, <1>1, <1>2, <1>4
  <2>2. CASE k # Len(t)
    <3>1. k \in CallsIn(s, Len(s)) /\ k \in 0..Len(s) /\ t[k] = s[k]
      BY <2>2, <1>1 DEF CallsIn
    <3>2. Cardinality(CallsIn(t, k)) = Cardinality(CallsIn(s, k))
          /\ Cardinality(CallsIn(s, k)) \in 1..n
      BY <3>1, <1>1, <1>3, CallsRank DEF n
    <3> QED BY <3>1, <3>2, <1>2 DEF Follows
  <2> QED BY <2>1, <2>2
<1> QED BY <1>2, <1>4, <1>5 DEF Follows, t, r

\* Popping the innermost activation, with its entry if it is a call.
LEMMA Pop ==
    ASSUME NEW S, NEW s \in Seq(S), Len(s) >= 1,
           NEW results \in Seq(Results), Follows(s, results)
    PROVE  Follows(SubSeq(s, 1, Len(s) - 1),
                   IF s[Len(s)].kind = "call" THEN AllButLast(results) ELSE results)
<1> DEFINE m == Len(s) - 1
           t == SubSeq(s, 1, m)
           n == Cardinality(CallsIn(s, m))
           r == IF s[Len(s)].kind = "call" THEN AllButLast(results) ELSE results
<1>0. Len(s) \in Nat /\ m \in Nat /\ Len(s) = m + 1
  OBVIOUS
<1>1. m \in Nat /\ Len(s) = m + 1 /\ Len(t) = m /\ \A k \in 1..m : t[k] = s[k]
  BY <1>0
<1>2. Len(results) = n + (IF s[Len(s)].kind = "call" THEN 1 ELSE 0) /\ n \in Nat
  BY <1>1, CallsStep, CallsFinite DEF Follows
<1>3. Len(r) = n /\ \A k \in 1..n : r[k] = results[k]
  BY <1>2 DEF AllButLast
<1> HIDE DEF t, r, n, m
<1>4. \A j \in 0..m : CallsIn(t, j) = CallsIn(s, j)
  BY <1>1, CallsSame
<1>5. ASSUME NEW k \in CallsIn(t, m) PROVE r[Cardinality(CallsIn(t, k))] = t[k].nres
  <2>1. k \in 1..m /\ k \in CallsIn(s, m) /\ k \in CallsIn(s, Len(s)) /\ t[k] = s[k]
    BY <1>1 DEF CallsIn
  <2>2. Cardinality(CallsIn(t, k)) = Cardinality(CallsIn(s, k))
        /\ Cardinality(CallsIn(s, k)) \in 1..n
    BY <2>1, <1>1, <1>4, CallsRank DEF n
  <2> QED BY <2>1, <2>2, <1>3 DEF Follows
<1>6. CallsIn(t, m) = CallsIn(s, m)
  BY <1>1, <1>4
<1>7. Follows(t, r)
  BY <1>1, <1>3, <1>5, <1>6 DEF Follows, n
<1> QED BY <1>7 DEF t, r, m

-----------------------------------------------------------------------------
(* Every step keeps the invariant *)

LEMMA TopFacts ==
    ASSUME TypeOK
    PROVE  /\ Len(stack) \in Nat /\ Len(stack) >= 1 /\ Top = stack[Len(stack)]
           /\ Top \in Activation
           /\ Below = SubSeq(stack, 1, Len(stack) - 1)
BY DEF TypeOK, Top, Below

LEMMA InitInv == Init => Inv
<1> SUFFICES ASSUME Init PROVE Inv
  OBVIOUS
<1> DEFINE session == [kind |-> "unit", by |-> "session", ran |-> FALSE,
                       trace |-> <<>>, depth |-> 0]
<1>1. stack = <<session>> /\ Len(stack) = 1 /\ stack[1] = session
  BY DEF Init
<1>2. 0 \in 0..(Width - 1) /\ <<>> \in Seq(Funs) /\ <<>> \in Seq(Results) /\ 1 \in 1..MaxStack
  BY ConstantsAssumption
<1>3. session \in Activation
  BY <1>2 DEF Activation
<1>4. TypeOK
  <2>1. stack \in Seq(Activation) /\ Len(stack) \in 1..MaxStack
    BY <1>1, <1>2, <1>3
  <2>2. \A k \in 1..Len(stack) :
          k = 1 <=> (stack[k].kind = "unit" /\ stack[k].by = "session")
    BY <1>1
  <2>3. /\ depth \in 0..(Width - 1) /\ trace \in Seq(Funs) /\ nresults \in Seq(Results)
        /\ mode \in Modes /\ quit \in BOOLEAN
    BY <1>2 DEF Init, Modes
  <2> QED BY <2>1, <2>2, <2>3 DEF TypeOK
<1>5. CallsIn(stack, Len(stack)) = {}
  BY <1>1 DEF CallsIn
<1>6. Follows(stack, nresults)
  BY <1>5, FS_EmptySet DEF Follows, Init
<1> QED BY <1>4, <1>6, FollowsIsProperty DEF Inv

LEMMA BeginStatementInv ==
    ASSUME Inv, BeginStatement
    PROVE  Inv'
<1> DEFINE n == Len(stack)
           top == [stack[n] EXCEPT !.ran = TRUE]
<1>1. n \in Nat /\ n >= 1 /\ stack[n] \in Activation /\ stack[n].kind = "unit"
  BY TopFacts DEF Inv, BeginStatement, InUnit
<1>2. stack' = [stack EXCEPT ![n] = top]
  BY DEF BeginStatement
<1>3. top \in Activation /\ top.kind = "unit" /\ top.by = stack[n].by
  BY <1>1 DEF Activation
<1> HIDE DEF top
<1>4. stack' \in Seq(Activation) /\ Len(stack') = n
      /\ \A k \in 1..n : stack'[k] = IF k = n THEN top ELSE stack[k]
  BY <1>1, <1>2, <1>3 DEF Inv, TypeOK
<1>5. TypeOK'
  BY <1>1, <1>3, <1>4, ConstantsAssumption DEF Inv, TypeOK, BeginStatement
<1>6. \A j \in 0..n : CallsIn(stack', j) = CallsIn(stack, j)
  BY <1>1, <1>3, <1>4, CallsSame
<1>7. \A k \in CallsIn(stack, n) : k \in 0..n /\ stack'[k] = stack[k]
  BY <1>1, <1>4 DEF CallsIn
<1>8. Follows(stack', nresults)
  BY <1>1, <1>4, <1>6, <1>7, FollowsIsProperty DEF Inv, Follows
<1>9. nresults' = nresults
  BY DEF BeginStatement
<1> QED BY <1>5, <1>8, <1>9, FollowsIsProperty DEF Inv, NresultsOfActiveCalls, Follows, Calls, CallsIn

\* Pushing an activation other than a call.
LEMMA PushInv ==
    ASSUME Inv, NEW a \in Activation, a.kind # "call", ~(a.kind = "unit" /\ a.by = "session"),
           Push(a), nresults' = nresults, trace' \in Seq(Funs), depth' \in 0..(Width - 1),
           mode' \in Modes, quit' \in BOOLEAN
    PROVE  Inv'
<1>1. /\ stack' \in Seq(Activation) /\ Len(stack') = Len(stack) + 1
      /\ stack'[Len(stack) + 1] = a /\ \A k \in 1..Len(stack) : stack'[k] = stack[k]
      /\ Len(stack) \in Nat /\ Len(stack') <= MaxStack /\ Len(stack) >= 1
  BY ConstantsAssumption DEF Inv, TypeOK, Push
<1>2. TypeOK'
  <2>1. ASSUME NEW k \in 1..Len(stack')
        PROVE  k = 1 <=> (stack'[k].kind = "unit" /\ stack'[k].by = "session")
    <3>1. CASE k = Len(stack) + 1
      BY <3>1, <1>1
    <3>2. CASE k # Len(stack) + 1
      <4>1. k \in 1..Len(stack) /\ stack'[k] = stack[k]
        BY <3>2, <1>1
      <4> QED BY <4>1 DEF Inv, TypeOK
    <3> QED BY <3>1, <3>2
  <2> QED BY <1>1, <2>1, ConstantsAssumption DEF Inv, TypeOK
<1>3. Follows(stack', nresults)
  BY PushOther, FollowsIsProperty DEF Inv, TypeOK, Push
<1> QED BY <1>2, <1>3 DEF Inv, NresultsOfActiveCalls, Follows, Calls, CallsIn

LEMMA CallInv ==
    ASSUME Inv, NEW f \in Funs, NEW n \in Results, Call(f, n)
    PROVE  Inv'
<1> DEFINE a == [kind |-> "call", fn |-> f, nres |-> n]
<1>1. a \in Activation /\ a.kind = "call" /\ a.nres = n
  BY DEF Activation
<1>2. stack' = Append(stack, a) /\ nresults' = Append(nresults, a.nres) /\ Len(stack) < MaxStack
  BY DEF Call, Push
<1> HIDE DEF a
<1>3. /\ stack' \in Seq(Activation) /\ Len(stack') = Len(stack) + 1
      /\ stack'[Len(stack) + 1] = a /\ \A k \in 1..Len(stack) : stack'[k] = stack[k]
      /\ Len(stack) \in Nat /\ Len(stack') <= MaxStack /\ Len(stack) >= 1
  BY <1>1, <1>2, ConstantsAssumption DEF Inv, TypeOK
<1>4. /\ depth' \in 0..(Width - 1) /\ trace' \in Seq(Funs) /\ nresults' \in Seq(Results)
      /\ mode' \in Modes /\ quit' \in BOOLEAN
  BY <1>1, <1>2, ConstantsAssumption DEF Inv, TypeOK, Call
<1>5. TypeOK'
  <2>1. ASSUME NEW k \in 1..Len(stack')
        PROVE  k = 1 <=> (stack'[k].kind = "unit" /\ stack'[k].by = "session")
    <3>1. CASE k = Len(stack) + 1
      BY <3>1, <1>1, <1>3
    <3>2. CASE k # Len(stack) + 1
      <4>1. k \in 1..Len(stack) /\ stack'[k] = stack[k]
        BY <3>2, <1>3
      <4> QED BY <4>1 DEF Inv, TypeOK
    <3> QED BY <3>1, <3>2
  <2>2. Len(stack') \in 1..MaxStack
    BY <1>3, ConstantsAssumption
  <2>3. stack' \in Seq(Activation)
    BY <1>3
  <2> QED BY <1>4, <2>1, <2>2, <2>3, Zenon DEF TypeOK
<1>6. Follows(stack', nresults')
  BY <1>1, <1>2, PushCall, FollowsIsProperty DEF Inv, TypeOK
<1> QED BY <1>5, <1>6 DEF Inv, NresultsOfActiveCalls, Follows, Calls, CallsIn

\* Popping the innermost activation, which is never the session's.
LEMMA PopInv ==
    ASSUME Inv, ~(Top.kind = "unit" /\ Top.by = "session"), stack' = Below,
           nresults' = IF Top.kind = "call" THEN AllButLast(nresults) ELSE nresults,
           trace' \in Seq(Funs), depth' \in 0..(Width - 1), mode' \in Modes, quit' \in BOOLEAN
    PROVE  Inv'
<1>1. Len(stack) \in Nat /\ Len(stack) > 1 /\ Len(stack) <= MaxStack
  BY TopFacts, ConstantsAssumption DEF Inv, TypeOK
<1>2. /\ stack' \in Seq(Activation) /\ Len(stack') = Len(stack) - 1
      /\ \A k \in 1..Len(stack') : stack'[k] = stack[k]
  BY <1>1 DEF Inv, TypeOK, Below
<1>3. nresults' \in Seq(Results)
  BY DEF Inv, TypeOK, AllButLast
<1>4. TypeOK'
  BY <1>1, <1>2, <1>3, ConstantsAssumption DEF Inv, TypeOK
<1>5. Follows(stack', nresults')
  BY <1>1, Pop, TopFacts, FollowsIsProperty DEF Inv, TypeOK
<1> QED BY <1>4, <1>5 DEF Inv, NresultsOfActiveCalls, Follows, Calls, CallsIn

LEMMA SameStackInv ==
    ASSUME Inv, UNCHANGED <<stack, nresults, depth, trace>>, mode' \in Modes, quit' \in BOOLEAN
    PROVE  Inv'
BY DEF Inv, TypeOK, NresultsOfActiveCalls, Calls

LEMMA AllButLastTyped ==
    ASSUME NEW S, NEW s \in Seq(S)
    PROVE  AllButLast(s) \in Seq(S)
BY DEF AllButLast

LEMMA NextInv ==
    ASSUME Inv, [Next]_vars
    PROVE  Inv'
<1>1. TypeOK /\ mode \in Modes /\ quit \in BOOLEAN /\ trace \in Seq(Funs)
      /\ depth \in 0..(Width - 1) /\ Len(trace) \in Nat
  BY DEF Inv, TypeOK
<1>2. CASE BeginStatement
  BY <1>2, BeginStatementInv
<1>3. ASSUME NEW f \in Funs, NEW n \in Results, Call(f, n) PROVE Inv'
  BY <1>3, CallInv
<1>4. CASE RefusedCall \/ Fail \/ Report \/ Quit \/ UNCHANGED vars
  BY <1>1, <1>4, SameStackInv DEF RefusedCall, Fail, Report, Quit, vars, Modes
<1>5. CASE BeginTry
  <2> DEFINE a == [kind |-> "try", len |-> Len(trace)]
  <2>1. a \in Activation /\ a.kind = "try"
    BY <1>1 DEF Activation
  <2> QED BY <1>1, <1>5, <2>1, PushInv DEF BeginTry
<1>6. CASE Load
  <2>1. Unit("load") \in Activation /\ Unit("load").kind = "unit" /\ Unit("load").by = "load"
    BY <1>1 DEF Activation, Unit
  <2> QED BY <1>1, <1>6, <2>1, PushInv DEF Load
<1>7. CASE Attach
  <2>1. Unit("attach") \in Activation /\ Unit("attach").kind = "unit" /\ Unit("attach").by = "attach"
    BY <1>1 DEF Activation, Unit
  <2> QED BY <1>1, <1>7, <2>1, PushInv DEF Attach
<1>8. CASE EndCall
  <2>1. (depth + Width - 1) % Width \in 0..(Width - 1)
    BY <1>1, ConstantsAssumption
  <2> QED BY <1>1, <1>8, <2>1, AllButLastTyped, PopInv DEF EndCall
<1>9. CASE LeaveTry
  <2>1. Top.len \in Nat
    BY <1>1, <1>9, TopFacts DEF LeaveTry, Activation
  <2>2. trace' \in Seq(Funs)
    BY <1>1, <1>9, <2>1 DEF LeaveTry
  <2>3. mode' \in Modes
    BY <1>1, <1>9 DEF LeaveTry, Modes
  <2> QED BY <1>1, <1>9, <2>2, <2>3, PopInv DEF LeaveTry
<1>10. CASE EndLoad
  <2>1. Top.trace \in Seq(Funs) /\ Top.depth \in 0..(Width - 1)
    BY <1>1, <1>10, TopFacts DEF EndLoad, InUnit, Activation
  <2>2. mode' \in Modes
    BY <1>1, <1>10 DEF EndLoad, Outcome, Modes
  <2> QED BY <1>1, <1>10, <2>1, <2>2, PopInv DEF EndLoad, InUnit
<1>11. CASE EndAttach
  <2>1. mode' \in Modes
    BY <1>1, <1>11 DEF EndAttach, Outcome, Modes
  <2> QED BY <1>1, <1>11, <2>1, PopInv DEF EndAttach, InUnit
<1> QED BY <1>2, <1>3, <1>4, <1>5, <1>6, <1>7, <1>8, <1>9, <1>10, <1>11 DEF Next, Step, Unwind

\* The native stack, the trace, the depth and the results requested keep
\* their shapes; the session stays at the bottom of the stack.
THEOREM TypeCorrect == Spec => []TypeOK
<1>1. Inv => TypeOK
  BY DEF Inv
<1>2. Inv /\ [Next]_vars => Inv'
  BY NextInv
<1> QED BY <1>1, <1>2, InitInv, PTL DEF Spec

\* Whatever files, handlers, errors and interrupts come between, the entry
\* `Nresults` reads is that of the innermost active call (`call_closure`
\* pops what it pushed however the body ends).
THEOREM NresultsFollowCalls == Spec => []NresultsOfActiveCalls
<1>1. Inv => NresultsOfActiveCalls
  BY DEF Inv
<1>2. Inv /\ [Next]_vars => Inv'
  BY NextInv
<1> QED BY <1>1, <1>2, InitInv, PTL DEF Spec

-----------------------------------------------------------------------------
(* Without attached files `quit` is final.  While it is on its way the mode *)
(* is "interrupt", which no handler stops, and the end of a loaded file     *)
(* passes it on; only the end of an attached file would not.                *)

NoneAttached == \A k \in 1..Len(stack) : stack[k].kind = "unit" => stack[k].by # "attach"

QuitInv == "attach" \notin uses => NoneAttached /\ (quit => mode = "interrupt")

LEMMA PushKeepsNoneAttached ==
    ASSUME TypeOK, NoneAttached, NEW a, a.kind = "unit" => a.by # "attach", Push(a)
    PROVE  NoneAttached'
<1>1. /\ Len(stack) \in Nat /\ Len(stack') = Len(stack) + 1 /\ stack'[Len(stack) + 1] = a
      /\ \A k \in 1..Len(stack) : stack'[k] = stack[k]
  BY DEF TypeOK, Push
<1> QED BY <1>1 DEF NoneAttached

LEMMA PopKeepsNoneAttached ==
    ASSUME TypeOK, NoneAttached, stack' = Below, Len(stack) > 1
    PROVE  NoneAttached'
<1>1. stack \in Seq(Activation) /\ Len(stack) \in Nat /\ Len(stack) > 1
  BY TopFacts DEF TypeOK
<1>2. Len(stack') = Len(stack) - 1 /\ \A k \in 1..(Len(stack) - 1) : stack'[k] = stack[k]
  BY <1>1 DEF Below
<1>3. \A k \in 1..Len(stack') : k \in 1..Len(stack) /\ stack'[k] = stack[k]
  BY <1>1, <1>2
<1> QED BY <1>3 DEF NoneAttached

LEMMA NextQuitInv ==
    ASSUME TypeOK, QuitInv, [Next]_vars
    PROVE  QuitInv'
<1> SUFFICES ASSUME "attach" \notin uses, uses' = uses
             PROVE  NoneAttached' /\ (quit' => mode' = "interrupt")
  BY DEF QuitInv, Next, vars
<1>1. NoneAttached /\ (quit => mode = "interrupt")
  BY DEF QuitInv
<1>0. ~(Top.kind = "unit" /\ Top.by = "session") => Len(stack) > 1
  BY TopFacts DEF TypeOK
<1>2. CASE BeginStatement
  <2>1. /\ Len(stack) \in Nat /\ Len(stack) >= 1 /\ stack[Len(stack)] \in Activation
        /\ stack[Len(stack)].kind = "unit"
    BY <1>2, TopFacts DEF BeginStatement, InUnit
  <2>2. /\ Len(stack') = Len(stack)
        /\ \A k \in 1..Len(stack) : stack'[k].kind = stack[k].kind
        /\ \A k \in 1..Len(stack) : stack'[k].kind = "unit" => stack'[k].by = stack[k].by
    BY <1>2, <2>1 DEF BeginStatement, TypeOK, Activation
  <2> QED BY <1>1, <1>2, <2>1, <2>2 DEF BeginStatement, NoneAttached
<1>3. ASSUME NEW f \in Funs, NEW n \in Results, Call(f, n)
      PROVE  NoneAttached' /\ (quit' => mode' = "interrupt")
  BY <1>1, <1>3, PushKeepsNoneAttached DEF Call
<1>4. CASE RefusedCall \/ Fail \/ Report \/ Quit \/ UNCHANGED vars
  <2>1. UNCHANGED stack
    BY <1>4 DEF RefusedCall, Fail, Report, Quit, vars
  <2> QED BY <1>1, <1>4, <2>1 DEF RefusedCall, Fail, Report, Quit, vars, Executing, NoneAttached
<1>5. CASE BeginTry
  BY <1>1, <1>5, PushKeepsNoneAttached DEF BeginTry
<1>6. CASE Load
  <2>1. Unit("load").kind = "unit" /\ Unit("load").by = "load"
    BY DEF Unit
  <2> QED BY <1>1, <1>6, <2>1, PushKeepsNoneAttached DEF Load
<1>7. CASE Attach
  BY <1>7 DEF Attach
<1>8. CASE EndCall
  BY <1>0, <1>1, <1>8, PopKeepsNoneAttached DEF EndCall
<1>9. CASE LeaveTry
  BY <1>0, <1>1, <1>9, PopKeepsNoneAttached DEF LeaveTry
<1>10. CASE EndLoad
  BY <1>0, <1>1, <1>10, PopKeepsNoneAttached DEF EndLoad, Outcome, InUnit
<1>11. CASE EndAttach
  BY <1>1, <1>11, TopFacts DEF EndAttach, InUnit, NoneAttached
<1> QED BY <1>2, <1>3, <1>4, <1>5, <1>6, <1>7, <1>8, <1>9, <1>10, <1>11 DEF Next, Step, Unwind

\* Once `quit` is executed no statement of the program is, whatever calls,
\* handlers and loaded files it has to pass.
THEOREM QuitStopsTheProgram == Spec => []QuitIsFinal
<1>1. Init => QuitInv
  BY DEF Init, QuitInv, NoneAttached
<1>2. TypeOK /\ QuitInv /\ [Next]_vars => QuitInv'
  BY NextQuitInv
<1>3. QuitInv => QuitIsFinal
  BY DEF QuitInv, QuitIsFinal
<1> QED BY <1>1, <1>2, <1>3, TypeCorrect, PTL DEF Spec

-----------------------------------------------------------------------------
(* `depth` counts the calls since the statement of the innermost file.  A   *)
(* loaded file keeps the depth of the statement that loads it, which is the *)
(* number of calls between the two files.                                   *)

\* The innermost file of the first `j` activations is at `u`.
FileAt(s, u, j) ==
    /\ u \in 1..j /\ s[u].kind = "unit"
    /\ \A l \in (u + 1)..j : s[l].kind # "unit"

CallsAfter(s, u, j) == Cardinality(CallsIn(s, j)) - Cardinality(CallsIn(s, u))

DepthFollows(s, d) ==
    /\ \A j \in 1..Len(s) : \E u \in 1..j : FileAt(s, u, j)
    /\ \A k \in 1..(Len(s) - 1) : s[k].kind = "unit" => s[k].ran
    /\ \A u \in 1..Len(s) :
          FileAt(s, u, Len(s)) /\ s[u].ran => d = CallsAfter(s, u, Len(s))
    /\ \A k \in 2..Len(s), u \in 1..Len(s) :
          s[k].kind = "unit" /\ FileAt(s, u, k - 1) => s[k].depth = CallsAfter(s, u, k - 1)

DepthInv == "attach" \notin uses => NoneAttached /\ DepthFollows(stack, depth)

\* Stacks that have the same kinds of activations have the same files and calls.
SameUpTo(s, t, n) == \A k \in 1..n : s[k].kind = t[k].kind

SameFiles(s, t, n) ==
    /\ \A j \in 0..n, u \in 1..n : FileAt(t, u, j) <=> FileAt(s, u, j)
    /\ \A j \in 0..n, u \in 0..n : CallsAfter(t, u, j) = CallsAfter(s, u, j)

LEMMA SameKinds ==
    ASSUME NEW s, NEW t, NEW n \in Nat, SameUpTo(s, t, n)
    PROVE  SameFiles(s, t, n)
<1>1. \A j \in 0..n : CallsIn(t, j) = CallsIn(s, j)
  BY CallsSame DEF SameUpTo
<1>2. \A j \in 0..n, u \in 1..n : FileAt(t, u, j) <=> FileAt(s, u, j)
  BY DEF FileAt, SameUpTo
<1> QED BY <1>1, <1>2 DEF CallsAfter, SameFiles

\* A call or a handler on top of a statement that is executed.
LEMMA PushKeepsDepth ==
    ASSUME NEW s, NEW t, Len(s) \in Nat \ {0}, Len(t) = Len(s) + 1,
           \A k \in 1..Len(s) : t[k] = s[k],
           t[Len(t)].kind \in {"call", "try"},
           s[Len(s)].kind = "unit" => s[Len(s)].ran,
           NEW d \in Int, DepthFollows(s, d)
    PROVE  DepthFollows(t, d + (IF t[Len(t)].kind = "call" THEN 1 ELSE 0))
<1> DEFINE n == Len(s)
           more == IF t[n + 1].kind = "call" THEN 1 ELSE 0
<1>0. n \in Nat /\ \A k \in 1..n : s[k].kind = t[k].kind
  OBVIOUS
<1>1. /\ \A j \in 0..n, u \in 1..n : FileAt(t, u, j) <=> FileAt(s, u, j)
      /\ \A j \in 0..n, u \in 0..n : CallsAfter(t, u, j) = CallsAfter(s, u, j)
  <2>1. n \in Nat /\ SameUpTo(s, t, n)
    BY <1>0 DEF SameUpTo
  <2>2. SameFiles(s, t, n)
    BY ONLY <2>1, SameKinds
  <2> QED BY ONLY <2>2 DEF SameFiles
<1>2. \A u : FileAt(t, u, n + 1) <=> FileAt(t, u, n)
  BY DEF FileAt
<1>3. \A u \in 1..n : CallsAfter(t, u, n + 1) = CallsAfter(t, u, n) + more
  <2>1. Cardinality(CallsIn(t, n + 1)) = Cardinality(CallsIn(t, n)) + more
    BY <1>0, CallsStep
  <2>2. Cardinality(CallsIn(t, n)) \in Nat /\ more \in Nat
    BY <1>0, CallsFinite
  <2>3. \A u \in 1..n : Cardinality(CallsIn(t, u)) \in Nat
    BY CallsFinite
  <2> HIDE DEF n, more
  <2> QED BY <2>1, <2>2, <2>3 DEF CallsAfter
<1>4. \A j \in 1..n + 1 : \E u \in 1..j : FileAt(t, u, j)
  <2>1. ASSUME NEW j \in 1..n PROVE \E u \in 1..j : FileAt(t, u, j)
    <3>1. PICK u \in 1..j : FileAt(s, u, j)
      BY DEF DepthFollows
    <3> QED BY <3>1, <1>1
  <2>2. \E u \in 1..n + 1 : FileAt(t, u, n + 1)
    BY <2>1, <1>2
  <2> QED BY <2>1, <2>2
<1>5. \A k \in 1..n : t[k].kind = "unit" => t[k].ran
  BY DEF DepthFollows
<1>6. ASSUME NEW u \in 1..n + 1, FileAt(t, u, n + 1), t[u].ran
      PROVE  d + more = CallsAfter(t, u, n + 1)
  <2>1. u \in 1..n /\ FileAt(s, u, n) /\ s[u].ran
    BY <1>1, <1>2, <1>6 DEF FileAt
  <2>2. d = CallsAfter(s, u, n)
    BY <2>1 DEF DepthFollows
  <2> QED BY <2>1, <2>2, <1>1, <1>3
<1>7. ASSUME NEW k \in 2..n + 1, NEW u \in 1..n + 1, t[k].kind = "unit", FileAt(t, u, k - 1)
      PROVE  t[k].depth = CallsAfter(t, u, k - 1)
  <2>1. k \in 2..n /\ u \in 1..n /\ k - 1 \in 0..n
    BY <1>7 DEF FileAt
  <2>2. s[k].kind = "unit" /\ FileAt(s, u, k - 1)
    BY <1>1, <1>7, <2>1
  <2> QED BY <1>1, <2>1, <2>2 DEF DepthFollows
<1> QED BY <1>4, <1>5, <1>6, <1>7 DEF DepthFollows

\* A file that is loaded by a statement, and keeps its depth.
LEMMA LoadKeepsDepth ==
    ASSUME NEW s, NEW t, Len(s) \in Nat \ {0}, Len(t) = Len(s) + 1,
           \A k \in 1..Len(s) : t[k] = s[k],
           NEW d \in Int, t[Len(t)].kind = "unit", ~t[Len(t)].ran, t[Len(t)].depth = d,
           s[Len(s)].kind = "unit" => s[Len(s)].ran,
           DepthFollows(s, d)
    PROVE  DepthFollows(t, d)
<1> DEFINE n == Len(s)
<1>0. n \in Nat /\ \A k \in 1..n : s[k].kind = t[k].kind
  OBVIOUS
<1>1. /\ \A j \in 0..n, u \in 1..n : FileAt(t, u, j) <=> FileAt(s, u, j)
      /\ \A j \in 0..n, u \in 0..n : CallsAfter(t, u, j) = CallsAfter(s, u, j)
  <2>1. n \in Nat /\ SameUpTo(s, t, n)
    BY <1>0 DEF SameUpTo
  <2>2. SameFiles(s, t, n)
    BY ONLY <2>1, SameKinds
  <2> QED BY ONLY <2>2 DEF SameFiles
<1>2. FileAt(t, n + 1, n + 1) /\ \A u : FileAt(t, u, n + 1) => u = n + 1
  BY DEF FileAt
<1>3. \A j \in 1..n + 1 : \E u \in 1..j : FileAt(t, u, j)
  <2>1. ASSUME NEW j \in 1..n PROVE \E u \in 1..j : FileAt(t, u, j)
    <3>1. PICK u \in 1..j : FileAt(s, u, j)
      BY DEF DepthFollows
    <3> QED BY <3>1, <1>1
  <2> QED BY <2>1, <1>2
<1>4. \A k \in 1..n : t[k].kind = "unit" => t[k].ran
  BY DEF DepthFollows
<1>5. \A u \in 1..n + 1 : FileAt(t, u, n + 1) => ~t[u].ran
  BY <1>2
<1>6. ASSUME NEW k \in 2..n + 1, NEW u \in 1..n + 1, t[k].kind = "unit", FileAt(t, u, k - 1)
      PROVE  t[k].depth = CallsAfter(t, u, k - 1)
  <2>1. u \in 1..n /\ k - 1 \in 0..n /\ FileAt(s, u, k - 1)
    BY <1>1, <1>6 DEF FileAt
  <2>2. CASE k = n + 1
    <3>1. s[u].kind = "unit" /\ s[u].ran /\ FileAt(s, u, n)
      BY <2>1, <2>2 DEF DepthFollows, FileAt
    <3>2. d = CallsAfter(s, u, n)
      BY <2>1, <3>1 DEF DepthFollows
    <3> QED BY <1>1, <2>1, <2>2, <3>2
  <2>3. CASE k # n + 1
    <3>1. k \in 2..n /\ s[k].kind = "unit" /\ s[k].depth = t[k].depth
      BY <1>6, <2>3
    <3>2. s[k].depth = CallsAfter(s, u, k - 1)
      BY <2>1, <3>1 DEF DepthFollows
    <3> QED BY <1>1, <2>1, <3>1, <3>2
  <2> QED BY <2>2, <2>3
<1> QED BY <1>3, <1>4, <1>5, <1>6 DEF DepthFollows

\* The innermost activation ends.
LEMMA PopKeepsDepth ==
    ASSUME NEW s, NEW t, Len(s) \in Nat, Len(s) > 1, Len(t) = Len(s) - 1,
           \A k \in 1..Len(t) : t[k] = s[k],
           NEW d \in Int, DepthFollows(s, d)
    PROVE  DepthFollows(t, CASE s[Len(s)].kind = "unit" -> s[Len(s)].depth
                             [] s[Len(s)].kind = "call" -> d - 1
                             [] OTHER -> d)
<1> DEFINE n == Len(t)
           e == CASE s[n + 1].kind = "unit" -> s[n + 1].depth
                  [] s[n + 1].kind = "call" -> d - 1
                  [] OTHER -> d
<1>0. n \in Nat /\ n >= 1 /\ Len(s) = n + 1 /\ Len(t) = n /\ \A k \in 1..n : t[k] = s[k]
  OBVIOUS
<1> HIDE DEF n
<1>1. /\ \A j \in 0..n, u \in 1..n : FileAt(t, u, j) <=> FileAt(s, u, j)
      /\ \A j \in 0..n, u \in 0..n : CallsAfter(t, u, j) = CallsAfter(s, u, j)
  <2>1. \A k \in 1..n : t[k].kind = s[k].kind
    BY <1>0
  <2>2. \A j \in 0..n, u \in 1..n : FileAt(t, u, j) <=> FileAt(s, u, j)
    BY <1>0, <2>1 DEF FileAt
  <2>3. \A j \in 0..n : CallsIn(t, j) = CallsIn(s, j)
    BY <1>0, <2>1, CallsSame
  <2> QED BY <2>2, <2>3 DEF CallsAfter
<1>2. ASSUME NEW j \in 1..n PROVE \E u \in 1..j : FileAt(t, u, j)
  <2>1. PICK u \in 1..j : FileAt(s, u, j)
    BY <1>0 DEF DepthFollows
  <2> QED BY <1>0, <1>1, <2>1
<1>3. \A k \in 1..n - 1 : t[k].kind = "unit" => t[k].ran
  BY <1>0 DEF DepthFollows
<1>4. ASSUME NEW u \in 1..n, FileAt(t, u, n), t[u].ran
      PROVE  e = CallsAfter(t, u, n)
  <2>1. FileAt(s, u, n) /\ s[u].ran /\ u \in 1..n + 1
    BY <1>0, <1>1, <1>4
  <2>2. CASE s[n + 1].kind = "unit"
    <3>1. s[n + 1].depth = CallsAfter(s, u, n)
      BY <1>0, <2>1, <2>2 DEF DepthFollows
    <3> QED BY <1>0, <1>1, <2>2, <3>1
  <2>3. CASE s[n + 1].kind # "unit"
    <3>1. FileAt(s, u, n + 1)
      BY <1>0, <2>1, <2>3 DEF FileAt
    <3>2. d = CallsAfter(s, u, n + 1)
      BY <1>0, <2>1, <3>1 DEF DepthFollows
    <3>3. CallsAfter(s, u, n + 1) =
              CallsAfter(s, u, n) + (IF s[n + 1].kind = "call" THEN 1 ELSE 0)
      <4>1. Cardinality(CallsIn(s, n + 1)) =
                Cardinality(CallsIn(s, n)) + (IF s[n + 1].kind = "call" THEN 1 ELSE 0)
        BY <1>0, CallsStep
      <4>2. Cardinality(CallsIn(s, n)) \in Nat /\ Cardinality(CallsIn(s, u)) \in Nat
        BY <1>0, CallsFinite
      <4> HIDE DEF n
      <4> QED BY <4>1, <4>2 DEF CallsAfter
    <3>4. CallsAfter(s, u, n) \in Int
      BY <1>0, CallsFinite DEF CallsAfter
    <3> QED BY <1>0, <1>1, <2>3, <3>2, <3>3, <3>4
  <2> QED BY <2>2, <2>3
<1>5. ASSUME NEW k \in 2..n, NEW u \in 1..n, t[k].kind = "unit", FileAt(t, u, k - 1)
      PROVE  t[k].depth = CallsAfter(t, u, k - 1)
  <2>1. k \in 2..n + 1 /\ u \in 1..n + 1 /\ k - 1 \in 0..n
        /\ s[k].kind = "unit" /\ FileAt(s, u, k - 1) /\ s[k].depth = t[k].depth
    BY <1>0, <1>1, <1>5
  <2>2. s[k].depth = CallsAfter(s, u, k - 1)
    BY <1>0, <2>1 DEF DepthFollows
  <2> QED BY <1>0, <1>1, <2>1, <2>2
<1>6. DepthFollows(t, e)
  BY <1>0, <1>2, <1>3, <1>4, <1>5 DEF DepthFollows
<1> QED BY <1>0, <1>6

\* A call's activation counts for at least itself.
LEMMA DepthOfCall ==
    ASSUME NEW s, Len(s) \in Nat \ {0}, s[Len(s)].kind = "call",
           NEW d \in Int, DepthFollows(s, d)
    PROVE  d >= 1
<1> DEFINE n == Len(s)
<1>1. PICK u \in 1..n : FileAt(s, u, n)
  BY DEF DepthFollows
<1>2. u \in 1..n - 1 /\ s[u].ran
  BY <1>1 DEF FileAt, DepthFollows
<1>3. d = Cardinality(CallsIn(s, n)) - Cardinality(CallsIn(s, u))
  BY <1>1, <1>2 DEF DepthFollows, CallsAfter
<1>4. Cardinality(CallsIn(s, n)) = Cardinality(CallsIn(s, n - 1)) + 1
  <2>1. n - 1 \in Nat /\ (n - 1) + 1 = n
    BY <1>1
  <2> QED BY <2>1, CallsStep
<1>5. /\ Cardinality(CallsIn(s, u)) <= Cardinality(CallsIn(s, n - 1))
      /\ Cardinality(CallsIn(s, u)) \in Nat /\ Cardinality(CallsIn(s, n - 1)) \in Nat
  <2>1. CallsIn(s, u) \subseteq CallsIn(s, n - 1) /\ n - 1 \in Nat /\ u \in Nat
    BY <1>2 DEF CallsIn
  <2> QED BY <2>1, CallsFinite, FS_Subset
<1> QED BY <1>3, <1>4, <1>5

\* A statement begins: no call is above its file.
LEMMA BeginKeepsDepth ==
    ASSUME NEW s, NEW t, Len(s) \in Nat \ {0}, Len(t) = Len(s),
           \A k \in 1..Len(s) : t[k].kind = s[k].kind,
           \A k \in 1..Len(s) : s[k].kind = "unit" => t[k].depth = s[k].depth,
           \A k \in 1..(Len(s) - 1) : t[k] = s[k],
           s[Len(s)].kind = "unit",
           NEW d, DepthFollows(s, d)
    PROVE  DepthFollows(t, 0)
<1> DEFINE n == Len(s)
<1>1. /\ \A j \in 0..n, u \in 1..n : FileAt(t, u, j) <=> FileAt(s, u, j)
      /\ \A j \in 0..n, u \in 0..n : CallsAfter(t, u, j) = CallsAfter(s, u, j)
  <2>1. n \in Nat /\ \A k \in 1..n : s[k].kind = t[k].kind
    OBVIOUS
  <2> HIDE DEF n
  <2>2. \A j \in 0..n, u \in 1..n : FileAt(t, u, j) <=> FileAt(s, u, j)
    BY ONLY <2>1 DEF FileAt
  <2>3. \A j \in 0..n : CallsIn(t, j) = CallsIn(s, j)
    BY ONLY <2>1, CallsSame
  <2> QED BY <2>2, <2>3 DEF CallsAfter
<1>2. ASSUME NEW j \in 1..n PROVE \E u \in 1..j : FileAt(t, u, j)
  <2>1. PICK u \in 1..j : FileAt(s, u, j)
    BY DEF DepthFollows
  <2> QED BY <1>1, <2>1
<1>3. ASSUME NEW u \in 1..n, FileAt(t, u, n) PROVE CallsAfter(t, u, n) = 0
  <2>1. u = n
    BY <1>3 DEF FileAt
  <2> QED BY <2>1, CallsFinite DEF CallsAfter
<1>4. ASSUME NEW k \in 2..n, NEW u \in 1..n, t[k].kind = "unit", FileAt(t, u, k - 1)
      PROVE  t[k].depth = CallsAfter(t, u, k - 1)
  <2>1. k \in 1..n /\ k - 1 \in 0..n
    OBVIOUS
  <2>2. s[k].kind = "unit" /\ FileAt(s, u, k - 1) /\ s[k].depth = t[k].depth
    BY <1>1, <1>4, <2>1
  <2>3. s[k].depth = CallsAfter(s, u, k - 1)
    BY <2>2 DEF DepthFollows
  <2> QED BY <1>1, <2>1, <2>2, <2>3
<1>5. \A k \in 1..(n - 1) : t[k].kind = "unit" => t[k].ran
  BY DEF DepthFollows
<1> QED BY <1>2, <1>3, <1>4, <1>5 DEF DepthFollows

LEMMA WrapsBack ==
    ASSUME NEW d \in 0..(Width - 1), d >= 1
    PROVE  (d + Width - 1) % Width = d - 1
<1>1. d + Width - 1 = 1 * Width + (d - 1) /\ d - 1 \in 0..(Width - 1) /\ Width \in Nat \ {0}
  BY ConstantsAssumption
<1> QED BY <1>1

LEMMA NextDepthInv ==
    ASSUME TypeOK, DepthInv, [Next]_vars
    PROVE  DepthInv'
<1> SUFFICES ASSUME "attach" \notin uses, uses' = uses
             PROVE  NoneAttached' /\ DepthFollows(stack', depth')
  BY DEF DepthInv, Next, vars
<1> DEFINE n == Len(stack)
<1>1. /\ NoneAttached /\ DepthFollows(stack, depth)
      /\ depth \in 0..(Width - 1) /\ depth \in Int
      /\ n \in Nat \ {0} /\ Top = stack[n]
  BY TopFacts, ConstantsAssumption DEF DepthInv, TypeOK
<1>2. CASE BeginStatement
  <2>1. stack[n] \in Activation /\ stack[n].kind = "unit"
    BY <1>2, TopFacts DEF BeginStatement, InUnit
  <2>2. /\ Len(stack') = n
        /\ \A k \in 1..n : stack'[k].kind = stack[k].kind
        /\ \A k \in 1..n : stack[k].kind = "unit" => stack'[k].depth = stack[k].depth
        /\ \A k \in 1..n : stack[k].kind = "unit" => stack'[k].by = stack[k].by
        /\ \A k \in 1..(n - 1) : stack'[k] = stack[k]
    BY <1>1, <1>2, <2>1 DEF BeginStatement, TypeOK, Activation
  <2>3. DepthFollows(stack', 0)
    BY <1>1, <2>1, <2>2, BeginKeepsDepth
  <2> QED BY <1>1, <1>2, <2>1, <2>2, <2>3 DEF BeginStatement, NoneAttached
<1>3. ASSUME NEW a, Push(a), Executing
      PROVE  /\ Len(stack') = n + 1 /\ stack'[Len(stack')] = a
             /\ \A k \in 1..n : stack'[k] = stack[k]
             /\ stack[n].kind = "unit" => stack[n].ran
  BY <1>1, <1>3 DEF TypeOK, Push, Executing, InUnit
<1>4. ASSUME NEW f \in Funs, NEW m \in Results, Call(f, m)
      PROVE  NoneAttached' /\ DepthFollows(stack', depth')
  <2> DEFINE a == [kind |-> "call", fn |-> f, nres |-> m]
  <2>1. Push(a) /\ Executing /\ depth' = depth + 1 /\ a.kind = "call"
    BY <1>4 DEF Call
  <2> HIDE DEF a
  <2>2. DepthFollows(stack', depth + (IF stack'[Len(stack')].kind = "call" THEN 1 ELSE 0))
    BY <1>1, <1>3, <2>1, PushKeepsDepth
  <2>3. DepthFollows(stack', depth')
    BY <1>3, <2>1, <2>2
  <2> QED BY <1>1, <2>1, <2>3, PushKeepsNoneAttached
<1>5. CASE BeginTry
  <2> DEFINE a == [kind |-> "try", len |-> Len(trace)]
  <2>1. Push(a) /\ Executing /\ depth' = depth /\ a.kind = "try"
    BY <1>5 DEF BeginTry
  <2> HIDE DEF a
  <2>2. DepthFollows(stack', depth + (IF stack'[Len(stack')].kind = "call" THEN 1 ELSE 0))
    BY <1>1, <1>3, <2>1, PushKeepsDepth
  <2>3. DepthFollows(stack', depth')
    BY <1>1, <1>3, <2>1, <2>2
  <2> QED BY <1>1, <2>1, <2>3, PushKeepsNoneAttached
<1>6. CASE Load
  <2>1. Push(Unit("load")) /\ Executing /\ depth' = depth
    BY <1>6 DEF Load
  <2>2. /\ Unit("load").kind = "unit" /\ Unit("load").by = "load"
        /\ Unit("load").depth = depth /\ ~Unit("load").ran
    BY DEF Unit
  <2>3. DepthFollows(stack', depth)
    BY <1>1, <1>3, <2>1, <2>2, LoadKeepsDepth
  <2> QED BY <1>1, <2>1, <2>2, <2>3, PushKeepsNoneAttached
<1>7. ASSUME stack' = Below, n > 1
      PROVE  DepthFollows(stack', CASE stack[n].kind = "unit" -> stack[n].depth
                                    [] stack[n].kind = "call" -> depth - 1
                                    [] OTHER -> depth)
  <2>1. Len(stack') = n - 1 /\ \A k \in 1..Len(stack') : stack'[k] = stack[k]
    BY <1>1, <1>7 DEF TypeOK, Below
  <2> QED BY <1>1, <1>7, <2>1, PopKeepsDepth
<1>8. ~(Top.kind = "unit" /\ Top.by = "session") => n > 1
  BY <1>1 DEF TypeOK
<1>9. CASE EndCall
  <2>1. stack' = Below /\ stack[n].kind = "call" /\ n > 1
    BY <1>1, <1>8, <1>9 DEF EndCall
  <2>2. depth >= 1
    BY <1>1, <2>1, DepthOfCall
  <2>3. depth' = depth - 1
    BY <1>1, <1>9, <2>2, WrapsBack DEF EndCall
  <2>4. DepthFollows(stack', depth')
    BY <1>7, <2>1, <2>3
  <2> QED BY <1>1, <2>1, <2>4, PopKeepsNoneAttached
<1>10. CASE LeaveTry
  <2>1. stack' = Below /\ stack[n].kind = "try" /\ n > 1 /\ depth' = depth
    BY <1>1, <1>8, <1>10 DEF LeaveTry
  <2>2. DepthFollows(stack', depth')
    BY <1>7, <2>1
  <2> QED BY <1>1, <2>1, <2>2, PopKeepsNoneAttached
<1>11. CASE EndLoad
  <2>1. stack' = Below /\ stack[n].kind = "unit" /\ n > 1 /\ depth' = stack[n].depth
    BY <1>1, <1>8, <1>11 DEF EndLoad, InUnit
  <2>2. DepthFollows(stack', depth')
    BY <1>7, <2>1
  <2> QED BY <1>1, <2>1, <2>2, PopKeepsNoneAttached
<1>12. ~Attach /\ ~EndAttach
  BY <1>1 DEF Attach, EndAttach, InUnit, NoneAttached
<1>13. CASE RefusedCall \/ Fail \/ Report \/ Quit \/ UNCHANGED vars
  <2>1. UNCHANGED <<stack, depth>>
    BY <1>13 DEF RefusedCall, Fail, Report, Quit, vars
  <2> QED BY <1>1, <2>1 DEF NoneAttached
<1> QED BY <1>2, <1>4, <1>5, <1>6, <1>9, <1>10, <1>11, <1>12, <1>13 DEF Next, Step, Unwind

\* The calls from a file on are those after it.
LEMMA CallsFromFile ==
    ASSUME NEW u \in Nat, NEW j \in Nat, u <= j, u >= 1, stack[u].kind = "unit"
    PROVE  Cardinality(Calls(u, j)) = CallsAfter(stack, u, j)
<1> DEFINE above == Calls(u, j)
           below == CallsIn(stack, u)
<1>1. CallsIn(stack, j) = above \union below /\ above \intersect below = {}
  <2>1. ASSUME NEW k PROVE (k \in CallsIn(stack, j)) <=> (k \in above \/ k \in below)
    BY DEF Calls, CallsIn
  <2>2. ASSUME NEW k PROVE ~(k \in above /\ k \in below)
    BY DEF Calls, CallsIn
  <2> QED BY <2>1, <2>2
<1>2. IsFiniteSet(below) /\ IsFiniteSet(above)
  BY <1>1, CallsFinite, FS_Subset
<1>3. Cardinality(above \intersect below) = 0
  BY <1>1, FS_EmptySet
<1>4. /\ Cardinality(above) \in Nat /\ Cardinality(below) \in Nat
      /\ Cardinality(above \union below) =
            Cardinality(above) + Cardinality(below) - Cardinality(above \intersect below)
  BY <1>2, FS_Union, FS_CardinalityType
<1> QED BY <1>1, <1>3, <1>4 DEF CallsAfter

\* What the invariant says of the state in which a statement is executed.
LEMMA DepthInvSuffices ==
    ASSUME TypeOK, DepthInv
    PROVE  DepthCountsActiveCalls
<1> SUFFICES ASSUME "attach" \notin uses, Executing
             PROVE  depth = Cardinality(Active)
  BY DEF DepthCountsActiveCalls
<1> DEFINE n == Len(stack)
<1>1. DepthFollows(stack, depth) /\ n \in Nat \ {0} /\ Top = stack[n]
  BY TopFacts DEF DepthInv
<1>2. \E k \in 1..n : FileAt(stack, k, n)
  BY <1>1 DEF DepthFollows
<1>3. File \in 1..n /\ FileAt(stack, File, n)
  BY <1>2 DEF File, FileAt
<1>4. stack[File].ran
  <2>1. CASE File = n
    BY <1>1, <1>3, <2>1 DEF Executing, InUnit, FileAt
  <2>2. CASE File # n
    BY <1>1, <1>3, <2>2 DEF DepthFollows, FileAt
  <2> QED BY <2>1, <2>2
<1>5. depth = CallsAfter(stack, File, n)
  BY <1>1, <1>3, <1>4 DEF DepthFollows
<1>6. Cardinality(Active) = CallsAfter(stack, File, n)
  BY <1>1, <1>3, CallsFromFile DEF Active, FileAt
<1> QED BY <1>5, <1>6

LEMMA InitDepthInv ==
    ASSUME Init
    PROVE  DepthInv
<1> SUFFICES NoneAttached /\ DepthFollows(stack, depth)
  BY DEF DepthInv
<1>1. Len(stack) = 1 /\ stack[1].kind = "unit" /\ stack[1].by = "session" /\ ~stack[1].ran
  BY DEF Init
<1>2. \A j \in 1..1 : FileAt(stack, 1, j)
  BY <1>1 DEF FileAt
<1> QED BY <1>1, <1>2 DEF NoneAttached, DepthFollows, FileAt

\* Without attached files the count that limits recursion is the number of
\* calls active since the innermost file's statement began, through errors,
\* interrupts and loaded files, and its decrement never wraps around.
THEOREM DepthIsOfActiveCalls == Spec => []DepthCountsActiveCalls
<1>1. Init => DepthInv
  BY InitDepthInv
<1>2. TypeOK /\ DepthInv /\ [Next]_vars => DepthInv'
  BY NextDepthInv
<1>3. TypeOK /\ DepthInv => DepthCountsActiveCalls
  BY DepthInvSuffices
<1> QED BY <1>1, <1>2, <1>3, TypeCorrect, PTL DEF Spec

-----------------------------------------------------------------------------
(* `trace` names the calls since the statement of the innermost file.  The  *)
(* trace of the statement that loads a file is kept with the file, and a    *)
(* handler keeps the length it truncates to.                                *)

TraceOf(s, u, j, names) ==
    /\ Len(names) = CallsAfter(s, u, j)
    /\ \A k \in (u + 1)..j : s[k].kind = "call" => names[CallsAfter(s, u, k)] = s[k].fn

TraceFollows(s, names) ==
    /\ \A u \in 1..Len(s) : FileAt(s, u, Len(s)) => TraceOf(s, u, Len(s), names)
    /\ \A k \in 2..Len(s), u \in 1..Len(s) :
          s[k].kind = "unit" /\ FileAt(s, u, k - 1) => TraceOf(s, u, k - 1, s[k].trace)
    /\ \A k \in 2..Len(s), u \in 1..Len(s) :
          s[k].kind = "try" /\ FileAt(s, u, k) => s[k].len = CallsAfter(s, u, k)

TraceInv == "attach" \notin uses => TraceFollows(stack, trace)

\* The same activations below are traced alike, whatever `ran` says of files.
Alike(s, t, n) ==
    \A k \in 1..n : /\ s[k].kind = t[k].kind
                    /\ s[k].kind = "call" => s[k].fn = t[k].fn

LEMMA AlikeFilesAndCalls ==
    ASSUME NEW s, NEW t, NEW n \in Nat, Alike(s, t, n)
    PROVE  /\ \A j \in 0..n, u \in 1..n : FileAt(t, u, j) <=> FileAt(s, u, j)
           /\ \A j \in 0..n, u \in 0..n : CallsAfter(t, u, j) = CallsAfter(s, u, j)
<1>1. \A k \in 1..n : s[k].kind = t[k].kind
  BY DEF Alike
<1>2. \A j \in 0..n, u \in 1..n : FileAt(t, u, j) <=> FileAt(s, u, j)
  BY <1>1 DEF FileAt
<1>3. \A j \in 0..n : CallsIn(t, j) = CallsIn(s, j)
  BY <1>1, CallsSame
<1> QED BY <1>2, <1>3 DEF CallsAfter

LEMMA AlikeTraces ==
    ASSUME NEW s, NEW t, NEW n \in Nat, Alike(s, t, n),
           NEW u \in 1..n, NEW j \in 0..n, NEW names, TraceOf(s, u, j, names)
    PROVE  TraceOf(t, u, j, names)
<1>1. \A i \in 0..n : CallsAfter(t, u, i) = CallsAfter(s, u, i)
  BY AlikeFilesAndCalls
<1>2. Len(names) = CallsAfter(t, u, j)
  BY <1>1 DEF TraceOf
<1>3. ASSUME NEW k \in (u + 1)..j, t[k].kind = "call"
      PROVE  names[CallsAfter(t, u, k)] = t[k].fn
  <2>1. k \in 1..n /\ k \in 0..n /\ s[k].kind = "call" /\ s[k].fn = t[k].fn
    BY <1>3 DEF Alike
  <2> QED BY <1>1, <2>1 DEF TraceOf
<1> QED BY <1>2, <1>3 DEF TraceOf

\* A call between `u` and `j` is at most the last of them.
LEMMA RankAfter ==
    ASSUME NEW s, NEW u \in Nat, NEW j \in Nat, NEW k \in (u + 1)..j, s[k].kind = "call"
    PROVE  CallsAfter(s, u, k) \in 1..CallsAfter(s, u, j)
<1>1. k \in Nat /\ k - 1 \in Nat /\ (k - 1) + 1 = k
  OBVIOUS
<1>2. Cardinality(CallsIn(s, k)) = Cardinality(CallsIn(s, k - 1)) + 1
  BY <1>1, CallsStep
<1>3. /\ CallsIn(s, u) \subseteq CallsIn(s, k - 1)
      /\ CallsIn(s, k) \subseteq CallsIn(s, j)
  BY <1>1 DEF CallsIn
<1>4. /\ Cardinality(CallsIn(s, u)) <= Cardinality(CallsIn(s, k - 1))
      /\ Cardinality(CallsIn(s, k)) <= Cardinality(CallsIn(s, j))
  BY <1>1, <1>3, CallsFinite, FS_Subset
<1>5. /\ Cardinality(CallsIn(s, u)) \in Nat /\ Cardinality(CallsIn(s, k - 1)) \in Nat
      /\ Cardinality(CallsIn(s, k)) \in Nat /\ Cardinality(CallsIn(s, j)) \in Nat
  BY <1>1, CallsFinite
<1> QED BY <1>2, <1>4, <1>5 DEF CallsAfter

LEMMA StepAfter ==
    ASSUME NEW s, NEW n \in Nat, NEW u \in Nat
    PROVE  /\ CallsAfter(s, u, n + 1) =
                  CallsAfter(s, u, n) + (IF s[n + 1].kind = "call" THEN 1 ELSE 0)
           /\ CallsAfter(s, u, n) \in Int
<1>1. Cardinality(CallsIn(s, n + 1)) =
          Cardinality(CallsIn(s, n)) + (IF s[n + 1].kind = "call" THEN 1 ELSE 0)
  BY CallsStep
<1>2. Cardinality(CallsIn(s, n)) \in Nat /\ Cardinality(CallsIn(s, u)) \in Nat
  BY CallsFinite
<1> QED BY <1>1, <1>2 DEF CallsAfter

LEMMA PushKeepsTrace ==
    ASSUME NEW s, NEW t, Len(s) \in Nat \ {0}, Len(t) = Len(s) + 1,
           \A k \in 1..Len(s) : t[k] = s[k],
           NEW names \in Seq(Funs), NEW more \in Seq(Funs), TraceFollows(s, names),
           \/ /\ t[Len(t)].kind = "call" /\ t[Len(t)].fn \in Funs
              /\ more = Append(names, t[Len(t)].fn)
           \/ t[Len(t)].kind = "try" /\ t[Len(t)].len = Len(names) /\ more = names
           \/ t[Len(t)].kind = "unit" /\ t[Len(t)].trace = names /\ more = <<>>
    PROVE  TraceFollows(t, more)
<1> DEFINE n == Len(s)
<1>0. n \in Nat /\ n >= 1 /\ Len(t) = n + 1 /\ Alike(s, t, n) /\ \A k \in 1..n : t[k] = s[k]
  BY DEF Alike
<1> HIDE DEF n
<1>1. /\ \A j \in 0..n, u \in 1..n : FileAt(t, u, j) <=> FileAt(s, u, j)
      /\ \A j \in 0..n, u \in 0..n : CallsAfter(t, u, j) = CallsAfter(s, u, j)
  BY <1>0, AlikeFilesAndCalls
<1>2. ASSUME NEW u \in 1..n, FileAt(t, u, n)
      PROVE  /\ TraceOf(t, u, n, names)
             /\ Len(names) = CallsAfter(t, u, n)
  <2>1. FileAt(s, u, n)
    BY <1>0, <1>1, <1>2
  <2>2. TraceOf(s, u, n, names)
    BY <2>1 DEF TraceFollows, n
  <2>3. n \in 0..n
    BY <1>0
  <2>4. TraceOf(t, u, n, names)
    BY <1>0, <2>2, <2>3, AlikeTraces
  <2> QED BY <2>4 DEF TraceOf
<1>3. ASSUME NEW u \in 1..n + 1, FileAt(t, u, n + 1)
      PROVE  TraceOf(t, u, n + 1, more)
  <2>1. CASE t[n + 1].kind = "unit"
    <3>1. u = n + 1 /\ more = <<>>
      BY <1>0, <1>3, <2>1 DEF FileAt
    <3>2. CallsAfter(t, u, u) = 0
      BY <1>0, CallsFinite DEF CallsAfter
    <3> QED BY <1>0, <3>1, <3>2 DEF TraceOf
  <2>2. CASE t[n + 1].kind # "unit"
    <3>1. u \in 1..n /\ u \in Nat /\ FileAt(t, u, n)
      BY <1>0, <1>3, <2>2 DEF FileAt
    <3>2. TraceOf(t, u, n, names) /\ Len(names) = CallsAfter(t, u, n)
      BY <1>2, <3>1
    <3>3. CallsAfter(t, u, n + 1) =
              CallsAfter(t, u, n) + (IF t[n + 1].kind = "call" THEN 1 ELSE 0)
      BY <1>0, <3>1, StepAfter
    <3>4. CASE t[n + 1].kind = "call"
      <4>1. more = Append(names, t[n + 1].fn)
        BY <1>0, <3>4
      <4>2. Len(more) = CallsAfter(t, u, n + 1)
        BY <3>2, <3>3, <3>4, <4>1
      <4>3. ASSUME NEW k \in (u + 1)..(n + 1), t[k].kind = "call"
            PROVE  more[CallsAfter(t, u, k)] = t[k].fn
        <5>1. CASE k = n + 1
          BY <3>2, <3>3, <3>4, <4>1, <5>1
        <5>2. CASE k # n + 1
          <6>1. k \in (u + 1)..n
            BY <1>0, <3>1, <5>2
          <6>2. CallsAfter(t, u, k) \in 1..Len(names)
            BY <1>0, <3>1, <3>2, <4>3, <6>1, RankAfter
          <6>3. names[CallsAfter(t, u, k)] = t[k].fn
            BY <3>2, <4>3, <6>1 DEF TraceOf
          <6> QED BY <4>1, <6>2, <6>3
        <5> QED BY <5>1, <5>2
      <4> QED BY <4>2, <4>3 DEF TraceOf
    <3>5. CASE t[n + 1].kind # "call"
      <4>1. more = names /\ Len(names) = CallsAfter(t, u, n + 1)
        <5>1. CallsAfter(t, u, n) \in Int
          BY <1>0, <3>1, StepAfter
        <5> QED BY <1>0, <2>2, <3>2, <3>3, <3>5, <5>1
      <4>2. ASSUME NEW k \in (u + 1)..(n + 1), t[k].kind = "call"
            PROVE  k \in (u + 1)..n
        BY <1>0, <3>1, <3>5, <4>2
      <4> QED BY <3>2, <4>1, <4>2 DEF TraceOf
    <3> QED BY <3>4, <3>5
  <2> QED BY <2>1, <2>2
<1>4. ASSUME NEW k \in 2..n + 1, NEW u \in 1..n + 1, t[k].kind = "unit", FileAt(t, u, k - 1)
      PROVE  TraceOf(t, u, k - 1, t[k].trace)
  <2>1. u \in 1..n /\ k - 1 \in 0..n
    BY <1>0, <1>4 DEF FileAt
  <2>2. CASE k = n + 1
    <3>1. k - 1 = n /\ t[k].trace = names
      BY <1>0, <1>4, <2>2
    <3> QED BY <1>2, <1>4, <2>1, <3>1
  <2>3. CASE k # n + 1
    <3>1. k \in 2..n /\ t[k] = s[k] /\ FileAt(s, u, k - 1)
      BY <1>0, <1>1, <1>4, <2>1, <2>3
    <3>2. TraceOf(s, u, k - 1, t[k].trace)
      BY <1>4, <2>1, <3>1 DEF TraceFollows, n
    <3> QED BY <1>0, <2>1, <3>2, AlikeTraces
  <2> QED BY <2>2, <2>3
<1>5. ASSUME NEW k \in 2..n + 1, NEW u \in 1..n + 1, t[k].kind = "try", FileAt(t, u, k)
      PROVE  t[k].len = CallsAfter(t, u, k)
  <2>1. CASE k = n + 1
    <3>1. u \in 1..n /\ u \in Nat /\ FileAt(t, u, n)
      BY <1>0, <1>5, <2>1 DEF FileAt
    <3>2. Len(names) = CallsAfter(t, u, n) /\ t[k].len = Len(names)
      BY <1>0, <1>2, <1>5, <2>1, <3>1
    <3>3. CallsAfter(t, u, n + 1) = CallsAfter(t, u, n) + 0 /\ CallsAfter(t, u, n) \in Int
      BY <1>0, <1>5, <2>1, <3>1, StepAfter
    <3> QED BY <2>1, <3>2, <3>3
  <2>2. CASE k # n + 1
    <3>1. k \in 2..n /\ k \in 0..n /\ u \in 1..n /\ u \in 0..n /\ t[k] = s[k]
      BY <1>0, <1>5, <2>2 DEF FileAt
    <3>2. FileAt(s, u, k)
      BY <1>1, <1>5, <3>1
    <3>3. s[k].len = CallsAfter(s, u, k)
      BY <1>5, <3>1, <3>2 DEF TraceFollows, n
    <3> QED BY <1>1, <3>1, <3>3
  <2> QED BY <2>1, <2>2
<1> QED BY <1>0, <1>3, <1>4, <1>5 DEF TraceFollows

LEMMA PopKeepsTrace ==
    ASSUME NEW s, NEW t, Len(s) \in Nat, Len(s) > 1, Len(t) = Len(s) - 1,
           \A k \in 1..Len(t) : t[k] = s[k],
           NEW names \in Seq(Funs), NEW less, TraceFollows(s, names),
           \/ s[Len(s)].kind = "call" /\ less = AllButLast(names)
           \/ s[Len(s)].kind = "try" /\ less = names
           \/ s[Len(s)].kind = "unit" /\ less = s[Len(s)].trace
    PROVE  TraceFollows(t, less)
<1> DEFINE n == Len(t)
<1>0. n \in Nat /\ n >= 1 /\ Len(s) = n + 1 /\ Alike(s, t, n) /\ \A k \in 1..n : t[k] = s[k]
  BY DEF Alike
<1> HIDE DEF n
<1>1. /\ \A j \in 0..n, u \in 1..n : FileAt(t, u, j) <=> FileAt(s, u, j)
      /\ \A j \in 0..n, u \in 0..n : CallsAfter(t, u, j) = CallsAfter(s, u, j)
  BY <1>0, AlikeFilesAndCalls
<1>2. ASSUME NEW u \in 1..n, FileAt(t, u, n)
      PROVE  TraceOf(t, u, n, less)
  <2>1. FileAt(s, u, n) /\ u \in 1..n + 1 /\ u \in Nat /\ n \in 0..n
    BY <1>0, <1>1, <1>2
  <2> SUFFICES TraceOf(s, u, n, less)
    BY <1>0, <2>1, AlikeTraces
  <2>2. CASE s[n + 1].kind = "unit"
    <3>1. less = s[n + 1].trace /\ n + 1 \in 2..Len(s) /\ (n + 1) - 1 = n
      BY <1>0, <2>2
    <3> QED BY <1>0, <2>1, <2>2, <3>1 DEF TraceFollows
  <2>3. CASE s[n + 1].kind # "unit"
    <3>1. FileAt(s, u, n + 1)
      BY <1>0, <2>1, <2>3 DEF FileAt
    <3>2. TraceOf(s, u, n + 1, names)
      BY <1>0, <2>1, <3>1 DEF TraceFollows
    <3>3. /\ CallsAfter(s, u, n + 1) =
                 CallsAfter(s, u, n) + (IF s[n + 1].kind = "call" THEN 1 ELSE 0)
          /\ CallsAfter(s, u, n) \in Int
      BY <1>0, <2>1, StepAfter
    <3>4. CASE s[n + 1].kind = "call"
      <4>1. /\ less = AllButLast(names) /\ Len(names) = CallsAfter(s, u, n) + 1
            /\ Len(names) \in Nat
        BY <1>0, <3>2, <3>3, <3>4 DEF TraceOf
      <4>2. ASSUME NEW k \in (u + 1)..n, s[k].kind = "call"
            PROVE  /\ CallsAfter(s, u, k) \in 1..CallsAfter(s, u, n)
                   /\ names[CallsAfter(s, u, k)] = s[k].fn
        <5>1. k \in (u + 1)..(n + 1)
          BY <1>0, <2>1
        <5> QED BY <1>0, <2>1, <3>2, <4>2, <5>1, RankAfter DEF TraceOf
      <4>3. CallsAfter(s, u, n) >= 0
        <5>1. CallsIn(s, u) \subseteq CallsIn(s, n)
          BY <1>0, <2>1 DEF CallsIn
        <5>2. Cardinality(CallsIn(s, u)) <= Cardinality(CallsIn(s, n))
          BY <1>0, <2>1, <5>1, CallsFinite, FS_Subset
        <5> QED BY <1>0, <2>1, <5>2, CallsFinite DEF CallsAfter
      <4>4. /\ Len(less) = CallsAfter(s, u, n)
            /\ \A i \in 1..CallsAfter(s, u, n) : less[i] = names[i]
        BY <3>3, <4>1, <4>3 DEF AllButLast
      <4> QED BY <4>2, <4>4 DEF TraceOf
    <3>5. CASE s[n + 1].kind # "call"
      <4>1. less = names /\ Len(names) = CallsAfter(s, u, n)
        BY <1>0, <2>3, <3>2, <3>3, <3>5 DEF TraceOf
      <4>2. \A k \in (u + 1)..n : k \in (u + 1)..(n + 1)
        BY <1>0, <2>1
      <4> QED BY <3>2, <4>1, <4>2 DEF TraceOf
    <3> QED BY <3>4, <3>5
  <2> QED BY <2>2, <2>3
<1>3. ASSUME NEW k \in 2..n, NEW u \in 1..n, t[k].kind = "unit", FileAt(t, u, k - 1)
      PROVE  TraceOf(t, u, k - 1, t[k].trace)
  <2>1. /\ k \in 2..Len(s) /\ u \in 1..Len(s) /\ k - 1 \in 0..n /\ t[k] = s[k]
        /\ FileAt(s, u, k - 1)
    BY <1>0, <1>1, <1>3
  <2>2. TraceOf(s, u, k - 1, t[k].trace)
    BY <1>3, <2>1 DEF TraceFollows
  <2> QED BY <1>0, <2>1, <2>2, AlikeTraces
<1>4. ASSUME NEW k \in 2..n, NEW u \in 1..n, t[k].kind = "try", FileAt(t, u, k)
      PROVE  t[k].len = CallsAfter(t, u, k)
  <2>1. /\ k \in 2..Len(s) /\ u \in 1..Len(s) /\ k \in 0..n /\ u \in 0..n /\ t[k] = s[k]
        /\ FileAt(s, u, k)
    BY <1>0, <1>1, <1>4
  <2>2. s[k].len = CallsAfter(s, u, k)
    BY <1>4, <2>1 DEF TraceFollows
  <2> QED BY <1>1, <2>1, <2>2
<1> QED BY <1>2, <1>3, <1>4 DEF TraceFollows, n

LEMMA NextTraceInv ==
    ASSUME TypeOK, DepthInv, TraceInv, [Next]_vars
    PROVE  TraceInv'
<1> SUFFICES ASSUME "attach" \notin uses, uses' = uses
             PROVE  TraceFollows(stack', trace')
  BY DEF TraceInv, Next, vars
<1> DEFINE n == Len(stack)
<1>1. /\ NoneAttached /\ DepthFollows(stack, depth) /\ TraceFollows(stack, trace)
      /\ trace \in Seq(Funs) /\ stack \in Seq(Activation)
      /\ n \in Nat \ {0} /\ Top = stack[n] /\ stack[n] \in Activation
  BY TopFacts DEF DepthInv, TraceInv, TypeOK
<1>2. CASE BeginStatement
  <2>1. stack[n].kind = "unit" /\ trace' = <<>>
    BY <1>1, <1>2 DEF BeginStatement, InUnit
  <2>2. /\ Len(stack') = n /\ Alike(stack, stack', n)
        /\ \A k \in 1..n : /\ stack[k].kind = stack'[k].kind
                           /\ stack[k].kind = "unit" => stack'[k].trace = stack[k].trace
                           /\ stack[k].kind = "try" => stack'[k].len = stack[k].len
    BY <1>1, <1>2, <2>1 DEF BeginStatement, Activation, Alike
  <2>3. /\ \A j \in 0..n, u \in 1..n : FileAt(stack', u, j) <=> FileAt(stack, u, j)
        /\ \A j \in 0..n, u \in 0..n : CallsAfter(stack', u, j) = CallsAfter(stack, u, j)
    BY <1>1, <2>2, AlikeFilesAndCalls
  <2>4. ASSUME NEW u \in 1..n, FileAt(stack', u, n) PROVE TraceOf(stack', u, n, <<>>)
    <3>1. u = n
      BY <2>1, <2>2, <2>4 DEF FileAt
    <3>2. CallsAfter(stack', n, n) = 0
      BY <1>1, CallsFinite DEF CallsAfter
    <3> QED BY <3>1, <3>2 DEF TraceOf
  <2>5. ASSUME NEW k \in 2..n, NEW u \in 1..n, stack'[k].kind = "unit", FileAt(stack', u, k - 1)
        PROVE  TraceOf(stack', u, k - 1, stack'[k].trace)
    <3>1. k - 1 \in 0..n /\ k \in 1..n
      OBVIOUS
    <3>2. /\ stack[k].kind = "unit" /\ stack'[k].trace = stack[k].trace
          /\ FileAt(stack, u, k - 1)
      BY <2>2, <2>3, <2>5, <3>1
    <3>3. TraceOf(stack, u, k - 1, stack[k].trace)
      BY <1>1, <3>2 DEF TraceFollows
    <3>4. n \in Nat
      BY <1>1
    <3> QED BY <2>2, <3>1, <3>2, <3>3, <3>4, AlikeTraces
  <2>6. ASSUME NEW k \in 2..n, NEW u \in 1..n, stack'[k].kind = "try", FileAt(stack', u, k)
        PROVE  stack'[k].len = CallsAfter(stack', u, k)
    <3>1. k \in 0..n /\ k \in 1..n /\ u \in 0..n
      OBVIOUS
    <3>2. stack[k].kind = "try" /\ stack'[k].len = stack[k].len /\ FileAt(stack, u, k)
      BY <2>2, <2>3, <2>6, <3>1
    <3> QED BY <1>1, <2>3, <3>1, <3>2 DEF TraceFollows
  <2> QED BY <2>1, <2>2, <2>4, <2>5, <2>6 DEF TraceFollows
<1>3. ASSUME NEW a, Push(a)
      PROVE  /\ Len(stack') = n + 1 /\ stack'[Len(stack')] = a
             /\ \A k \in 1..n : stack'[k] = stack[k]
  BY <1>1, <1>3 DEF Push
<1>4. ASSUME NEW f \in Funs, NEW m \in Results, Call(f, m)
      PROVE  TraceFollows(stack', trace')
  <2> DEFINE a == [kind |-> "call", fn |-> f, nres |-> m]
  <2>1. Push(a) /\ trace' = Append(trace, f) /\ a.kind = "call" /\ a.fn = f
    BY <1>4 DEF Call
  <2> HIDE DEF a
  <2>2. trace' \in Seq(Funs)
    BY <1>1, <2>1
  <2> QED BY <1>1, <1>3, <2>1, <2>2, PushKeepsTrace
<1>5. CASE BeginTry
  <2> DEFINE a == [kind |-> "try", len |-> Len(trace)]
  <2>1. Push(a) /\ trace' = trace /\ a.kind = "try" /\ a.len = Len(trace)
    BY <1>5 DEF BeginTry
  <2> HIDE DEF a
  <2> QED BY <1>1, <1>3, <2>1, PushKeepsTrace
<1>6. CASE Load
  <2>1. Push(Unit("load")) /\ trace' = <<>> /\ trace' \in Seq(Funs)
    BY <1>6 DEF Load
  <2>2. Unit("load").kind = "unit" /\ Unit("load").trace = trace
    BY DEF Unit
  <2> QED BY <1>1, <1>3, <2>1, <2>2, PushKeepsTrace
<1>7. ~(Top.kind = "unit" /\ Top.by = "session") => n > 1
  BY <1>1 DEF TypeOK
<1>8. ASSUME stack' = Below, n > 1
      PROVE  Len(stack') = n - 1 /\ \A k \in 1..Len(stack') : stack'[k] = stack[k]
  BY <1>1, <1>8 DEF Below
<1>9. CASE EndCall
  <2>1. stack' = Below /\ n > 1 /\ stack[n].kind = "call" /\ trace' = AllButLast(trace)
    BY <1>1, <1>7, <1>9 DEF EndCall
  <2> QED BY <1>1, <1>8, <2>1, PopKeepsTrace
<1>10. CASE LeaveTry
  <2>1. stack' = Below /\ n > 1 /\ stack[n].kind = "try"
    BY <1>1, <1>7, <1>10 DEF LeaveTry
  <2>2. PICK u \in 1..n : FileAt(stack, u, n)
    BY <1>1 DEF DepthFollows
  <2>3. stack[n].len = CallsAfter(stack, u, n) /\ Len(trace) = CallsAfter(stack, u, n)
    BY <1>1, <2>1, <2>2 DEF TraceFollows, TraceOf
  <2>4. trace' = trace
    BY <1>1, <1>10, <2>3 DEF LeaveTry
  <2> QED BY <1>1, <1>8, <2>1, <2>4, PopKeepsTrace
<1>11. CASE EndLoad
  <2>1. stack' = Below /\ n > 1 /\ stack[n].kind = "unit" /\ trace' = stack[n].trace
    BY <1>1, <1>7, <1>11 DEF EndLoad, InUnit
  <2> QED BY <1>1, <1>8, <2>1, PopKeepsTrace
<1>12. ~Attach /\ ~EndAttach
  BY <1>1 DEF Attach, EndAttach, InUnit, NoneAttached
<1>13. CASE RefusedCall \/ Fail \/ Report \/ Quit \/ UNCHANGED vars
  <2>1. UNCHANGED <<stack, trace>>
    BY <1>13 DEF RefusedCall, Fail, Report, Quit, vars
  <2> QED BY <1>1, <2>1
<1> QED BY <1>2, <1>4, <1>5, <1>6, <1>9, <1>10, <1>11, <1>12, <1>13 DEF Next, Step, Unwind

\* What the invariant says of the state in which a statement is executed.
LEMMA TraceInvSuffices ==
    ASSUME TypeOK, DepthInv, TraceInv
    PROVE  LoadsKeepTrace
<1> SUFFICES ASSUME "attach" \notin uses
             PROVE  /\ Len(trace) = Cardinality(Active)
                    /\ \A k \in Active : trace[Cardinality(Calls(File, k))] = stack[k].fn
  BY DEF LoadsKeepTrace, TraceShowsActiveCalls
<1> DEFINE n == Len(stack)
<1>1. DepthFollows(stack, depth) /\ TraceFollows(stack, trace) /\ n \in Nat \ {0}
  BY TopFacts DEF DepthInv, TraceInv
<1>2. File \in 1..n /\ FileAt(stack, File, n)
  <2>1. \E k \in 1..n : FileAt(stack, k, n)
    BY <1>1 DEF DepthFollows
  <2> QED BY <2>1 DEF File, FileAt
<1>3. ASSUME NEW k \in File..n
      PROVE  Cardinality(Calls(File, k)) = CallsAfter(stack, File, k)
  <2>1. File \in Nat /\ k \in Nat /\ File <= k /\ File >= 1 /\ stack[File].kind = "unit"
    BY <1>1, <1>2, <1>3 DEF FileAt
  <2> QED BY <2>1, CallsFromFile
<1>4. TraceOf(stack, File, n, trace)
  BY <1>1, <1>2 DEF TraceFollows
<1>5. Len(trace) = Cardinality(Active)
  <2>1. n \in File..n
    BY <1>1, <1>2
  <2> QED BY <1>3, <1>4, <2>1 DEF TraceOf, Active
<1>6. ASSUME NEW k \in Active PROVE trace[Cardinality(Calls(File, k))] = stack[k].fn
  <2>1. k \in (File + 1)..n /\ k \in File..n /\ stack[k].kind = "call"
    BY <1>1, <1>2, <1>6 DEF Active, Calls, FileAt
  <2> QED BY <1>3, <1>4, <2>1 DEF TraceOf
<1> QED BY <1>5, <1>6

\* Without attached files `Traceback` shows the active calls of the innermost
\* file's statement, in order, through errors that handlers stop and loaded
\* files: the length a handler truncates to is the one the trace has.
THEOREM TraceIsOfActiveCalls == Spec => []LoadsKeepTrace
<1>1. Init => DepthInv /\ TraceInv
  <2> SUFFICES ASSUME Init PROVE TraceFollows(stack, trace)
    BY InitDepthInv DEF TraceInv
  <2>1. Len(stack) = 1 /\ trace = <<>>
    BY DEF Init
  <2>2. CallsAfter(stack, 1, 1) = 0
    BY CallsFinite DEF CallsAfter
  <2> QED BY <2>1, <2>2 DEF TraceFollows, TraceOf
<1>2. TypeOK /\ DepthInv /\ TraceInv /\ [Next]_vars => DepthInv' /\ TraceInv'
  BY NextDepthInv, NextTraceInv
<1>3. TypeOK /\ DepthInv /\ TraceInv => LoadsKeepTrace
  BY TraceInvSuffices
<1> QED BY <1>1, <1>2, <1>3, TypeCorrect, PTL DEF Spec

=============================================================================
