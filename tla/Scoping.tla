------------------------------- MODULE Scoping -------------------------------
(***************************************************************************)
(* What compiled code does with names (eval.rs, call.rs, iter.rs), beside  *)
(* what scoping means: `env`, the value of every name at every moment.  A  *)
(* function takes along the values that the names around it have when it   *)
(* is made; what it assigns is its own.  The code has slots, lists of      *)
(* captures and initial values instead.                                    *)
(***************************************************************************)
EXTENDS Compiler

CONSTANTS
    Intrinsics,   \* the names that have a meaning without being assigned
    MaxTokens,    \* bound: tokens of a statement, ends not counted
    MaxFunctions, \* bound: functions of a statement
    MaxData,      \* bound: data made
    MaxMade,      \* bound: function values made
    MaxCalls      \* bound: calls

VARIABLES
    uses,      \* the tokens of the program's functions: "names" or "exits"
    tokens,    \* tokens of the statement so far
    globals,   \* the values of the identifiers
    data,      \* how many data there are: they are 1..data
    made,      \* the function values, as they were made
    calls,     \* how many calls there have been
    frames     \* the frames being run, innermost last

vars == <<scopes, forwards, uses, tokens, globals, data, made, calls, frames>>

Undef == 0
Intrinsic == -1
Dynamic == -2             \* in `env`: looked up at the top level at each read
Argument(k) == 90 + k     \* of the call after k calls
Func(k) == 100 + k
IsFunc(v) == v > 100

ASSUME BoundsAssumption ==
    /\ Bound \subseteq Names /\ Intrinsics \subseteq Names \ Bound
    /\ MaxData \in Nat /\ MaxData < 90 /\ MaxCalls \in Nat /\ MaxCalls <= 10
    /\ IsFiniteSet(Bound) /\ NoName \notin Names

Idle == scopes = <<>> /\ frames = <<>>
Running == scopes = <<>> /\ frames # <<>>
Fr == frames[Len(frames)]
Here == Fr.code.body[Fr.pc]
At(ops) == Running /\ Fr.pc <= Len(Fr.code.body) /\ Here.op \in ops

-----------------------------------------------------------------------------
\* `lookup_variable` and `lookup_global`.
LookupVariable(n) == globals[n]
LookupGlobal(n) == IF globals[n] = Undef /\ n \in Intrinsics THEN Intrinsic ELSE globals[n]

\* `eval` of what an identifier was resolved to.
Eval(f, n, ex) ==
    CASE ex.kind = "local"   -> f.slots[ex.at]
      [] ex.kind = "capture" -> f.captures[ex.at]
      [] ex.kind = "self"    -> f.self
      [] ex.kind = "global"  -> LookupGlobal(n)
      [] ex.kind = "init"    -> LookupVariable(n)

\* The values captured by a function of `code` made in frame `f`; a value of 0
\* that is not the initial one of a local is an error.
Captures(f, code) ==
    [i \in DOMAIN code.captures |-> Eval(f, code.captures[i].name, code.captures[i].source)]

CapturesAll(f, code) ==
    \A i \in DOMAIN code.captures :
        \/ Captures(f, code)[i] # Undef
        \/ code.captures[i].source.kind \in {"capture", "init"}
        \/ \E slot \in 1..code.slots : <<slot, i>> \in code.inits

\* What `n` means in frame `f`, and to a function made there.
Means(f, n) == IF f.env[n] = Dynamic THEN LookupGlobal(n) ELSE f.env[n]

EnvOf(f, code) ==
    [n \in Names |->
        IF f.env[n] # Dynamic THEN f.env[n]
        ELSE IF n \in code.assigned THEN LookupVariable(n)
        ELSE IF n \in forwards THEN Dynamic
        ELSE LookupGlobal(n)]

-----------------------------------------------------------------------------
\* The frame of a call of the k-th function value, all its arguments `v`.
NewFrame(k, v) ==
    LET m == made[k]
        Slot(s) == IF \E n \in Names : m.code.params[n] = s THEN v
                   ELSE IF \E i \in DOMAIN m.captures : <<s, i>> \in m.code.inits
                   THEN m.captures[CHOOSE i \in DOMAIN m.captures : <<s, i>> \in m.code.inits]
                   ELSE Undef
    IN  [code |-> m.code, pc |-> 1, captures |-> m.captures, self |-> Func(k),
         slots |-> [s \in 1..m.code.slots |-> Slot(s)], loops |-> <<>>,
         env |-> [n \in Names |->
                    IF m.code.params[n] # 0 THEN v
                    ELSE IF n = m.code.name /\ n \in m.code.assigned THEN Undef
                    ELSE IF n = m.code.name THEN Func(k)
                    ELSE m.env[n]]]

Change(f) == frames' = [frames EXCEPT ![Len(frames)] = f]
Goto(f, pc) == [f EXCEPT !.pc = pc]

\* An error ends the statement.
Fail == frames' = <<>>

\* `n` gets value `v` at the place it was resolved to.
Stored(f, n, place, v) ==
    CASE place.kind = "local" -> [f EXCEPT !.slots[place.at] = v, !.env[n] = v]
      [] place.kind \in {"global", "none"} -> f

StoreGlobal(n, place, v) ==
    globals' = IF place.kind = "global" THEN [globals EXCEPT ![n] = v] ELSE globals

\* `call_closure`, by the frame that goes on as `f` afterwards.
CallFrom(fs, k) ==
    /\ calls < MaxCalls
    /\ calls' = calls + 1
    /\ frames' = Append(fs, NewFrame(k, Argument(calls)))

Frozen == UNCHANGED <<scopes, forwards, uses, tokens>>

\* A read, of a function value perhaps in order to call it.
Get ==
    /\ At({"get"})
    /\ LET v == Eval(Fr, Here.name, Here.ex)
           fs == [frames EXCEPT ![Len(frames)].pc = @ + 1]
       IN  \/ v = Undef /\ Fail /\ UNCHANGED calls
           \/ v # Undef /\ frames' = fs /\ UNCHANGED calls
           \/ IsFunc(v) /\ CallFrom(fs, v - 100)
    /\ UNCHANGED <<globals, data, made>> /\ Frozen

Put ==
    /\ At({"put"}) /\ data < MaxData
    /\ data' = data + 1
    /\ Change(Goto(Stored(Fr, Here.name, Here.ex, data + 1), Fr.pc + 1))
    /\ StoreGlobal(Here.name, Here.ex, data + 1)
    /\ UNCHANGED <<made, calls>> /\ Frozen

\* `make_closure`, and the assignment to the function's name.
MakeClosure ==
    /\ At({"closure"}) /\ Len(made) < MaxMade
    /\ LET code == Here.code
           v == Func(Len(made) + 1)
       IN  IF CapturesAll(Fr, code)
           THEN /\ made' = Append(made, [code |-> code, captures |-> Captures(Fr, code),
                                         env |-> EnvOf(Fr, code)])
                /\ Change(Goto(Stored(Fr, code.name, Here.ex, v), Fr.pc + 1))
                /\ StoreGlobal(code.name, Here.ex, v)
           ELSE Fail /\ UNCHANGED <<made, globals>>
    /\ UNCHANGED <<data, calls>> /\ Frozen

-----------------------------------------------------------------------------
\* The end of the loop that begins at `pc`.
EndOf(body, pc) ==
    LET Begun(j) == Cardinality({i \in pc..j : body[i].op = "loop"})
        Closed(j) == Cardinality({i \in pc..j : body[i].op = "end"})
    IN  CHOOSE j \in pc..Len(body) :
          /\ Begun(j) = Closed(j)
          /\ \A i \in pc..j - 1 : Begun(i) # Closed(i)

\* The frame without its loops from the k-th on: the names they bound mean again
\* what they meant before.
Left(f, k) ==
    LET Hid(n) == {j \in k..Len(f.loops) : f.loops[j].var = n}
    IN  [f EXCEPT !.loops = SubSeq(@, 1, k - 1),
                  !.env = [n \in Names |-> IF Hid(n) = {} THEN @[n]
                                           ELSE f.loops[Min(Hid(n))].hides]]

\* The next element: the variable gets it, in a slot of its own.
WithElement(f, loop, v) ==
    IF loop.var = NoName THEN f
    ELSE [f EXCEPT !.slots[loop.slot] = v, !.env[loop.var] = v]

\* A loop begins, or its domain is empty.
Loop ==
    /\ At({"loop"}) /\ data < MaxData
    /\ LET n == Here.name
           loop == [var |-> n, slot |-> Here.ex.at, at |-> Fr.pc,
                    hides |-> IF n = NoName THEN Undef ELSE Fr.env[n]]
       IN  \/ /\ Change(Goto(WithElement([Fr EXCEPT !.loops = Append(@, loop)], loop, data + 1),
                             Fr.pc + 1))
              /\ data' = data + 1
           \/ /\ Change(Goto(Fr, EndOf(Fr.code.body, Fr.pc) + 1))
              /\ UNCHANGED data
    /\ UNCHANGED <<globals, made, calls>> /\ Frozen

\* The end of the body: another element, or none.
Again ==
    /\ At({"end"}) /\ data < MaxData
    /\ LET loop == Fr.loops[Len(Fr.loops)]
       IN  \/ Change(Goto(WithElement(Fr, loop, data + 1), loop.at + 1)) /\ data' = data + 1
           \/ Change(Goto(Left(Fr, Len(Fr.loops)), Fr.pc + 1)) /\ UNCHANGED data
    /\ UNCHANGED <<globals, made, calls>> /\ Frozen

\* Mutant of Taker: the innermost loop takes every exit.
TakerInnermost(f, label) == Len(f.loops)

\* The loop that takes `Flow::Break(label)` or `Flow::Continue(label)` as it is
\* handed outwards, 0 if none does: `while` and `repeat` take those without a
\* label, `for` those with its variable too.
Taker(f, label) ==
    LET ks == {k \in DOMAIN f.loops : label = NoName \/ f.loops[k].var = label}
    IN  IF ks = {} THEN 0 ELSE Max(ks)

\* An exit, in an `if` that is taken or not.
TakeExit ==
    /\ At({"break", "continue"})
    /\ LET k == Taker(Fr, Here.name)
           end == EndOf(Fr.code.body, Fr.loops[k].at)
       IN  \/ Change(Goto(Fr, Fr.pc + 1))
           \/ k = 0 /\ Fail
           \/ k # 0 /\ Here.op = "break" /\ Change(Goto(Left(Fr, k), end + 1))
           \/ k # 0 /\ Here.op = "continue" /\ Change(Goto(Left(Fr, k + 1), end))
    /\ UNCHANGED <<globals, data, made, calls>> /\ Frozen

\* The end of a function, or of the statement.
Return ==
    /\ Running /\ Fr.pc > Len(Fr.code.body)
    /\ frames' = SubSeq(frames, 1, Len(frames) - 1)
    /\ UNCHANGED <<globals, data, made, calls>> /\ Frozen

-----------------------------------------------------------------------------
\* `run_top_statement`: the statement is compiled, and then run in a frame of
\* its own.
RunUnit ==
    /\ Compiled
    /\ LET sc == scopes[1]
           code == [name |-> NoName, params |-> sc.params, assigned |-> {}, slots |-> sc.slots,
                    inits |-> {}, captures |-> <<>>, body |-> sc.body]
       IN  frames' = <<[code |-> code, pc |-> 1, captures |-> <<>>, self |-> Undef,
                        slots |-> [s \in 1..sc.slots |-> Undef], loops |-> <<>>,
                        env |-> [n \in Names |-> Dynamic]]>>
    /\ scopes' = <<>>
    /\ UNCHANGED <<forwards, uses, tokens, globals, data, made, calls>>

Token == tokens' = tokens + 1
Runtime == UNCHANGED <<forwards, uses, globals, data, made, calls, frames>>

\* The functions of the statement so far.
Functions == Len(scopes) - 1
    + FoldFunction(LAMBDA sc, n : n + Cardinality({k \in DOMAIN sc.body : sc.body[k].op = "closure"}),
                   0, scopes)

Compile ==
    \/ /\ Idle /\ tokens = 0 /\ ReadStatement /\ UNCHANGED tokens
    \/ /\ tokens < MaxTokens /\ Token
       /\ \/ \E n \in Names : uses = "names" /\ tokens > 0 /\ Read(n)
          \/ \E n \in Bound : uses = "names" /\ tokens > 0 /\ Write(n)
          \/ \E n \in Bound \union {NoName}, ps, as \in SUBSET Bound :
                /\ Functions < MaxFunctions
                /\ uses = "exits" => n = NoName /\ ps = {} /\ as = {}
                /\ BeginFunction(n, ps, as)
          \/ \E n \in IF uses = "names" THEN Bound ELSE Names \union {NoName} : BeginLoop(n)
          \/ \E kind \in {"break", "continue"}, l \in Names \union {NoName} :
                uses = "exits" /\ Exit(kind, l)
    \/ (EndFunction \/ EndLoop) /\ UNCHANGED tokens

\* Other statements of the top level: an assignment, and a call of a function
\* value that an earlier one has left somewhere.
SetGlobal(n) ==
    /\ Idle /\ data < MaxData /\ made # <<>> /\ calls < MaxCalls
    /\ globals' = [globals EXCEPT ![n] = data + 1] /\ data' = data + 1
    /\ UNCHANGED <<made, calls, frames>> /\ Frozen

CallMade(k) ==
    /\ Idle
    /\ CallFrom(<<>>, k)
    /\ UNCHANGED <<globals, data, made>> /\ Frozen

Init ==
    /\ uses \in {"names", "exits"}
    /\ forwards \in SUBSET (IF uses = "names" THEN Names \ Bound ELSE {})
    /\ scopes = <<>> /\ frames = <<>> /\ tokens = 0
    /\ globals \in {[n \in Names |-> IF n \in b THEN 1 ELSE Undef] :
                       b \in IF uses = "names" THEN {{}, Bound} ELSE {{}}}
    /\ data = 1 /\ made = <<>> /\ calls = 0

Next ==
    \/ Compile /\ Runtime
    \/ RunUnit
    \/ Get \/ Put \/ MakeClosure \/ Loop \/ Again \/ TakeExit \/ Return
    \/ \E n \in Names : SetGlobal(n)
    \/ \E k \in DOMAIN made : CallMade(k)

Spec == Init /\ [][Next]_vars

-----------------------------------------------------------------------------
\* Every read sees what the name means where it stands: the value that it had
\* when the function was made, through however many functions and whichever of
\* them mention it, the function's own once it assigns it, a loop's while it is
\* in the loop. Intrinsics that a function assigns are left out (README).
ReadsSeeTheirVariable ==
    At({"get"}) => Eval(Fr, Here.name, Here.ex) = Means(Fr, Here.name)

\* An exit finds a loop of its own function, however functions and loops are
\* nested, and the one whose variable its label is where it stands.
ExitsFindTheirLoop ==
    At({"break", "continue"}) =>
        LET k == Taker(Fr, Here.name)
        IN  k # 0 /\ (Here.name # NoName => Fr.loops[k].slot = Here.ex.at)
=============================================================================
