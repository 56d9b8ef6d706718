------------------------------ MODULE Compiler ------------------------------
(***************************************************************************)
(* How compile.rs resolves identifiers.  A statement is read token by      *)
(* token, as far as scopes can tell: reads and assignments of names,       *)
(* functions, loops and exits from them.  `scopes` are the functions being *)
(* compiled, each inside the one before; the first is the top level.  The  *)
(* code of a function is the sequence of its instructions.                 *)
(***************************************************************************)
EXTENDS Integers, Sequences, FiniteSetsExt

CONSTANTS
    Names,      \* identifiers
    Bound       \* bound: those that functions and loops bind

VARIABLES
    scopes,     \* `Compiler::scopes`; empty between statements
    forwards    \* the names declared forward

NoName == ""    \* a function without a name, a loop without a variable

-----------------------------------------------------------------------------
TopScope ==
    [top |-> TRUE, name |-> NoName, params |-> [n \in Names |-> 0], assigned |-> {},
     locals |-> [n \in Names |-> 0], bindings |-> <<>>, slots |-> 0,
     captures |-> <<>>, inits |-> {}, loops |-> <<>>, body |-> <<>>]

\* `Scope::lookup`: the slot of a name, 0 if it has none.
Lookup(sc, n) ==
    LET bs == {k \in DOMAIN sc.bindings : sc.bindings[k].name = n}
    IN  IF bs # {} THEN sc.bindings[Max(bs)].slot ELSE sc.locals[n]

CapIndex(sc, n) ==
    LET cs == {k \in DOMAIN sc.captures : sc.captures[k].name = n}
    IN  IF cs = {} THEN 0 ELSE Max(cs)

\* `bind`: a loop variable hides what had its name.
Bind(sc, n) ==
    [sc EXCEPT !.slots = @ + 1, !.bindings = Append(@, [name |-> n, slot |-> sc.slots + 1])]

Unbind(sc) == [sc EXCEPT !.bindings = SubSeq(@, 1, Len(@) - 1)]

\* A scope that `capture_source` need not go beyond for `n`.
Knows(sc, n) ==
    \/ Lookup(sc, n) # 0 \/ CapIndex(sc, n) # 0
    \/ sc.name = n \/ sc.top \/ n \in forwards

\* Where a function made in scope `sc` finds `n`; `mode` is what becomes of a
\* global: "global" (it must have a value) or "init" (of a local).
SourceIn(sc, n, mode) ==
    IF Lookup(sc, n) # 0 THEN [kind |-> "local", at |-> Lookup(sc, n)]
    ELSE IF sc.name = n THEN [kind |-> "self", at |-> 0]
    ELSE IF sc.top \/ n \in forwards THEN [kind |-> mode, at |-> 0]
    ELSE [kind |-> "capture", at |-> CapIndex(sc, n)]

\* Mutant of CaptureInto: the functions in between capture nothing, and the
\* innermost takes the place in the frame that makes it for its own.
CaptureIntoInnermost(scs, n, mode) ==
    LET si == Len(scs)
        from == Max({k \in 1..si - 1 : Knows(scs[k], n)})
    IN  [scs EXCEPT ![si].captures =
            Append(@, [name |-> n, source |-> SourceIn(scs[from], n, mode)])]

\* `capture_source` and `add_capture`: the innermost function captures `n`, and
\* so do those around it up to one that knows it.
CaptureInto(scs, n, mode) ==
    LET si == Len(scs)
        from == Max({k \in 1..si - 1 : Knows(scs[k], n)})
        Source(i) == IF i = from + 1 THEN SourceIn(scs[from], n, mode)
                     ELSE [kind |-> "capture", at |-> Len(scs[i - 1].captures) + 1]
    IN  [i \in 1..si |->
            IF i <= from THEN scs[i]
            ELSE [scs[i] EXCEPT !.captures = Append(@, [name |-> n, source |-> Source(i)])]]

\* `resolve`: the scopes after it, and what to evaluate.
Resolve(scs, n) ==
    LET sc == scs[Len(scs)]
        captured == IF CapIndex(sc, n) # 0 THEN scs ELSE CaptureInto(scs, n, "global")
    IN  IF Lookup(sc, n) # 0 \/ sc.name = n \/ sc.top \/ n \in forwards
        THEN [scopes |-> scs, ex |-> SourceIn(sc, n, "global")]
        ELSE [scopes |-> captured,
              ex |-> [kind |-> "capture", at |-> CapIndex(captured[Len(scs)], n)]]

\* `place`: a name that is assigned to and has no slot is a global.
Place(sc, n) == [kind |-> IF Lookup(sc, n) # 0 THEN "local" ELSE "global", at |-> Lookup(sc, n)]

NoPlace == [kind |-> "none", at |-> 0]

Emit(scs, instr) == [scs EXCEPT ![Len(scs)].body = Append(@, instr)]

Instr(op, n, ex, code) == [op |-> op, name |-> n, ex |-> ex, code |-> code]

-----------------------------------------------------------------------------
ReadStatement ==
    /\ scopes = <<>>
    /\ scopes' = <<TopScope>>

Read(n) ==
    /\ scopes # <<>>
    /\ LET r == Resolve(scopes, n)
       IN  scopes' = Emit(r.scopes, Instr("get", n, r.ex, <<>>))

\* `scan_block` has found all names that the function assigns.
Write(n) ==
    /\ scopes # <<>>
    /\ LET sc == scopes[Len(scopes)]
       IN  /\ sc.top \/ n \in sc.assigned \/ sc.params[n] # 0
           /\ scopes' = Emit(scopes, Instr("put", n, Place(sc, n), <<>>))

\* The slots of the parameters and then those of the assigned names.
SlotOf(params, assigned, n) ==
    LET order == CHOOSE f \in [params \union assigned -> 1..Cardinality(params \union assigned)] :
                   /\ \A a, b \in params \union assigned : a # b => f[a] # f[b]
                   /\ \A a \in params, b \in assigned \ params : f[a] < f[b]
    IN  IF n \in params \union assigned THEN order[n] ELSE 0

Opened(name, params, assigned, around) ==
    LET slot == [n \in Names |-> SlotOf(params, assigned, n)]
        sc == [TopScope EXCEPT !.top = FALSE, !.name = name, !.assigned = assigned,
                   !.params = [n \in Names |-> IF n \in params THEN slot[n] ELSE 0],
                   !.locals = slot, !.slots = Cardinality(params \union assigned)]
    IN  Append(around, sc)

\* "Locals start with the value of the same name outside, if any".
WithInit(n, scs) ==
    LET now == CaptureInto(scs, n, "init")
        si == Len(scs)
    IN  [now EXCEPT ![si].inits =
            @ \union {<<now[si].locals[n], Len(now[si].captures)>>}]

\* But for the function's own name.
Initial(sc) == {n \in sc.assigned : sc.params[n] = 0 /\ sc.name # n}

WithInits(scs) == FoldSet(WithInit, scs, Initial(scs[Len(scs)]))

\* `function_code` up to the body.
BeginFunction(name, params, assigned) ==
    /\ scopes # <<>>
    /\ LET sc == scopes[Len(scopes)]
       IN  name # NoName => sc.top \/ name \in sc.assigned
    /\ scopes' = WithInits(Opened(name, params, assigned, scopes))

\* The rest of it.  `function f ... end function` also assigns to f.
EndFunction ==
    /\ Len(scopes) > 1
    /\ LET sc == scopes[Len(scopes)]
           outer == SubSeq(scopes, 1, Len(scopes) - 1)
           code == [name |-> sc.name, params |-> sc.params, assigned |-> sc.assigned,
                    slots |-> sc.slots, inits |-> sc.inits, captures |-> sc.captures,
                    body |-> sc.body]
           to == IF sc.name = NoName THEN NoPlace ELSE Place(outer[Len(outer)], sc.name)
       IN  /\ sc.loops = <<>>
           /\ scopes' = Emit(outer, Instr("closure", sc.name, to, code))

\* `for`, `while` and `repeat`.
BeginLoop(n) ==
    /\ scopes # <<>>
    /\ LET sc == scopes[Len(scopes)]
           inside == [(IF n = NoName THEN sc ELSE Bind(sc, n)) EXCEPT !.loops = Append(@, n)]
           slot == IF n = NoName THEN NoPlace ELSE [kind |-> "local", at |-> inside.slots]
       IN  scopes' = Emit([scopes EXCEPT ![Len(scopes)] = inside],
                          Instr("loop", n, slot, <<>>))

EndLoop ==
    /\ scopes # <<>>
    /\ LET sc == scopes[Len(scopes)]
           n == sc.loops[Len(sc.loops)]
           after == [(IF n = NoName THEN sc ELSE Unbind(sc)) EXCEPT
                       !.loops = SubSeq(@, 1, Len(@) - 1)]
       IN  /\ sc.loops # <<>>
           /\ scopes' = Emit([scopes EXCEPT ![Len(scopes)] = after],
                             Instr("end", n, NoPlace, <<>>))

\* `break` and `continue`, with or without a label; what the label means here as
\* an identifier is kept beside it.
Exit(kind, label) ==
    /\ scopes # <<>>
    /\ LET sc == scopes[Len(scopes)]
       IN  /\ sc.loops # <<>>
           /\ label = NoName \/ \E k \in DOMAIN sc.loops : sc.loops[k] = label
           /\ scopes' = Emit(scopes, Instr(kind, label,
                  IF label = NoName THEN NoPlace ELSE [kind |-> "local", at |-> Lookup(sc, label)],
                  <<>>))

\* The statement is compiled.
Compiled == Len(scopes) = 1 /\ scopes[1].loops = <<>>
=============================================================================
