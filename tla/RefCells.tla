------------------------------ MODULE RefCells ------------------------------
(***************************************************************************)
(* What a reference argument promises: for the length of the call the      *)
(* parameter is the caller's variable.  A variable is bound to a cell, a   *)
(* call `p(~x)` binds p's parameter to the cell of x, and an assignment to *)
(* either is seen through both, whether the call returns or fails.         *)
(***************************************************************************)
EXTENDS Naturals, Sequences

CONSTANTS
    Vars,       \* the variables of one activation, numbered; parameters first
    Vals,       \* what they can hold
    ErrObject,  \* the value `catch e` binds
    Undef,      \* no value
    MaxFrames,  \* bound: nested activations
    MaxRefs     \* bound: reference arguments of one call

Cells == (1..MaxFrames) \X Vars

VARIABLES
    env,    \* the cell of each variable of each activation, innermost last
    store,  \* the value in each cell
    tries,  \* open `try` blocks of each activation
    mode    \* "run", "raise" (an error propagates) or "interrupt"

vars == <<env, store, tries, mode>>

Level == Len(env)
Bottom == <<[i \in Vars |-> <<1, i>>]>>

Init ==
    /\ env = Bottom
    /\ store \in [Cells -> Vals \union {Undef}]
    /\ \A c \in Cells : c[1] # 1 => store[c] = Undef
    /\ tries = <<0>>
    /\ mode = "run"

Set(i, v) == store' = [store EXCEPT ![env[Level][i]] = v]

Assign(i, v) ==
    /\ mode = "run"
    /\ Set(i, v)
    /\ UNCHANGED <<env, tries, mode>>

Call(refs) ==
    /\ mode = "run"
    /\ env' = Append(env, [i \in Vars |-> IF i <= Len(refs) THEN env[Level][refs[i]]
                                          ELSE <<Level + 1, i>>])
    /\ tries' = Append(tries, 0)
    /\ UNCHANGED <<store, mode>>

\* The locals of the innermost activation cease to exist with it.
Leave ==
    /\ Level > 1
    /\ tries[Level] = 0
    /\ env' = SubSeq(env, 1, Level - 1)
    /\ store' = [c \in Cells |-> IF c[1] = Level THEN Undef ELSE store[c]]
    /\ tries' = SubSeq(tries, 1, Level - 1)
    /\ UNCHANGED mode

BeginTry ==
    /\ mode = "run"
    /\ tries' = [tries EXCEPT ![Level] = @ + 1]
    /\ UNCHANGED <<env, store, mode>>

EndTry ==
    /\ mode = "run" /\ tries[Level] > 0
    /\ tries' = [tries EXCEPT ![Level] = @ - 1]
    /\ UNCHANGED <<env, store, mode>>

\* A statement fails, or the user interrupts it.
Fail ==
    /\ mode = "run"
    /\ mode' \in {"raise", "interrupt"}
    /\ UNCHANGED <<env, store, tries>>

Catch(i) ==
    /\ mode = "raise" /\ tries[Level] > 0
    /\ mode' = "run"
    /\ tries' = [tries EXCEPT ![Level] = @ - 1]
    /\ Set(i, ErrObject)
    /\ UNCHANGED env

\* No handler is left: `try` does not stop an interrupt.
Skip ==
    /\ mode = "interrupt" /\ tries[Level] > 0
    /\ tries' = [tries EXCEPT ![Level] = 0]
    /\ UNCHANGED <<env, store, mode>>

\* The failed top-level statement is over.
Report ==
    /\ Level = 1 /\ mode # "run" /\ tries[1] = 0
    /\ mode' = "run"
    /\ UNCHANGED <<env, store, tries>>

RefLists == UNION {[1..k -> Vars] : k \in 0..MaxRefs}

Next ==
    \/ \E i \in Vars, v \in Vals \union {Undef} : Assign(i, v)
    \/ \E refs \in RefLists : Level < MaxFrames /\ Call(refs)
    \/ Leave \/ BeginTry \/ EndTry \/ Fail \/ Skip \/ Report
    \/ \E i \in Vars : Catch(i)

Spec == Init /\ [][Next]_vars

=============================================================================
