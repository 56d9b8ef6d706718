------------------------------ MODULE RefArgs ------------------------------
(***************************************************************************)
(* How the interpreter passes reference arguments (interp/call.rs): the    *)
(* value is taken out of the caller's variable, moved into the parameter's *)
(* slot, and moved back when the call is over, however it ends.            *)
(* `call_expr` takes the references in order before it evaluates the       *)
(* optional parameters, so a call can also fail between the two.           *)
(***************************************************************************)
EXTENDS Naturals, Sequences

CONSTANTS
    Vars,       \* slots of a frame, numbered from 1; parameters come first
    Vals,       \* what a slot can hold
    ErrObject,  \* the Err object `catch e` binds
    Undef,      \* Value::Undef
    MaxFrames,  \* bound: nested activations
    MaxTries,   \* bound: nested `try` blocks of one activation
    MaxRefs,    \* bound: reference arguments of one call
    Programs    \* the kinds of programs: sets of the features they use

\* "params": a parameter expression of the call may fail.
\* "same": a call may be given the same variable twice.
\* "delete": variables are deleted.
AllFeatures == {"params", "same", "delete"}

ASSUME ConstantsAssumption ==
    /\ Vars \subseteq Nat \ {0}
    /\ Undef \notin Vals
    /\ ErrObject \in Vals
    /\ MaxFrames \in Nat \ {0}
    /\ MaxTries \in Nat
    /\ MaxRefs \in Nat
    /\ 1..MaxRefs \subseteq Vars
    /\ Programs \subseteq SUBSET AllFeatures

VARIABLES
    uses,    \* the features of the program that runs
    frames,  \* activations, the top level first: slots, the caller's variables
             \* they were given by reference, and open `try` blocks;
             \* `cells` is auxiliary: the variable each slot stands for
    mode     \* "run", "raise" (an Err propagates) or "interrupt"

vars == <<uses, frames, mode>>

Level == Len(frames)
Top == frames[Level]
Below == SubSeq(frames, 1, Level - 1)
NoSlots == [i \in Vars |-> Undef]

RefLists == UNION {[1..k -> Vars] : k \in 0..MaxRefs}
Distinct(refs) == \A j, k \in DOMAIN refs : refs[j] = refs[k] => j = k

\* The references a call of this program may be given.
Passed == {refs \in RefLists : "same" \in uses \/ Distinct(refs)}

-----------------------------------------------------------------------------
(* Moving values in and out *)

\* `take_ref`: the variable is left without a value.
Take(slots, i) == [slots EXCEPT ![i] = Undef]

\* The references of one call in order; each is taken after those before it.
TakenArgs(slots, refs) ==
    [k \in DOMAIN refs |-> IF \E j \in 1..(k - 1) : refs[j] = refs[k] THEN Undef
                           ELSE slots[refs[k]]]

TakenSlots(slots, refs) ==
    [i \in Vars |-> IF \E k \in DOMAIN refs : refs[k] = i THEN Undef ELSE slots[i]]

\* Mutant of PutBack: the arguments after the first are not written back.
PutBackFirstOnly(slots, refs, args) ==
    [i \in Vars |-> IF refs # <<>> /\ refs[1] = i THEN args[1] ELSE slots[i]]

\* `restore_refs`: the arguments go back in order, so the last one stays.
PutBack(slots, refs, args) ==
    [i \in Vars |->
        IF \E k \in DOMAIN refs : refs[k] = i
        THEN args[CHOOSE k \in DOMAIN refs :
                     refs[k] = i /\ \A l \in DOMAIN refs : refs[l] = i => l <= k]
        ELSE slots[i]]

-----------------------------------------------------------------------------
(* Statements of the innermost activation *)

Init ==
    /\ uses \in Programs
    /\ frames \in {<<[slots |-> s, refs |-> <<>>, tries |-> 0,
                     cells |-> [i \in Vars |-> <<1, i>>]]>> : s \in [Vars -> Vals \union {Undef}]}
    /\ "delete" \notin uses => \A i \in Vars : frames[1].slots[i] # Undef
    /\ mode = "run"

SetTop(slots) == [frames EXCEPT ![Level].slots = slots]

Assign(i, v) ==
    /\ mode = "run"
    /\ v = Undef => "delete" \in uses
    /\ frames' = SetTop([Top.slots EXCEPT ![i] = v])
    /\ UNCHANGED mode

\* The call goes through: the body starts with its parameters.
Call(refs) ==
    /\ mode = "run" /\ Level < MaxFrames
    /\ LET args  == TakenArgs(Top.slots, refs)
           slots == [i \in Vars |-> IF i <= Len(refs) THEN args[i] ELSE Undef]
           cells == [i \in Vars |-> IF i <= Len(refs) THEN Top.cells[refs[i]]
                                    ELSE <<Level + 1, i>>]
       IN  frames' = Append(SetTop(TakenSlots(Top.slots, refs)),
                            [slots |-> slots, refs |-> refs, tries |-> 0, cells |-> cells])
    /\ UNCHANGED mode

\* The call is refused once the references are out: a later reference is
\* bad, the callee is a function or a value that cannot be called, takes
\* another number of arguments or no such parameter, or nests too deeply.
RefusedCall(refs) ==
    /\ mode = "run"
    /\ frames' = SetTop(PutBack(TakenSlots(Top.slots, refs), refs,
                                TakenArgs(Top.slots, refs)))
    /\ mode' \in {"raise", "interrupt"}

\* The expression of an optional parameter fails.
ParamFails(refs) ==
    /\ "params" \in uses
    /\ mode = "run" /\ refs # <<>>
    /\ frames' = SetTop(TakenSlots(Top.slots, refs))
    /\ mode' \in {"raise", "interrupt"}

\* Mutant of Leave: only a call that succeeds gives its arguments back.
LeaveOnlyIfRunning ==
    /\ Level > 1 /\ Top.tries = 0
    /\ frames' = IF mode = "run"
                 THEN [Below EXCEPT ![Level - 1].slots = PutBack(@, Top.refs, Top.slots)]
                 ELSE Below
    /\ UNCHANGED mode

\* The body returned, or an error no handler is left for leaves it.
Leave ==
    /\ Level > 1 /\ Top.tries = 0
    /\ frames' = [Below EXCEPT ![Level - 1].slots = PutBack(@, Top.refs, Top.slots)]
    /\ UNCHANGED mode

BeginTry ==
    /\ mode = "run" /\ Top.tries < MaxTries
    /\ frames' = [frames EXCEPT ![Level].tries = @ + 1]
    /\ UNCHANGED mode

EndTry ==
    /\ mode = "run" /\ Top.tries > 0
    /\ frames' = [frames EXCEPT ![Level].tries = @ - 1]
    /\ UNCHANGED mode

Fail ==
    /\ mode = "run"
    /\ mode' \in {"raise", "interrupt"}
    /\ UNCHANGED frames

\* `catch e` stops an error and binds its object.
Catch(i) ==
    /\ mode = "raise" /\ Top.tries > 0
    /\ frames' = [frames EXCEPT ![Level].tries = @ - 1, ![Level].slots[i] = ErrObject]
    /\ mode' = "run"

\* An interrupt passes every handler.
Skip ==
    /\ mode = "interrupt" /\ Top.tries > 0
    /\ frames' = [frames EXCEPT ![Level].tries = 0]
    /\ UNCHANGED mode

Report ==
    /\ Level = 1 /\ mode # "run" /\ Top.tries = 0
    /\ mode' = "run"
    /\ UNCHANGED frames

Step ==
    \/ \E i \in Vars, v \in Vals \union {Undef} : Assign(i, v)
    \/ \E refs \in Passed : Call(refs) \/ RefusedCall(refs) \/ ParamFails(refs)
    \/ Leave \/ BeginTry \/ EndTry \/ Fail \/ Skip \/ Report
    \/ \E i \in Vars : Catch(i)

Next == Step /\ UNCHANGED uses

Spec == Init /\ [][Next]_vars

-----------------------------------------------------------------------------
(* Properties *)

TypeOK ==
    /\ Level \in 1..MaxFrames
    /\ mode \in {"run", "raise", "interrupt"}
    /\ \A k \in 1..Level :
        /\ frames[k].slots \in [Vars -> Vals \union {Undef}]
        /\ frames[k].refs \in Passed
        /\ frames[k].tries \in 0..MaxTries
        /\ frames[k].cells \in [Vars -> (1..MaxFrames) \X Vars]

\* A variable of the top level is without a value only while a call has it
\* ("Write back reference arguments, even if the call failed",
\* interp/call.rs:96).
NoVariableLost ==
    \A i \in Vars : frames[1].slots[i] = Undef =>
        /\ Level > 1
        /\ \E k \in DOMAIN frames[2].refs : frames[2].refs[k] = i

\* That holds for programs that delete nothing, pass no variable twice and
\* have no parameter expression that fails, however their calls nest and end.
PlainCallsGiveBack == uses = {} => NoVariableLost

\* What a cell holds: the innermost activation bound to it has the value.
Store ==
    [c \in (1..MaxFrames) \X Vars |->
        LET Bound == {k \in 1..Level : \E i \in Vars : frames[k].cells[i] = c}
            Inner == CHOOSE k \in Bound : \A l \in Bound : l <= k
        IN  IF Bound = {} THEN Undef
            ELSE frames[Inner].slots[CHOOSE i \in Vars : frames[Inner].cells[i] = c]]

\* Taking values out and putting them back implements aliasing: with
\* references to distinct variables nobody can tell the parameter from the
\* caller's variable, through nested calls, errors, handlers and interrupts.
Env == [k \in 1..Level |-> frames[k].cells]
Tries == [k \in 1..Level |-> frames[k].tries]
Refs == INSTANCE RefCells WITH env <- Env, store <- Store, tries <- Tries

\* The promise is for distinct variables and parameters that do not fail.
Promised == uses \subseteq {"delete"}

ImplementsAliasing ==
    /\ Promised => Refs!Init
    /\ [][Promised => Refs!Next]_vars

=============================================================================
