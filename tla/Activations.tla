---------------------------- MODULE Activations ----------------------------
(***************************************************************************)
(* The interpreter's bookkeeping of what is being executed: `depth`,       *)
(* `trace` and `nresults_stack` (interp/call.rs), which follow the native  *)
(* stack of calls, `try` blocks and files being run (session.rs,           *)
(* interp/stmt.rs) through returns, errors, interrupts and `quit`.         *)
(*                                                                         *)
(* A file is run statement by statement; each of its statements starts     *)
(* with an empty trace at depth zero.  `load_file` puts the trace and the  *)
(* depth of the loading statement back, `attach` does not.                 *)
(***************************************************************************)
EXTENDS Naturals, Sequences, FiniteSets

CONSTANTS
    Funs,      \* user functions and procedures
    Results,   \* how many results a call can be asked for
    MaxDepth,  \* `max_depth`
    Width,     \* `depth` counts modulo Width (usize in a release build)
    MaxStack,  \* bound: the native stack
    Programs   \* the kinds of programs: sets of the file statements they use

AllFeatures == {"load", "attach"}

ASSUME ConstantsAssumption ==
    /\ Results \subseteq Nat
    /\ MaxDepth \in Nat /\ Width \in Nat /\ MaxDepth < Width
    /\ MaxStack \in Nat \ {0}
    /\ Programs \subseteq SUBSET AllFeatures

VARIABLES
    uses,      \* the file statements of the program that runs
    stack,     \* what is being executed, the session first
    depth,     \* active calls, as the interpreter counts them
    trace,     \* their names
    nresults,  \* the results requested from them
    mode,      \* "run", "raise" (an error propagates) or "interrupt"
    quit       \* `quit` was executed

vars == <<uses, stack, depth, trace, nresults, mode, quit>>

Top == stack[Len(stack)]
Below == SubSeq(stack, 1, Len(stack) - 1)
Push(a) == /\ Len(stack) < MaxStack
           /\ stack' = Append(stack, a)

Unit(by) == [kind |-> "unit", by |-> by, ran |-> FALSE, trace |-> trace, depth |-> depth]

InUnit == Top.kind = "unit"
\* A statement is being executed: one of a file's, or one in a body.
Executing == mode = "run" /\ (InUnit => Top.ran)

AllButLast(s) == IF s = <<>> THEN s ELSE SubSeq(s, 1, Len(s) - 1)

-----------------------------------------------------------------------------
Init ==
    /\ uses \in Programs
    /\ stack = <<[kind |-> "unit", by |-> "session", ran |-> FALSE,
                  trace |-> <<>>, depth |-> 0]>>
    /\ depth = 0 /\ trace = <<>> /\ nresults = <<>>
    /\ mode = "run"
    /\ quit = FALSE

\* The next statement of the innermost file.  `quit` is looked at after a
\* statement, so a file always gets to its first one.
BeginStatement ==
    /\ mode = "run" /\ InUnit
    /\ Top.ran => ~quit
    /\ stack' = [stack EXCEPT ![Len(stack)].ran = TRUE]
    /\ trace' = <<>> /\ depth' = 0
    /\ UNCHANGED <<nresults, mode, quit>>

Call(f, n) ==
    /\ Executing /\ depth < MaxDepth
    /\ Push([kind |-> "call", fn |-> f, nres |-> n])
    /\ depth' = depth + 1
    /\ trace' = Append(trace, f)
    /\ nresults' = Append(nresults, n)
    /\ UNCHANGED <<mode, quit>>

\* "Recursion depth exceeded"
RefusedCall ==
    /\ Executing /\ depth >= MaxDepth
    /\ mode' = "raise"
    /\ UNCHANGED <<stack, depth, trace, nresults, quit>>

\* Mutant of EndCall: a failed call leaves its entry for the handler.
EndCallKeepsFailed ==
    /\ Top.kind = "call"
    /\ stack' = Below
    /\ depth' = (depth + Width - 1) % Width
    /\ trace' = AllButLast(trace)
    /\ nresults' = IF mode = "run" THEN AllButLast(nresults) ELSE nresults
    /\ UNCHANGED <<mode, quit>>

\* Mutant of EndCall: the count is of a signed type.
EndCallSigned ==
    /\ Top.kind = "call"
    /\ stack' = Below
    /\ depth' = depth - 1
    /\ trace' = AllButLast(trace)
    /\ nresults' = AllButLast(nresults)
    /\ UNCHANGED <<mode, quit>>

\* The body of a call is left, by a return or by an error.
EndCall ==
    /\ Top.kind = "call"
    /\ stack' = Below
    /\ depth' = (depth + Width - 1) % Width
    /\ trace' = AllButLast(trace)
    /\ nresults' = AllButLast(nresults)
    /\ UNCHANGED <<mode, quit>>

BeginTry ==
    /\ Executing
    /\ Push([kind |-> "try", len |-> Len(trace)])
    /\ UNCHANGED <<depth, trace, nresults, mode, quit>>

\* Mutant of LeaveTry: a handler stops interrupts too.
LeaveTryCatchesAll ==
    /\ Top.kind = "try"
    /\ stack' = Below
    /\ trace' = IF mode = "raise" THEN SubSeq(trace, 1, Top.len) ELSE trace
    /\ mode' = "run"
    /\ UNCHANGED <<depth, nresults, quit>>

\* A handler stops an error, never an interrupt, and truncates the trace.
LeaveTry ==
    /\ Top.kind = "try"
    /\ stack' = Below
    /\ trace' = IF mode = "raise" /\ Top.len < Len(trace)
                THEN SubSeq(trace, 1, Top.len) ELSE trace
    /\ mode' = IF mode = "raise" THEN "run" ELSE mode
    /\ UNCHANGED <<depth, nresults, quit>>

Load ==
    /\ "load" \in uses
    /\ Executing
    /\ Push(Unit("load"))
    /\ trace' = <<>>
    /\ UNCHANGED <<depth, nresults, mode, quit>>

\* `Attach` and `import`, and the re-attachment of a changed package before
\* a statement.
Attach ==
    /\ "attach" \in uses
    /\ Executing
    /\ Push(Unit("attach"))
    /\ UNCHANGED <<depth, trace, nresults, mode, quit>>

\* How `execute` ends: `quit` comes before the error of a statement.
Outcome == IF quit /\ Top.ran THEN "quit" ELSE mode

\* Mutant of EndLoad: the depth of the loading statement is not put back.
EndLoadKeepsDepth ==
    /\ InUnit /\ Top.by = "load"
    /\ stack' = Below
    /\ trace' = Top.trace
    /\ mode' = IF Outcome = "quit" THEN "interrupt" ELSE Outcome
    /\ UNCHANGED <<nresults, depth, quit>>

\* Mutant of EndLoad: a file that quits ends like any other.
EndLoadIgnoresQuit ==
    /\ InUnit /\ Top.by = "load"
    /\ stack' = Below
    /\ trace' = Top.trace /\ depth' = Top.depth
    /\ mode' = IF Outcome = "quit" THEN "run" ELSE Outcome
    /\ UNCHANGED <<nresults, quit>>

\* Mutant of EndLoad: the trace of the loading statement is not put back.
EndLoadKeepsTrace ==
    /\ InUnit /\ Top.by = "load"
    /\ stack' = Below
    /\ depth' = Top.depth
    /\ mode' = IF Outcome = "quit" THEN "interrupt" ELSE Outcome
    /\ UNCHANGED <<nresults, trace, quit>>

\* Mutant of EndLoad: a file whose statement failed is not left.
EndLoadIfRunning ==
    /\ InUnit /\ Top.by = "load" /\ mode = "run"
    /\ stack' = Below
    /\ trace' = Top.trace /\ depth' = Top.depth
    /\ UNCHANGED <<nresults, mode, quit>>

EndLoad ==
    /\ InUnit /\ Top.by = "load"
    /\ stack' = Below
    /\ trace' = Top.trace /\ depth' = Top.depth
    /\ mode' = IF Outcome = "quit" THEN "interrupt" ELSE Outcome
    /\ UNCHANGED <<nresults, quit>>

EndAttach ==
    /\ InUnit /\ Top.by = "attach"
    /\ stack' = Below
    /\ mode' = IF Outcome = "quit" THEN "run" ELSE Outcome
    /\ UNCHANGED <<depth, trace, nresults, quit>>

\* The session reports what went wrong and reads on.
Report ==
    /\ InUnit /\ Top.by = "session" /\ mode # "run" /\ ~quit
    /\ mode' = "run"
    /\ UNCHANGED <<stack, depth, trace, nresults, quit>>

Fail ==
    /\ Executing
    /\ mode' \in {"raise", "interrupt"}
    /\ UNCHANGED <<stack, depth, trace, nresults, quit>>

Quit ==
    /\ Executing
    /\ quit' = TRUE
    /\ mode' = "interrupt"
    /\ UNCHANGED <<stack, depth, trace, nresults>>

\* Leaving what is on top of the stack once it is over.
Unwind == EndCall \/ LeaveTry \/ EndLoad \/ EndAttach

Step ==
    \/ BeginStatement
    \/ \E f \in Funs, n \in Results : Call(f, n)
    \/ RefusedCall \/ BeginTry \/ Load \/ Attach \/ Fail \/ Quit \/ Report
    \/ Unwind

Next == Step /\ UNCHANGED uses

\* Nothing waits while an error or an interrupt propagates: the native
\* stack unwinds to the handler or to the session without running code.
Fairness == WF_vars(mode # "run" /\ (Unwind \/ Report) /\ UNCHANGED uses)

Spec == Init /\ [][Next]_vars
FairSpec == Spec /\ Fairness

-----------------------------------------------------------------------------
(* Properties *)

Modes == {"run", "raise", "interrupt"}

Activation ==
    [kind : {"unit"}, by : {"session", "load", "attach"}, ran : BOOLEAN,
     trace : Seq(Funs), depth : 0..(Width - 1)]
    \union [kind : {"call"}, fn : Funs, nres : Results]
    \union [kind : {"try"}, len : Nat]

\* The session is at the bottom of the stack, and nowhere else.
TypeOK ==
    /\ stack \in Seq(Activation)
    /\ Len(stack) \in 1..MaxStack
    /\ \A k \in 1..Len(stack) : k = 1 <=> (stack[k].kind = "unit" /\ stack[k].by = "session")
    /\ depth \in 0..(Width - 1)
    /\ trace \in Seq(Funs)
    /\ nresults \in Seq(Results)
    /\ mode \in Modes /\ quit \in BOOLEAN

\* The calls among the activations from position `i` to position `j`.
Calls(i, j) == {k \in i..j : stack[k].kind = "call"}

\* `Nresults` is told what the innermost active call was asked for: the
\* entries are those of the active calls, in order, whatever ended the
\* others, and across files ("Results requested from each active user
\* function", interp/mod.rs:99).
NresultsOfActiveCalls ==
    /\ Len(nresults) = Cardinality(Calls(1, Len(stack)))
    /\ \A k \in Calls(1, Len(stack)) : nresults[Cardinality(Calls(1, k))] = stack[k].nres

\* The statement being executed started in this file.
File == CHOOSE k \in 1..Len(stack) :
            /\ stack[k].kind = "unit"
            /\ \A l \in (k + 1)..Len(stack) : stack[l].kind # "unit"

Active == Calls(File, Len(stack))

\* `Traceback` shows the active function calls (intrinsics/env.rs:418),
\* those made since the file's statement began.
TraceShowsActiveCalls ==
    Executing =>
        /\ Len(trace) = Cardinality(Active)
        /\ \A k \in Active : trace[Cardinality(Calls(File, k))] = stack[k].fn

\* Without attached files the trace shows the active calls, across files
\* that are loaded and errors that are handled in them.
LoadsKeepTrace == "attach" \notin uses => TraceShowsActiveCalls

\* Recursion is limited by the calls that are active: without attached files
\* the count is theirs, so a call is refused when and only when MaxDepth of
\* them are.
DepthCountsActiveCalls ==
    "attach" \notin uses /\ Executing => depth = Cardinality(Active)

\* Once `quit` is executed no more of the program is, unless a file was
\* attached: `quit` there ends the file only (session.rs:168).
QuitIsFinal == "attach" \notin uses /\ quit => mode # "run"

\* `quit` gets to the session from any depth of calls, handlers and files.
QuitEndsSession ==
    ("attach" \notin uses /\ quit) ~> (quit /\ Len(stack) = 1)

\* An error always finds a handler or the session.
ErrorsAreHandled == (mode # "run") ~> (mode = "run" \/ quit)

=============================================================================
