------------------------------- MODULE Output -------------------------------
(***************************************************************************)
(* Output sinks (output.rs): a stack with standard output at the bottom.   *)
(* `SetOutputFile` puts a file on top, and the formatting of an object     *)
(* with a `Print` intrinsic (print.rs, fmt_user) puts a buffer on top for  *)
(* the length of the call.  A write goes to the sink on top.               *)
(*                                                                         *)
(* A print statement formats its values, which may run `Print` of each,    *)
(* and then writes the text at once.                                       *)
(***************************************************************************)
EXTENDS Naturals, Sequences, FiniteSets

CONSTANTS
    Files,     \* files output can be redirected to
    Stdout,    \* standard output
    Captured,  \* the buffer of a capture
    MaxMarks,  \* bound: texts that are printed
    MaxLevel,  \* bound: `Print` calls in progress, and the program
    MaxStack,  \* bound: sinks (captures can be left on the stack)
    Programs   \* the kinds of programs: sets of the features they use

\* "inside": output is redirected while a `Print` is in progress.
AllFeatures == {"inside"}

ASSUME OutputAssumption ==
    /\ Stdout \notin Files /\ Captured \notin Files /\ Stdout # Captured
    /\ MaxMarks \in Nat /\ MaxLevel \in Nat \ {0} /\ MaxStack \in Nat
    /\ Programs \subseteq SUBSET AllFeatures

VARIABLES
    uses,     \* the features of the program that runs
    stack,    \* the sinks: where they write to, and the text of a capture
    shown,    \* what each destination has received
    logging,  \* a log file is set
    log,      \* what it has received
    levels,   \* the program and the `Print` calls in progress, each with the
              \* text of the print statement under way
    marks     \* texts so far; a text is its number

outputVars == <<uses, stack, shown, logging, log, levels, marks>>
program == <<levels, marks>>

Sink(to) == [to |-> to, got |-> <<>>]
Top == stack[Len(stack)]
Depth == Len(levels)
Inner == levels[Depth]
Idle == [open |-> FALSE, text |-> <<>>]

RemoveIndex(s, i) == [j \in 1..(Len(s) - 1) |-> IF j < i THEN s[j] ELSE s[j + 1]]

-----------------------------------------------------------------------------
(* The stack of sinks *)

\* Mutant of Write: the log gets every text.
WriteLogsAll(text) ==
    /\ IF Top.to = Captured
       THEN /\ stack' = [stack EXCEPT ![Len(stack)].got = @ \o text]
            /\ UNCHANGED shown
       ELSE /\ shown' = [shown EXCEPT ![Top.to] = @ \o text]
            /\ UNCHANGED stack
    /\ log' = IF logging THEN log \o text ELSE log

\* `write`: to the sink on top; the log gets it when that is the first one.
Write(text) ==
    /\ IF Top.to = Captured
       THEN /\ stack' = [stack EXCEPT ![Len(stack)].got = @ \o text]
            /\ UNCHANGED shown
       ELSE /\ shown' = [shown EXCEPT ![Top.to] = @ \o text]
            /\ UNCHANGED stack
    /\ log' = IF logging /\ Len(stack) = 1 THEN log \o text ELSE log

\* Mutant of PopCapture: the buffer stays.
PopCaptureKeepsSink(s) == s

\* `end_capture` leaves a stack with anything but a capture on top as it is.
PopCapture(s) ==
    IF s[Len(s)].to = Captured THEN SubSeq(s, 1, Len(s) - 1) ELSE s

CapturedText == IF Top.to = Captured THEN Top.got ELSE <<>>

Redirections(s) == {i \in 2..Len(s) : s[i].to \in Files}

\* `unredirect` takes the last file out, wherever it is.
Unredirect(s) ==
    IF Redirections(s) = {} THEN s
    ELSE RemoveIndex(s, CHOOSE i \in Redirections(s) : \A j \in Redirections(s) : j <= i)

\* Mutant of Redirect: redirections nest.
RedirectNests(s, f) == Append(s, Sink(f))

Redirect(s, f) == Append(Unredirect(s), Sink(f))

-----------------------------------------------------------------------------
(* The program *)

OutputInit ==
    /\ uses \in Programs
    /\ stack = <<Sink(Stdout)>>
    /\ shown = [d \in Files \union {Stdout} |-> <<>>]
    /\ logging = FALSE /\ log = <<>>
    /\ levels = <<Idle>>
    /\ marks = 0

\* A print statement formats what it prints, ...
BeginStatement ==
    /\ ~Inner.open /\ marks < MaxMarks
    /\ marks' = marks + 1
    /\ levels' = [levels EXCEPT ![Depth] = [open |-> TRUE, text |-> <<marks + 1>>]]
    /\ UNCHANGED <<stack, shown, logging, log>>

\* ... and writes it.
EndStatement ==
    /\ Inner.open
    /\ Write(Inner.text)
    /\ levels' = [levels EXCEPT ![Depth] = Idle]
    /\ UNCHANGED <<logging, marks>>

\* Among what it prints is an object with a `Print` intrinsic.
BeginPrint ==
    /\ Inner.open /\ Depth < MaxLevel /\ Len(stack) < MaxStack
    /\ stack' = Append(stack, Sink(Captured))
    /\ levels' = Append(levels, Idle)
    /\ UNCHANGED <<shown, logging, log, marks>>

EndPrint ==
    /\ Depth > 1 /\ ~Inner.open
    /\ stack' = PopCapture(stack)
    /\ levels' = [SubSeq(levels, 1, Depth - 1) EXCEPT ![Depth - 1].text = @ \o CapturedText]
    /\ UNCHANGED <<shown, logging, log, marks>>

\* An error leaves the `Print` and the statement that called it.
FailPrint ==
    /\ Depth > 1
    /\ stack' = PopCapture(stack)
    /\ levels' = [SubSeq(levels, 1, Depth - 1) EXCEPT ![Depth - 1] = Idle]
    /\ UNCHANGED <<shown, logging, log, marks>>

MayRedirect == ~Inner.open /\ (Depth > 1 => "inside" \in uses)

\* The file is opened, and emptied if it is to be, before the stack changes.
SetOutputFile(f, overwrite) ==
    /\ MayRedirect
    /\ stack' = Redirect(stack, f)
    /\ shown' = IF overwrite THEN [shown EXCEPT ![f] = <<>>] ELSE shown
    /\ UNCHANGED <<logging, log, program>>

UnsetOutputFile ==
    /\ MayRedirect
    /\ stack' = Unredirect(stack)
    /\ UNCHANGED <<shown, logging, log, program>>

SetLogFile(overwrite) ==
    /\ ~Inner.open
    /\ logging' = TRUE
    /\ log' = IF overwrite THEN <<>> ELSE log
    /\ UNCHANGED <<stack, shown, program>>

UnsetLogFile ==
    /\ ~Inner.open
    /\ logging' = FALSE
    /\ UNCHANGED <<stack, shown, log, program>>

Step ==
    \/ BeginStatement \/ EndStatement \/ BeginPrint \/ EndPrint \/ FailPrint
    \/ \E f \in Files, overwrite \in BOOLEAN : SetOutputFile(f, overwrite)
    \/ UnsetOutputFile
    \/ \E overwrite \in BOOLEAN : SetLogFile(overwrite)
    \/ UnsetLogFile

OutputNext == Step /\ UNCHANGED uses

OutputSpec == OutputInit /\ [][OutputNext]_outputVars

-----------------------------------------------------------------------------
(* Properties *)

Texts == Seq(1..MaxMarks)

TypeOK ==
    /\ \A i \in DOMAIN stack :
        stack[i].to \in Files \union {Stdout, Captured} /\ stack[i].got \in Texts
    /\ shown \in [Files \union {Stdout} -> Texts]
    /\ logging \in BOOLEAN /\ log \in Texts
    /\ Depth \in 1..MaxLevel
    /\ \A k \in DOMAIN levels :
        /\ levels[k].text \in Texts
        /\ levels[k].open <=> levels[k].text # <<>>
    /\ marks \in 0..MaxMarks

\* Standard output is at the bottom, and at most one file is in the stack
\* ("Replace an existing redirection rather than nesting", output.rs:114),
\* wherever in nested `Print`s output is redirected.
OneRedirection ==
    /\ Len(stack) > 0 /\ stack[1].to = Stdout
    /\ \A i, j \in DOMAIN stack : stack[i].to \in Files /\ stack[j].to \in Files => i = j

Elems(s) == {s[i] : i \in DOMAIN s}

\* Where a text can be: a destination, a buffer, a statement under way.
Places ==
    {<<"shown", d, shown[d]>> : d \in DOMAIN shown}
    \union {<<"sink", i, stack[i].got>> : i \in DOMAIN stack}
    \union {<<"level", k, levels[k].text>> : k \in DOMAIN levels}

\* A text is printed once: none is in two places or twice in one, also when
\* `Print` fails or redirects.
NothingTwice ==
    /\ \A p \in Places : Cardinality(Elems(p[3])) = Len(p[3])
    /\ \A p, q \in Places : p[1] # q[1] \/ p[2] # q[2] => Elems(p[3]) \cap Elems(q[3]) = {}

Dest == IF Redirections(stack) = {} THEN Stdout
        ELSE stack[CHOOSE i \in Redirections(stack) : TRUE].to

\* Each `Print` in progress with the text of its capture: the innermost has
\* the sink on top.
Printing ==
    [k \in DOMAIN levels |->
        [open |-> levels[k].open, text |-> levels[k].text,
         got |-> IF k = 1 THEN <<>> ELSE stack[Len(stack) - Depth + k].got]]

Promise == INSTANCE Redirection WITH dest <- Dest, levels <- Printing

\* The sinks below the captures of the `Print` calls in progress.
Base == Len(stack) - Depth + 1

\* Standard output, the file it is redirected to, and a capture for each
\* `Print` in progress.
Nested ==
    /\ Base \in 1..2
    /\ Base = 2 => stack[2].to \in Files
    /\ \A i \in DOMAIN stack : i > Base => stack[i].to = Captured

\* A `Print` redirects output: the file is above the capture.
RedirectsInside ==
    Depth > 1 /\ \E f \in Files, overwrite \in BOOLEAN : SetOutputFile(f, overwrite)

\* Nobody can tell the stack of sinks from one destination and texts that
\* are put into each other ("Replace an existing redirection rather than
\* nesting", output.rs:114), but for one step: where a `Print` redirects
\* output, its capture is lost (print.rs:1157), and nothing is promised for
\* as long as sinks are not nested.  To take a redirection back is as
\* promised inside a `Print`, too.  Of the log the promise says what
\* output.rs:70 does.
ImplementsRedirection ==
    /\ Nested /\ Promise!Init
    /\ [][Nested => RedirectsInside \/ (Promise!Next /\ Nested')]_outputVars

\* Between statements of the program output that is not redirected is shown
\* ("Send output to standard output again", intrinsics/io.rs:503).
OutputComesBack ==
    Depth = 1 /\ Redirections(stack) = {} => Top.to = Stdout

\* While there is a log it has all output ("Copy all input and output to the
\* file F", intrinsics/io.rs:505): not what goes to a file, nor input.
LogHasAllOutput ==
    [][(logging /\ \E d \in DOMAIN shown : Len(shown'[d]) > Len(shown[d])) => log' # log]_outputVars

=============================================================================
