---------------------------- MODULE Redirection ----------------------------
(***************************************************************************)
(* What printing promises.  The program's output goes to one destination,  *)
(* standard output or a file.  What the `Print` intrinsic of a user type   *)
(* prints becomes part of the statement that prints the object, however    *)
(* deeply such objects contain each other, and is gone if `Print` fails.   *)
(* The log is a copy of what standard output shows, as in output.rs; its   *)
(* doc ("Copy all input and output", intrinsics/io.rs:505) promises more.  *)
(***************************************************************************)
EXTENDS Naturals, Sequences

CONSTANTS
    Files,     \* files output can be redirected to
    Stdout,    \* standard output
    MaxMarks,  \* bound: texts that are printed
    MaxLevel   \* bound: `Print` calls in progress, and the program

VARIABLES
    dest,     \* where output goes
    shown,    \* what each destination has received
    logging,  \* a log file is set
    log,      \* what it has received
    levels,   \* the program and the `Print` calls in progress: the text of
              \* the print statement under way, and what `Print` has printed
    marks     \* texts so far; a text is its number

vars == <<dest, shown, logging, log, levels, marks>>

Depth == Len(levels)
Top == levels[Depth]
Level(open, text, got) == [open |-> open, text |-> text, got |-> got]
Idle == Level(FALSE, <<>>, <<>>)

Init ==
    /\ dest = Stdout
    /\ shown = [d \in Files \union {Stdout} |-> <<>>]
    /\ logging = FALSE /\ log = <<>>
    /\ levels = <<Idle>>
    /\ marks = 0

BeginStatement ==
    /\ ~Top.open /\ marks < MaxMarks
    /\ marks' = marks + 1
    /\ levels' = [levels EXCEPT ![Depth] = Level(TRUE, <<marks + 1>>, Top.got)]
    /\ UNCHANGED <<dest, shown, logging, log>>

EndStatement ==
    /\ Top.open
    /\ IF Depth = 1
       THEN /\ shown' = [shown EXCEPT ![dest] = @ \o Top.text]
            /\ log' = IF logging /\ dest = Stdout THEN log \o Top.text ELSE log
            /\ levels' = [levels EXCEPT ![Depth] = Level(FALSE, <<>>, Top.got)]
       ELSE /\ levels' = [levels EXCEPT ![Depth] = Level(FALSE, <<>>, Top.got \o Top.text)]
            /\ UNCHANGED <<shown, log>>
    /\ UNCHANGED <<dest, logging, marks>>

BeginPrint ==
    /\ Top.open /\ Depth < MaxLevel
    /\ levels' = Append(levels, Idle)
    /\ UNCHANGED <<dest, shown, logging, log, marks>>

EndPrint ==
    /\ Depth > 1 /\ ~Top.open
    /\ levels' = [SubSeq(levels, 1, Depth - 1) EXCEPT ![Depth - 1].text = @ \o Top.got]
    /\ UNCHANGED <<dest, shown, logging, log, marks>>

FailPrint ==
    /\ Depth > 1
    /\ levels' = [SubSeq(levels, 1, Depth - 1) EXCEPT ![Depth - 1] = Level(FALSE, <<>>, @.got)]
    /\ UNCHANGED <<dest, shown, logging, log, marks>>

\* A file is written from its end, or from its beginning.
SetOutputFile(f, overwrite) ==
    /\ ~Top.open
    /\ dest' = f
    /\ shown' = IF overwrite THEN [shown EXCEPT ![f] = <<>>] ELSE shown
    /\ UNCHANGED <<logging, log, levels, marks>>

UnsetOutputFile ==
    /\ ~Top.open
    /\ dest' = Stdout
    /\ UNCHANGED <<shown, logging, log, levels, marks>>

SetLogFile(overwrite) ==
    /\ ~Top.open
    /\ logging' = TRUE
    /\ log' = IF overwrite THEN <<>> ELSE log
    /\ UNCHANGED <<dest, shown, levels, marks>>

UnsetLogFile ==
    /\ ~Top.open
    /\ logging' = FALSE
    /\ UNCHANGED <<dest, shown, log, levels, marks>>

Next ==
    \/ BeginStatement \/ EndStatement \/ BeginPrint \/ EndPrint \/ FailPrint
    \/ \E f \in Files, overwrite \in BOOLEAN : SetOutputFile(f, overwrite)
    \/ UnsetOutputFile
    \/ \E overwrite \in BOOLEAN : SetLogFile(overwrite)
    \/ UnsetLogFile

Spec == Init /\ [][Next]_vars

=============================================================================
