------------------------------ MODULE Session ------------------------------
(***************************************************************************)
(* The session: crates/calyx-cli/src/main.rs with the loop over the        *)
(* statements of a text (session.rs, execute_with).  Files named on the    *)
(* command line run first; then the lines of standard input, which either  *)
(* are typed at the prompt of `repl` or come from a pipe (`run_stdin`).    *)
(*                                                                         *)
(* A text is a sequence of tokens.  "open" and "close" begin and end a     *)
(* compound statement, which goes on until it is closed, "bad" is a syntax *)
(* error, and the other tokens are statements by what they do.  The lines  *)
(* of an entry that is unfinished are kept in `buf`, which is given to the *)
(* interpreter again, from its beginning, with each further line.          *)
(*                                                                         *)
(* Ctrl-C sets `interrupt` from another thread at any moment.              *)
(***************************************************************************)
EXTENDS Naturals, Sequences, FiniteSets

CONSTANTS
    Lines,      \* lines and files: sequences of tokens
    MaxTokens,  \* bound: the length of all lines and files
    MaxPresses, \* bound: Ctrl-Cs
    Inputs      \* what standard input is: "terminal", "pipe"

\* What a statement does: draws random numbers; keeps no or one history
\* entry; ends the session at an error; loops; fails when it runs or when
\* it is compiled; quits.
Statements == {"draw", "forget", "keep", "strict", "loop", "fail", "wrong", "quit"}
Tokens == Statements \cup {"open", "close", "bad"}

ASSUME SessionAssumption ==
    /\ Lines \subseteq Seq(Tokens)
    /\ MaxTokens \in Nat /\ MaxPresses \in Nat
    /\ Inputs \subseteq {"terminal", "pipe"}

VARIABLES
    stdin,       \* what standard input is
    mode,        \* who runs texts: "files", "repl", "stdin"
    pc,          \* "read", "given", "run", "seen" or "over"
    buf,         \* the lines of the entry so far
    at,          \* the token that runs
    seed,        \* state of the random number generator
    entrySeed,   \* what it was when the entry began
    history,     \* the entries kept, with their numbers
    next,        \* number of the next one
    historySize, \* how many are kept
    quitOnError, \* errors end the session
    interrupt,   \* the flag that Ctrl-C sets
    presses,     \* Ctrl-Cs so far
    given,       \* all tokens so far: what was given to the program
    ran,         \* the statements that ran, by their places in `given`
    ended,       \* the texts that were run, and how each ended
    pressed      \* Ctrl-C was pressed since the text began to run

input == <<stdin, mode>>
prompt == <<buf, entrySeed>>
archive == <<history, next>>
settings == <<historySize, quitOnError>>
signal == <<interrupt, presses, pressed>>
record == <<given, ran, ended>>
vars == <<input, pc, prompt, at, seed, archive, settings, signal, record>>

-----------------------------------------------------------------------------
(* Texts *)

Count(text, n, token) == Cardinality({i \in 1..n : text[i] = token})
Closed(text, n) == Count(text, n, "open") = Count(text, n, "close")

\* Where parsing fails, if it does: at a token that no statement has, or that
\* closes nothing.
SyntaxErrors(text) ==
    {i \in 1..Len(text) :
        \/ text[i] = "bad"
        \/ Count(text, i, "close") > Count(text, i, "open")}

FirstError(text) == CHOOSE i \in SyntaxErrors(text) :
                        \A j \in SyntaxErrors(text) : i <= j

Incomplete(text) == SyntaxErrors(text) = {} /\ ~Closed(text, Len(text))

\* Ends of the statements that `parse_program_prefix` returns.
StatementEnds(text) ==
    {i \in 0..Len(text) :
        Closed(text, i) /\ \A j \in SyntaxErrors(text) : i < j}

Last(S) == CHOOSE i \in S : \A j \in S : j <= i
Stop(text) == Last(StatementEnds(text))

\* First and last token of the statement that token i is in.
StatementEnd(text, i) ==
    CHOOSE j \in StatementEnds(text) :
        i <= j /\ \A k \in StatementEnds(text) : i <= k => j <= k
StatementStart(text, i) == Last({j \in StatementEnds(text) : j < i}) + 1

\* The place of token i of the entry among all that were given.
Place(i) == Len(given) - Len(buf) + i

-----------------------------------------------------------------------------
(* History *)

\* Mutant of Kept: the first entries stay.
KeptOldest(entries, limit) ==
    IF Len(entries) <= limit THEN entries ELSE SubSeq(entries, 1, limit)

\* `truncate`: from the front.
Kept(entries, limit) ==
    IF Len(entries) <= limit THEN entries
    ELSE SubSeq(entries, Len(entries) - limit + 1, Len(entries))

\* Mutant of Push: with the seed that the entry left.
PushSeedAfter(text) ==
    /\ next' = next + 1
    /\ history' = Kept(Append(history, [number |-> next, text |-> text,
                                        seed |-> seed]), historySize)

Push(text) ==
    /\ next' = next + 1
    /\ history' = Kept(Append(history, [number |-> next, text |-> text,
                                        seed |-> entrySeed]), historySize)


-----------------------------------------------------------------------------
(* Reading *)

\* A line comes.  The seed is noted when it begins an entry.
ReadLine(line) ==
    /\ Len(given) + Len(line) <= MaxTokens
    /\ given' = given \o line
    /\ buf' = buf \o line
    /\ entrySeed' = IF buf = <<>> THEN seed ELSE entrySeed
    /\ pc' = "given"
    /\ UNCHANGED <<input, at, seed, archive, settings, signal, ran, ended>>

Type(line) == pc = "read" /\ mode # "files" /\ ReadLine(line)

\* `%n`, in the place of the first line of an entry.
Recall(entry) ==
    /\ pc = "read" /\ mode # "files" /\ buf = <<>>
    /\ ReadLine(entry.text)

\* The next file of the command line.
NextFile(line) == pc = "read" /\ mode = "files" /\ ReadLine(line)

StartSession ==
    /\ pc = "read" /\ mode = "files"
    /\ mode' = IF stdin = "terminal" THEN "repl" ELSE "stdin"
    /\ UNCHANGED <<stdin, pc, prompt, at, seed, archive, settings, signal, record>>

\* Ctrl-C at the prompt: the editor returns it and the input is discarded.
DiscardInput ==
    /\ pc = "read" /\ mode = "repl"
    /\ buf' = <<>>
    /\ UNCHANGED <<input, pc, entrySeed, at, seed, archive, settings, signal, record>>

\* The end of the input.  What is left of a pipe is run without leave to be
\* incomplete, so that it is a syntax error.
EndOfInput ==
    /\ pc = "read" /\ mode # "files"
    /\ pc' = "over"
    /\ IF mode = "stdin" /\ buf # <<>> THEN Push(buf) ELSE UNCHANGED archive
    /\ UNCHANGED <<input, prompt, at, seed, settings, signal, record>>

-----------------------------------------------------------------------------
(* Running a text *)

\* Mutant of BufferAfter: an interrupt returns before the buffer is cleared.
BufferAfterInterrupt(how) == IF how = "interrupted" THEN buf ELSE <<>>

BufferAfter(how) == <<>>

\* The text ends.  At the prompt it becomes history, whatever became of it.
EndText(how, stop) ==
    /\ buf' = BufferAfter(how)
    /\ ended' = Append(ended, [first |-> Place(1), last |-> Len(given), how |-> how,
                               number |-> IF mode = "files" THEN 0 ELSE next])
    /\ IF mode = "files" THEN UNCHANGED archive ELSE Push(buf)
    /\ pc' = IF stop THEN "over" ELSE "read"
    /\ at' = 1
    /\ UNCHANGED entrySeed

\* Whether an error ends the session: the prompt of `repl` never does.
StopsAtError == quitOnError /\ mode # "repl"

\* Mutant of ClearFlag: the flag stays as it is.
KeepFlag == UNCHANGED interrupt

\* `repl` clears the flag before each line it runs, the others do not.
ClearFlag == interrupt' = IF mode = "repl" THEN FALSE ELSE interrupt

\* At the prompt an unfinished text waits for its next line; a file may not
\* be unfinished.
GoesOn(text) == mode # "files" /\ Incomplete(text)

\* Without a prompt to report to, a syntax error is all that becomes of a text.
Refused(text) == mode = "files" /\ (SyntaxErrors(text) # {} \/ Incomplete(text))

Execute ==
    /\ pc = "given"
    /\ ClearFlag /\ pressed' = FALSE /\ UNCHANGED presses
    /\ \/ /\ GoesOn(buf)
          /\ pc' = "read" /\ UNCHANGED <<prompt, at, archive, ended>>
       \/ Refused(buf) /\ EndText("refused", StopsAtError)
       \/ /\ ~GoesOn(buf) /\ ~Refused(buf)
          /\ pc' = "run" /\ at' = 1 /\ UNCHANGED <<prompt, archive, ended>>
    /\ UNCHANGED <<input, seed, settings, given, ran>>

Running == pc = "run" /\ at <= Stop(buf)

\* A statement that does not compile fails before any of it runs.
Compiles(i) == \A j \in StatementStart(buf, i)..StatementEnd(buf, i) : buf[j] # "wrong"

\* Token `at` runs and the next one follows.
Runs(tokens) ==
    /\ Running
    /\ buf[at] \in tokens /\ Compiles(at)
    /\ at' = at + 1
    /\ ran' = Append(ran, Place(at))
    /\ UNCHANGED <<input, pc, prompt, archive, signal, given, ended>>

Bracket == Runs({"open", "close"}) /\ UNCHANGED <<seed, settings>>
Draw == Runs({"draw"}) /\ seed' = seed + 1 /\ UNCHANGED settings
LeaveLoop == Runs({"loop"}) /\ UNCHANGED <<seed, settings>>

SetQuitOnError ==
    Runs({"strict"}) /\ quitOnError' = TRUE /\ UNCHANGED <<seed, historySize>>

SetHistorySize ==
    /\ Runs({"forget", "keep"})
    /\ historySize' = IF buf[at] = "keep" THEN 1 ELSE 0
    /\ UNCHANGED <<seed, quitOnError>>

\* Mutant of NextStatement: the token after the one that failed.
NextToken(i) == i + 1

NextStatement(i) == StatementEnd(buf, i) + 1

\* An error ends its statement.  At the prompt the following ones still run,
\* unless errors are to end the session.
Fail ==
    /\ Running
    /\ buf[at] = "fail" \/ ~Compiles(at)
    /\ IF mode # "files" /\ ~quitOnError
       THEN /\ at' = NextStatement(at)
            /\ UNCHANGED <<pc, prompt, archive, ended>>
       ELSE EndText("failed", StopsAtError)
    /\ UNCHANGED <<input, seed, settings, signal, given, ran>>

Quit ==
    /\ Running
    /\ buf[at] = "quit" /\ Compiles(at)
    /\ pc' = "over"
    /\ UNCHANGED <<input, prompt, at, seed, archive, settings, signal, record>>

\* After the statements, the syntax error that follows them, if any.
Finish ==
    /\ pc = "run" /\ at > Stop(buf)
    /\ EndText("done", SyntaxErrors(buf) # {} /\ StopsAtError)
    /\ UNCHANGED <<input, seed, settings, signal, given, ran>>

\* Mutant of Asks: loops do not ask.
AsksNever(token) == FALSE

Asks(token) == token = "loop"

\* `check_interrupt`, which loops call in each pass: it reads the flag ...
SeeInterrupt ==
    /\ Running /\ Asks(buf[at]) /\ Compiles(at)
    /\ interrupt
    /\ pc' = "seen"
    /\ UNCHANGED <<input, prompt, at, seed, archive, settings, signal, record>>

\* ... and clears it; the error it returns ends the text.
TakeInterrupt ==
    /\ pc = "seen"
    /\ interrupt' = FALSE
    /\ EndText("interrupted", StopsAtError)
    /\ UNCHANGED <<input, seed, settings, presses, pressed, given, ran>>

\* The handler, at any moment.
CtrlC ==
    /\ pc # "over" /\ presses < MaxPresses
    /\ interrupt' = TRUE /\ presses' = presses + 1 /\ pressed' = TRUE
    /\ UNCHANGED <<input, pc, prompt, at, seed, archive, settings, record>>

-----------------------------------------------------------------------------

Init ==
    /\ stdin \in Inputs /\ mode = "files" /\ pc = "read"
    /\ buf = <<>> /\ at = 1
    /\ seed = 0 /\ entrySeed = 0
    /\ history = <<>> /\ next = 1
    /\ historySize = MaxTokens /\ quitOnError = FALSE
    /\ interrupt = FALSE /\ presses = 0 /\ pressed = FALSE
    /\ given = <<>> /\ ran = <<>> /\ ended = <<>>

\* What the interpreter does by itself.
Interpreter ==
    \/ Execute \/ Bracket \/ Draw \/ SetQuitOnError \/ SetHistorySize
    \/ Fail \/ Quit \/ Finish \/ SeeInterrupt \/ TakeInterrupt

Next ==
    \/ \E line \in Lines : Type(line) \/ NextFile(line)
    \/ \E i \in 1..Len(history) : Recall(history[i])
    \/ StartSession \/ DiscardInput \/ EndOfInput \/ CtrlC
    \/ Interpreter \/ LeaveLoop

\* Nothing makes a user type, or a loop end.
Fairness == WF_vars(Interpreter)

Spec == Init /\ [][Next]_vars /\ Fairness

-----------------------------------------------------------------------------
(* Properties *)

\* What was given counts once: no statement runs a second time because its
\* entry went on over several lines or was recalled, and none before an
\* earlier one.
StatementsRunOnce ==
    \A i, j \in 1..Len(ran) : i < j => ran[i] < ran[j]

\* Tokens i <= j of a text are in one statement.
Together(text, i, j) == \A b \in i..(j - 1) : ~Closed(text, b)

\* Statements that a text asks for: those before its syntax error, but not
\* those that the failure of their own compound statement leaves out.
Due(text) ==
    {i \in 1..Len(text) :
        \A j \in 1..Len(text) :
            /\ j \in SyntaxErrors(text) => i < j /\ ~Together(text, i, j)
            /\ text[j] = "wrong" => ~(i <= j /\ Together(text, i, j))
                                 /\ ~(j <= i /\ Together(text, j, i))
            /\ text[j] = "fail" /\ j <= i => ~Together(text, j, i)}

\* A text that comes to its end has run what it asks for, no more and no less;
\* one that is stopped on the way has left out the last part; and nothing runs
\* of lines that were discarded, that are unfinished, or of a refused file.
TextsRunAsGiven ==
    LET Ran == {ran[i] : i \in 1..Len(ran)}
        RanOf(e) == {p - e.first + 1 : p \in Ran \cap (e.first..e.last)}
        DueOf(e) == Due(SubSeq(given, e.first, e.last))
    IN  /\ \A k \in 1..Len(ended) : LET e == ended[k] IN
            /\ e.how = "done" => RanOf(e) = DueOf(e)
            /\ e.how = "refused" => RanOf(e) = {}
            /\ e.how \in {"failed", "interrupted"} =>
                \E n \in 0..(e.last - e.first) : RanOf(e) = DueOf(e) \cap 1..n
        /\ pc \in {"read", "given"} =>
            \A p \in Ran : \E k \in 1..Len(ended) : p \in ended[k].first..ended[k].last

\* The history is the last entries, each with its number and with the text
\* that was given, and no more of them than are to be kept.
HistoryIsLatest ==
    /\ pc = "read" => Len(history) <= historySize
    /\ \A i \in 1..Len(history) : LET h == history[i] IN
        /\ h.number = next - Len(history) + i - 1
        /\ \A k \in 1..Len(ended) : ended[k].number = h.number =>
            h.text = SubSeq(given, ended[k].first, ended[k].last)

\* The seed shown with an entry (`%s`) is that of the generator when the
\* entry's first statement ran: from it the entry runs the same again.
SeedsReproduce ==
    \A i \in 1..Len(history), k \in 1..Len(ended) :
        ended[k].number = history[i].number =>
            history[i].seed = Cardinality({j \in 1..Len(ran) :
                                ran[j] < ended[k].first /\ given[ran[j]] = "draw"})

\* At the prompt of `repl` an interrupt ends the entry during which Ctrl-C was
\* pressed and never a later one.  (A pipe's texts and files keep the flag.)
InterruptsEndTheirEntry == pc = "seen" /\ mode = "repl" => pressed

\* Ctrl-C while statements run comes back to the prompt, or to the next text,
\* even out of a loop that does not end.
CtrlCReturns == pc = "run" /\ interrupt ~> pc \in {"read", "over"}
=============================================================================
