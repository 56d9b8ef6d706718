# A TLA+ model of calyx

calyx (`src/README.md`) runs programs of the Magma language: a lexer and parser,
a compiler to a resolved tree, a tree-walking interpreter, some thousand
intrinsics written in Rust, packages of intrinsics written in Magma, and FLINT
for the arithmetic.  This directory models the part of it whose difficulty is
*state over time*: what the interpreter keeps between statements, what it moves
out of the way for the length of a call, and what it remembers in order to be
fast; and one algorithm whose correctness is a matter of order, the criteria by
which Groebner bases leave pairs out.  The arithmetic itself is out of the model.

The program is sequential.  One thread interprets; the only other one is the
Ctrl-C handler, which sets a flag.  What makes the code hard is that almost
every operation can run user code in its middle (a call, a `Print` intrinsic, a
package file, a loop body), and that almost every step can fail: state is taken
apart before the user code runs and put together after it, on the way out of a
return, an error, an interrupt or `quit`.  Files that change on disk are the one
concurrent actor.

Paths below are under `src/crates/calyx-runtime/src/` unless they begin with
`crates/`.

## Inventory

| Component | State | Operations | Hard behaviour | Module |
|---|---|---|---|---|
| Identifier table, names of structures (`interp/mod.rs`, `interp/assign.rs`, `interp/iter.rs`) | `globals`, `package_stack`, `global_slots`, `free_slots`; `name` and `aliases` cells in the values | `set_global`, `remove_global`, `store_place`, `take_place`, `put_place`, `name_struct`, `unbind_name`, `bind_loop_var`, `clear`, `delete` | one structure held by several identifiers; references, loops and packages that keep a piece of the table for a while | `GlobalTable` |
| Reference arguments (`interp/call.rs`, `interp/assign.rs`) | slots of every frame, references in flight | `take_ref`, `put_ref`, `restore_refs`, `call_expr` | errors and interrupts at any depth while values are out | `RefArgs`, `RefCells` |
| Activations (`interp/call.rs`, `interp/stmt.rs`, `session.rs`) | `depth`, `trace`, `nresults_stack`, `quit`, the native stack | calls, `try`, `load`, `Attach`, `quit`, error reports | unwinding must shrink three stacks in step with the native one | `Activations` |
| Package files (`session.rs`, `intrinsics/io.rs`) | `packages`, the files' times, the intrinsics by file | `attach`, `detach`, `import_package`, `check_package_updates` | files saved at any moment; packages that fail, or attach and detach each other | `Packages` |
| Types (`types.rs`, `interp/stmt.rs`) | `parents`, the table of known answers, `version` | `declare_user`, `isa` | a cache over a graph that grows, filled in the middle of recursion | `TypeGraph`, `TypeTable` |
| Intrinsic table, choice of signature (`intrinsics/mod.rs`, `interp/call.rs`, `coerce.rs`) | signatures, `counter`, `SigCache` of each call site | `define_intrinsic`, `remove_source`, `select_signature`, `call_intrinsic` | remembered choices against definitions, withdrawals and declarations | `Dispatch` |
| Output sinks (`output.rs`, `print.rs`, `intrinsics/io.rs`) | stack of sinks, log | `write`, `begin_capture`, `end_capture`, `redirect_to_file`, `unredirect`, `SetLogFile` | redirections inside captures; errors in `Print` | `Output`, `Redirection` |
| Assignment to elements and attributes (`interp/assign.rs`) | the path to the element, the elements in flight | `take_ref`, `put_ref`, `take_at_path`, `put_at_path`, `assign`, `set_path` | several elements of one container are out during a call; what is put back may not fit | `RefPaths` |
| Session (`crates/calyx-cli/src/main.rs`, `session.rs`) | input buffer, history, seeds, interrupt flag | `repl`, `run_stdin`, `run_file`, `special_line`, `execute_with`, `check_interrupt` | entries that go on over lines and are executed again; Ctrl-C at any moment | `Session` |
| Compilation and scoping (`compile.rs`, `ir.rs`) | scopes: locals, bindings, captures, loops | `resolve`, `capture_source`, `place`, `bind`, `function_code` | which variable an identifier is, through functions in functions and loops | `Compiler` |
| Statements and loops (`interp/stmt.rs`, `interp/iter.rs`) | frames: slots, captured values; `Flow` | `exec_block`, `loop_body`, `for_range`, `make_closure`, `call_closure` | labelled `break` and `continue`; values captured when a function is made and read when it is called | `Scoping` |
| Groebner bases (`crates/calyx-groebner`) | polynomials, basis, pairs | UPDATE, Buchberger, F4; FGLM, modular | which pairs may be left out | `Groebner` (the first three) |
| Expressions (`interp/eval.rs`, `ops.rs`) | `eval_env`, `Self` | `eval`, operators | `eval` runs a source of its own | reads and closures: `Scoping` |
| Coercion (`coerce.rs`, `rings/coerce.rs`) | none | universes of sequences, covering structures | partial functions on types | not modelled |
| Rings and their elements (`rings/`) | caches of embeddings and of created rings | arithmetic, creation | identity of rings made twice | not modelled |
| Factorization and logarithms (`intrinsics/factoring.rs`, `intrinsics/dlog.rs`) | stored factors, baby steps kept for four bases | searches | a table for one group asked about another | not modelled |
| Lexer and parser (`crates/calyx-syntax`) | none that outlives a text | parse | where a text is unfinished, and the prefix before an error | as tokens, in `Session` |
| Values, symbols, errors (`value.rs`, `sym.rs`, `error.rs`) | none of their own | | | not modelled |
| Printing of values (`print.rs`) | none | layout | formatting only | not modelled |
| Random numbers (`random.rs`) | generator state | | a fixed published generator | not modelled |
| Groups and permutations (`perms.rs`, `abgroups.rs`) | none | pure algorithms | | not modelled |
| Libraries of intrinsics (`intrinsics/*.rs`) | none but what is named above | several hundred natives | each a function of its arguments | not modelled |
| FLINT bindings (`crates/calyx-flint`) | foreign objects | | numeric code | not modelled |
| Build and packaging (`build/`) | | | | not modelled |

How they interact.  A statement of the *session* first lets *Packages* attach
what changed, then runs in *Activations*.  Calls of intrinsics go through
*Dispatch*, which asks *TypeTable* and which *Packages* feeds with signatures.
Calls of user procedures go through *RefArgs*; at the top level the variables
that are passed are entries of *GlobalTable*, so a call takes names along with
the values, and elements of containers go through *RefPaths*.  A printed value may call a `Print` intrinsic, which writes through
*Output* into a buffer.  *Session* is around all this: it decides which texts are
run, and Ctrl-C reaches the interpreter through the flag it looks at in loops.
*Scoping* is what a call and a loop do with names while *Activations* and
*RefArgs* say what they do with the stack and with references.  *Groebner* is
called by an intrinsic and touches none of the others.

## Modules

The state of each module is the fields named in the table; a variable called
`uses` or `script` is constant during a behaviour and says which features the
program of this behaviour uses.  A property that holds only without some feature
is guarded by it, and the section *Divergences* says why.  Every action is one
operation as a whole, or the part of it between two points where user code or
another actor can run.

**GlobalTable.**  `tab` is the identifier table with the cells of all
structures; `frames` the calls, loops and packages in progress.  `SetGlobal`,
`RemoveGlobal`, `UnbindName`, `NameStruct` and `BindLoopVar` are the functions of
those names, in the order in which they touch the slots and the cells.
`BeginCall`/`EndCall` are `take_place` and `put_place` on the arguments of a
procedure; `Mutate` is an op-assignment, which takes and puts in one step.
A package (`EnterPackage`) has a table of its own in front, but shares slots and
cells.  Structures have a name and aliases, aggregates only a name, other values
neither; what a value is otherwise does not matter here.

**RefArgs** and **RefCells.**  `frames` are activations with their slots; a call
empties the caller's slots (`Take`, `TakenArgs`) and `Leave` puts the values back
in order (`PutBack`), whether the body returned, failed or was interrupted.
`RefusedCall` is every early return of `call_expr` that restores the arguments,
`ParamFails` the one that does not.  RefCells says what this is to amount to: a
parameter *is* the variable, both being names of one cell.  The refinement
mapping (`ImplementsAliasing`) gives a cell the value that its innermost holder
has, by the auxiliary field `cells` that records which variable a slot stands
for.

**RefPaths.**  Values are atoms or containers of one of four kinds; a path is a
sequence of indices.  `TakeAt`, `SetAt`, `PutAt` are `take_at_path`, `set_path`
with `set_index` and `set_attr`, and `put_at_path`; `TakeRefs` and `PutRefs` are
the loops over the references of a call.  What tells the kinds apart is in
`Accepts`, `Store` and `Key`: a sequence has a universe and grows with holes, a
list grows by one, an array coerces its indices, a record has fixed fields, the
first of them typed.  `Call`, `RefusedCall` and `Leave` are those of RefArgs with
paths, `Assign` is an assignment to a variable or below it.

**Activations.**  `stack` is the native stack: files being run ("unit"), calls
and `try` blocks.  `BeginStatement` resets trace and depth as
`run_top_statement` does, `EndCall`, `LeaveTry`, `EndLoad` and `EndAttach` are
what is done on the way out, with the error still in `mode`.  The depth wraps
modulo `Width` as `usize` does in a release build.

**Packages.**  `Begin`, `ReadTime`, `Define`, `End` are `attach`, cut where
another actor (`Save`, an editor) or the package's own statements can come
between; `Check`, `Reload`, `BeginStatement`, `EndStatement` and `GiveUp` are the
loop of `execute_with`.  The packages, and those that are yet to be attached
again, are sets: the code's order is one of those the model tries.  A text is named by its save, which is also the file's
time: two saves never have the same time.  Three auxiliary variables say what the
properties compare with: `wanted`, the files that were attached by a statement and
neither detached nor failed since; `undone`, those detached or failed while they
were queued or being attached; `seen`, the saves the last check looked at.

**TypeGraph** and **TypeTable.**  TypeGraph is the graph of parents and the
reference definition of inheritance `IsA`, by the least closed set.  TypeTable
adds the n by n table of answers.  `AskIsa` does what one call of `isa` leaves in
the table for *any* order in which parents may be asked: the entries stored are a
subset of those the recursion can come by (`Asked`), which is more than the code
does in one particular order.

**Dispatch.**  `select_signature` as sets: `Fits`, `Preferred`, `Undominated`,
`Picked`; the key and the two special states of `SigCache`; `Define`,
`RemoveSource`, `DeclareType`.  `inherits` is the relation that TypeTable shows
`isa` to answer.  Patterns are those that tell the rules apart: any, untyped, a
type, and sequences by element.

**Output** and **Redirection.**  `stack` are the sinks, `levels` the program and
the `Print` calls in progress with the text of the print statement that each has
under way.  Redirection is the promise: one destination, and the text of a
`Print` becomes part of the statement that prints the object, or is gone when
`Print` fails.  The log of the promise is a copy of what standard output shows,
as `output.rs:70` has it, and not of all output (Divergences, below).  The
refinement maps the destination to the file in the stack, if any, and the buffers
to the texts of the levels.  It is stated from every state in which the sinks are
`Nested`: standard output, at most one file, and a capture for each `Print` in
progress.  Each step from there is one of the promise and leaves them nested; the
only exception is `RedirectsInside`, a `Print` that redirects output, whatever
else the program does.

**Session.**  A text is a sequence of tokens: statements by what they do, the
beginning and the end of a compound statement, and a syntax error.  `given` is
everything the program was ever given; the buffer is its last part.  `Type`,
`Recall` and `NextFile` are the three ways for a line to come (`readline` or
standard input, `special_line`, a file of the command line), `Execute` is the
parse in `execute_with`, `Runs` the statements, `Fail`, `Quit` and `Finish` the
ways its loop is left, `EndText` what `repl`, `run_stdin` and `run_file` do then
(the history, the buffer, the next text).  `SeeInterrupt` and `TakeInterrupt` are
the load and the store of `check_interrupt`, `CtrlC` the handler's thread.

**Compiler** and **Scoping.**  Compiler is the part of `compile.rs` that decides
what an identifier is.  It reads a statement token by token (reads, writes,
functions, loops, exits) and emits instructions that hold what it resolved:
`Resolve`, `CaptureInto`, `Place`, `Bind` are the functions of those names
(`capture_source` and `add_capture` together are `CaptureInto`), `WithInits` the
captures that give locals their first values.  `scan_block` comes before the
body, so `BeginFunction` is told the names that the body will assign, and `Write`
keeps to them.  Scoping composes it with what runs the instructions: frames with
slots and captured values (`Eval`, `Captures`, `NewFrame`, `Taker`), beside `env`,
the value that each name has where control is.  `env` says what scoping means and
knows nothing of slots and captures: a function takes along the values of all
names at the moment it is made, its parameters and what it assigns are its own, a
loop's variable is the loop's until the loop is left.  Every statement up to a
number of tokens is compiled and run, and function values that are left over are
called later, after the globals have changed.

**Groebner.**  Polynomials are their leading monomials.  `Insert` is UPDATE, which
`buchberger.rs` and `f4.rs` have each written out: `Kept` is its loop over the
new pairs in the order of the basis, with `keep` as far as it has come,
`OldPairs` and `BasisWith` the rest.  What the arithmetic makes of a pair or of a
batch of pairs is any choice of monomials that are irreducible and below the lcm
they come from, so all that the code can do in any field is among the choices.
`treated` is history.

The `MC*` modules give the constants for TLC; `*Proofs` hold the theorems.  A
definition that begins with "Mutant of" in its comment is a plausible mistake in
the definition after it and is used by nothing; the entries "mutants" of
`PROJECT.json` say which property finds which.

## Runs

| Run | Checks | Bounds | Shows |
|---|---|---|---|
| `globals` | `SlotsOK` `GlobalsKeepSlots` `AssignmentsKeepNames` `AliasesAreOtherHolders` | 4 identifiers, 2 structures, 1 aggregate; assignments with all of them, or 2 identifiers with calls and loops one deep, or packages with calls and loops two deep | the table stays dense, no slot is used twice, and in scripts of assignments and deletions every structure goes by its first holder |
| `refargs` | `PlainCallsGiveBack` `ImplementsAliasing` | 2 variables, 3 activations, 1 handler each, up to 2 references; programs without features, with deletions, and with failing parameters and repeated variables too | moving values out and back cannot be told from aliasing; no variable of the top level loses its value |
| `refargs_params` | `NoVariableLost` (violated) | the same | a failing parameter expression loses a variable |
| `refpaths` | `ElementsGetTheirValues` `OthersKeepTheirs` `FailuresChangeNothing` | one container two deep and an atom, 2 activations of 2 statements each, 7 places, up to 2 references | elements come back where they fit, the others stay, failures change nothing |
| `activations` | `TypeOK` `NresultsOfActiveCalls` `LoadsKeepTrace` `DepthCountsActiveCalls` `QuitIsFinal` `QuitEndsSession` `ErrorsAreHandled` | 2 functions, stack of 5, `max_depth` 2, depth modulo 4 | the three stacks stay in step; `quit` and errors arrive |
| `types` | `IsaAnswersAreTrue` `VersionFollowsIsa` | 4 types, version up to 5 | the table answers by the parents of the moment |
| `dispatch` | `SitesRememberTheChoice` `ChoiceIsMostSpecific` `LaterDefinitionsWin` | 2 built-in and 5 user signatures, 13 calls, 5 types, 1 file, 1 site, 5 registrations | a call site answers what selection would |
| `packages` | `NoOrphans` `OneTextEach` `DetachedStaysDetached` `SavesAreNoticed` `StatementsSeeSaves` | 2 files, 3 saves each, scripts of 3 statements, 2 packages within each other; sessions with all that can go wrong, with nothing of it, without saves in the middle of a reading, and with those and failures only | what is defined is what is attached, in one text, and no statement runs with an older one than its check saw, whatever fails |
| `output` | `OneRedirection` `NothingTwice` `ImplementsRedirection` | 2 files, 3 texts, 2 `Print`s within each other, 5 sinks; programs that redirect inside `Print` or do not | sinks implement the promise until a `Print` redirects output; no text is printed twice even then |
| `session` | `StatementsRunOnce` `TextsRunAsGiven` `HistoryIsLatest` `SeedsReproduce` `InterruptsEndTheirEntry` `CtrlCReturns` | 10 lines of one or two tokens, 6 tokens in all, 2 presses of Ctrl-C, a terminal or a pipe | what is given runs once and as given, the history tells it, Ctrl-C ends the entry it was pressed in and comes back |
| `groebner` | `PairsAccounted` `BasisCovers` `BasisIsMinimal` | 3 variables, leading monomials of degree up to 2, 3 generators, 5 polynomials, a limit of 3 or none, both algorithms | no pair that is needed is left out, nothing dropped from the basis is missed |
| `scoping` | `ReadsSeeTheirVariable` `ExitsFindTheirLoop` | statements of 4 tokens and their ends, 2 functions in each other or in loops, a name that is bound and one that is an intrinsic, 2 function values, 2 calls, 4 data | slots and captures are the variables that scoping means; exits find their loop |

Why the bounds are enough.  Names need two structures for an exchange, three
holders of one for a choice among aliases, and a fourth identifier so that a slot
is freed between two that are used; the packages, loops and calls of that run
differ in what they keep aside, and any two of them are nested.  References need
three activations, so that one is passed on and the middle one unwinds, and two
references, so that order matters.  Paths need a container in a container, an
index that is coerced, and indices at and after the end; a statement before the
call makes the holes and misfits, and two in the callee change both parameters or
call and fail.  What an activation leaves in its caller depends on the two of
them only, so two activations are enough there.  Five activations hold a file, two calls and a
handler above the session, and `max_depth` is reached and refused below that;
`Width` is above `max_depth`, so that a wrapped count is seen as one.  The run
also passes with a stack of six.  Four types have the two-level diamonds a stale
entry needs, and declarations after questions.  Dispatch registers up to three
signatures beside the built-ins, so that one is defined, withdrawn and defined
again while a site remembers it.  Three saves give a file that changes, changes
while it is attached, and changes again.  Three texts are one under way at each
level of two nested `Print`s.  Six tokens are an entry of three lines, or an
unfinished one that is discarded and another, or two entries one of which is
recalled; two presses are one in each of two entries, or one that comes between
the load and the store of the other.  Three variables with monomials of degree two
have equal lcms of different pairs, coprime pairs and chains of divisors, and five
polynomials are three generators and two that come from pairs, the first of which
drops pairs of the generators.  Four tokens are a function in a function that reads a
name, with an assignment or a loop before it, after it or around it; two function
values and two calls are an inner function made by one call and called by the
other, after a datum has taken the place of another.

The modules also define `TypeOK` (TypeTable: `TableOK`), the types of their variables.  It holds in all
these instances and is part of the invariants that are proved for Activations and
Groebner; the runs spend their properties on what is not evident.

`CHECK_DEADLOCK FALSE` is set where bounded counters (saves, texts, versions) run
out or where `quit` ends the session; the other runs check for deadlock.

### Fairness

`activations` and `session` have liveness properties.  The fairness of the first is
weak and covers one thing: while an error or an interrupt propagates, the way out goes on
(`mode # "run" /\ (Unwind \/ Report)`).  In the code this is the `?` operator and
the clean-up after a call: no user code runs between raising and the handler, so
nothing can hold it up.  Nothing is assumed of programs that run: they may loop,
never return from a call and never reach their next statement.

`session` assumes weak fairness of what the interpreter does by itself: one
statement after the other, the test of the flag in each round of a loop, and the
end of a text.  It is one thread that nothing makes wait.  It is not assumed that
a loop ends (`LeaveLoop`), that anyone types or that Ctrl-C is pressed; so
`CtrlCReturns` says that an endless loop is left because the flag is seen.

## Proofs

TLAPS checks these for all values of the constants.

* `GlobalTableProofs!SlotsStayDense`: `Spec => []SlotsOK`.  The numbering
  `slots + free` by counting is right only if used and freed slots are exactly an
  initial segment, so the invariant is `SlotsOK` with the finiteness of both
  sets; lemmas follow `SetGlobal`, `RemoveGlobal`, `UnbindName`, `StorePlace`,
  `TakePlace` and `PutPlace`, of which only the first two change slots.  The
  number arithmetic is one lemma about cardinalities for taking a slot and one
  for freeing it.
* `GlobalTableProofs!EveryGlobalKeepsItsSlot`: `Spec => []GlobalsKeepSlots`, for
  scripts that read no package file.  `SlotsKept` says of every cell with a value
  in it, or whose value a call has, that its identifier has a slot; a frame gives
  back only what it took.
* `GlobalTableProofs!FirstHolderNames` and `!AliasesListTheOthers`:
  `Spec => []AssignmentsKeepNames` and `[]AliasesAreOtherHolders`, for scripts of
  assignments and deletions.  An assignment unbinds the old value, stores the new
  one and names it, and neither property holds between these.  So the invariant
  says of a structure and the set of its holders that it goes by the one of them
  in the first slot and that the others are its aliases, each once (`Known`), and
  the lemmas let one holder join or leave: whichever of the aliases has the first
  slot takes over when the name leaves, and a holder that joins becomes the name,
  or an alias, by its slot alone.  That slots are distinct (`SlotInv`) and holders
  have one (`SlotsKept`) is what makes "the first" one holder.
* `RefArgsProofs!VariablesAreGivenBack`: `Spec => []PlainCallsGiveBack`.  The
  property speaks of the first two activations, and what a call gives back
  depends on what was given back to it, so the invariant says it of every
  activation: a slot that stands for a variable of the top level, through however
  many calls, is without a value only while the next activation has it.
* `RefArgsProofs!ArgumentsAreAliases`: `Spec => ImplementsAliasing`, the refinement
  of RefCells, for programs whose references are distinct and whose parameter
  expressions do not fail; deletions, errors, handlers and interrupts are allowed.
  The invariant (`CellsInv`) is about `cells`: a parameter has the cell of the
  variable it was given, other variables a cell of their own that nothing below
  has, so that no two variables of an activation have the same cell.  The value of
  a cell is that of its *innermost* holder, which a call moves one activation up
  and a return one down; the lemmas about `Enter` and `Leave` say that a cell's
  value stays through both.  Every step is then a step of RefCells, or none where
  an error is passed on.
* `PackagesProofs!NothingIsLeftBehind` and `!OneTextOfEachFile`:
  `Spec => []NoOrphans` and `Spec => []OneTextEach`.  A file may be attached, in
  the middle of being attached (inside the attachment of another), or neither.
  The invariant is that it is never two of these and is being attached at most
  once, that what is defined under it comes from one text, and that something is
  defined under it only in the first two cases: definitions are withdrawn where
  an attachment begins, and the entry is made where it ends.
* `PackagesProofs!PackagesTyped`, `!NothingComesBack`, `!SavesAreSeen` and
  `!NoStatementRunsOldText`: `[]TypeOK`, `[]DetachedStaysDetached`, `SavesAreNoticed`
  and `StatementsSeeSaves`, the last two action properties, for sessions in which
  packages fail and attach and detach each other.  The invariant says where the
  session is (`Phases`: no attachment is under way between statements) and that what
  is attached, queued or being attached again is `wanted` or `undone` (`Asked`):
  `Reload` is the step to worry about, as it withdraws before it attaches again.
  Without nested attachments at most one is under way and nothing is `undone`
  (`Flat`).  Where no package is saved in the middle of a reading, a package has the
  time of the text it was read from, so that comparing times is comparing texts, and
  what is `wanted` is attached or being attached again; while the queue is worked
  off, each package in the list is queued or at least as new as what the check saw
  (`Times`), which is where a failed reload must not let the statement run.
* `ActivationsProofs!TypeCorrect` and `!NresultsFollowCalls`:
  `Spec => []TypeOK` and `Spec => []NresultsOfActiveCalls`.  That the session is
  at the bottom and nowhere else is needed to know that a call is never popped
  from under an entry.
* `ActivationsProofs!QuitStopsTheProgram`, `!DepthIsOfActiveCalls` and
  `!TraceIsOfActiveCalls`: `[]QuitIsFinal`, `[]DepthCountsActiveCalls` and
  `[]LoadsKeepTrace`, which are about programs that attach no file.  The first
  needs only that no attached file is on the stack and that the mode is
  "interrupt".  For the others the invariant speaks of every file on the stack:
  what is kept with a loaded file, its loader's `depth` and `trace`, is that of the
  calls between the file below and it, and every file but the innermost has begun
  a statement.  It follows that `depth` is at least one where a call ends, so that
  the unsigned decrement does not wrap, and that the length a handler truncates
  the trace to is the length the trace has.
* `DispatchProofs!IsaIsCoherent`: `TableSpec => []IsaAnswersAreTrue`.  The invariant
  is that the entries for the current number of types are true; an answer that
  stops the recursion at true entries is the least closed set still.
  `!VersionsTellAnswersApart` is the action property `VersionFollowsIsa`.
* `DispatchProofs!SitesAreCoherent`: without null sequences among the values,
  `Spec => []SitesRememberTheChoice`.  Signatures only change with the counter
  and inheritance only with the version, both are in the key, and a site is
  `Chosen` only where every candidate tests types.
* `DispatchProofs!MostSpecificIsCalled` and `!LatestDefinitionIsCalled`:
  `Spec => []ChoiceIsMostSpecific` and `[]LaterDefinitionsWin`, without that
  condition.  The invariant is that signatures are finitely many, with orders up to
  `counter`, and that `inherits` is the inheritance of the table.  IsA is a least
  fixed point; it is transitive because what inherits from the target of an
  inheritance is closed; with that, `Leq` on patterns is transitive.  `MoreSpecific`
  is not, as it compares signatures of several lengths where both have patterns; but
  among the candidates of one call, where those that are not variadic are the
  longest, it has no cycles, so that a finite set of them has one that none is more
  specific than.  The argument uses that `Any` has no parents (`builtin_types!`,
  `types.rs:32`), which is an assumption on `Builtins`.
* `SessionProofs!RedirectionsReplaceEachOther`: `OutputSpec => []OneRedirection`, also
  for `Print`s that redirect.  (What a session prints is proved in the module about
  sessions, so the specification of Output has names of its own.)
* `SessionProofs!TextsArePrintedOnce`: `OutputSpec => []NothingTwice`, for any `Print`s.
  The places where a text can be (files, buffers of sinks, statements under way)
  are one function `Now` from spots to texts; the invariant is that no mark is at
  two spots or twice at one, and that marks are not above the last one made.  An
  operation adds a new mark, moves the text of one spot behind that of another
  (`JoinedOnce`), or drops texts while it renumbers sinks.
* `SessionProofs!RedirectionIsKept`: `OutputSpec => ImplementsRedirection`, the refinement
  of Redirection, for any programs.  In a nested state what is written goes to the
  destination or to the innermost `Print`, and the sink a `Print` ends is its own
  capture.  To take a redirection back inside a `Print` removes the file and
  renumbers the captures above it, which the promise does not see; to redirect is a
  step of the promise for the program itself, and the one exception inside a `Print`.
* `SessionProofs!NoStatementRunsTwice` and `!WhatIsAskedForRuns`:
  `Spec => []StatementsRunOnce` and `[]TextsRunAsGiven`.  An entry that goes on is
  given to the interpreter again with each line, from its beginning.  That nothing
  runs twice is because nothing of an unfinished text has run: what ran is from before
  the entry so far, or from before the token the interpreter is at (`Ordered`,
  `Covered`).  The text under way has run exactly what it asks for up to that token
  (`Advanced`), which takes `DueIs`: what a token needs to be asked for can be told from
  where statements begin and end.  For a text that has ended the same was kept as it
  ended (`EndedAsGiven`), and nothing runs later at its places (`EndedBefore`).
* `SessionProofs!HistoryHoldsTheLatest` and `!EntriesKeepTheirSeed`:
  `Spec => []HistoryIsLatest` and `[]SeedsReproduce`, from these invariants with three
  more: the generator counts the numbers drawn and an entry begins with the count at
  its place (`Seeded`); numbers in the history are consecutive up to the latest, and no
  text ended under one yet to come (`Numbered`); and an entry has the text and the seed of
  whatever ended under its number (`Agreeing`).
* `SessionProofs!InterruptsAreOfTheEntry`: `Spec => []InterruptsEndTheirEntry`, as the
  flag is cleared before an entry runs, and is raised by Ctrl-C alone (`FlagInv`).
* `GroebnerProofs!PairsAreAccounted`, `!BasisStillCovers` and `!BasisStaysMinimal`:
  `Spec => []PairsAccounted`, `[]BasisCovers` and `[]BasisIsMinimal`, for any
  monomials that are closed under lcm, any order and any degree that does not grow
  on divisors.  `PairsAccounted` says that no set of polynomials between two is cut
  off from the others: what is called a chain in the literature, without sequences.
  It is kept by the invariant that every polynomial is a multiple of one in the
  basis, and that pairs go forward (`i < j`).  For a new polynomial, a cut that
  separates it is crossed because among the lcms it makes with the basis there is
  one that no other divides, and `Kept` keeps a pair of that lcm: by descent on the
  number of lcms that divide one.  For two old ones whose pair goes, the cut is
  crossed by one of their pairs with the new one, both of smaller lcm.
* `ScopingProofs!ReadsSeeTheirVariableAlways` and `!ExitsFindTheirLoopAlways`:
  `Spec => []ReadsSeeTheirVariable` and `[]ExitsFindTheirLoop`, for any names, any
  statements of any length, and functions in functions and loops to any depth.  The
  code refers to slots, captures and the places of loops; scoping speaks of names; what
  connects them (`ScopingInvariant`) has three parts.
  - Code is judged by itself (`CodeOK`).  There is a list, `nest`, of the loops open
    before each of its instructions, each loop with the bindings it found (`Nested`).
    By these bindings and the function's locals a name has a slot (`SlotAt`), and no two
    names have the same (`Apart`).  Each instruction is right about that slot: a read
    finds it, or `self`, a global or a capture of that name (`SourceOK`), a store goes to
    it, and an exit has the slot of the innermost loop with its label (`ExitOK`).
  - A scope being compiled is such code up to where it is, and its captures are
    those that the scope around it resolves (`Linked`), so that when the function is
    made there they are found.  `resolve` adds captures to any number of scopes at
    once and `WithInits` one for each local; earlier instructions stay right because
    captures and slots are only added (`Extends`).  What is compiled is in a set of
    code `G` that has the code of every function made in its members (`Closed`);
    the invariant says that there is such a set, which takes the place of a recursion
    over functions in functions.
  - A frame has the loops of its instruction (`LoopsAt`), and where the code finds a
    name its slots, captured values or own value are what `env` says (`Agree`), inside
    the loops and for the name that each loop hides.  A function value has captured
    what `env` was (`ClosureIsOK`).  A jump back to a loop, a `break` through several
    loops and an exhausted loop take `f.loops` and `nest` back by the same number of
    loops, and give names the meanings that were hidden.
  The fold of `WithInits` is over a finite set, and is unfolded from a least
  counterexample (`FoldExists`).  Values are coded as numbers, so data made is below 90
  and there are at most ten calls (`BoundsAssumption`); no bound on tokens, functions or
  function values is used.  TLC cannot evaluate `ScopingInv`, which quantifies over
  sets of code; it checks the two properties.

Assumptions are those of the modules' ASSUMEs (which TLC evaluates in every run)
and, where a theorem names one, a condition on the constants in its statement.

Model-checked only:

* Liveness (`QuitEndsSession`, `ErrorsAreHandled`, `CtrlCReturns`): the provers have
  no rule for ENABLED, which fairness is defined by.
* RefPaths: taking and putting at a path recurse over values, and what a recursive
  operator computes for every value takes an induction the provers cannot do.

Beside these, an invariant or action property in a run has a theorem.

## Divergences

Where the code does not do what its comments or documentation say.  The first has a
run and is the *finding* in `PROJECT.json`.

1. `refargs_params`: the optional parameters of a call are evaluated after the
   reference arguments are out of their variables (`interp/call.rs:78`), and an
   error there returns without `restore_refs`: the variables have no value
   afterwards.  `interp/call.rs:96`: "Write back reference arguments, even if the
   call failed."
2. Among equals, null sequences go to the earliest built-in, other
   values to the latest (`interp/call.rs:396`); the key of a call site has the
   types only.  `intrinsics/mod.rs:87`: "since their choice depends on nothing
   else".  TLC finds it with `Calls <- MCCallsNull` in `Dispatch.cfg`:
   `SitesRememberTheChoice` is violated.
3. `attach` reads the text before the time (`session.rs:163`,
   164); a save in between is taken for the one that was read.  TLC finds it with
   `Programs <- MCRaces` in `Packages.cfg` and the property `ChangesAreNoticed`.
4. `end_capture` finds the file of a redirection made inside a
   `Print` on top and leaves the buffer below it (`output.rs:98`).  TLC finds it with
   `Programs <- MCInside` in `Output.cfg` and the invariant `OutputComesBack`.
5. A log gets what is written while standard output is the only sink
   (`output.rs:70`): neither what is redirected to a file nor any input reaches it.
   `intrinsics/io.rs:505`: "Copy all input and output to the file F."  TLC finds it
   with the property `LogHasAllOutput` in `Output.cfg`.  The promise Redirection says
   what the code does.
6. A package that fails while it is attached again ends the text being run, instead
   of being reported (`session.rs:76`), and is out of the list and not looked at any
   more (`session.rs:170`); the other packages in the queue are found again by the
   next check.  `session.rs:44`: "an error in one statement is passed to `report` and
   the following statements still run".  TLC finds it with `Programs <- MCFails` in
   `Packages.cfg` and the property `ErrorsSkipNothing`.  What holds is that no
   statement runs before the others are attached again (`StatementsSeeSaves`).
7. A package in the list of changed ones is attached again even when an earlier one
   of the list has just detached it (`session.rs:201`), and one that detaches itself
   while it is attached again is in the list when it ends.  `intrinsics/io.rs:542`:
   "Detach the package file F."  TLC finds it with `Programs <- MCNests` in
   `Packages.cfg` and the invariant `DetachIsForGood`.  `DetachedStaysDetached` says
   that nothing comes back in any other way.

Others, which the guards of the properties leave out and which have no run of
their own:

* A value taken out of a global (`take_place`, `interp/assign.rs:181`) leaves its
  name cell set, and what is put back is stored without unbinding it: after an
  op-assignment or a reference argument the old structure can go by a name it no
  longer has.  `clear` (`interp/stmt.rs:417`), the end of a package
  (`session.rs:169`) and a loop that takes back the name it lent
  (`interp/iter.rs:261`) do the same to structures that are reachable otherwise.
  `interp/mod.rs:285` and `value.rs:471` say that a structure goes by the first
  global holding it.  `AssignmentsKeepNames` is guarded by scripts without these.
* `delete` in a package frees the slot of the user's identifier of that name
  (`interp/mod.rs:275`); the identifier then has a value and no place in the order.
  `GlobalsKeepSlots` is guarded by scripts without packages.
* `p(~x, ~x)`: the second reference finds `x` empty, and the last one written back
  stays (`interp/call.rs:104`).  `PlainCallsGiveBack` excludes it.
* A reference inside another (`p(~l[1], ~l)`): the second is taken without the
  element, and put back over, or after, the first.  A call refused for another
  reason loses the element in the same way.  `FailuresChangeNothing` excludes it.
* A parameter whose value does not fit its element any more is lost with the
  write-back's error (`interp/assign.rs:60`); the element has no value afterwards.
  `ElementsGetTheirValues` is about those that fit.
* `put_at_path` removes an array's entry under the index as given, not as coerced
  (`interp/assign.rs:73`): in an array over GF(7) a deleted `~A[8]` leaves an entry
  without a value.  `interp/assign.rs:68`: "An unassigned associative array entry
  that stays unassigned is removed."  It also looks at paths of one step only: an
  element of an inner sequence that stays unassigned is an error.
* A list that is asked by reference for the element after its last one gets an
  undefined element, even when the call is refused (`interp/assign.rs:381`).
  `FailuresChangeNothing` compares elements for this reason.
* `attach` puts back neither trace nor depth (`session.rs:167`), as `load_file`
  does: after an `Attach` inside a call the depth is decremented below zero and
  wraps in a release build.  The properties of trace and depth exclude attached
  files; `NresultsOfActiveCalls` holds with them.
* `quit` in an attached file ends that file, and the program goes on to the end of
  its statement (`session.rs:168`).
* A parent that inherits from the type it is given to makes `isa` recurse without
  end (`types.rs:300`); `NoCycle` excludes it.
* `session.rs:46` says that a syntax error discards all of the text; the code runs
  the statements before it, as `session.rs:71` says.  `TextsRunAsGiven` is the latter.
* `SetQuitOnError` (`intrinsics/env.rs`) stops the rest of an entry but does not end
  the session of `repl` (`crates/calyx-cli/src/main.rs:637`), only files and piped
  lines.  `StopsAtError` is what the code does.
* Files and piped lines do not clear the interrupt flag before a text, so Ctrl-C
  between two of them ends the next one that loops; `InterruptsEndTheirEntry` is
  about the prompt.
* `resolve` and `capture_source` look at forward declarations before enclosing
  functions (`compile.rs:170`, `compile.rs:197`): inside a function whose parameter,
  local or loop variable has the name of a function declared forward, an inner function
  means the global.  The model declares forward only names that nothing binds.
* A function that assigns to a name makes the functions around it capture the name
  for its first value (`compile.rs:556`); the intrinsic of that name is no such value
  (`interp/eval.rs:434`), and a later use in the function around it, which takes the
  capture that is there, finds it unassigned.  With the use before the inner function
  it is the intrinsic.  In the model intrinsics are not bound.
* `eval` takes the variables of its caller in the order of slots
  (`interp/eval.rs:846`), so after a loop the loop's variable hides the local of that
  name.  `eval` is not modelled.
* `scan_expr` does not look into maps and record formats, so a reference argument
  there is first placed as the body is compiled (`compile.rs:222`); it has no value
  from outside.
* The comment of `State::basis` (`crates/calyx-groebner/src/buchberger.rs:22`) says that
  no leading monomial of the basis divides another; with a limit, and in F4, generators
  are taken as they are and it does not hold until the result is made.  `BasisIsMinimal`
  says where it does.
* `range_len` (`value.rs:318`) caps counts at 2^64 - 1 and adds one to a quotient that
  may be 2^64 - 1: `{0..2^64-1}` has no elements in a release build.  A descending
  range whose count is capped is stored from a wrong least element (`value.rs:252`).

## Not modelled

The table above names what is left out of the whole and the hazards of
`PROJECT.json` name what that costs.  Most of the repository's lines are natives:
the libraries of intrinsics, the bindings of FLINT and number theory, over four
fifths of the code.  Each native is a function of its arguments on integers,
polynomials and matrices of any size; it keeps no state between calls, its
difficulty is arithmetic, and its instances are beyond enumeration.  A model of
them would be their text again, so the models cover a small share of the lines,
those that hold state or decide an order.

Inside the modelled parts: references to tuples, matrices and the attributes of
structures, which are shared between variables; default values of arrays; values
nested in values (a structure inside a sequence has a name cell too); `eval`;
`load` inside package files; spec files, which attach and detach lists of
packages; what the native stack can hold; the layout of what is printed; the
interrupt flag outside Session, where it appears as an interrupt at any
statement; the history file, completion and editing of lines; `case`, `where`,
comprehensions and optional parameters in Scoping; coefficients, tails and the
order of selection in Groebner (any order is allowed); FGLM and the modular
algorithm, which are linear algebra.

## Plan

What is left, in this order:

1. The attributes of structures in `RefPaths`, with a heap; the parts of `RefPaths`
   and `GlobalTable` that meet (names of structures inside containers).
2. `eval` in Scoping: a compiler whose top level reads the caller's slots.
3. Packages within Session: what automatic reloading does to an entry that was
   begun before the save.
4. The number of steps of a progression at 64 bits, against its definition.
5. Covering structures of two rings, as operators over a small lattice of rings.

## Running

    tlc -workers 2 -config GlobalTable.cfg MCGlobalTable
    tlapm GlobalTableProofs.tla

The configurations are named after the module, with a suffix for the run that
shows a divergence.  Each run takes two minutes at most on two cores.
