------------------------------ MODULE Packages ------------------------------
(***************************************************************************)
(* Package files (session.rs): attaching one runs its text, the intrinsics *)
(* it defines become global, and before each statement of the session the  *)
(* packages whose files changed on disk are attached again.  An editor     *)
(* saves the files at any moment.                                          *)
(***************************************************************************)
EXTENDS Naturals, Sequences

CONSTANTS
    Files,      \* package files
    MaxSaves,   \* bound: how often each file is saved
    MaxNest,    \* bound: packages being attached within each other
    MaxScript,  \* bound: statements of a script
    Programs    \* the kinds of sessions: sets of what happens in them

\* "race":   a file is saved between the reading of its text and of its time.
\* "broken": a text with a syntax error is saved.
\* "fail":   a statement of a package fails.
\* "nested": a package attaches and detaches others.
\* "report": errors are reported and the session goes on.
AllFeatures == {"race", "broken", "fail", "nested", "report"}

ASSUME PackagesAssumption ==
    /\ MaxSaves \in Nat /\ MaxNest \in Nat /\ MaxScript \in Nat
    /\ Programs \subseteq SUBSET AllFeatures

VARIABLES
    uses,      \* what happens in this session
    disk,      \* each file's text, named by its save, and whether it parses;
               \* a save is also the file's modification time, 0 if missing
    packages,  \* `Interp::packages`: path, modification time; the text that
               \* was attached is auxiliary, and their order is left open
    sigs,      \* the intrinsics in the table, by file and text
    work,      \* the packages being attached, innermost last
    queue,     \* the changed packages still to be attached again
    phase,     \* "check", "reload" or "run": where the session is
    left,      \* statements of the script that are still to be run
    error,     \* an error propagates
    wanted,    \* auxiliary: files attached by a statement of the session or
               \* of a package, and neither detached nor failed since
    undone,    \* auxiliary: files detached, or that failed, while in the
               \* queue or in the middle of being attached
    seen       \* auxiliary: each file's save when the session last looked

vars == <<uses, disk, packages, sigs, work, queue, phase, left, error, wanted, undone, seen>>
session == <<queue, phase, left>>
auxiliary == <<wanted, undone, seen>>

-----------------------------------------------------------------------------
Attached(f) == \E p \in packages : p.path = f
Working(f) == \E i \in DOMAIN work : work[i].path = f
Without(f) == {p \in packages : p.path # f}
SigsWithout(f) == {s \in sigs : s.source # f}

Top == work[Len(work)]
Outer == SubSeq(work, 1, Len(work) - 1)
Idle == work = <<>>

\* `now.is_some() && now != p.mtime`
Stale(p) == disk[p.path].save # 0 /\ disk[p.path].save # p.mtime

Init ==
    /\ uses \in Programs
    /\ disk \in [Files -> [save : {0, 1}, parses : {TRUE}]]
    /\ packages = {} /\ sigs = {} /\ work = <<>> /\ queue = {}
    /\ phase = "check" /\ left = 0
    /\ error = FALSE
    /\ wanted = {} /\ undone = {} /\ seen = [f \in Files |-> 0]

-----------------------------------------------------------------------------
(* Outside the program *)

\* A save gives the file another text and another time.
Save(f, parses) ==
    /\ disk[f].save < MaxSaves
    /\ parses \/ "broken" \in uses
    /\ (~Idle /\ Top.path = f /\ Top.step = "read") => "race" \in uses
    /\ disk' = [disk EXCEPT ![f] = [save |-> @.save + 1, parses |-> parses]]
    /\ UNCHANGED <<packages, sigs, work, session, error, auxiliary>>

\* The user enters a script.
Enter(n) ==
    /\ phase = "check" /\ left = 0
    /\ left' = n
    /\ UNCHANGED <<disk, packages, sigs, work, queue, phase, error, auxiliary>>

-----------------------------------------------------------------------------
(* attach *)

\* What was asked for `f` is no longer asked for; a file that is queued or
\* being attached comes back all the same.
Forget(f) ==
    /\ wanted' = wanted \ {f}
    /\ undone' = IF f \in queue \/ Working(f) THEN undone \union {f} ELSE undone \ {f}
    /\ UNCHANGED seen

\* `attach` up to the text: what the file defined before is withdrawn.
Withdraw(f) ==
    /\ packages' = Without(f)
    /\ sigs' = SigsWithout(f)

\* Mutant of Begin: the earlier definitions stay until the end.
BeginKeepsOld(f) ==
    /\ Len(work) < MaxNest /\ ~Working(f)
    /\ packages' = Without(f) /\ UNCHANGED sigs
    /\ IF disk[f].save = 0
       THEN error' = TRUE /\ UNCHANGED work
       ELSE /\ work' = Append(work, [path |-> f, text |-> disk[f], step |-> "read", mtime |-> 0])
            /\ UNCHANGED error

\* No file attaches itself, directly or through others: it would not end.
Begin(f) ==
    /\ Len(work) < MaxNest /\ ~Working(f)
    /\ Withdraw(f)
    /\ IF disk[f].save = 0
       THEN error' = TRUE /\ UNCHANGED work
       ELSE /\ work' = Append(work, [path |-> f, text |-> disk[f], step |-> "read", mtime |-> 0])
            /\ UNCHANGED error

ReadTime ==
    /\ ~Idle /\ Top.step = "read"
    /\ work' = [work EXCEPT ![Len(work)].mtime = disk[Top.path].save, ![Len(work)].step = "run"]
    /\ UNCHANGED <<disk, packages, sigs, session, error, auxiliary>>

Running == ~Idle /\ Top.step = "run" /\ Top.text.parses /\ ~error

Define ==
    /\ Running
    /\ sigs' = sigs \union {[source |-> Top.path, save |-> Top.text.save]}
    /\ UNCHANGED <<disk, packages, work, session, error, auxiliary>>

\* A text that does not parse is not run at all.
FailIn ==
    /\ ~Idle /\ Top.step = "run" /\ ~error
    /\ Top.text.parses => "fail" \in uses
    /\ error' = TRUE
    /\ UNCHANGED <<disk, packages, sigs, work, session, auxiliary>>

AttachNested(f) ==
    /\ "nested" \in uses
    /\ Running
    /\ Begin(f)
    /\ Forget(f)
    /\ UNCHANGED <<disk, session>>

DetachNested(f) ==
    /\ "nested" \in uses
    /\ Running
    /\ Withdraw(f)
    /\ Forget(f)
    /\ UNCHANGED <<disk, work, session, error>>

\* A `try` of the package stops the error of what it attached.
CatchIn ==
    /\ ~Idle /\ Top.step = "run" /\ Top.text.parses /\ error
    /\ error' = FALSE
    /\ UNCHANGED <<disk, packages, sigs, work, session, auxiliary>>

\* The package is in the reload queue, not in a statement.
Reloading == Len(work) = 1 /\ phase = "reload"

\* `f` is attached again, or because a statement says so.
Entered(f) ==
    /\ wanted' = IF Reloading THEN wanted ELSE wanted \union {f}
    /\ undone' = IF Reloading THEN undone ELSE undone \ {f}
    /\ UNCHANGED seen

\* It failed, and is gone if it is not queued.
Failed(f) ==
    /\ wanted' = wanted \ {f}
    /\ undone' = IF f \in queue THEN undone \union {f} ELSE undone \ {f}
    /\ UNCHANGED seen

\* Mutant of End: a failed package leaves its definitions.
EndKeepsFailed ==
    /\ ~Idle /\ Top.step = "run" /\ (error \/ Top.text.parses)
    /\ work' = Outer
    /\ IF error
       THEN UNCHANGED <<packages, sigs>> /\ Failed(Top.path)
       ELSE /\ packages' = packages \union {[path |-> Top.path, mtime |-> Top.mtime,
                                        save |-> Top.text.save]}
            /\ Entered(Top.path)
            /\ UNCHANGED sigs
    /\ UNCHANGED <<disk, session, error>>

\* The text is over or an error leaves it; an error takes the definitions
\* with it.
End ==
    /\ ~Idle /\ Top.step = "run" /\ (error \/ Top.text.parses)
    /\ work' = Outer
    /\ IF error
       THEN sigs' = SigsWithout(Top.path) /\ UNCHANGED packages /\ Failed(Top.path)
       ELSE /\ packages' = packages \union {[path |-> Top.path, mtime |-> Top.mtime,
                                        save |-> Top.text.save]}
            /\ Entered(Top.path)
            /\ UNCHANGED sigs
    /\ UNCHANGED <<disk, session, error>>

-----------------------------------------------------------------------------
(* The session *)

\* Mutant of Check: a file older than the one that was attached is changed.
CheckOlder ==
    /\ phase = "check" /\ left > 0
    /\ queue' = {p.path : p \in {q \in packages : disk[q.path].save < q.mtime}}
    /\ phase' = "reload"
    /\ seen' = [f \in Files |-> disk[f].save]
    /\ UNCHANGED <<disk, packages, sigs, work, left, error, wanted, undone>>

\* `check_package_updates` lists what changed ...
Check ==
    /\ phase = "check" /\ left > 0
    /\ queue' = {p.path : p \in {q \in packages : Stale(q)}}
    /\ phase' = "reload"
    /\ seen' = [f \in Files |-> disk[f].save]
    /\ UNCHANGED <<disk, packages, sigs, work, left, error, wanted, undone>>

\* ... and attaches it again, one after the other.
Reload(f) ==
    /\ phase = "reload" /\ Idle /\ ~error /\ f \in queue
    /\ Begin(f)
    /\ queue' = queue \ {f}
    /\ UNCHANGED <<disk, phase, left, auxiliary>>

\* Mutant of GiveUp: the error is reported and the statement runs.
GiveUpRuns ==
    /\ phase = "reload" /\ Idle /\ error
    /\ queue' = {} /\ phase' = "run" /\ error' = FALSE
    /\ UNCHANGED <<disk, packages, sigs, work, left, auxiliary>>

\* An error of it is the end of the script, whatever `report` says; what
\* else was in the queue is forgotten.
GiveUp ==
    /\ phase = "reload" /\ Idle /\ error
    /\ queue' = {} /\ phase' = "check" /\ left' = 0 /\ error' = FALSE
    /\ UNCHANGED <<disk, packages, sigs, work, auxiliary>>

BeginStatement ==
    /\ phase = "reload" /\ Idle /\ ~error /\ queue = {}
    /\ phase' = "run"
    /\ UNCHANGED <<disk, packages, sigs, work, queue, left, error, auxiliary>>

Attach(f) ==
    /\ phase = "run" /\ Idle /\ ~error
    /\ Begin(f)
    /\ Forget(f)
    /\ UNCHANGED <<disk, session>>

\* `import_package`
Import(f) ==
    /\ ~Attached(f)
    /\ Attach(f)

\* Mutant of Detach: the file is still looked at.
DetachSigsOnly(f) ==
    /\ phase = "run" /\ Idle /\ ~error
    /\ sigs' = SigsWithout(f)
    /\ Forget(f)
    /\ UNCHANGED <<disk, packages, work, session, error>>

Detach(f) ==
    /\ phase = "run" /\ Idle /\ ~error
    /\ Withdraw(f)
    /\ Forget(f)
    /\ UNCHANGED <<disk, work, session, error>>

\* The error of a statement is reported, or is the end of the script.
EndStatement ==
    /\ phase = "run" /\ Idle
    /\ phase' = "check"
    /\ left' = IF error /\ "report" \notin uses THEN 0 ELSE left - 1
    /\ error' = FALSE
    /\ UNCHANGED <<disk, packages, sigs, work, queue, auxiliary>>

Step ==
    \/ \E f \in Files, parses \in BOOLEAN : Save(f, parses)
    \/ \E n \in 1..MaxScript : Enter(n)
    \/ \E f \in Files : AttachNested(f) \/ DetachNested(f)
    \/ \E f \in Files : Attach(f) \/ Import(f) \/ Detach(f) \/ Reload(f)
    \/ ReadTime \/ Define \/ FailIn \/ CatchIn \/ End
    \/ Check \/ GiveUp \/ BeginStatement \/ EndStatement

Next == Step /\ UNCHANGED uses

Spec == Init /\ [][Next]_vars

-----------------------------------------------------------------------------
(* Properties *)

TypeOK ==
    /\ \A p \in packages : p.path \in Files
    /\ phase \in {"check", "reload", "run"}
    /\ left \in 0..MaxScript
    /\ phase = "check" => Idle /\ ~error /\ queue = {}
    /\ phase = "run" => left > 0

\* The table has the intrinsics of files that are attached or being
\* attached, and of no other ("Remove all signatures defined by a package
\* file", intrinsics/mod.rs:192): a failed package leaves nothing.
NoOrphans == \A s \in sigs : Attached(s.source) \/ Working(s.source)

\* And of one text of each: the one that was read last.
OneTextEach ==
    /\ \A s \in sigs, p \in packages : p.path = s.source => p.save = s.save
    /\ \A s \in sigs, i \in DOMAIN work : work[i].path = s.source => work[i].text.save = s.save
    /\ \A p, q \in packages : p.path = q.path => p = q

\* When a statement is about to run, each package the program attached is
\* attached with the text on disk, or about to be ("Re-attach packages whose
\* files changed since they were attached", session.rs:186), whatever failed
\* before and is attached within others.
Noticed ==
    \A f \in wanted :
        \/ \E p \in packages : p.path = f /\ p.save = disk[f].save
        \/ f \in queue'

ChangesAreNoticed == [][(phase = "check" /\ phase' = "reload") => Noticed]_vars

\* That is so where no package is saved between the reading of its text and
\* of its time.
SavesAreNoticed ==
    [][(phase = "check" /\ phase' = "reload" /\ "race" \notin uses) => Noticed]_vars

\* A statement runs with no text older than what its check saw, in any of
\* the packages the program attached: neither the failure of one of them in
\* the middle of the queue (session.rs:76) nor what they attach and detach
\* meanwhile lets a statement run before the others have been attached.
StatementsSeeSaves ==
    [][(phase = "reload" /\ phase' = "run" /\ "race" \notin uses) =>
           \A f \in wanted : \E p \in packages : p.path = f /\ p.save >= seen[f]]_vars

\* Only what the program attached and did not detach is attached ("Detach
\* the package file F", intrinsics/io.rs:542), with one exception: a package
\* that another one detaches, or attaches in vain, while it waits in the
\* queue or is itself being attached (session.rs:201).
DetachedStaysDetached ==
    /\ \A p \in packages : p.path \in wanted \union undone
    /\ "nested" \notin uses => undone = {}

\* There is the exception.
DetachIsForGood == \A p \in packages : p.path \in wanted

\* Statements are run one by one, none left out ("an error in one statement
\* is passed to `report` and the following statements still run",
\* session.rs:44).  It is not so when a package fails to be attached again.
ErrorsSkipNothing ==
    [][("report" \in uses /\ left' < left) => (phase = "run" /\ left' = left - 1)]_vars

=============================================================================
