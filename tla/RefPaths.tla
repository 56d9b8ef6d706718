------------------------------ MODULE RefPaths ------------------------------
(***************************************************************************)
(* Assignments and reference arguments below a variable (interp/assign.rs):*)
(* `l[2][1] := x` and `p(~l[2][1])`.  Both take the variable's value out,  *)
(* walk a path into it and store the value again.  A reference element is  *)
(* left without a value during the call; what the parameter holds when the *)
(* call is over goes back along the path, and may not fit any more.        *)
(*                                                                         *)
(* Containers are sequences and records, whose universe or field types     *)
(* admit only some values, lists, and associative arrays, whose indices    *)
(* are coerced.  Left out are tuples, matrices, the attributes of          *)
(* structures (which are shared), default values, the widening of a        *)
(* universe of indices, and interrupts, which end calls as errors do       *)
(* (RefArgs).                                                              *)
(***************************************************************************)
EXTENDS Naturals, SequencesExt

CONSTANTS
    Vars,       \* slots of a frame, numbered from 1; parameters come first
    Ints,       \* atoms in the universe of the sequences and typed fields
    Others,     \* atoms that are not
    Undef,      \* Value::Undef
    Starts,     \* what the slots of the top level may hold at first
    Fresh,      \* what programs assign
    Indices,    \* what programs index with, and the fields of records
    Coerced,    \* the element of an array's universe an index stands for
    Places,     \* the variables, and the paths below them, that programs use
    MaxFrames,  \* bound: nested activations
    MaxSteps,   \* bound: statements of one activation
    MaxRefs,    \* bound: reference arguments of one call
    Programs    \* the kinds of programs: sets of the features they use

\* "overlap": of two references of a call, one may be inside the other.
\* "delete": variables are deleted.
AllFeatures == {"overlap", "delete"}

Kinds == {"seq", "list", "assoc", "rec"}

ASSUME ConstantsAssumption ==
    /\ Vars \subseteq Nat \ {0} /\ Indices \subseteq Nat \ {0}
    /\ Undef \notin Ints \union Others
    /\ \A i \in Indices : Coerced[i] \in Indices /\ Coerced[Coerced[i]] = Coerced[i]
    /\ Places \subseteq [root : Vars, path : Seq(Indices)]
    /\ 1..MaxRefs \subseteq Vars
    /\ Programs \subseteq SUBSET AllFeatures

VARIABLES
    uses,    \* the features of the program that runs
    frames,  \* activations, the top level first: slots, and the references
             \* they were given; `before` is auxiliary: the slots of the
             \* caller before the call; `steps` counts statements
    mode     \* "run" or "raise" (an Err propagates)

vars == <<uses, frames, mode>>

Level == Len(frames)
Top == frames[Level]
Below == SubSeq(frames, 1, Level - 1)


-----------------------------------------------------------------------------
(* Values *)

Container(v) == v \notin Ints \union Others \union {Undef}

\* Where a container keeps the element with index i.
Key(c, i) == IF c.kind = "assoc" THEN Coerced[i] ELSE i

\* The element of v at the end of the path; Undef where there is none.
RECURSIVE At(_, _)
At(v, path) ==
    IF path = <<>> THEN v
    ELSE IF ~Container(v) THEN Undef
    ELSE IF Key(v, path[1]) \notin DOMAIN v.elems THEN Undef
    ELSE At(v.elems[Key(v, path[1])], Tail(path))

\* The path with every index as the container has it.
RECURSIVE Walked(_, _)
Walked(v, path) ==
    IF path = <<>> \/ ~Container(v) THEN path
    ELSE LET k == Key(v, path[1])
         IN  <<k>> \o Walked(At(v, <<path[1]>>), Tail(path))

\* Every sequence and every typed field (the first of a record) has only
\* values of its universe, or none.
RECURSIVE WellFormed(_)
WellFormed(v) ==
    Container(v) =>
        /\ v.kind \in Kinds
        /\ \A k \in DOMAIN v.elems :
            /\ v.kind = "seq" \/ (v.kind = "rec" /\ k = 1) => v.elems[k] \in Ints \union {Undef}
            /\ WellFormed(v.elems[k])

-----------------------------------------------------------------------------
(* Walking a path *)

\* `take_at_path`: `got` is the element, `left` what is left of v.
RECURSIVE TakeAt(_, _)
TakeAt(v, path) ==
    LET Failed == [ok |-> FALSE, got |-> Undef, left |-> v]
        k == Key(v, path[1])
        inner == TakeAt(v.elems[k], Tail(path))
    IN  IF path = <<>> THEN [ok |-> TRUE, got |-> v, left |-> Undef]
        ELSE IF ~Container(v) THEN Failed
        ELSE IF k \notin DOMAIN v.elems
             THEN [Failed EXCEPT !.ok = Len(path) = 1 /\ v.kind # "rec"]
        ELSE [inner EXCEPT !.left = [v EXCEPT !.elems[k] = inner.left]]

\* Does the container accept x as its element k?
Accepts(c, k, x) ==
    /\ c.kind = "seq" => x \in Ints
    /\ c.kind = "list" => k <= Cardinality(DOMAIN c.elems) + 1
    /\ c.kind = "rec" => k \in DOMAIN c.elems /\ (k = 1 => x \in Ints)

\* A sequence grows to the index, with holes.
Store(c, k, x) ==
    LET keys == DOMAIN c.elems \union (IF c.kind = "seq" THEN 1..k ELSE {k})
    IN  [c EXCEPT !.elems = [j \in keys |-> IF j = k THEN x
                                            ELSE IF j \in DOMAIN c.elems THEN c.elems[j]
                                            ELSE Undef]]

\* `set_path`, `set_index`, `set_attr`.
RECURSIVE SetAt(_, _, _)
SetAt(v, path, x) ==
    LET Failed == [ok |-> FALSE, left |-> v]
        k == Key(v, path[1])
        inner == SetAt(v.elems[k], Tail(path), x)
    IN  IF path = <<>> THEN [ok |-> TRUE, left |-> x]
        ELSE IF ~Container(v) THEN Failed
        ELSE IF Len(path) = 1
             THEN IF Accepts(v, k, x) THEN [ok |-> TRUE, left |-> Store(v, k, x)] ELSE Failed
        ELSE IF k \notin DOMAIN v.elems THEN Failed
        ELSE [inner EXCEPT !.left = [v EXCEPT !.elems[k] = inner.left]]

\* `put_at_path`: an element without a value goes back to an array or a
\* sequence by a way of its own.  The array removes the index as it was given.
PutAt(v, path, x) ==
    LET Special(kind) == x = Undef /\ Len(path) = 1 /\ Container(v) /\ v.kind = kind
        i == path[1]
    IN  IF Special("assoc")
        THEN [ok   |-> TRUE,
              left |-> [v EXCEPT !.elems = [k \in DOMAIN @ \ {i} |-> @[k]]]]
        ELSE IF Special("seq")
        THEN [ok   |-> TRUE,
              left |-> [v EXCEPT !.elems = [k \in DOMAIN @ |-> IF k = i THEN Undef ELSE @[k]]]]
        ELSE SetAt(v, path, x)

-----------------------------------------------------------------------------
(* The references of a call *)

\* `take_ref`: whole variables may be without a value, the others not.
TakeRef(slots, r) ==
    LET t == TakeAt(slots[r.root], r.path)
    IN  [ok    |-> t.ok,
         arg   |-> t.got,
         slots |-> [slots EXCEPT ![r.root] = t.left]]

\* Mutant of PutRef: the variable gets its value back only if it fits.
PutRefIfFits(slots, r, x) ==
    LET p == PutAt(slots[r.root], r.path, x)
    IN  [ok    |-> p.ok,
         slots |-> [slots EXCEPT ![r.root] = IF p.ok THEN p.left ELSE Undef]]

\* `put_ref`: the variable gets its value back even if the element does not.
PutRef(slots, r, x) ==
    LET p == PutAt(slots[r.root], r.path, x)
    IN  [ok |-> p.ok, slots |-> [slots EXCEPT ![r.root] = p.left]]

\* The references in order, up to the first that cannot be taken.
TakeRefs(slots, refs) ==
    FoldLeft(LAMBDA acc, r :
                LET t == TakeRef(acc.slots, r)
                IN  IF ~acc.ok THEN acc
                    ELSE IF ~t.ok THEN [acc EXCEPT !.ok = FALSE]
                    ELSE [ok |-> TRUE, slots |-> t.slots, args |-> Append(acc.args, t.arg)],
             [ok |-> TRUE, slots |-> slots, args |-> <<>>], refs)

\* Mutant of PutRefs: the first that fails is the last that is tried.
PutRefsUntilError(slots, refs, args) ==
    FoldLeft(LAMBDA acc, k :
                LET p == PutRef(acc.slots, refs[k], args[k])
                IN  IF acc.ok THEN [ok |-> p.ok, slots |-> p.slots] ELSE acc,
             [ok |-> TRUE, slots |-> slots], [k \in 1..Len(args) |-> k])

\* `restore_refs`: all that were taken go back in order, whatever fails.
PutRefs(slots, refs, args) ==
    FoldLeft(LAMBDA acc, k :
                LET p == PutRef(acc.slots, refs[k], args[k])
                IN  [ok |-> acc.ok /\ p.ok, slots |-> p.slots],
             [ok |-> TRUE, slots |-> slots], [k \in 1..Len(args) |-> k])

\* With the values of these slots, one place is inside the other.
Overlap(slots, r, s) ==
    /\ r.root = s.root
    /\ LET p == Walked(slots[r.root], r.path)
           q == Walked(slots[s.root], s.path)
       IN  IsPrefix(p, q) \/ IsPrefix(q, p)

Alone(slots, refs, k) == \A j \in DOMAIN refs : j # k => ~Overlap(slots, refs[j], refs[k])

\* The references a call of this program may be given.
Passed(slots) ==
    {refs \in UNION {[1..k -> Places] : k \in 0..MaxRefs} :
        "overlap" \in uses \/ \A k \in DOMAIN refs : Alone(slots, refs, k)}

-----------------------------------------------------------------------------
(* Statements of the innermost activation *)

Init ==
    /\ uses \in Programs
    /\ frames \in {<<[slots |-> s, refs |-> <<>>, before |-> s, steps |-> 0]>> : s \in Starts}
    /\ mode = "run"

\* Mutant of Assign: the variable is put back only if the element fits.
AssignLosesRoot(place, x) ==
    /\ mode = "run" /\ Top.steps < MaxSteps
    /\ x = Undef => place.path = <<>> /\ "delete" \in uses
    /\ LET s == SetAt(Top.slots[place.root], place.path, x)
           left == IF s.ok THEN s.left ELSE Undef
       IN  /\ frames' = [frames EXCEPT ![Level].steps = @ + 1,
                                       ![Level].slots[place.root] = left]
           /\ mode' = IF s.ok THEN "run" ELSE "raise"

Assign(place, x) ==
    /\ mode = "run" /\ Top.steps < MaxSteps
    /\ x = Undef => place.path = <<>> /\ "delete" \in uses
    /\ LET s == SetAt(Top.slots[place.root], place.path, x)
       IN  /\ frames' = [frames EXCEPT ![Level].steps = @ + 1,
                                       ![Level].slots[place.root] = s.left]
           /\ mode' = IF s.ok THEN "run" ELSE "raise"

Call(refs) ==
    /\ mode = "run" /\ Level < MaxFrames /\ Top.steps < MaxSteps
    /\ LET t == TakeRefs(Top.slots, refs)
       IN  /\ t.ok
           /\ frames' = Append([frames EXCEPT ![Level].steps = @ + 1,
                                              ![Level].slots = t.slots],
                               [slots  |-> [i \in Vars |-> IF i <= Len(refs) THEN t.args[i]
                                                           ELSE Undef],
                                refs   |-> refs,
                                before |-> Top.slots,
                                steps  |-> 0])
    /\ UNCHANGED mode

\* A reference cannot be taken, or the call is refused for another reason
\* after these were; errors of the way back are not looked at.
RefusedCall(refs) ==
    /\ mode = "run" /\ Top.steps < MaxSteps
    /\ LET t == TakeRefs(Top.slots, refs)
       IN  frames' = [frames EXCEPT ![Level].steps = @ + 1,
                                    ![Level].slots = PutRefs(t.slots, refs, t.args).slots]
    /\ mode' = "raise"

\* The body returned or failed; its own error goes before one of the way back.
Leave ==
    /\ Level > 1
    /\ LET args == SubSeq(Top.slots, 1, Len(Top.refs))
           p == PutRefs(frames[Level - 1].slots, Top.refs, args)
       IN  /\ frames' = [Below EXCEPT ![Level - 1].slots = p.slots]
           /\ mode' = IF p.ok THEN mode ELSE "raise"

\* A statement of another kind fails.
Fail ==
    /\ mode = "run"
    /\ mode' = "raise"
    /\ UNCHANGED frames

\* A handler of the activation stops the error, or the statement was one of
\* the top level and the error is reported.
Catch ==
    /\ mode = "raise"
    /\ mode' = "run"
    /\ UNCHANGED frames

Step ==
    \/ \E place \in Places, x \in Fresh \union {Undef} : Assign(place, x)
    \/ \E refs \in Passed(Top.slots) : Call(refs) \/ RefusedCall(refs)
    \/ Leave \/ Fail \/ Catch

Next == Step /\ UNCHANGED uses

Spec == Init /\ [][Next]_vars

-----------------------------------------------------------------------------
(* Properties *)

TypeOK ==
    /\ uses \in Programs
    /\ Level \in 1..MaxFrames
    /\ mode \in {"run", "raise"}
    /\ \A k \in 1..Level :
        /\ \A i \in Vars : WellFormed(frames[k].slots[i])
        /\ frames[k].refs \in Seq(Places) /\ Len(frames[k].refs) <= MaxRefs

SlotAt(slots, place) == At(slots[place.root], place.path)

\* When a call is over, every referenced element that no other reference of
\* the call is inside of, or around, has the value of its parameter, if that
\* fits; and if the call succeeds, they all fit (`restore_refs` gets to all
\* of them, interp/call.rs:104, and reports the first error).
ElementsGetTheirValues ==
    [][Level' < Level =>
        \A k \in DOMAIN Top.refs : Alone(Top.before, Top.refs, k) =>
            LET r == Top.refs[k]
                x == Top.slots[k]
            IN  SetAt(Top.before[r.root], r.path, x).ok \/ mode' = "run"
                    => SlotAt(frames'[Level - 1].slots, r) = x]_vars

\* Elements that no reference is inside of, or around, have after the call
\* the values they had before, also when it fails and when values do not fit.
OthersKeepTheirs ==
    [][Level' < Level =>
        \A place \in Places :
            (\A k \in DOMAIN Top.refs : ~Overlap(Top.before, place, Top.refs[k]))
                => SlotAt(frames'[Level - 1].slots, place) = SlotAt(Top.before, place)]_vars

\* A statement that fails by itself leaves every element as it was: an
\* assignment that does not fit, a reference that cannot be taken, a call
\* that is refused (unless it was given overlapping references).  Containers
\* are compared by their elements, because a list that is asked for its next
\* element gets one without a value (`take_at_path` and `set_index`).
FailuresChangeNothing ==
    [][mode = "run" /\ mode' = "raise" /\ Level' = Level /\ "overlap" \notin uses =>
        \A place \in Places :
            ~Container(SlotAt(Top.slots, place))
                => SlotAt(Top'.slots, place) = SlotAt(Top.slots, place)]_vars

=============================================================================
