---------------------------- MODULE GlobalTable ----------------------------
(***************************************************************************)
(* The interpreter's table of global identifiers and the names structures  *)
(* are printed by: `Interp::globals`, `package_stack`, `global_slots` and  *)
(* `free_slots`, with the `name` and `aliases` cells of each structure     *)
(* (interp/mod.rs, interp/assign.rs, interp/iter.rs, value.rs).            *)
(*                                                                         *)
(* A structure is printed by the name of a global that holds it.  Which    *)
(* one is decided by the order of the identifier table: every statement    *)
(* that binds or unbinds a global keeps the table and the cells in step,   *)
(* and several of them work in more than one step (a reference argument is *)
(* taken out of its variable for the whole call, a loop lends its variable *)
(* as a name, a package runs with a table of its own).                     *)
(***************************************************************************)
EXTENDS Naturals, Sequences, FiniteSets

CONSTANTS
    Names,      \* global identifiers
    Structs,    \* structures: values with a name cell and aliases
    Aggs,       \* aggregates: values with a name cell only
    Plain,      \* a value without a name cell
    Undef,      \* Value::Undef, a declared identifier without a value
    Absent,     \* no entry in the map
    NoName,     \* an empty name cell
    Scripts     \* the kinds of scripts, each with the statements, identifiers
                \* and values it uses, and bounds on the nesting of calls, loops
                \* and packages and on the aliases of a structure

AllFeatures == {"ref", "loop", "package", "clear", "mutate"}

Named == Structs \union Aggs
Vals  == Named \union {Plain}
Keys  == [Names -> Vals \union {Undef, Absent}]

ASSUME ConstantsAssumption ==
    /\ Undef # Absent
    /\ {Undef, Absent} \cap Vals = {}
    /\ Plain \notin Named
    /\ Structs \cap Aggs = {}
    /\ NoName \notin Names
    /\ Scripts \subseteq [uses : SUBSET AllFeatures, names : SUBSET Names,
                          vals : SUBSET Vals, nest : Nat, aliases : Nat]

VARIABLES
    script,  \* the kind of script that runs
    tab,     \* the identifier table and the name cells
    frames   \* calls, loops and packages under way, innermost last

vars == <<script, tab, frames>>

-----------------------------------------------------------------------------
(* Reading the table *)

InPackage(t) == t.pkgs # <<>>

\* The map `set_global` and `take_place` work on: the innermost package's
\* while a package file is being read, else the globals.
Current(t) == IF InPackage(t) THEN t.pkgs[Len(t.pkgs)] ELSE t.globals

WithCurrent(t, m) ==
    IF InPackage(t) THEN [t EXCEPT !.pkgs[Len(t.pkgs)] = m]
                    ELSE [t EXCEPT !.globals = m]

\* That map with `v` for `n`, Absent to have none.
Insert(t, n, v) == WithCurrent(t, [Current(t) EXCEPT ![n] = v])

\* The variable `n` denotes, Absent for none.  A package's entry hides the
\* global even when it has no value.
LookupVariable(t, n) ==
    IF InPackage(t) /\ Current(t)[n] # Absent THEN Current(t)[n]
    ELSE IF t.globals[n] = Undef THEN Absent ELSE t.globals[n]

\* Undeclared identifiers come after all slots.
SlotBefore(t, m, n) ==
    /\ m \in DOMAIN t.slots
    /\ n \in DOMAIN t.slots => t.slots[m] < t.slots[n]

Elems(s) == {s[i] : i \in DOMAIN s}

-----------------------------------------------------------------------------
(* Slots and names *)

Lowest(S) == CHOOSE k \in S : \A j \in S : k <= j

\* Mutant of NewSlot: freed slots are not reused.
NewSlotForgetsFreed(t) == Cardinality(DOMAIN t.slots)

\* A new global takes the lowest freed slot, else a new last one.
NewSlot(t) == IF t.free # {} THEN Lowest(t.free)
              ELSE Cardinality(DOMAIN t.slots) + Cardinality(t.free)

TakeSlot(t, n) ==
    LET k == NewSlot(t)
    IN  [t EXCEPT !.slots = [m \in DOMAIN @ \union {n} |-> IF m = n THEN k ELSE @[m]],
                  !.free  = @ \ {k}]

FreeSlot(t, n) ==
    IF n \in DOMAIN t.slots
    THEN [t EXCEPT !.slots = [m \in DOMAIN @ \ {n} |-> @[m]],
                   !.free  = @ \union {t.slots[n]}]
    ELSE t

\* Mutant of NextName: the alias assigned first, whatever its slot.
NextNameInOrderOfAssignment(t, s) == 1

\* The alias that takes over a name: the first of those in the lowest slot.
NextName(t, s) ==
    CHOOSE i \in DOMAIN s : \A j \in DOMAIN s :
        /\ ~SlotBefore(t, s[j], s[i])
        /\ j < i => SlotBefore(t, s[i], s[j])

RemoveIndex(s, i) == [j \in 1..(Len(s) - 1) |-> IF j < i THEN s[j] ELSE s[j + 1]]

\* `Vec::retain`: the elements in S, in their order.
Retain(s, S) ==
    LET kept == {i \in DOMAIN s : s[i] \in S}
        Nth(j) == CHOOSE i \in kept : Cardinality({k \in kept : k < i}) = j - 1
    IN  [j \in 1..Cardinality(kept) |-> s[Nth(j)]]

\* A structure that `n` held no longer goes by it.
UnbindName(t, n, old) ==
    IF old \notin Structs \/ LookupVariable(t, n) = old THEN t
    ELSE LET still == {m \in Names \ {n} : LookupVariable(t, m) = old}
             kept  == Retain(t.aliases[old], still)
         IN  IF t.name[old] # n THEN [t EXCEPT !.aliases[old] = kept]
             ELSE IF kept = <<>>
                  THEN [t EXCEPT !.aliases[old] = kept, !.name[old] = NoName]
                  ELSE LET i == NextName(t, kept)
                       IN  [t EXCEPT !.aliases[old] = RemoveIndex(kept, i),
                                     !.name[old] = kept[i]]

\* Mutant of NameStruct: the former name is not kept as an alias.
NameStructForgetsOldName(t, s, n) ==
    LET cur == t.name[s]
    IN  IF cur = NoName \/ cur = n \/ n \in Elems(t.aliases[s]) THEN t
        ELSE IF SlotBefore(t, n, cur) THEN [t EXCEPT !.name[s] = n]
        ELSE [t EXCEPT !.aliases[s] = Append(@, n)]

\* Global `n` was assigned the structure `s`, which goes by the global in
\* the first slot of those holding it.
NameStruct(t, s, n) ==
    LET cur == t.name[s]
    IN  IF cur = NoName \/ cur = n \/ n \in Elems(t.aliases[s]) THEN t
        ELSE IF SlotBefore(t, n, cur)
             THEN [t EXCEPT !.name[s] = n, !.aliases[s] = Append(@, cur)]
             ELSE [t EXCEPT !.aliases[s] = Append(@, n)]

-----------------------------------------------------------------------------
(* Storing and taking values *)

SetGlobal(t, n, v) ==
    LET old == Current(t)[n]
        set == Insert(t, n, v)
        slotted == IF old = Absent /\ n \notin DOMAIN t.slots
                   THEN TakeSlot(set, n) ELSE set
    IN  UnbindName(slotted, n, old)

\* Mutant of RemoveGlobal: the entry is left without a value, not removed.
RemoveGlobalKeepsKey(t, n) ==
    LET old == Current(t)[n]
        cut == Insert(t, n, Undef)
    IN  FreeSlot(UnbindName(cut, n, old), n)

RemoveGlobal(t, n) ==
    LET old == Current(t)[n]
        cut == Insert(t, n, Absent)
    IN  FreeSlot(UnbindName(cut, n, old), n)

StorePlace(t, n, v) == IF v = Undef THEN RemoveGlobal(t, n) ELSE SetGlobal(t, n, v)

\* A structure or aggregate without a name takes that of the first global
\* it is assigned to; a named structure may change names.
PutPlace(t, n, v) ==
    IF v \in Named /\ t.name[v] = NoName
    THEN StorePlace([t EXCEPT !.name[v] = n], n, v)
    ELSE IF v \in Structs THEN NameStruct(StorePlace(t, n, v), v, n)
    ELSE StorePlace(t, n, v)

\* What `take_place` moves out; it leaves the entry without a value.
Taken(t, n) == IF Current(t)[n] = Absent THEN Undef ELSE Current(t)[n]

TakePlace(t, n) ==
    IF Current(t)[n] = Absent THEN t
    ELSE Insert(t, n, Undef)

-----------------------------------------------------------------------------
(* The statements *)

EmptyMap == [n \in Names |-> Absent]

Init ==
    /\ script \in Scripts
    /\ tab = [globals |-> EmptyMap, pkgs |-> <<>>, slots |-> <<>>, free |-> {},
              name |-> [v \in Named |-> NoName],
              aliases |-> [s \in Structs |-> <<>>]]
    /\ frames = <<>>

\* `n := v` at the top level or in a package file.
Assign(n, v) ==
    /\ tab' = PutPlace(tab, n, v)
    /\ UNCHANGED frames

\* `delete n`
Delete(n) ==
    /\ LookupVariable(tab, n) # Absent
    /\ tab' = PutPlace(tab, n, Undef)
    /\ UNCHANGED frames

\* `n op:= ...` and `n`a := ...`: the value is taken out of the variable,
\* changed or replaced, and put back (unchanged when the operation fails).
Mutate(n, v) ==
    /\ "mutate" \in script.uses
    /\ Taken(tab, n) # Undef
    /\ tab' = PutPlace(TakePlace(tab, n), n, v)
    /\ UNCHANGED frames

\* `clear;` empties the map of globals and nothing else.
Clear ==
    /\ "clear" \in script.uses
    /\ tab' = [tab EXCEPT !.globals = EmptyMap]
    /\ UNCHANGED frames

Inner == frames[Len(frames)]
Push(f) == /\ Len(frames) < script.nest
           /\ frames' = Append(frames, f)
Pop == frames' = SubSeq(frames, 1, Len(frames) - 1)
Running(kind) == frames # <<>> /\ Inner.kind = kind

\* A procedure call `p(~n)` or `p(~n, ~m)`: the referenced values are taken
\* out of their variables, in order, before the body runs.  What the body
\* does to the table in between (through `load`, `Attach`) are steps of
\* their own.
BeginCall(refs) ==
    /\ "ref" \in script.uses
    /\ Push([kind |-> "call", refs |-> refs])
    /\ tab' = IF Len(refs) = 1 THEN TakePlace(tab, refs[1])
              ELSE TakePlace(TakePlace(tab, refs[1]), refs[2])

\* The call is over, with or without an error: the values its parameters
\* hold now, Undef for one the body deleted, are written back in order.
EndCall(args) ==
    /\ Running("call")
    /\ Len(args) = Len(Inner.refs)
    /\ tab' = LET first == PutPlace(tab, Inner.refs[1], args[1])
              IN  IF Len(args) = 1 THEN first
                  ELSE PutPlace(first, Inner.refs[2], args[2])
    /\ Pop

\* `for n in ...`: the structure the variable named before is without a
\* name again, then the next element is bound.
Release(t, lent) == IF lent = NoName THEN t ELSE [t EXCEPT !.name[lent] = NoName]

BindLoopVar(t, n, v, lent) ==
    LET back == Release(t, lent)
    IN  IF v \in Named /\ back.name[v] = NoName
        THEN StorePlace([back EXCEPT !.name[v] = n], n, v)
        ELSE StorePlace(back, n, v)

\* The structure whose name the loop variable now lends, NoName for none.
Lent(t, v, lent) ==
    IF v \in Named /\ (Release(t, lent)).name[v] = NoName THEN v ELSE NoName

BeginLoop(n, v) ==
    /\ "loop" \in script.uses
    /\ Push([kind |-> "loop", var |-> n, lent |-> Lent(tab, v, NoName)])
    /\ tab' = BindLoopVar(tab, n, v, NoName)

NextItem(v) ==
    /\ Running("loop")
    /\ tab' = BindLoopVar(tab, Inner.var, v, Inner.lent)
    /\ frames' = [frames EXCEPT ![Len(frames)].lent = Lent(tab, v, Inner.lent)]

EndLoop ==
    /\ Running("loop")
    /\ tab' = Release(tab, Inner.lent)
    /\ Pop

\* Attaching a package file runs its statements with a table of its own,
\* which ceases to be current when the file is read.
EnterPackage ==
    /\ "package" \in script.uses
    /\ Push([kind |-> "package"])
    /\ tab' = [tab EXCEPT !.pkgs = Append(@, EmptyMap)]

LeavePackage ==
    /\ Running("package")
    /\ tab' = [tab EXCEPT !.pkgs = SubSeq(@, 1, Len(@) - 1)]
    /\ Pop

OneOrTwo(S) == {<<a>> : a \in S} \union (S \X S)

Statement ==
    \/ \E n \in script.names, v \in script.vals :
        Assign(n, v) \/ Mutate(n, v) \/ BeginLoop(n, v)
    \/ \E n \in script.names : Delete(n)
    \/ Clear
    \/ \E refs \in OneOrTwo(script.names) : BeginCall(refs)
    \/ \E args \in OneOrTwo(script.vals \union {Undef}) : EndCall(args)
    \/ \E v \in script.vals : NextItem(v)
    \/ EndLoop
    \/ EnterPackage
    \/ LeavePackage

\* A loop can add aliases for ever.
AliasesBounded(t) == \A s \in Structs : Len(t.aliases[s]) <= script.aliases

Next == Statement /\ AliasesBounded(tab') /\ UNCHANGED script

Spec == Init /\ [][Next]_vars

-----------------------------------------------------------------------------
(* Properties *)

\* The table's maps, slots and cells have the shapes the code gives them.
TypeOK ==
    /\ tab.globals \in Keys
    /\ \A i \in DOMAIN tab.pkgs : tab.pkgs[i] \in Keys
    /\ DOMAIN tab.slots \subseteq Names
    /\ \A n \in DOMAIN tab.slots : tab.slots[n] \in Nat
    /\ tab.free \subseteq Nat
    /\ tab.name \in [Named -> Names \union {NoName}]
    /\ \A s \in Structs : Elems(tab.aliases[s]) \subseteq Names
    /\ Len(frames) <= script.nest

\* The identifier table has no holes but the freed slots, and no two
\* identifiers share a slot, whatever statements interleave.  A new last
\* slot is numbered by counting (set_global), which is right only then.
SlotsOK ==
    /\ \A m, n \in DOMAIN tab.slots : tab.slots[m] = tab.slots[n] => m = n
    /\ {tab.slots[n] : n \in DOMAIN tab.slots} \cap tab.free = {}
    /\ {tab.slots[n] : n \in DOMAIN tab.slots} \union tab.free
         = 0..(Cardinality(DOMAIN tab.slots) + Cardinality(tab.free) - 1)

\* Every declared global has a slot, so its place in the order that decides
\* names is known ("The slot of each global", interp/mod.rs:78).
EveryGlobalHasSlot ==
    \A n \in Names : tab.globals[n] # Absent => n \in DOMAIN tab.slots

\* Outside package files every declared identifier keeps a slot, also while
\* references to it are out and after `clear`: only a package deletes an
\* identifier of its own with the slot of the user's.
GlobalsKeepSlots == "package" \notin script.uses => EveryGlobalHasSlot

Holders(s) == {n \in Names : LookupVariable(tab, n) = s}

\* Between statements, a structure some global holds goes by the holder in
\* the first slot, and one no global holds has no name
\* (interp/mod.rs:285, value.rs:471).
KnownByFirstHolder ==
    frames = <<>> => \A s \in Structs :
        IF Holders(s) = {} THEN tab.name[s] = NoName
        ELSE /\ tab.name[s] \in Holders(s)
             /\ \A n \in Holders(s) : n = tab.name[s] \/ SlotBefore(tab, tab.name[s], n)

\* That rule for scripts of assignments and deletions, in any order and with
\* any sharing of structures between identifiers.
AssignmentsKeepNames == script.uses = {} => KnownByFirstHolder

\* In such scripts a structure's aliases are its other holders, each once:
\* the candidates `unbind_name` picks the next name from are all of them and
\* no others.
AliasesAreOtherHolders ==
    script.uses = {} => \A s \in Structs :
        /\ Elems(tab.aliases[s]) = Holders(s) \ {tab.name[s]}
        /\ Len(tab.aliases[s]) = Cardinality(Elems(tab.aliases[s]))

=============================================================================
