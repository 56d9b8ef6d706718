--------------------------- MODULE RefArgsProofs ---------------------------
(***************************************************************************)
(* Two results about reference arguments, for any number of variables,     *)
(* values, references and nested calls.                                    *)
(*                                                                         *)
(* No variable is lost in programs whose parameter expressions do not fail,*)
(* that pass no variable twice to one call and delete nothing.  The        *)
(* invariant speaks of every activation, not only the top level: a slot    *)
(* that stands for a top-level variable is without a value only while the  *)
(* next activation has it.                                                 *)
(*                                                                         *)
(* Passing values is aliasing (RefCells), also for programs that delete    *)
(* variables.  A cell holds what the innermost activation bound to it has; *)
(* no activation binds one cell to two variables, and the cells of its own *)
(* variables are bound nowhere below it.                                   *)
(***************************************************************************)
EXTENDS RefArgs, SequenceTheorems, WellFoundedInduction, TLAPS

DistinctRefs == {refs \in RefLists : Distinct(refs)}

Frame == [slots : [Vars -> Vals \union {Undef}], refs : DistinctRefs,
          tries : Nat, cells : [Vars -> (Nat \ {0}) \X Vars]]

Typed == frames \in Seq(Frame) /\ Level \in Nat \ {0}

IsRef(refs, i) == \E k \in DOMAIN refs : refs[k] = i

\* A parameter stands for the variable the caller's slot stands for.
Chained ==
    /\ \A i \in Vars : frames[1].cells[i] = <<1, i>>
    /\ \A k \in 1..Level : k > 1 => \A m \in DOMAIN frames[k].refs :
          frames[k].cells[m] = frames[k - 1].cells[frames[k].refs[m]]

\* Every slot of a top-level variable has its value, or lent it.
Lent ==
    \A k \in 1..Level, i \in Vars :
        frames[k].cells[i][1] = 1 /\ frames[k].slots[i] = Undef
            => k < Level /\ IsRef(frames[k + 1].refs, i)

IInv == Typed /\ Chained /\ Lent

Plain == uses = {}

-----------------------------------------------------------------------------
(* References of one call *)

\* What a list of references to distinct variables is.
LEMMA RefListsFacts ==
    ASSUME NEW refs \in DistinctRefs
    PROVE  /\ refs \in Seq(Vars)
           /\ DOMAIN refs = 1..Len(refs) /\ Len(refs) \in Nat
           /\ \A k \in DOMAIN refs : k \in Vars /\ refs[k] \in Vars
           /\ \A j, k \in DOMAIN refs : refs[j] = refs[k] => j = k
<1>1. PICK n \in 0..MaxRefs : refs \in [1..n -> Vars]
  BY DEF DistinctRefs, Distinct, RefLists
<1>2. n \in Nat /\ n <= MaxRefs
  BY <1>1, ConstantsAssumption
<1>3. refs \in Seq(Vars) /\ Len(refs) = n /\ DOMAIN refs = 1..n
  BY <1>1, <1>2
<1>4. \A k \in 1..n : k \in Vars /\ refs[k] \in Vars
  BY <1>1, <1>2, ConstantsAssumption
<1>5. \A j, k \in DOMAIN refs : refs[j] = refs[k] => j = k
  BY DEF DistinctRefs, Distinct, RefLists
<1> QED BY <1>2, <1>3, <1>4, <1>5

\* Taking distinct variables yields their values.
LEMMA TakenValues ==
    ASSUME NEW refs \in DistinctRefs, NEW slots \in [Vars -> Vals \union {Undef}]
    PROVE  /\ TakenArgs(slots, refs) = [k \in DOMAIN refs |-> slots[refs[k]]]
           /\ TakenSlots(slots, refs) \in [Vars -> Vals \union {Undef}]
           /\ \A i \in Vars : ~IsRef(refs, i) => TakenSlots(slots, refs)[i] = slots[i]
BY RefListsFacts DEF TakenArgs, TakenSlots, IsRef

\* Putting back gives each referenced variable its argument.
LEMMA PutBackValues ==
    ASSUME NEW refs \in DistinctRefs, NEW slots \in [Vars -> Vals \union {Undef}],
           NEW args, \A k \in DOMAIN refs : args[k] \in Vals \union {Undef}
    PROVE  /\ PutBack(slots, refs, args) \in [Vars -> Vals \union {Undef}]
           /\ \A k \in DOMAIN refs : PutBack(slots, refs, args)[refs[k]] = args[k]
           /\ \A i \in Vars : ~IsRef(refs, i) => PutBack(slots, refs, args)[i] = slots[i]
<1> DEFINE last(i) == CHOOSE k \in DOMAIN refs :
                          refs[k] = i /\ \A l \in DOMAIN refs : refs[l] = i => l <= k
<1>1. \A i \in Vars : IsRef(refs, i) => last(i) \in DOMAIN refs /\ refs[last(i)] = i
  <2> SUFFICES ASSUME NEW i \in Vars, NEW k \in DOMAIN refs, refs[k] = i
               PROVE  last(i) \in DOMAIN refs /\ refs[last(i)] = i
    BY DEF IsRef
  <2>1. \A l \in DOMAIN refs : refs[l] = i => l <= k
    BY RefListsFacts
  <2> QED BY <2>1
<1>2. \A k \in DOMAIN refs : last(refs[k]) = k
  BY <1>1, RefListsFacts DEF IsRef
<1>3. PutBack(slots, refs, args) =
          [i \in Vars |-> IF IsRef(refs, i) THEN args[last(i)] ELSE slots[i]]
  BY DEF PutBack, IsRef
<1> HIDE DEF last
<1>4. PutBack(slots, refs, args) \in [Vars -> Vals \union {Undef}]
  BY <1>1, <1>3
<1>5. ASSUME NEW k \in DOMAIN refs PROVE PutBack(slots, refs, args)[refs[k]] = args[k]
  <2>1. refs[k] \in Vars /\ IsRef(refs, refs[k])
    BY RefListsFacts DEF IsRef
  <2> QED BY <2>1, <1>2, <1>3
<1>6. \A i \in Vars : ~IsRef(refs, i) => PutBack(slots, refs, args)[i] = slots[i]
  BY <1>3
<1> QED BY <1>4, <1>5, <1>6

\* Taking and putting back at once changes nothing.
LEMMA TakePutBack ==
    ASSUME NEW refs \in DistinctRefs, NEW slots \in [Vars -> Vals \union {Undef}]
    PROVE  PutBack(TakenSlots(slots, refs), refs, TakenArgs(slots, refs)) = slots
<1> DEFINE args == TakenArgs(slots, refs)
           back == PutBack(TakenSlots(slots, refs), refs, args)
<1>1. \A k \in DOMAIN refs : args[k] = slots[refs[k]] /\ args[k] \in Vals \union {Undef}
  BY TakenValues, RefListsFacts
<1>2. TakenSlots(slots, refs) \in [Vars -> Vals \union {Undef}]
  BY TakenValues
<1> HIDE DEF args
<1>3. /\ back \in [Vars -> Vals \union {Undef}]
      /\ \A k \in DOMAIN refs : back[refs[k]] = args[k]
      /\ \A i \in Vars : ~IsRef(refs, i) => back[i] = TakenSlots(slots, refs)[i]
  BY <1>1, <1>2, PutBackValues
<1> HIDE DEF back
<1>4. ASSUME NEW i \in Vars PROVE back[i] = slots[i]
  <2>1. CASE IsRef(refs, i)
    BY <2>1, <1>1, <1>3 DEF IsRef
  <2>2. CASE ~IsRef(refs, i)
    BY <2>2, <1>3, TakenValues
  <2> QED BY <2>1, <2>2
<1>5. back = slots
  BY <1>3, <1>4
<1> QED BY <1>5 DEF back, args

-----------------------------------------------------------------------------
(* The invariant is kept *)

LEMMA TopTyped ==
    ASSUME Typed
    PROVE  /\ Level \in Nat /\ Level >= 1 /\ Level \in 1..Level
           /\ \A k \in 1..Level : frames[k] \in Frame
           /\ Top \in Frame
BY DEF Typed, Top, Level

\* Replacing the slots of the innermost activation.
LEMMA SetTopTyped ==
    ASSUME Typed, NEW slots \in [Vars -> Vals \union {Undef}]
    PROVE  LET new == SetTop(slots)
           IN  /\ new \in Seq(Frame) /\ Len(new) = Level
               /\ \A k \in 1..Level : /\ new[k].refs = frames[k].refs
                                      /\ new[k].cells = frames[k].cells
                                      /\ new[k].tries = frames[k].tries
                                      /\ k # Level => new[k].slots = frames[k].slots
               /\ new[Level].slots = slots
<1> DEFINE top == [frames[Level] EXCEPT !.slots = slots]
<1>1. SetTop(slots) = [frames EXCEPT ![Level] = top]
  BY DEF SetTop
<1>2. top \in Frame /\ top.slots = slots /\ top.refs = frames[Level].refs
      /\ top.cells = frames[Level].cells /\ top.tries = frames[Level].tries
  BY TopTyped DEF Frame
<1> HIDE DEF top
<1>3. [frames EXCEPT ![Level] = top] \in Seq(Frame)
      /\ Len([frames EXCEPT ![Level] = top]) = Level
  BY <1>2, TopTyped DEF Typed, Level
<1>4. \A k \in 1..Level :
        [frames EXCEPT ![Level] = top][k] = IF k = Level THEN top ELSE frames[k]
  BY TopTyped DEF Typed, Level
<1> QED BY <1>1, <1>2, <1>3, <1>4, TopTyped

\* A step that keeps the activations, what their slots stand for, and every
\* value that is there.
LEMMA SameFramesInv ==
    ASSUME IInv, frames' \in Seq(Frame), Level' = Level,
           \A k \in 1..Level : /\ frames'[k].refs = frames[k].refs
                               /\ frames'[k].cells = frames[k].cells
                               /\ \A i \in Vars : frames'[k].slots[i] = Undef
                                                    => frames[k].slots[i] = Undef
    PROVE  IInv'
<1>1. Typed'
  BY DEF IInv, Typed
<1>2. Chained'
  <2>1. Level \in Nat /\ 1 \in 1..Level
    BY TopTyped DEF IInv
  <2>2. \A i \in Vars : frames'[1].cells[i] = <<1, i>>
    BY <2>1 DEF IInv, Chained
  <2>3. ASSUME NEW k \in 1..Level, k > 1, NEW m \in DOMAIN frames'[k].refs
        PROVE  frames'[k].cells[m] = frames'[k - 1].cells[frames'[k].refs[m]]
    <3>1. k - 1 \in 1..Level /\ frames'[k].refs = frames[k].refs
          /\ frames'[k].cells = frames[k].cells
      BY <2>1, <2>3
    <3>2. frames'[k - 1].cells = frames[k - 1].cells
      BY <3>1
    <3> QED BY <2>3, <3>1, <3>2 DEF IInv, Chained
  <2> QED BY <2>2, <2>3 DEF Chained
<1>3. Lent'
  <2> SUFFICES ASSUME NEW k \in 1..Level, NEW i \in Vars,
                      frames'[k].cells[i][1] = 1, frames'[k].slots[i] = Undef
               PROVE  k < Level /\ IsRef(frames'[k + 1].refs, i)
    BY DEF Lent
  <2>1. k < Level /\ IsRef(frames[k + 1].refs, i)
    BY DEF IInv, Lent
  <2>2. k + 1 \in 1..Level
    BY <2>1, TopTyped DEF IInv
  <2> QED BY <2>1, <2>2
<1> QED BY <1>1, <1>2, <1>3 DEF IInv

LEMMA InitInv == Plain /\ Init => IInv
<1> SUFFICES ASSUME Plain, Init PROVE IInv
  OBVIOUS
<1>1. PICK s \in [Vars -> Vals \union {Undef}] :
        frames = <<[slots |-> s, refs |-> <<>>, tries |-> 0, cells |-> [i \in Vars |-> <<1, i>>]]>>
  BY DEF Init
<1>2. <<>> \in DistinctRefs
  <2>1. <<>> \in [1..0 -> Vars] /\ 0 \in 0..MaxRefs
    BY ConstantsAssumption
  <2> QED BY <2>1 DEF DistinctRefs, Distinct, RefLists
<1>3. frames[1] \in Frame /\ frames \in Seq(Frame) /\ Level = 1
  BY <1>1, <1>2 DEF Frame, Level
<1>4. \A i \in Vars : frames[1].slots[i] # Undef
  BY DEF Init, Plain
<1>5. Typed
  BY <1>3 DEF Typed
<1>6. Chained
  <2>1. \A i \in Vars : frames[1].cells[i] = <<1, i>>
    BY <1>1
  <2> QED BY <1>3, <2>1 DEF Chained
<1>7. Lent
  BY <1>3, <1>4 DEF Lent
<1> QED BY <1>5, <1>6, <1>7 DEF IInv

LEMMA AssignInv ==
    ASSUME Plain, IInv, NEW i \in Vars, NEW v \in Vals \union {Undef}, Assign(i, v)
    PROVE  IInv'
<1> DEFINE slots == [Top.slots EXCEPT ![i] = v]
<1>1. Typed /\ slots \in [Vars -> Vals \union {Undef}] /\ v # Undef /\ frames' = SetTop(slots)
  BY TopTyped DEF IInv, Assign, Frame, Plain
<1>2. \A j \in Vars : slots[j] = Undef => Top.slots[j] = Undef
  BY <1>1, TopTyped DEF Frame
<1> HIDE DEF slots
<1>3. /\ frames' \in Seq(Frame) /\ Level' = Level
      /\ \A k \in 1..Level : /\ frames'[k].refs = frames[k].refs
                             /\ frames'[k].cells = frames[k].cells
                             /\ k # Level => frames'[k].slots = frames[k].slots
      /\ frames'[Level].slots = slots
  BY <1>1, SetTopTyped DEF Level
<1> QED BY <1>1, <1>2, <1>3, TopTyped, SameFramesInv DEF Top


LEMMA RefusedCallInv ==
    ASSUME Plain, IInv, NEW refs \in DistinctRefs, RefusedCall(refs)
    PROVE  IInv'
<1>1. Typed /\ Top.slots \in [Vars -> Vals \union {Undef}]
  BY TopTyped DEF IInv, Frame
<1>2. frames' = SetTop(Top.slots)
  BY <1>1, TakePutBack DEF RefusedCall
<1> QED BY <1>1, <1>2, SetTopTyped, SameFramesInv, TopTyped DEF Top, Level

\* `try` and the handlers touch a slot only to bind an error object.
LEMMA HandlerInv ==
    ASSUME IInv, NEW top \in Frame, top.refs = Top.refs, top.cells = Top.cells,
           \A i \in Vars : top.slots[i] = Undef => Top.slots[i] = Undef,
           frames' = [frames EXCEPT ![Level] = top]
    PROVE  IInv'
<1>1. frames' \in Seq(Frame) /\ Level' = Level
      /\ \A k \in 1..Level : frames'[k] = IF k = Level THEN top ELSE frames[k]
  BY TopTyped DEF IInv, Typed, Level
<1> QED BY <1>1, SameFramesInv DEF Top

\* What a call makes of the activations.
LEMMA CallFrames ==
    ASSUME Typed, NEW refs \in DistinctRefs, Call(refs)
    PROVE  /\ Typed' /\ frames' \in Seq(Frame) /\ Level' = Level + 1
           /\ \A k \in 1..Level : /\ frames'[k].refs = frames[k].refs
                                  /\ frames'[k].cells = frames[k].cells
                                  /\ frames'[k].tries = frames[k].tries
                                  /\ k # Level => frames'[k].slots = frames[k].slots
           /\ \A i \in Vars : ~IsRef(refs, i) => frames'[Level].slots[i] = Top.slots[i]
           /\ frames'[Level + 1].refs = refs /\ frames'[Level + 1].tries = 0
           /\ \A m \in DOMAIN refs : /\ frames'[Level + 1].slots[m] = Top.slots[refs[m]]
                                     /\ frames'[Level + 1].cells[m] = Top.cells[refs[m]]
           /\ \A i \in Vars : i \notin DOMAIN refs =>
                /\ frames'[Level + 1].slots[i] = Undef
                /\ frames'[Level + 1].cells[i] = <<Level + 1, i>>
<1> DEFINE args  == TakenArgs(Top.slots, refs)
           left  == TakenSlots(Top.slots, refs)
           slots == [i \in Vars |-> IF i <= Len(refs) THEN args[i] ELSE Undef]
           cells == [i \in Vars |-> IF i <= Len(refs) THEN Top.cells[refs[i]]
                                    ELSE <<Level + 1, i>>]
           new   == [slots |-> slots, refs |-> refs, tries |-> 0, cells |-> cells]
           lower == SetTop(left)
<1>1. Typed /\ Top \in Frame /\ Level \in Nat /\ Level >= 1
  BY TopTyped
<1>2. /\ args = [k \in DOMAIN refs |-> Top.slots[refs[k]]]
      /\ left \in [Vars -> Vals \union {Undef}]
      /\ \A i \in Vars : ~IsRef(refs, i) => left[i] = Top.slots[i]
  BY <1>1, TakenValues DEF Frame
<1>3. /\ DOMAIN refs = 1..Len(refs) /\ Len(refs) \in Nat
      /\ \A k \in DOMAIN refs : k \in Vars /\ refs[k] \in Vars
  BY RefListsFacts
<1>4. \A i \in Vars : i \in Nat /\ i >= 1
  BY ConstantsAssumption
<1>5. \A i \in Vars : i <= Len(refs) => i \in DOMAIN refs
  BY <1>3, <1>4
<1>6. slots \in [Vars -> Vals \union {Undef}]
  BY <1>1, <1>2, <1>3, <1>5 DEF Frame
<1>7. cells \in [Vars -> (Nat \ {0}) \X Vars]
  BY <1>1, <1>3, <1>5 DEF Frame
<1>8. new \in Frame
  BY <1>6, <1>7 DEF Frame
<1>9. /\ lower \in Seq(Frame) /\ Len(lower) = Level
      /\ \A k \in 1..Level : /\ lower[k].refs = frames[k].refs
                             /\ lower[k].cells = frames[k].cells
                             /\ lower[k].tries = frames[k].tries
                             /\ k # Level => lower[k].slots = frames[k].slots
      /\ lower[Level].slots = left
  BY <1>1, <1>2, SetTopTyped
<1>10. frames' = Append(lower, new)
  BY DEF Call
<1>11. new.slots = slots /\ new.refs = refs /\ new.cells = cells /\ new.tries = 0
  OBVIOUS
<1>12. /\ \A m \in DOMAIN refs : slots[m] = Top.slots[refs[m]] /\ cells[m] = Top.cells[refs[m]]
       /\ \A i \in Vars : i \notin DOMAIN refs => slots[i] = Undef /\ cells[i] = <<Level + 1, i>>
  <2>1. ASSUME NEW m \in DOMAIN refs
        PROVE  slots[m] = Top.slots[refs[m]] /\ cells[m] = Top.cells[refs[m]]
    BY <1>2, <1>3
  <2>2. ASSUME NEW i \in Vars, i \notin DOMAIN refs
        PROVE  slots[i] = Undef /\ cells[i] = <<Level + 1, i>>
    <3>1. ~(i <= Len(refs))
      BY <1>5, <2>2
    <3> QED BY <3>1
  <2> QED BY <2>1, <2>2
<1> HIDE DEF new, lower, slots, cells, args, left
<1>13. /\ frames' \in Seq(Frame) /\ Level' = Level + 1
       /\ frames'[Level + 1] = new /\ \A k \in 1..Level : frames'[k] = lower[k]
  BY <1>1, <1>8, <1>9, <1>10 DEF Level
<1>14. Typed'
  BY <1>1, <1>13 DEF Typed
<1>15. \A i \in Vars : ~IsRef(refs, i) => frames'[Level].slots[i] = Top.slots[i]
  BY <1>1, <1>2, <1>9, <1>13
<1> QED BY ONLY <1>9, <1>11, <1>12, <1>13, <1>14, <1>15

LEMMA CallInv ==
    ASSUME Plain, IInv, NEW refs \in DistinctRefs, Call(refs)
    PROVE  IInv'
<1>1. Typed /\ Level \in Nat /\ Level >= 1 /\ Top = frames[Level]
  BY TopTyped DEF IInv, Top
<1>2. \A k \in DOMAIN refs : k \in Vars /\ refs[k] \in Vars
  BY RefListsFacts
<1>3. /\ Typed' /\ Level' = Level + 1
      /\ \A k \in 1..Level : /\ frames'[k].refs = frames[k].refs
                             /\ frames'[k].cells = frames[k].cells
                             /\ k # Level => frames'[k].slots = frames[k].slots
      /\ \A i \in Vars : ~IsRef(refs, i) => frames'[Level].slots[i] = Top.slots[i]
      /\ frames'[Level + 1].refs = refs
      /\ \A m \in DOMAIN refs : /\ frames'[Level + 1].slots[m] = Top.slots[refs[m]]
                                /\ frames'[Level + 1].cells[m] = Top.cells[refs[m]]
      /\ \A i \in Vars : i \notin DOMAIN refs => frames'[Level + 1].cells[i] = <<Level + 1, i>>
  BY <1>1, CallFrames
<1>4. Chained'
  <2>1. \A i \in Vars : frames'[1].cells[i] = <<1, i>>
    BY <1>1, <1>3 DEF IInv, Chained
  <2>2. ASSUME NEW k \in 1..(Level + 1), k > 1, NEW m \in DOMAIN frames'[k].refs
        PROVE  frames'[k].cells[m] = frames'[k - 1].cells[frames'[k].refs[m]]
    <3>1. CASE k = Level + 1
      BY <3>1, <2>2, <1>1, <1>3
    <3>2. CASE k <= Level
      <4>1. k \in 1..Level /\ k - 1 \in 1..Level
        BY <3>2, <2>2, <1>1
      <4>2. frames'[k].refs = frames[k].refs /\ frames'[k].cells = frames[k].cells
            /\ frames'[k - 1].cells = frames[k - 1].cells
        BY <4>1, <1>3
      <4> QED BY <4>1, <4>2, <2>2 DEF IInv, Chained
    <3> QED BY <3>1, <3>2, <2>2, <1>1
  <2> QED BY <2>1, <2>2, <1>3 DEF Chained
<1>5. Lent'
  <2> SUFFICES ASSUME NEW k \in 1..(Level + 1), NEW i \in Vars,
                      frames'[k].cells[i][1] = 1, frames'[k].slots[i] = Undef
               PROVE  k < Level + 1 /\ IsRef(frames'[k + 1].refs, i)
    BY <1>3 DEF Lent
  <2>1. CASE k = Level + 1
    <3>1. i \in DOMAIN refs
      BY <2>1, <1>1, <1>3
    <3>2. refs[i] \in Vars /\ Top.slots[refs[i]] = Undef /\ Top.cells[refs[i]][1] = 1
      BY <2>1, <3>1, <1>2, <1>3
    <3> QED BY <3>2, <1>1 DEF IInv, Lent
  <2>2. CASE k = Level
    <3>1. Top.cells[i][1] = 1
      BY <2>2, <1>1, <1>3
    <3>2. ~IsRef(refs, i) => Top.slots[i] = Undef
      BY <2>2, <1>3
    <3>3. Top.slots[i] # Undef
      BY <3>1, <1>1 DEF IInv, Lent
    <3> QED BY <2>2, <3>2, <3>3, <1>1, <1>3
  <2>3. CASE k < Level
    <3>1. k \in 1..Level /\ k + 1 \in 1..Level
      BY <2>3, <1>1
    <3>2. frames[k].cells[i][1] = 1 /\ frames[k].slots[i] = Undef
      BY <2>3, <3>1, <1>3
    <3>3. IsRef(frames[k + 1].refs, i)
      BY <3>1, <3>2 DEF IInv, Lent
    <3> QED BY <2>3, <3>1, <3>3, <1>1, <1>3
  <2> QED BY <2>1, <2>2, <2>3, <1>1
<1> QED BY <1>3, <1>4, <1>5 DEF IInv

\* What the end of a call makes of the activations.
LEMMA LeaveFrames ==
    ASSUME Typed, Leave
    PROVE  /\ Level - 1 \in Nat /\ Level - 1 >= 1 /\ Top = frames[Level]
           /\ Typed' /\ Level' = Level - 1 /\ Top.refs \in DistinctRefs
           /\ \A k \in 1..(Level - 1) : /\ frames'[k].refs = frames[k].refs
                                        /\ frames'[k].cells = frames[k].cells
                                        /\ frames'[k].tries = frames[k].tries
                                        /\ k # Level - 1 => frames'[k].slots = frames[k].slots
           /\ \A m \in DOMAIN Top.refs : frames'[Level - 1].slots[Top.refs[m]] = Top.slots[m]
           /\ \A i \in Vars : ~IsRef(Top.refs, i) =>
                frames'[Level - 1].slots[i] = frames[Level - 1].slots[i]
<1> DEFINE K     == Level - 1
           refs  == Top.refs
           back  == PutBack(frames[K].slots, refs, Top.slots)
           under == [frames[K] EXCEPT !.slots = back]
<1>1. Typed /\ Top \in Frame /\ Level \in Nat /\ Level > 1 /\ K \in 1..Level /\ K \in Nat
  BY TopTyped DEF Leave
<1>2. refs \in DistinctRefs /\ frames[K] \in Frame
  BY <1>1, TopTyped DEF Frame
<1>3. /\ DOMAIN refs = 1..Len(refs) /\ Len(refs) \in Nat
      /\ \A k \in DOMAIN refs : k \in Vars /\ refs[k] \in Vars
  BY <1>2, RefListsFacts
<1>4. /\ back \in [Vars -> Vals \union {Undef}]
      /\ \A k \in DOMAIN refs : back[refs[k]] = Top.slots[k]
      /\ \A i \in Vars : ~IsRef(refs, i) => back[i] = frames[K].slots[i]
  <2>1. frames[K].slots \in [Vars -> Vals \union {Undef}]
        /\ Top.slots \in [Vars -> Vals \union {Undef}]
    BY <1>1, <1>2 DEF Frame
  <2>2. \A k \in DOMAIN refs : k \in Vars
    BY <1>3
  <2> QED BY <1>2, <2>1, <2>2, PutBackValues
<1>5. Below \in Seq(Frame) /\ Len(Below) = K /\ \A k \in 1..K : Below[k] = frames[k]
  BY <1>1 DEF Typed, Level, Below
<1>6. frames' = [Below EXCEPT ![K] = under]
  <2>1. Below[K] = frames[K]
    BY <1>1, <1>5
  <2>2. frames' = [Below EXCEPT ![K] = [Below[K] EXCEPT !.slots = PutBack(@, refs, Top.slots)]]
    BY DEF Leave
  <2> QED BY <2>1, <2>2
<1>7. under \in Frame /\ under.slots = back /\ under.refs = frames[K].refs
      /\ under.cells = frames[K].cells /\ under.tries = frames[K].tries
  BY <1>2, <1>4 DEF Frame
<1> HIDE DEF under, back
<1>8. frames' \in Seq(Frame) /\ Level' = K
      /\ \A k \in 1..K : frames'[k] = IF k = K THEN under ELSE frames[k]
  BY <1>1, <1>5, <1>6, <1>7 DEF Level
<1>9. \A k \in 1..K : /\ frames'[k].refs = frames[k].refs
                      /\ frames'[k].cells = frames[k].cells
                      /\ frames'[k].tries = frames[k].tries
  BY <1>7, <1>8
<1>10. Typed'
  BY <1>1, <1>8 DEF Typed
<1>11. frames'[K].slots = back
  BY <1>1, <1>7, <1>8
<1> QED BY <1>1, <1>2, <1>4, <1>8, <1>9, <1>10, <1>11 DEF Top

LEMMA LeaveInv ==
    ASSUME Plain, IInv, Leave
    PROVE  IInv'
<1> DEFINE K     == Level - 1
           refs  == Top.refs
<1>1. /\ K \in Nat /\ K >= 1 /\ Level \in Nat /\ Top = frames[Level]
      /\ Typed' /\ Level' = K /\ refs \in DistinctRefs
      /\ \A k \in 1..K : frames'[k].refs = frames[k].refs /\ frames'[k].cells = frames[k].cells
      /\ \A k \in 1..K : k # K => frames'[k].slots = frames[k].slots
      /\ \A m \in DOMAIN refs : frames'[K].slots[refs[m]] = Top.slots[m]
      /\ \A i \in Vars : ~IsRef(refs, i) => frames'[K].slots[i] = frames[K].slots[i]
  BY TopTyped, LeaveFrames DEF IInv
<1>2. \A k \in DOMAIN refs : k \in Vars /\ refs[k] \in Vars
  BY <1>1, RefListsFacts
<1>3. Chained'
  <2>1. \A i \in Vars : frames'[1].cells[i] = <<1, i>>
    BY <1>1 DEF IInv, Chained
  <2>2. ASSUME NEW k \in 1..K, k > 1, NEW m \in DOMAIN frames'[k].refs
        PROVE  frames'[k].cells[m] = frames'[k - 1].cells[frames'[k].refs[m]]
    <3>1. k \in 1..Level /\ k - 1 \in 1..K
      BY <2>2, <1>1
    <3> QED BY <3>1, <2>2, <1>1 DEF IInv, Chained
  <2> QED BY <2>1, <2>2, <1>1 DEF Chained
<1>4. Lent'
  <2> SUFFICES ASSUME NEW k \in 1..K, NEW i \in Vars,
                      frames'[k].cells[i][1] = 1, frames'[k].slots[i] = Undef
               PROVE  k < K /\ IsRef(frames'[k + 1].refs, i)
    BY <1>1 DEF Lent
  <2>1. k \in 1..Level /\ frames[k].cells[i][1] = 1
    BY <1>1
  <2>2. CASE k = K
    <3>1. CASE IsRef(refs, i)
      <4>1. PICK m \in DOMAIN refs : refs[m] = i
        BY <3>1 DEF IsRef
      <4>2. Top.slots[m] = Undef /\ m \in Vars
        BY <2>2, <4>1, <1>1, <1>2
      <4>3. Top.cells[m] = frames[K].cells[i]
        BY <4>1, <1>1 DEF IInv, Chained
      <4> QED BY <4>2, <4>3, <2>1, <2>2, <1>1 DEF IInv, Lent
    <3>2. CASE ~IsRef(refs, i)
      <4>1. frames[K].slots[i] = Undef
        BY <2>2, <3>2, <1>1
      <4> QED BY <4>1, <3>2, <2>1, <2>2, <1>1 DEF IInv, Lent
    <3> QED BY <3>1, <3>2
  <2>3. CASE k < K
    <3>1. k + 1 \in 1..K
      BY <2>3, <1>1
    <3> QED BY <2>1, <2>3, <3>1, <1>1 DEF IInv, Lent
  <2> QED BY <2>2, <2>3, <1>1
<1> QED BY <1>1, <1>3, <1>4 DEF IInv

LEMMA NextInv ==
    ASSUME Plain, IInv, [Next]_vars
    PROVE  IInv'
<1>0. \A refs \in Passed : refs \in DistinctRefs
  BY DEF Plain, Passed, DistinctRefs
<1>1. Typed /\ Top \in Frame /\ Top = frames[Level]
  BY TopTyped DEF IInv, Top
<1>2. ASSUME NEW i \in Vars, NEW v \in Vals \union {Undef}, Assign(i, v) PROVE IInv'
  BY <1>2, AssignInv
<1>3. ASSUME NEW refs \in Passed, Call(refs) PROVE IInv'
  BY <1>0, <1>3, CallInv
<1>4. ASSUME NEW refs \in Passed, RefusedCall(refs) PROVE IInv'
  BY <1>0, <1>4, RefusedCallInv
<1>5. ASSUME NEW refs \in Passed, ParamFails(refs) PROVE IInv'
  BY <1>5 DEF ParamFails, Plain
<1>6. CASE Leave
  BY <1>6, LeaveInv
<1>7. CASE BeginTry
  <2> DEFINE top == [Top EXCEPT !.tries = @ + 1]
  <2>1. top \in Frame /\ top.refs = Top.refs /\ top.cells = Top.cells
    BY <1>1, <1>7 DEF BeginTry, Frame
  <2>2. \A j \in Vars : top.slots[j] = Undef => Top.slots[j] = Undef
    BY <1>1, <1>7 DEF Frame
  <2>3. frames' = [frames EXCEPT ![Level] = top]
    BY <1>7 DEF BeginTry, Top
  <2> HIDE DEF top
  <2> QED BY <2>1, <2>2, <2>3, HandlerInv
<1>8. CASE EndTry
  <2> DEFINE top == [Top EXCEPT !.tries = @ - 1]
  <2>1. top \in Frame /\ top.refs = Top.refs /\ top.cells = Top.cells
    BY <1>1, <1>8 DEF EndTry, Frame
  <2>2. \A j \in Vars : top.slots[j] = Undef => Top.slots[j] = Undef
    BY <1>1, <1>8 DEF Frame
  <2>3. frames' = [frames EXCEPT ![Level] = top]
    BY <1>8 DEF EndTry, Top
  <2> HIDE DEF top
  <2> QED BY <2>1, <2>2, <2>3, HandlerInv
<1>9. CASE UNCHANGED frames
  <2>1. frames' \in Seq(Frame) /\ Level' = Level
    BY <1>1, <1>9 DEF Typed, Level
  <2> QED BY <1>9, <2>1, SameFramesInv
<1>10. CASE Skip
  <2> DEFINE top == [Top EXCEPT !.tries = 0]
  <2>1. top \in Frame /\ top.refs = Top.refs /\ top.cells = Top.cells
    BY <1>1, <1>10 DEF Skip, Frame
  <2>2. \A j \in Vars : top.slots[j] = Undef => Top.slots[j] = Undef
    BY <1>1, <1>10 DEF Frame
  <2>3. frames' = [frames EXCEPT ![Level] = top]
    BY <1>10 DEF Skip, Top
  <2> HIDE DEF top
  <2> QED BY <2>1, <2>2, <2>3, HandlerInv
<1>11. ASSUME NEW i \in Vars, Catch(i) PROVE IInv'
  <2> DEFINE top == [Top EXCEPT !.tries = @ - 1, !.slots[i] = ErrObject]
  <2>1. top \in Frame /\ top.refs = Top.refs /\ top.cells = Top.cells
    <3>1. Top.tries - 1 \in Nat
      BY <1>1, <1>11 DEF Catch, Frame
    <3>2. [Top.slots EXCEPT ![i] = ErrObject] \in [Vars -> Vals \union {Undef}]
      BY <1>1, ConstantsAssumption DEF Frame
    <3> QED BY <1>1, <3>1, <3>2 DEF Frame
  <2>2. ASSUME NEW j \in Vars, top.slots[j] = Undef PROVE Top.slots[j] = Undef
    <3>1. top.slots = [Top.slots EXCEPT ![i] = ErrObject] /\ ErrObject # Undef
      BY <1>1, ConstantsAssumption DEF Frame
    <3>2. top.slots[j] = IF j = i THEN ErrObject ELSE Top.slots[j]
      BY <1>1, <3>1 DEF Frame
    <3> QED BY <2>2, <3>1, <3>2
  <2>3. frames' = [frames EXCEPT ![Level] = top]
    BY <1>11 DEF Catch, Top
  <2> HIDE DEF top
  <2> QED BY <2>1, <2>2, <2>3, HandlerInv
<1> QED BY <1>2, <1>3, <1>4, <1>5, <1>6, <1>7, <1>8, <1>9, <1>10, <1>11
        DEF Next, Step, Fail, Report, vars

\* A variable of the top level is never lost: it is without a value only
\* while the call it was given to is under way, however that call, and the
\* calls it makes, end (`call_expr`, `restore_refs`, `restore_args`).
THEOREM VariablesAreGivenBack == Spec => []PlainCallsGiveBack
<1> DEFINE PlainInv == Plain => IInv
<1>1. Init => PlainInv
  BY InitInv
<1>2. PlainInv /\ [Next]_vars => PlainInv'
  <2> SUFFICES ASSUME PlainInv, [Next]_vars, Plain' PROVE IInv'
    OBVIOUS
  <2>1. Plain
    BY DEF Plain, Next, vars
  <2> QED BY <2>1, NextInv
<1>3. PlainInv => PlainCallsGiveBack
  <2> SUFFICES ASSUME IInv, NEW i \in Vars, frames[1].slots[i] = Undef
               PROVE  Level > 1 /\ IsRef(frames[2].refs, i)
    BY DEF PlainCallsGiveBack, NoVariableLost, IsRef, Plain
  <2>1. 1 \in 1..Level /\ frames[1].cells[i][1] = 1
    BY TopTyped DEF IInv, Chained
  <2> QED BY <2>1 DEF IInv, Lent
<1> HIDE DEF PlainInv
<1> QED BY <1>1, <1>2, <1>3, PTL DEF Spec

-----------------------------------------------------------------------------
(* What the cells hold *)

Bound(fs, c, k, i) == k \in 1..Len(fs) /\ i \in Vars /\ fs[k].cells[i] = c

Free(fs, c) == \A k \in 1..Len(fs), i \in Vars : fs[k].cells[i] # c

\* No activation inside activation k has the cell.
Innermost(fs, c, k, i) ==
    /\ Bound(fs, c, k, i)
    /\ \A l \in 1..Len(fs), j \in Vars : fs[l].cells[j] = c => l <= k

Injective(fs) ==
    \A k \in 1..Len(fs), i, j \in Vars : fs[k].cells[i] = fs[k].cells[j] => i = j

\* Store, of any stack of activations.
StoreOf(fs) ==
    [c \in (1..MaxFrames) \X Vars |->
        LET Holders == {k \in 1..Len(fs) : \E i \in Vars : fs[k].cells[i] = c}
            Inner == CHOOSE k \in Holders : \A l \in Holders : l <= k
        IN  IF Holders = {} THEN Undef
            ELSE fs[Inner].slots[CHOOSE i \in Vars : fs[Inner].cells[i] = c]]

LEMMA Greatest ==
    ASSUME NEW n \in Nat, NEW S \in SUBSET (1..n), S # {}
    PROVE  \E k \in S : \A l \in S : l <= k
<1> DEFINE R == {p \in Nat \X Nat : p[1] < p[2]}
           T == {m \in Nat : n - m \in S}
<1>1. IsWellFoundedOn(R, Nat)
  BY NatLessThanWellFounded DEF OpToRel
<1>2. PICK s \in S : TRUE
  OBVIOUS
<1>3. n - s \in T
  BY <1>2
<1>4. \A j, k \in T : <<j, k>> \in R <=> j < k
  OBVIOUS
<1>5. T \in SUBSET Nat /\ T # {}
  BY <1>3
<1> HIDE DEF R
<1>6. \E m \in T : \A j \in T : ~(<<j, m>> \in R)
  BY <1>1, <1>5, WFMin
<1>7. PICK m \in T : \A j \in T : ~(j < m)
  BY <1>4, <1>6
<1>8. ASSUME NEW l \in S PROVE l <= n - m
  <2>1. n - l \in T /\ l \in Nat /\ m \in Nat
    BY <1>8
  <2>2. ~(n - l < m)
    BY <1>7, <2>1
  <2> QED BY ONLY n \in Nat, <2>1, <2>2
<1> QED BY <1>7, <1>8

LEMMA CellIsBoundOrFree ==
    ASSUME NEW fs, Len(fs) \in Nat, NEW c
    PROVE  Free(fs, c) \/ \E k \in 1..Len(fs), i \in Vars : Innermost(fs, c, k, i)
<1> DEFINE S == {k \in 1..Len(fs) : \E i \in Vars : fs[k].cells[i] = c}
<1>1. CASE S = {}
  BY <1>1 DEF Free
<1>2. CASE S # {}
  <2>1. PICK k \in S : \A l \in S : l <= k
    BY <1>2, Greatest
  <2>2. PICK i \in Vars : fs[k].cells[i] = c
    BY <2>1
  <2>3. k \in 1..Len(fs)
    BY <2>1
  <2>4. \A l \in 1..Len(fs), j \in Vars : fs[l].cells[j] = c => l <= k
    BY <2>1
  <2> QED BY <2>2, <2>3, <2>4 DEF Innermost, Bound
<1> QED BY <1>1, <1>2

LEMMA StoreIsFunction ==
    ASSUME NEW fs
    PROVE  /\ DOMAIN StoreOf(fs) = (1..MaxFrames) \X Vars
           /\ StoreOf(fs) = [c \in (1..MaxFrames) \X Vars |-> StoreOf(fs)[c]]
<1> DEFINE Held(c) ==
      LET Holders == {k \in 1..Len(fs) : \E i \in Vars : fs[k].cells[i] = c}
          Inner == CHOOSE k \in Holders : \A l \in Holders : l <= k
      IN  IF Holders = {} THEN Undef
          ELSE fs[Inner].slots[CHOOSE i \in Vars : fs[Inner].cells[i] = c]
<1>1. StoreOf(fs) = [c \in (1..MaxFrames) \X Vars |-> Held(c)]
  BY DEF StoreOf
<1> HIDE DEF Held
<1> QED BY ONLY <1>1

LEMMA FreeHoldsNothing ==
    ASSUME NEW fs, NEW c \in (1..MaxFrames) \X Vars, Free(fs, c)
    PROVE  StoreOf(fs)[c] = Undef
<1>1. {k \in 1..Len(fs) : \E i \in Vars : fs[k].cells[i] = c} = {}
  BY DEF Free
<1> QED BY <1>1 DEF StoreOf

LEMMA InnermostHolds ==
    ASSUME NEW fs, Len(fs) \in Nat, Injective(fs), NEW c \in (1..MaxFrames) \X Vars,
           NEW k, NEW i, Innermost(fs, c, k, i)
    PROVE  StoreOf(fs)[c] = fs[k].slots[i]
<1> DEFINE S == {l \in 1..Len(fs) : \E j \in Vars : fs[l].cells[j] = c}
           inner == CHOOSE l \in S : \A m \in S : m <= l
           slot == CHOOSE j \in Vars : fs[inner].cells[j] = c
<1>1. k \in 1..Len(fs) /\ i \in Vars /\ fs[k].cells[i] = c
  BY DEF Innermost, Bound
<1>2. k \in S /\ \A l \in S : l <= k
  BY <1>1 DEF Innermost
<1>3. inner = k
  <2>1. inner \in S /\ \A m \in S : m <= inner
    BY <1>2
  <2>2. inner <= k /\ k <= inner /\ inner \in 1..Len(fs) /\ k \in 1..Len(fs)
    <3> HIDE DEF inner
    <3> QED BY <1>2, <2>1
  <2> QED BY ONLY <2>2
<1> HIDE DEF inner
<1>4. slot = i
  BY <1>1, <1>3 DEF Injective
<1>5. StoreOf(fs)[c] = IF S = {} THEN Undef ELSE fs[inner].slots[slot]
  BY DEF StoreOf, inner
<1> HIDE DEF S, slot
<1> QED BY <1>2, <1>3, <1>4, <1>5

\* A cell that is free in both, or whose holders agree, holds the same.
LEMMA SameHeld ==
    ASSUME NEW fs, NEW gs, Len(fs) \in Nat, Len(gs) \in Nat, Injective(fs), Injective(gs),
           NEW c \in (1..MaxFrames) \X Vars,
           Free(fs, c) => Free(gs, c),
           \A k \in 1..Len(fs), i \in Vars : Innermost(fs, c, k, i) =>
              \E l \in 1..Len(gs), j \in Vars :
                 Innermost(gs, c, l, j) /\ gs[l].slots[j] = fs[k].slots[i]
    PROVE  StoreOf(gs)[c] = StoreOf(fs)[c]
<1>1. CASE Free(fs, c)
  BY <1>1, FreeHoldsNothing
<1>2. ASSUME NEW k \in 1..Len(fs), NEW i \in Vars, Innermost(fs, c, k, i)
      PROVE  StoreOf(gs)[c] = StoreOf(fs)[c]
  <2>1. PICK l \in 1..Len(gs), j \in Vars :
          Innermost(gs, c, l, j) /\ gs[l].slots[j] = fs[k].slots[i]
    BY <1>2
  <2>2. StoreOf(gs)[c] = gs[l].slots[j]
    BY <2>1, InnermostHolds
  <2>3. StoreOf(fs)[c] = fs[k].slots[i]
    BY <1>2, InnermostHolds
  <2> QED BY <2>1, <2>2, <2>3
<1> QED BY <1>1, <1>2, CellIsBoundOrFree

\* How the activations are bound to cells: a parameter is bound to the cell
\* of its reference, and another variable to one of its own.
Wired(fs) ==
    /\ \A i \in Vars : fs[1].cells[i] = <<1, i>>
    /\ \A k \in 1..Len(fs), i \in Vars : k > 1 =>
          fs[k].cells[i] = IF i \in DOMAIN fs[k].refs THEN fs[k - 1].cells[fs[k].refs[i]]
                           ELSE <<k, i>>
    /\ \A k \in 1..Len(fs), i \in Vars : fs[k].cells[i] \in (1..k) \X Vars
    /\ Injective(fs)

CellsInv == Typed /\ Level <= MaxFrames /\ Wired(frames)

LEMMA CellsFacts ==
    ASSUME CellsInv
    PROVE  /\ Level = Len(frames) /\ Level \in Nat /\ Level >= 1 /\ Level <= MaxFrames
           /\ \A k \in 1..Level : frames[k] \in Frame
           /\ Store = StoreOf(frames) /\ DOMAIN Store = (1..MaxFrames) \X Vars
           /\ Injective(frames)
           /\ \A k \in 1..Level, i \in Vars : frames[k].cells[i] \in (1..MaxFrames) \X Vars
           /\ Top = frames[Level]
           /\ Env = [k \in 1..Level |-> frames[k].cells] /\ Refs!Level = Level
           /\ Tries = [k \in 1..Level |-> frames[k].tries]
<1>1. Level = Len(frames) /\ Level \in Nat /\ Level >= 1 /\ Level <= MaxFrames
      /\ \A k \in 1..Level : frames[k] \in Frame
  BY TopTyped DEF CellsInv, Level
<1>2. Store = StoreOf(frames)
  BY DEF Store, StoreOf, Level
<1>3. DOMAIN Store = (1..MaxFrames) \X Vars
  BY DEF Store
<1>4. ASSUME NEW k \in 1..Level, NEW i \in Vars
      PROVE  frames[k].cells[i] \in (1..MaxFrames) \X Vars
  <2>1. frames[k].cells[i] \in (1..k) \X Vars
    BY <1>1 DEF CellsInv, Wired
  <2>2. \A n \in 1..k : n \in 1..MaxFrames
    BY <1>1, ConstantsAssumption
  <2> QED BY <2>1, <2>2
<1>5. Refs!Level = Level
  BY <1>1 DEF Refs!Level, Env
<1> QED BY <1>1, <1>2, <1>3, <1>4, <1>5 DEF Top, Env, Tries, CellsInv, Wired

\* The same cells as before, and the same slots below the innermost activation.
SameWiring ==
    /\ Typed' /\ Level' = Level
    /\ \A k \in 1..Level : /\ frames'[k].refs = frames[k].refs
                           /\ frames'[k].cells = frames[k].cells
    /\ \A k \in 1..Level : k # Level => frames'[k].slots = frames[k].slots

LEMMA SameCells ==
    ASSUME CellsInv, SameWiring
    PROVE  /\ CellsInv' /\ Env' = Env
           /\ \A c : Free(frames, c) => Free(frames', c)
           /\ \A c, k, i : Innermost(frames, c, k, i) => Innermost(frames', c, k, i)
<1>0. /\ Typed' /\ Level' = Level
      /\ \A k \in 1..Level : /\ frames'[k].refs = frames[k].refs
                             /\ frames'[k].cells = frames[k].cells
  BY DEF SameWiring
<1>1. Len(frames') = Len(frames) /\ Len(frames) = Level /\ Level \in Nat /\ 1 \in 1..Level
  BY <1>0, CellsFacts DEF Level
<1>2. /\ \A c : Free(frames, c) => Free(frames', c)
      /\ \A c, k, i : Innermost(frames, c, k, i) => Innermost(frames', c, k, i)
  BY <1>0, <1>1 DEF Free, Innermost, Bound
<1>3. Env' = Env
  BY <1>0, <1>1 DEF Env
<1>4. Wired(frames')
  <2>1. \A k \in 1..Level : k > 1 => k - 1 \in 1..Level
    BY <1>1
  <2>2. \A k \in 1..Level, i \in Vars : k > 1 =>
          frames'[k].cells[i] = IF i \in DOMAIN frames'[k].refs
                                THEN frames'[k - 1].cells[frames'[k].refs[i]] ELSE <<k, i>>
    BY <1>0, <1>1, <2>1 DEF CellsInv, Wired
  <2>3. Injective(frames')
    BY <1>0, <1>1 DEF CellsInv, Wired, Injective
  <2> QED BY <1>0, <1>1, <2>2, <2>3 DEF CellsInv, Wired
<1> QED BY <1>0, <1>1, <1>2, <1>3, <1>4 DEF CellsInv

\* A step that leaves the slots alone.
LEMMA SlotsKept ==
    ASSUME CellsInv, SameWiring, frames'[Level].slots = Top.slots
    PROVE  CellsInv' /\ Env' = Env /\ Store' = Store
<1>0. \A k \in 1..Level : frames'[k].slots = frames[k].slots
  BY CellsFacts DEF SameWiring
<1>1. /\ CellsInv' /\ Env' = Env
      /\ \A c : Free(frames, c) => Free(frames', c)
      /\ \A c, k, i : Innermost(frames, c, k, i) => Innermost(frames', c, k, i)
  BY SameCells
<1>2. /\ Len(frames) \in Nat /\ Len(frames') = Len(frames) /\ Len(frames) = Level
      /\ Injective(frames) /\ Injective(frames')
  BY <1>1, CellsFacts DEF CellsInv, Wired, Level, SameWiring
<1>3. ASSUME NEW c \in (1..MaxFrames) \X Vars
      PROVE  StoreOf(frames')[c] = StoreOf(frames)[c]
  <2>1. \A k \in 1..Len(frames), i \in Vars : Innermost(frames, c, k, i) =>
          \E l \in 1..Len(frames'), j \in Vars :
             Innermost(frames', c, l, j) /\ frames'[l].slots[j] = frames[k].slots[i]
    BY <1>0, <1>1, <1>2
  <2> QED BY <1>1, <1>2, <2>1, SameHeld
<1>4. StoreOf(frames') = StoreOf(frames)
  BY <1>3 DEF StoreOf
<1>5. Store = StoreOf(frames) /\ Store' = StoreOf(frames')
  BY DEF Store, StoreOf, Level
<1> QED BY <1>1, <1>4, <1>5

\* A slot of the innermost activation is written: so is its cell.
LEMMA SlotWritten ==
    ASSUME CellsInv, SameWiring,
           NEW i \in Vars, NEW v, frames'[Level].slots = [Top.slots EXCEPT ![i] = v]
    PROVE  CellsInv' /\ Env' = Env /\ Store' = [Store EXCEPT ![Env[Level][i]] = v]
<1> DEFINE cell == frames[Level].cells[i]
<1>0. \A j \in Vars : frames'[Level].slots[j] = IF j = i THEN v ELSE Top.slots[j]
  <2>1. Top \in Frame
    BY CellsFacts
  <2> QED BY <2>1 DEF Frame
<1>1. /\ CellsInv' /\ Env' = Env
      /\ \A c : Free(frames, c) => Free(frames', c)
      /\ \A c, k, j : Innermost(frames, c, k, j) => Innermost(frames', c, k, j)
  BY SameCells
<1>2. /\ Len(frames) \in Nat /\ Len(frames') = Len(frames) /\ Len(frames) = Level
      /\ Level >= 1 /\ Injective(frames) /\ Injective(frames')
  BY <1>1, CellsFacts DEF CellsInv, Wired, Level, SameWiring
<1>3. cell \in (1..MaxFrames) \X Vars /\ Env[Level][i] = cell
  BY <1>2, CellsFacts
<1>10. \A k \in 1..Level : k # Level => frames'[k].slots = frames[k].slots
  BY DEF SameWiring
<1>4. Innermost(frames, cell, Level, i)
  BY <1>2 DEF Innermost, Bound
<1> HIDE DEF cell
<1>5. StoreOf(frames')[cell] = v
  <2>1. Innermost(frames', cell, Level, i)
    BY <1>1, <1>4
  <2>2. frames'[Level].slots[i] = v
    BY <1>0
  <2> QED BY ONLY <1>2, <1>3, <2>1, <2>2, InnermostHolds
<1>6. ASSUME NEW c \in (1..MaxFrames) \X Vars, c # cell
      PROVE  StoreOf(frames')[c] = StoreOf(frames)[c]
  <2>1. ASSUME NEW k \in 1..Len(frames), NEW j \in Vars, Innermost(frames, c, k, j)
        PROVE  Innermost(frames', c, k, j) /\ frames'[k].slots[j] = frames[k].slots[j]
    <3>1. Innermost(frames', c, k, j)
      BY <1>1, <2>1
    <3>2. CASE k = Level
      <4>1. j # i
        BY <1>6, <2>1, <3>2 DEF Innermost, Bound, cell
      <4> QED BY <1>0, <3>1, <3>2, <4>1, CellsFacts
    <3>3. CASE k # Level
      BY <1>2, <1>10, <3>1, <3>3
    <3> QED BY <3>2, <3>3
  <2>2. \A k \in 1..Len(frames), j \in Vars : Innermost(frames, c, k, j) =>
          \E l \in 1..Len(frames'), m \in Vars :
             Innermost(frames', c, l, m) /\ frames'[l].slots[m] = frames[k].slots[j]
    BY <1>2, <2>1
  <2> QED BY <1>1, <1>2, <2>2, SameHeld
<1>7. Store = StoreOf(frames) /\ Store' = StoreOf(frames')
  BY DEF Store, StoreOf, Level
<1>8. DOMAIN StoreOf(frames) = (1..MaxFrames) \X Vars
      /\ StoreOf(frames') = [c \in (1..MaxFrames) \X Vars |-> StoreOf(frames')[c]]
  BY ONLY StoreIsFunction
<1>9. StoreOf(frames') = [StoreOf(frames) EXCEPT ![cell] = v]
  BY <1>3, <1>5, <1>6, <1>8
<1> QED BY <1>1, <1>3, <1>7, <1>9

\* The innermost activation is another with the same references and cells.
LEMMA TopReplaced ==
    ASSUME CellsInv, NEW top \in Frame, top.refs = Top.refs, top.cells = Top.cells,
           frames' = [frames EXCEPT ![Level] = top]
    PROVE  /\ SameWiring /\ frames'[Level].slots = top.slots
           /\ Tries' = [Tries EXCEPT ![Level] = top.tries]
<1>1. Level \in Nat /\ Level >= 1 /\ Top = frames[Level]
  BY CellsFacts
<1>2. /\ frames' \in Seq(Frame) /\ Level' = Level
      /\ \A k \in 1..Level : frames'[k] = IF k = Level THEN top ELSE frames[k]
  BY <1>1 DEF CellsInv, Typed, Level
<1>3. Typed'
  BY <1>1, <1>2 DEF Typed
<1>4. Tries' = [Tries EXCEPT ![Level] = top.tries]
  <2>1. Tries' = [k \in 1..Level |-> frames'[k].tries]
    BY <1>2 DEF Tries
  <2>2. \A k \in 1..Level : frames'[k].tries = IF k = Level THEN top.tries ELSE frames[k].tries
    BY <1>2
  <2> QED BY ONLY <1>1, <2>1, <2>2 DEF Tries
<1>5. SameWiring
  BY <1>1, <1>2, <1>3 DEF SameWiring
<1> QED BY <1>1, <1>2, <1>4, <1>5

LEMMA TopKept ==
    ASSUME CellsInv, NEW top \in Frame, top.refs = Top.refs, top.cells = Top.cells,
           top.slots = Top.slots, frames' = [frames EXCEPT ![Level] = top]
    PROVE  /\ CellsInv' /\ Env' = Env /\ Store' = Store
           /\ Tries' = [Tries EXCEPT ![Level] = top.tries]
<1>1. /\ SameWiring /\ frames'[Level].slots = top.slots
      /\ Tries' = [Tries EXCEPT ![Level] = top.tries]
  BY TopReplaced
<1>2. frames'[Level].slots = Top.slots
  BY <1>1
<1>3. CellsInv' /\ Env' = Env /\ Store' = Store
  BY ONLY CellsInv, <1>1, <1>2, SlotsKept
<1> QED BY <1>1, <1>3

Written(top, i, v) ==
    /\ top \in Frame /\ top.refs = Top.refs /\ top.cells = Top.cells
    /\ top.slots = [Top.slots EXCEPT ![i] = v]
    /\ frames' = [frames EXCEPT ![Level] = top]

LEMMA TopWritten ==
    ASSUME CellsInv, NEW top, NEW i \in Vars, NEW v, Written(top, i, v)
    PROVE  /\ CellsInv' /\ Env' = Env /\ Store' = [Store EXCEPT ![Env[Level][i]] = v]
           /\ Tries' = [Tries EXCEPT ![Level] = top.tries]
<1>1. /\ SameWiring /\ frames'[Level].slots = top.slots
      /\ Tries' = [Tries EXCEPT ![Level] = top.tries]
  BY TopReplaced DEF Written
<1>2. frames'[Level].slots = [Top.slots EXCEPT ![i] = v]
  BY <1>1 DEF Written
<1>3. CellsInv' /\ Env' = Env /\ Store' = [Store EXCEPT ![Env[Level][i]] = v]
  BY ONLY CellsInv, i \in Vars, <1>1, <1>2, SlotWritten
<1> QED BY <1>1, <1>3

LEMMA TopFacts ==
    ASSUME CellsInv
    PROVE  /\ Top \in Frame /\ Top.tries \in Nat /\ Top.slots \in [Vars -> Vals \union {Undef}]
           /\ Top.refs \in DistinctRefs
           /\ Refs!Level = Level /\ Tries[Level] = Top.tries
<1>1. Top \in Frame /\ Refs!Level = Level /\ Tries[Level] = Top.tries
  BY CellsFacts
<1> QED BY <1>1 DEF Frame

LEMMA AssignPromised ==
    ASSUME CellsInv, NEW i \in Vars, NEW v \in Vals \union {Undef}, Assign(i, v)
    PROVE  CellsInv' /\ Refs!Assign(i, v)
<1> DEFINE top == [Top EXCEPT !.slots = [Top.slots EXCEPT ![i] = v]]
<1>1. /\ top \in Frame /\ top.refs = Top.refs /\ top.cells = Top.cells
      /\ top.slots = [Top.slots EXCEPT ![i] = v] /\ top.tries = Top.tries
  BY TopFacts DEF Frame
<1>2. frames' = [frames EXCEPT ![Level] = top] /\ mode = "run" /\ mode' = mode
  BY DEF Assign, SetTop, Top
<1> HIDE DEF top
<1>3. /\ CellsInv' /\ Env' = Env /\ Store' = [Store EXCEPT ![Env[Level][i]] = v]
      /\ Tries' = [Tries EXCEPT ![Level] = top.tries]
  <2>1. Written(top, i, v)
    BY ONLY <1>1, <1>2 DEF Written
  <2> QED BY ONLY CellsInv, i \in Vars, <2>1, TopWritten
<1>4. Tries' = Tries
  BY <1>1, <1>3, CellsFacts, TopFacts
<1> QED BY <1>2, <1>3, <1>4, TopFacts DEF Refs!Assign, Refs!Set

LEMMA BeginTryPromised ==
    ASSUME CellsInv, BeginTry
    PROVE  CellsInv' /\ Refs!BeginTry
<1> DEFINE top == [Top EXCEPT !.tries = @ + 1]
<1>1. /\ top \in Frame /\ top.refs = Top.refs /\ top.cells = Top.cells
      /\ top.slots = Top.slots /\ top.tries = Top.tries + 1
  BY TopFacts DEF Frame
<1>2. frames' = [frames EXCEPT ![Level] = top] /\ mode = "run" /\ mode' = mode
  BY DEF BeginTry, Top
<1> HIDE DEF top
<1>3. /\ CellsInv' /\ Env' = Env /\ Store' = Store
      /\ Tries' = [Tries EXCEPT ![Level] = Tries[Level] + 1]
  BY <1>1, <1>2, TopKept, TopFacts
<1> QED BY <1>2, <1>3, TopFacts DEF Refs!BeginTry

LEMMA EndTryPromised ==
    ASSUME CellsInv, EndTry
    PROVE  CellsInv' /\ Refs!EndTry
<1> DEFINE top == [Top EXCEPT !.tries = @ - 1]
<1>1. /\ top \in Frame /\ top.refs = Top.refs /\ top.cells = Top.cells
      /\ top.slots = Top.slots /\ top.tries = Top.tries - 1
  BY TopFacts DEF Frame, EndTry
<1>2. frames' = [frames EXCEPT ![Level] = top] /\ mode = "run" /\ mode' = mode /\ Top.tries > 0
  BY DEF EndTry, Top
<1> HIDE DEF top
<1>3. /\ CellsInv' /\ Env' = Env /\ Store' = Store
      /\ Tries' = [Tries EXCEPT ![Level] = Tries[Level] - 1]
  BY <1>1, <1>2, TopKept, TopFacts
<1> QED BY <1>2, <1>3, TopFacts DEF Refs!EndTry

LEMMA SkipPromised ==
    ASSUME CellsInv, Skip
    PROVE  CellsInv' /\ Refs!Skip
<1> DEFINE top == [Top EXCEPT !.tries = 0]
<1>1. /\ top \in Frame /\ top.refs = Top.refs /\ top.cells = Top.cells
      /\ top.slots = Top.slots /\ top.tries = 0
  BY TopFacts DEF Frame
<1>2. /\ frames' = [frames EXCEPT ![Level] = top] /\ mode = "interrupt" /\ mode' = mode
      /\ Top.tries > 0
  BY DEF Skip, Top
<1> HIDE DEF top
<1>3. CellsInv' /\ Env' = Env /\ Store' = Store /\ Tries' = [Tries EXCEPT ![Level] = 0]
  BY <1>1, <1>2, TopKept
<1> QED BY <1>2, <1>3, TopFacts DEF Refs!Skip

LEMMA CatchPromised ==
    ASSUME CellsInv, NEW i \in Vars, Catch(i)
    PROVE  CellsInv' /\ Refs!Catch(i)
<1> DEFINE top == [Top EXCEPT !.tries = @ - 1, !.slots = [Top.slots EXCEPT ![i] = ErrObject]]
<1>1. Top.tries - 1 \in Nat /\ [Top.slots EXCEPT ![i] = ErrObject] \in [Vars -> Vals \union {Undef}]
  BY TopFacts, ConstantsAssumption DEF Catch
<1>2. /\ top \in Frame /\ top.refs = Top.refs /\ top.cells = Top.cells
      /\ top.slots = [Top.slots EXCEPT ![i] = ErrObject] /\ top.tries = Top.tries - 1
  BY <1>1, TopFacts DEF Frame
<1>3. /\ frames' = [frames EXCEPT ![Level] = top] /\ mode = "raise" /\ mode' = "run"
      /\ Top.tries > 0
  BY DEF Catch, Top
<1> HIDE DEF top
<1>4. /\ CellsInv' /\ Env' = Env /\ Store' = [Store EXCEPT ![Env[Level][i]] = ErrObject]
      /\ Tries' = [Tries EXCEPT ![Level] = top.tries]
  <2>1. Written(top, i, ErrObject)
    BY ONLY <1>2, <1>3 DEF Written
  <2> QED BY ONLY CellsInv, i \in Vars, <2>1, TopWritten
<1>5. top.tries = Tries[Level] - 1
  BY <1>2, TopFacts
<1> QED BY <1>3, <1>4, <1>5, TopFacts DEF Refs!Catch, Refs!Set

LEMMA SameFrames ==
    ASSUME CellsInv, frames' = frames
    PROVE  CellsInv' /\ Env' = Env /\ Store' = Store /\ Tries' = Tries
BY DEF CellsInv, Typed, Level, Env, Store, Tries

LEMMA FailPromised ==
    ASSUME CellsInv, Fail
    PROVE  CellsInv' /\ Refs!Fail
BY SameFrames DEF Fail, Refs!Fail

LEMMA ReportPromised ==
    ASSUME CellsInv, Report
    PROVE  CellsInv' /\ Refs!Report
BY SameFrames, TopFacts DEF Report, Refs!Report

\* A refused call gives back what it took: the caller sees a failure only.
LEMMA RefusedCallPromised ==
    ASSUME CellsInv, NEW refs \in DistinctRefs, RefusedCall(refs)
    PROVE  CellsInv' /\ Refs!Fail
<1>1. frames' = SetTop(Top.slots) /\ mode = "run" /\ mode' \in {"raise", "interrupt"}
  BY TopFacts, TakePutBack DEF RefusedCall
<1>2. [Top EXCEPT !.slots = Top.slots] = Top
  BY TopFacts DEF Frame
<1>3. SetTop(Top.slots) = [frames EXCEPT ![Level] = Top]
  BY <1>2 DEF SetTop, Top
<1>4. frames' = frames
  BY <1>1, <1>3, CellsFacts DEF CellsInv, Typed, Level
<1> QED BY <1>1, <1>4, SameFrames DEF Refs!Fail

LEMMA CallPromised ==
    ASSUME CellsInv, NEW refs \in DistinctRefs, Call(refs)
    PROVE  CellsInv' /\ Level < MaxFrames /\ Refs!Call(refs)
<1>1. /\ Typed /\ Level = Len(frames) /\ Level \in Nat /\ Level >= 1 /\ Top = frames[Level]
      /\ Level < MaxFrames /\ mode = "run" /\ mode' = mode /\ MaxFrames \in Nat
  BY CellsFacts, ConstantsAssumption DEF CellsInv, Call
<1>2. /\ Typed' /\ frames' \in Seq(Frame) /\ Level' = Level + 1
      /\ \A k \in 1..Level : /\ frames'[k].refs = frames[k].refs
                             /\ frames'[k].cells = frames[k].cells
                             /\ frames'[k].tries = frames[k].tries
                             /\ k # Level => frames'[k].slots = frames[k].slots
      /\ \A i \in Vars : ~IsRef(refs, i) => frames'[Level].slots[i] = Top.slots[i]
      /\ frames'[Level + 1].refs = refs /\ frames'[Level + 1].tries = 0
      /\ \A m \in DOMAIN refs : /\ frames'[Level + 1].slots[m] = Top.slots[refs[m]]
                                /\ frames'[Level + 1].cells[m] = Top.cells[refs[m]]
      /\ \A i \in Vars : i \notin DOMAIN refs =>
           /\ frames'[Level + 1].slots[i] = Undef
           /\ frames'[Level + 1].cells[i] = <<Level + 1, i>>
  BY <1>1, CallFrames
<1>3. /\ DOMAIN refs = 1..Len(refs) /\ Len(refs) \in Nat
      /\ \A k \in DOMAIN refs : k \in Vars /\ refs[k] \in Vars
      /\ \A j, k \in DOMAIN refs : refs[j] = refs[k] => j = k
  BY RefListsFacts
<1>4. Len(frames') = Level + 1
  BY <1>2 DEF Level
<1>5. /\ \A k \in 1..Level, i \in Vars : frames[k].cells[i] \in (1..k) \X Vars
      /\ Injective(frames)
  BY <1>1 DEF CellsInv, Wired
<1>6. \A i \in Vars : Top.cells[i] \in (1..Level) \X Vars
  BY <1>1, <1>5
<1>7. Wired(frames')
  <2>1. \A i \in Vars : frames'[1].cells[i] = <<1, i>>
    BY <1>1, <1>2 DEF CellsInv, Wired
  <2>2. ASSUME NEW k \in 1..(Level + 1), NEW i \in Vars, k > 1
        PROVE  frames'[k].cells[i] = IF i \in DOMAIN frames'[k].refs
                                     THEN frames'[k - 1].cells[frames'[k].refs[i]]
                                     ELSE <<k, i>>
    <3>1. CASE k = Level + 1
      BY <1>1, <1>2, <3>1
    <3>2. CASE k # Level + 1
      <4>1. k \in 1..Level /\ k - 1 \in 1..Level
        BY <1>1, <2>2, <3>2
      <4>2. frames'[k].refs = frames[k].refs /\ frames'[k].cells = frames[k].cells
            /\ frames'[k - 1].cells = frames[k - 1].cells
        BY <1>2, <4>1
      <4>3. frames[k].cells[i] = IF i \in DOMAIN frames[k].refs
                                 THEN frames[k - 1].cells[frames[k].refs[i]] ELSE <<k, i>>
        BY <1>1, <2>2, <4>1 DEF CellsInv, Wired
      <4> QED BY ONLY <4>2, <4>3
    <3> QED BY <3>1, <3>2
  <2>3. ASSUME NEW k \in 1..(Level + 1), NEW i \in Vars
        PROVE  frames'[k].cells[i] \in (1..k) \X Vars
    <3>1. CASE k = Level + 1
      <4>1. CASE i \in DOMAIN refs
        <5>1. frames'[k].cells[i] \in (1..Level) \X Vars
          BY <1>2, <1>3, <1>6, <3>1, <4>1
        <5>2. \A n \in 1..Level : n \in 1..k
          BY <1>1, <3>1
        <5> QED BY <5>1, <5>2
      <4>2. CASE i \notin DOMAIN refs
        <5>1. frames'[k].cells[i] = <<k, i>>
          BY <1>2, <3>1, <4>2
        <5>2. k \in 1..k
          BY <1>1, <3>1
        <5> QED BY <5>1, <5>2
      <4> QED BY <4>1, <4>2
    <3>2. CASE k # Level + 1
      BY <1>1, <1>2, <1>5, <3>2
    <3> QED BY <3>1, <3>2
  <2>4. ASSUME NEW k \in 1..(Level + 1), NEW i \in Vars, NEW j \in Vars,
               frames'[k].cells[i] = frames'[k].cells[j]
        PROVE  i = j
    <3>1. CASE k # Level + 1
      <4>1. k \in 1..Level
        BY <1>1, <3>1
      <4> QED BY <1>1, <1>2, <1>5, <2>4, <4>1 DEF Injective
    <3>2. CASE k = Level + 1
      <4>1. CASE i \in DOMAIN refs /\ j \in DOMAIN refs
        <5>1. Top.cells[refs[i]] = Top.cells[refs[j]] /\ refs[i] \in Vars /\ refs[j] \in Vars
          BY <1>2, <1>3, <2>4, <3>2, <4>1
        <5>2. refs[i] = refs[j]
          BY <1>1, <1>5, <5>1 DEF Injective
        <5> QED BY <1>3, <4>1, <5>2
      <4>2. CASE i \notin DOMAIN refs /\ j \notin DOMAIN refs
        BY <1>2, <2>4, <3>2, <4>2
      <4>3. ASSUME NEW m \in DOMAIN refs, NEW n \in Vars, n \notin DOMAIN refs
            PROVE  frames'[k].cells[m] # frames'[k].cells[n]
        <5>1. frames'[k].cells[m] \in (1..Level) \X Vars
          BY <1>2, <1>3, <1>6, <3>2
        <5>2. frames'[k].cells[n] = <<Level + 1, n>> /\ Level + 1 \notin 1..Level
          BY <1>1, <1>2, <3>2, <4>3
        <5> QED BY <5>1, <5>2
      <4> QED BY <2>4, <4>1, <4>2, <4>3
    <3> QED BY <3>1, <3>2
  <2> QED BY <1>4, <2>1, <2>2, <2>3, <2>4 DEF Wired, Injective
<1>8. CellsInv'
  BY <1>1, <1>2, <1>7 DEF CellsInv
<1>9. Refs!Level = Level
  BY CellsFacts
<1>10. Env' = Append(Env, [i \in Vars |-> IF i <= Len(refs) THEN Env[Level][refs[i]]
                                         ELSE <<Level + 1, i>>])
  <2> DEFINE bottom == [i \in Vars |-> IF i <= Len(refs) THEN Env[Level][refs[i]]
                                       ELSE <<Level + 1, i>>]
  <2>1. Env = [k \in 1..Level |-> Env[k]] /\ Len(Env) = Level /\ Env[Level] = Top.cells
    BY <1>1 DEF Env
  <2>2. frames'[Level + 1].cells = bottom
    <3>1. \A i \in Vars : (i <= Len(refs)) <=> i \in DOMAIN refs
      BY <1>3, ConstantsAssumption
    <3>2. \A i \in Vars : frames'[Level + 1].cells[i] = bottom[i]
      BY <1>2, <2>1, <3>1
    <3>3. frames'[Level + 1] \in Frame
      BY <1>1, <1>2, <1>4
    <3> QED BY <3>2, <3>3 DEF Frame
  <2> HIDE DEF bottom
  <2>3. Env' = [k \in 1..(Level + 1) |-> IF k = Level + 1 THEN bottom ELSE Env[k]]
    <3>1. Env' = [k \in 1..(Level + 1) |-> frames'[k].cells]
      BY <1>2 DEF Env
    <3>2. \A k \in 1..Level : frames'[k].cells = Env[k]
      BY <1>2 DEF Env
    <3> QED BY <1>1, <2>2, <3>1, <3>2
  <2>4. Append(Env, bottom) = [k \in 1..(Level + 1) |-> IF k = Level + 1 THEN bottom ELSE Env[k]]
    BY ONLY <1>1, <2>1
  <2> QED BY <2>3, <2>4 DEF bottom
<1>11. Tries' = Append(Tries, 0)
  <2>1. Tries = [k \in 1..Level |-> Tries[k]] /\ Len(Tries) = Level
    BY <1>1 DEF Tries
  <2>2. Tries' = [k \in 1..(Level + 1) |-> IF k = Level + 1 THEN 0 ELSE Tries[k]]
    <3>1. Tries' = [k \in 1..(Level + 1) |-> frames'[k].tries]
      BY <1>2 DEF Tries
    <3>2. \A k \in 1..Level : frames'[k].tries = Tries[k]
      BY <1>2 DEF Tries
    <3> QED BY <1>1, <1>2, <3>1, <3>2
  <2>3. Append(Tries, 0) = [k \in 1..(Level + 1) |-> IF k = Level + 1 THEN 0 ELSE Tries[k]]
    BY ONLY <1>1, <2>1
  <2> QED BY <2>2, <2>3
<1>12. ASSUME NEW c \in (1..MaxFrames) \X Vars
       PROVE  StoreOf(frames')[c] = StoreOf(frames)[c]
  <2>0. Injective(frames) /\ Injective(frames') /\ Len(frames) = Level /\ Len(frames') \in Nat
    BY <1>1, <1>4, <1>5, <1>7 DEF Wired
  <2>1. CASE \E i \in Vars : i \notin DOMAIN refs /\ c = <<Level + 1, i>>
    <3>1. PICK i \in Vars : i \notin DOMAIN refs /\ c = <<Level + 1, i>>
      BY <2>1
    <3>2. \A k \in 1..Level, j \in Vars : frames[k].cells[j] # c
      <4>1. c[1] = Level + 1
        BY <3>1
      <4>2. \A k \in 1..Level, j \in Vars : frames[k].cells[j][1] \in 1..k
        BY <1>5
      <4> QED BY <1>1, <4>1, <4>2
    <3>3. Free(frames, c)
      BY <1>1, <3>2 DEF Free
    <3>4. StoreOf(frames)[c] = Undef
      BY <3>3, FreeHoldsNothing
    <3>5. Innermost(frames', c, Level + 1, i)
      BY <1>1, <1>2, <1>4, <3>1 DEF Innermost, Bound
    <3>6. StoreOf(frames')[c] = frames'[Level + 1].slots[i]
      BY <2>0, <3>5, InnermostHolds
    <3> QED BY <1>2, <3>1, <3>4, <3>6
  <2>2. CASE ~\E i \in Vars : i \notin DOMAIN refs /\ c = <<Level + 1, i>>
    <3>1. \A i \in Vars : frames'[Level + 1].cells[i] = c =>
            i \in DOMAIN refs /\ Top.cells[refs[i]] = c
      BY <1>2, <2>2
    <3>2. Free(frames, c) => Free(frames', c)
      BY <1>1, <1>2, <1>3, <1>4, <3>1 DEF Free
    <3>3. ASSUME NEW k \in 1..Len(frames), NEW i \in Vars, Innermost(frames, c, k, i)
          PROVE  \E l \in 1..Len(frames'), j \in Vars :
                    Innermost(frames', c, l, j) /\ frames'[l].slots[j] = frames[k].slots[i]
      <4>0. frames[k].cells[i] = c /\ k \in 1..Level
            /\ \A l \in 1..Level, j \in Vars : frames[l].cells[j] = c => l <= k
        BY <1>1, <3>3 DEF Innermost, Bound
      <4>1. CASE \E m \in DOMAIN refs : Top.cells[refs[m]] = c
        <5>1. PICK m \in DOMAIN refs : Top.cells[refs[m]] = c
          BY <4>1
        <5>2. m \in Vars /\ refs[m] \in Vars
          BY <1>3
        <5>3. k = Level
          BY <1>1, <4>0, <5>1, <5>2
        <5>4. i = refs[m]
          BY <1>1, <1>5, <4>0, <5>1, <5>2, <5>3 DEF Injective
        <5>5. frames'[Level + 1].slots[m] = frames[k].slots[i]
          BY <1>1, <1>2, <5>3, <5>4
        <5>6. Innermost(frames', c, Level + 1, m)
          BY <1>1, <1>2, <1>4, <5>1, <5>2 DEF Innermost, Bound
        <5>7. Level + 1 \in 1..Len(frames')
          BY <1>1, <1>4
        <5> QED BY <5>2, <5>5, <5>6, <5>7
      <4>2. CASE ~\E m \in DOMAIN refs : Top.cells[refs[m]] = c
        <5>1. \A j \in Vars : frames'[Level + 1].cells[j] # c
          BY <3>1, <4>2
        <5>2. Innermost(frames', c, k, i)
          BY <1>1, <1>2, <1>4, <4>0, <5>1 DEF Innermost, Bound
        <5>3. frames'[k].slots[i] = frames[k].slots[i]
          <6>1. CASE k = Level
            <7>1. ~IsRef(refs, i)
              BY <1>1, <4>0, <4>2, <6>1 DEF IsRef
            <7> QED BY <1>1, <1>2, <6>1, <7>1
          <6>2. CASE k # Level
            BY <1>2, <4>0, <6>2
          <6> QED BY <6>1, <6>2
        <5>4. k \in 1..Len(frames')
          BY <1>1, <1>4, <4>0
        <5> QED BY <5>2, <5>3, <5>4
      <4> QED BY <4>1, <4>2
    <3> QED BY <1>1, <2>0, <3>2, <3>3, SameHeld
  <2> QED BY <2>1, <2>2
<1>13. Store' = Store
  <2>1. StoreOf(frames') = StoreOf(frames)
    BY <1>12 DEF StoreOf
  <2>2. Store = StoreOf(frames) /\ Store' = StoreOf(frames')
    BY DEF Store, StoreOf, Level
  <2> QED BY <2>1, <2>2
<1> QED BY <1>1, <1>8, <1>9, <1>10, <1>11, <1>13 DEF Refs!Call

LEMMA LeavePromised ==
    ASSUME CellsInv, Leave
    PROVE  CellsInv' /\ Refs!Leave
<1> DEFINE K    == Level - 1
           refs == Top.refs
<1>1. /\ K \in Nat /\ K >= 1 /\ Level \in Nat /\ Level = K + 1 /\ Top = frames[Level]
      /\ Level = Len(frames) /\ Level <= MaxFrames /\ Level \in 1..Level
      /\ Typed' /\ Level' = K /\ refs \in DistinctRefs
      /\ \A k \in 1..K : /\ frames'[k].refs = frames[k].refs
                         /\ frames'[k].cells = frames[k].cells
                         /\ frames'[k].tries = frames[k].tries
                         /\ k # K => frames'[k].slots = frames[k].slots
      /\ \A m \in DOMAIN refs : frames'[K].slots[refs[m]] = Top.slots[m]
      /\ \A i \in Vars : ~IsRef(refs, i) => frames'[K].slots[i] = frames[K].slots[i]
  BY TopTyped, LeaveFrames, CellsFacts DEF CellsInv
<1>2. \A k \in DOMAIN refs : k \in Vars /\ refs[k] \in Vars
  BY <1>1, RefListsFacts
<1>3. Top.tries = 0 /\ mode' = mode /\ Level > 1
  BY DEF Leave
<1> HIDE DEF K, refs
<1>4. Len(frames') = K /\ MaxFrames \in Nat
  BY <1>1, ConstantsAssumption DEF Level
<1>5. /\ \A k \in 1..Level, i \in Vars : frames[k].cells[i] \in (1..k) \X Vars
      /\ Injective(frames)
      /\ \A k \in 1..Level, i \in Vars : k > 1 =>
           frames[k].cells[i] = IF i \in DOMAIN frames[k].refs
                                THEN frames[k - 1].cells[frames[k].refs[i]] ELSE <<k, i>>
  BY <1>1 DEF CellsInv, Wired
<1>6. \A i \in Vars : Top.cells[i] = IF i \in DOMAIN refs THEN frames[K].cells[refs[i]]
                                    ELSE <<Level, i>>
  <2>1. Level - 1 = K /\ Level > 1 /\ frames[Level].refs = refs
    BY <1>1, <1>3 DEF refs
  <2> QED BY <1>1, <1>5, <2>1
<1>7. Wired(frames')
  <2>1. \A i \in Vars : frames'[1].cells[i] = <<1, i>>
    BY <1>1 DEF CellsInv, Wired
  <2>2. \A k \in 1..K, i \in Vars : frames'[k].cells[i] \in (1..k) \X Vars
    BY <1>1, <1>5
  <2>3. Injective(frames')
    BY <1>1, <1>4, <1>5 DEF Injective
  <2>4. ASSUME NEW k \in 1..K, NEW i \in Vars, k > 1
        PROVE  frames'[k].cells[i] = IF i \in DOMAIN frames'[k].refs
                                     THEN frames'[k - 1].cells[frames'[k].refs[i]]
                                     ELSE <<k, i>>
    <3>1. k \in 1..Level /\ k - 1 \in 1..K
      BY <1>1, <2>4
    <3>2. frames'[k].refs = frames[k].refs /\ frames'[k].cells = frames[k].cells
          /\ frames'[k - 1].cells = frames[k - 1].cells
      BY <1>1, <3>1
    <3>3. frames[k].cells[i] = IF i \in DOMAIN frames[k].refs
                               THEN frames[k - 1].cells[frames[k].refs[i]] ELSE <<k, i>>
      BY <1>5, <2>4, <3>1
    <3> QED BY ONLY <3>2, <3>3
  <2> QED BY <1>4, <2>1, <2>2, <2>3, <2>4 DEF Wired
<1>8. CellsInv'
  BY <1>1, <1>4, <1>7 DEF CellsInv
<1>9. Refs!Level = Level /\ Tries[Level] = 0
  BY <1>3, TopFacts
<1>10. Env' = SubSeq(Env, 1, Level - 1)
  <2>1. Env = [k \in 1..Level |-> Env[k]]
    BY <1>1 DEF Env
  <2>2. SubSeq(Env, 1, Level - 1) = [k \in 1..K |-> Env[k]]
    BY ONLY <1>1, <2>1
  <2>3. Env' = [k \in 1..K |-> frames'[k].cells]
    BY <1>1 DEF Env
  <2>4. \A k \in 1..K : frames'[k].cells = Env[k]
    BY <1>1 DEF Env
  <2> QED BY ONLY <2>2, <2>3, <2>4
<1>11. Tries' = SubSeq(Tries, 1, Level - 1)
  <2>1. Tries = [k \in 1..Level |-> Tries[k]]
    BY <1>1 DEF Tries
  <2>2. SubSeq(Tries, 1, Level - 1) = [k \in 1..K |-> Tries[k]]
    BY ONLY <1>1, <2>1
  <2>3. Tries' = [k \in 1..K |-> frames'[k].tries]
    BY <1>1 DEF Tries
  <2>4. \A k \in 1..K : frames'[k].tries = Tries[k]
    BY <1>1 DEF Tries
  <2> QED BY ONLY <2>2, <2>3, <2>4
<1>12. ASSUME NEW c \in (1..MaxFrames) \X Vars
       PROVE  StoreOf(frames')[c] = IF c[1] = Level THEN Undef ELSE StoreOf(frames)[c]
  <2>0. /\ Injective(frames) /\ Injective(frames')
        /\ Len(frames) \in Nat /\ Len(frames') \in Nat
    BY <1>1, <1>4, <1>5, <1>7 DEF Wired
  <2>1. CASE c[1] = Level
    <3>1. ASSUME NEW k \in 1..K, NEW i \in Vars PROVE frames'[k].cells[i] # c
      <4>1. frames'[k].cells[i][1] \in 1..k
        BY <1>1, <1>5
      <4> QED BY <1>1, <2>1, <4>1
    <3>2. Free(frames', c)
      BY <1>4, <3>1 DEF Free
    <3> QED BY <2>1, <3>2, FreeHoldsNothing
  <2>2. CASE c[1] # Level
    <3>1. Free(frames, c) => Free(frames', c)
      BY <1>1, <1>4 DEF Free
    <3>2. ASSUME NEW k \in 1..Len(frames), NEW i \in Vars, Innermost(frames, c, k, i)
          PROVE  \E l \in 1..Len(frames'), j \in Vars :
                    Innermost(frames', c, l, j) /\ frames'[l].slots[j] = frames[k].slots[i]
      <4>0. frames[k].cells[i] = c /\ k \in 1..Level
            /\ \A l \in 1..Level, j \in Vars : frames[l].cells[j] = c => l <= k
        BY <1>1, <3>2 DEF Innermost, Bound
      <4>1. CASE k = Level
        <5>1. i \in DOMAIN refs /\ frames[K].cells[refs[i]] = c
          <6>1. Top.cells[i] = c
            BY <1>1, <4>0, <4>1
          <6>2. i \in DOMAIN refs
            <7> SUFFICES ASSUME i \notin DOMAIN refs PROVE FALSE
              OBVIOUS
            <7>1. c = <<Level, i>>
              BY <1>6, <6>1
            <7> QED BY <2>2, <7>1
          <6> QED BY <1>6, <6>1, <6>2
        <5>2. refs[i] \in Vars /\ K \in 1..Len(frames')
          BY <1>1, <1>2, <1>4, <5>1
        <5>3. Innermost(frames', c, K, refs[i])
          BY <1>1, <1>4, <5>1, <5>2 DEF Innermost, Bound
        <5>4. frames'[K].slots[refs[i]] = frames[k].slots[i]
          BY <1>1, <4>1, <5>1
        <5> QED BY <5>2, <5>3, <5>4
      <4>2. CASE k # Level
        <5>1. k \in 1..K
          BY <1>1, <4>0, <4>2
        <5>2. Innermost(frames', c, k, i)
          BY <1>1, <1>4, <4>0, <5>1 DEF Innermost, Bound
        <5>3. frames'[k].slots[i] = frames[k].slots[i]
          <6>1. CASE k = K
            <7>1. ~IsRef(refs, i)
              <8> SUFFICES ASSUME NEW m \in DOMAIN refs, refs[m] = i PROVE FALSE
                BY DEF IsRef
              <8>1. m \in Vars /\ Top.cells[m] = c
                BY <1>2, <1>6, <4>0, <6>1
              <8> QED BY <1>1, <4>0, <6>1, <8>1
            <7> QED BY <1>1, <6>1, <7>1
          <6>2. CASE k # K
            BY <1>1, <5>1, <6>2
          <6> QED BY <6>1, <6>2
        <5> QED BY <1>4, <5>1, <5>2, <5>3
      <4> QED BY <4>1, <4>2
    <3>3. StoreOf(frames')[c] = StoreOf(frames)[c]
      BY <2>0, <3>1, <3>2, SameHeld
    <3> QED BY <2>2, <3>3
  <2> QED BY <2>1, <2>2
<1>13. Store' = [c \in Refs!Cells |-> IF c[1] = Level THEN Undef ELSE Store[c]]
  <2>1. StoreOf(frames') = [c \in (1..MaxFrames) \X Vars |-> StoreOf(frames')[c]]
    BY ONLY StoreIsFunction
  <2>2. Store = StoreOf(frames) /\ Store' = StoreOf(frames')
    BY DEF Store, StoreOf, Level
  <2> QED BY <1>12, <2>1, <2>2 DEF Refs!Cells
<1> QED BY <1>3, <1>8, <1>9, <1>10, <1>11, <1>13 DEF Refs!Leave

-----------------------------------------------------------------------------
(* Every step maps to a step of the promise *)

LEMMA InitPromised ==
    ASSUME Init
    PROVE  CellsInv /\ Refs!Init
<1>1. PICK s \in [Vars -> Vals \union {Undef}] :
        frames = <<[slots |-> s, refs |-> <<>>, tries |-> 0, cells |-> [i \in Vars |-> <<1, i>>]]>>
  BY DEF Init
<1>2. <<>> \in DistinctRefs
  <2>1. <<>> \in [1..0 -> Vars] /\ 0 \in 0..MaxRefs
    BY ConstantsAssumption
  <2> QED BY <2>1 DEF DistinctRefs, Distinct, RefLists
<1>3. /\ frames[1] \in Frame /\ frames \in Seq(Frame) /\ Level = 1 /\ Len(frames) = 1
      /\ frames[1].cells = [i \in Vars |-> <<1, i>>] /\ frames[1].slots = s
      /\ frames[1].tries = 0
  BY <1>1, <1>2 DEF Frame, Level
<1>4. Injective(frames) /\ Wired(frames)
  BY <1>3 DEF Wired, Injective
<1>5. CellsInv
  BY <1>3, <1>4, ConstantsAssumption DEF CellsInv, Typed
<1>6. Env = <<[i \in Vars |-> <<1, i>>]>> /\ Tries = <<0>>
  BY <1>3 DEF Env, Tries
<1>7. Store = StoreOf(frames)
  BY <1>5, CellsFacts
<1>8. ASSUME NEW c \in (1..MaxFrames) \X Vars
      PROVE  /\ StoreOf(frames)[c] \in Vals \union {Undef}
             /\ c[1] # 1 => StoreOf(frames)[c] = Undef
  <2>1. CASE Free(frames, c)
    BY <2>1, FreeHoldsNothing
  <2>2. ASSUME NEW k \in 1..Len(frames), NEW i \in Vars, Innermost(frames, c, k, i)
        PROVE  c[1] = 1 /\ StoreOf(frames)[c] \in Vals \union {Undef}
    <3>1. StoreOf(frames)[c] = frames[k].slots[i]
      BY <1>3, <1>4, <2>2, InnermostHolds
    <3>2. k = 1 /\ frames[1].cells[i] = c
      BY <1>3, <2>2 DEF Innermost, Bound
    <3>3. c = <<1, i>>
      BY <1>3, <3>2
    <3>4. frames[k].slots[i] \in Vals \union {Undef}
      BY <1>3, <3>2
    <3> QED BY <3>1, <3>3, <3>4
  <2>3. Free(frames, c) \/ \E k \in 1..Len(frames), i \in Vars : Innermost(frames, c, k, i)
    <3>1. Len(frames) \in Nat
      BY <1>3
    <3> QED BY ONLY <3>1, CellIsBoundOrFree
  <2>4. CASE \E k \in 1..Len(frames), i \in Vars : Innermost(frames, c, k, i)
    BY <2>2, <2>4
  <2> QED BY <2>1, <2>3, <2>4
<1>9. StoreOf(frames) \in [(1..MaxFrames) \X Vars -> Vals \union {Undef}]
  <2>1. StoreOf(frames) = [c \in (1..MaxFrames) \X Vars |-> StoreOf(frames)[c]]
    BY ONLY StoreIsFunction
  <2> QED BY <1>8, <2>1
<1> QED BY <1>5, <1>6, <1>7, <1>8, <1>9 DEF Init, Refs!Init, Refs!Bottom, Refs!Cells

LEMMA StepPromised ==
    ASSUME Promised, CellsInv, Step
    PROVE  CellsInv' /\ Refs!Next
<1>0. \A refs \in Passed : refs \in DistinctRefs /\ refs \in Refs!RefLists
  BY DEF Promised, Passed, DistinctRefs, RefLists, Refs!RefLists
<1>1. ASSUME NEW i \in Vars, NEW v \in Vals \union {Undef}, Assign(i, v)
      PROVE  CellsInv' /\ Refs!Next
  BY <1>1, AssignPromised DEF Refs!Next
<1>2. ASSUME NEW refs \in Passed, Call(refs) PROVE CellsInv' /\ Refs!Next
  BY <1>0, <1>2, CallPromised, CellsFacts DEF Refs!Next
<1>3. ASSUME NEW refs \in Passed, RefusedCall(refs) PROVE CellsInv' /\ Refs!Next
  BY <1>0, <1>3, RefusedCallPromised DEF Refs!Next
<1>4. ASSUME NEW refs \in Passed, ParamFails(refs) PROVE CellsInv' /\ Refs!Next
  BY <1>4 DEF ParamFails, Promised
<1>5. CASE Leave
  BY <1>5, LeavePromised DEF Refs!Next
<1>6. CASE BeginTry
  BY <1>6, BeginTryPromised DEF Refs!Next
<1>7. CASE EndTry
  BY <1>7, EndTryPromised DEF Refs!Next
<1>8. CASE Fail
  BY <1>8, FailPromised DEF Refs!Next
<1>9. CASE Skip
  BY <1>9, SkipPromised DEF Refs!Next
<1>10. CASE Report
  BY <1>10, ReportPromised DEF Refs!Next
<1>11. ASSUME NEW i \in Vars, Catch(i) PROVE CellsInv' /\ Refs!Next
  BY <1>11, CatchPromised DEF Refs!Next
<1> QED
  BY <1>1, <1>2, <1>3, <1>4, <1>5, <1>6, <1>7, <1>8, <1>9, <1>10, <1>11 DEF Step

\* With references to distinct variables and parameter expressions that do
\* not fail, moving values out and back (`take_ref`, `restore_refs`) is
\* aliasing: every step is one of a program whose parameters are the
\* caller's variables, through errors, handlers, interrupts and deletions.
THEOREM ArgumentsAreAliases == Spec => ImplementsAliasing
<1> DEFINE PromisedInv == Promised => CellsInv
<1>1. Init => PromisedInv /\ (Promised => Refs!Init)
  BY InitPromised
<1>2. PromisedInv /\ [Next]_vars => PromisedInv'
  <2> SUFFICES ASSUME PromisedInv, [Next]_vars, Promised' PROVE CellsInv'
    OBVIOUS
  <2>1. Promised
    BY DEF Promised, Next, vars
  <2>2. CASE Next
    BY <2>1, <2>2, StepPromised DEF Next
  <2>3. CASE UNCHANGED vars
    BY <2>1, <2>3, SameFrames DEF vars
  <2> QED BY <2>2, <2>3
<1>3. PromisedInv /\ [Next]_vars => [Promised => Refs!Next]_vars
  BY StepPromised DEF Next
<1> HIDE DEF PromisedInv
<1> QED BY <1>1, <1>2, <1>3, PTL DEF Spec, ImplementsAliasing

=============================================================================
