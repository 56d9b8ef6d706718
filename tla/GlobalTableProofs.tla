------------------------- MODULE GlobalTableProofs -------------------------
(***************************************************************************)
(* The identifier table, for any set of identifiers and structures and any *)
(* kinds of scripts.                                                       *)
(*                                                                         *)
(*   SlotsStayDense        no slot is shared, lost or numbered past the    *)
(*                         end, with any nesting of calls, loops, packages *)
(*   EveryGlobalKeepsItsSlot   without packages, no declared identifier is *)
(*                         without a slot                                  *)
(*   FirstHolderNames, AliasesListTheOthers   with assignments and         *)
(*                         deletions only, a structure goes by the first   *)
(*                         identifier that holds it and its aliases are    *)
(*                         the others                                      *)
(*                                                                         *)
(* Only `set_global` and `remove_global` touch slots and only              *)
(* `unbind_name` and `name_struct` touch names; the lemmas follow the      *)
(* calls down to them.  Names need the other two: `unbind_name` picks the  *)
(* next name by comparing slots, which tells holders apart only where each *)
(* has a slot and no two have the same.                                    *)
(***************************************************************************)
EXTENDS GlobalTable, FiniteSetTheorems, WellFoundedInduction, TLAPS

\* `t` is a record with the fields of the table.
Table(t) == DOMAIN t = {"globals", "pkgs", "slots", "free", "name", "aliases"}

\* `u` is a table with the slots of `t`.
SlotsOf(t, u) == Table(u) /\ u.slots = t.slots /\ u.free = t.free

FiniteSlots(t) ==
    /\ t.slots \in [DOMAIN t.slots -> Nat]
    /\ IsFiniteSet(DOMAIN t.slots)
    /\ t.free \subseteq Nat
    /\ IsFiniteSet(t.free)

Used(t) == {t.slots[n] : n \in DOMAIN t.slots}

Distinct(t) ==
    /\ \A m, n \in DOMAIN t.slots : t.slots[m] = t.slots[n] => m = n
    /\ Used(t) \cap t.free = {}

Dense(t) ==
    Used(t) \union t.free = 0..(Cardinality(DOMAIN t.slots) + Cardinality(t.free) - 1)

\* The inductive invariant: counting slots is sound only for finite tables.
SlotInv(t) == Table(t) /\ FiniteSlots(t) /\ Distinct(t) /\ Dense(t)

-----------------------------------------------------------------------------
(* Taking and freeing one slot *)

LEMMA LowestIsLeast ==
    ASSUME NEW S \in SUBSET Nat, S # {}
    PROVE  Lowest(S) \in S /\ \A j \in S : Lowest(S) <= j
<1> DEFINE R == {p \in Nat \X Nat : p[1] < p[2]}
<1>1. IsWellFoundedOn(R, Nat)
  BY NatLessThanWellFounded DEF OpToRel
<1>2. \A j, k \in S : <<j, k>> \in R <=> j < k
  OBVIOUS
<1> HIDE DEF R
<1>3. \E k \in S : \A j \in S : ~(<<j, k>> \in R)
  BY <1>1, WFMin
<1>4. \E k \in S : \A j \in S : ~(j < k)
  BY <1>2, <1>3
<1>5. \E k \in S : \A j \in S : k <= j
  BY <1>4
<1> QED BY <1>5 DEF Lowest

LEMMA SameSlotsInv ==
    ASSUME NEW t, NEW u, SlotInv(t), SlotsOf(t, u)
    PROVE  SlotInv(u)
BY DEF SlotInv, SlotsOf, FiniteSlots, Distinct, Dense, Used

LEMMA TakeSlotInv ==
    ASSUME NEW t, NEW n, SlotInv(t), n \notin DOMAIN t.slots
    PROVE  SlotInv(TakeSlot(t, n))
<1> DEFINE D == DOMAIN t.slots
           F == t.free
           k == NewSlot(t)
           u == TakeSlot(t, n)
           c == Cardinality(D)
           f == Cardinality(F)
<1>1. /\ u.slots = [m \in D \union {n} |-> IF m = n THEN k ELSE t.slots[m]]
      /\ u.free = F \ {k}
      /\ Table(u)
      /\ DOMAIN u.slots = D \union {n}
  BY DEF TakeSlot, Table, SlotInv
<1>2. /\ IsFiniteSet(D) /\ IsFiniteSet(F) /\ F \subseteq Nat
      /\ t.slots \in [D -> Nat]
  BY DEF SlotInv, FiniteSlots
<1>3. c \in Nat /\ f \in Nat
  BY <1>2, FS_CardinalityType
<1>4. IsFiniteSet(D \union {n}) /\ Cardinality(D \union {n}) = c + 1
  BY <1>2, FS_AddElement
<1>5. IsFiniteSet(F \ {k}) /\ Cardinality(F \ {k}) = IF k \in F THEN f - 1 ELSE f
  BY <1>2, FS_RemoveElement
<1>6. Used(t) \union F = 0..(c + f - 1) /\ Used(t) \cap F = {}
  BY DEF SlotInv, Dense, Distinct
<1> HIDE DEF u, k, c, f
<1>7. Used(u) = Used(t) \union {k}
  BY <1>1 DEF Used
<1>8. CASE F # {}
  <2>1. k \in F
    BY <1>2, <1>8, LowestIsLeast DEF k, NewSlot
  <2>2. k \in Nat /\ k \notin Used(t)
    BY <2>1, <1>2, <1>6
  <2>3. FiniteSlots(u)
    BY <2>2, <1>1, <1>2, <1>4, <1>5 DEF FiniteSlots
  <2>4. Distinct(u)
    <3>1. \A l, m \in DOMAIN u.slots : u.slots[l] = u.slots[m] => l = m
      BY <2>2, <1>1 DEF Used, SlotInv, Distinct
    <3> QED BY <3>1, <2>1, <1>1, <1>6, <1>7 DEF Distinct
  <2>5. Used(u) \union u.free = Used(t) \union F
    BY <2>1, <1>1, <1>7
  <2>6. Dense(u)
    BY <2>1, <2>5, <1>1, <1>3, <1>4, <1>5, <1>6 DEF Dense
  <2> QED BY <2>3, <2>4, <2>6, <1>1 DEF SlotInv, u
<1>9. CASE F = {}
  <2>1. f = 0 /\ k = c + f
    BY <1>9, FS_EmptySet DEF k, c, f, NewSlot
  <2>2. k \in Nat /\ k \notin Used(t)
    BY <2>1, <1>3, <1>6
  <2>3. FiniteSlots(u)
    BY <2>2, <1>1, <1>2, <1>4, <1>5 DEF FiniteSlots
  <2>4. Distinct(u)
    <3>1. \A l, m \in DOMAIN u.slots : u.slots[l] = u.slots[m] => l = m
      BY <2>2, <1>1 DEF Used, SlotInv, Distinct
    <3> QED BY <3>1, <1>1, <1>9 DEF Distinct
  <2>5. Used(u) \union u.free = (0..(c - 1)) \union {c}
    BY <2>1, <1>1, <1>3, <1>6, <1>7, <1>9
  <2>6. (0..(c - 1)) \union {c} = 0..(c + 1 + 0 - 1)
    BY <1>3
  <2>7. Cardinality(DOMAIN u.slots) = c + 1 /\ Cardinality(u.free) = 0
    BY <2>1, <1>1, <1>4, <1>5, <1>9 DEF f
  <2>8. Dense(u)
    BY <2>5, <2>6, <2>7 DEF Dense
  <2> QED BY <2>3, <2>4, <2>8, <1>1 DEF SlotInv, u
<1> QED BY <1>8, <1>9

LEMMA FreeSlotInv ==
    ASSUME NEW t, NEW n, SlotInv(t)
    PROVE  SlotInv(FreeSlot(t, n))
<1>1. CASE n \notin DOMAIN t.slots
  BY <1>1 DEF FreeSlot
<1>2. CASE n \in DOMAIN t.slots
  <2> DEFINE D == DOMAIN t.slots
             F == t.free
             k == t.slots[n]
             u == FreeSlot(t, n)
             c == Cardinality(D)
             f == Cardinality(F)
  <2>1. /\ u.slots = [m \in D \ {n} |-> t.slots[m]]
        /\ u.free = F \union {k}
        /\ Table(u)
        /\ DOMAIN u.slots = D \ {n}
    BY <1>2 DEF FreeSlot, Table, SlotInv
  <2>2. /\ IsFiniteSet(D) /\ IsFiniteSet(F) /\ F \subseteq Nat
        /\ t.slots \in [D -> Nat]
    BY DEF SlotInv, FiniteSlots
  <2>3. c \in Nat /\ f \in Nat
    BY <2>2, FS_CardinalityType
  <2>4. IsFiniteSet(D \ {n}) /\ Cardinality(D \ {n}) = c - 1
    BY <1>2, <2>2, FS_RemoveElement
  <2>5. Used(t) \union F = 0..(c + f - 1) /\ Used(t) \cap F = {}
    BY DEF SlotInv, Dense, Distinct
  <2>6. k \in Nat /\ k \notin F
    BY <1>2, <2>2, <2>5 DEF Used
  <2>7. IsFiniteSet(F \union {k}) /\ Cardinality(F \union {k}) = f + 1
    BY <2>2, <2>6, FS_AddElement
  <2> HIDE DEF u, c, f
  <2>8. \A m \in D \ {n} : t.slots[m] # k
    BY <1>2 DEF SlotInv, Distinct
  <2>9. Used(u) = Used(t) \ {k}
    BY <1>2, <2>1, <2>8 DEF Used
  <2>10. FiniteSlots(u)
    BY <2>1, <2>2, <2>4, <2>6, <2>7 DEF FiniteSlots
  <2>11. Distinct(u)
    <3>1. \A l, m \in DOMAIN u.slots : u.slots[l] = u.slots[m] => l = m
      BY <2>1 DEF SlotInv, Distinct
    <3> QED BY <3>1, <2>1, <2>5, <2>9 DEF Distinct
  <2>12. Used(u) \union u.free = Used(t) \union F
    BY <1>2, <2>1, <2>9 DEF Used
  <2>13. Dense(u)
    BY <2>1, <2>3, <2>4, <2>5, <2>7, <2>12 DEF Dense
  <2> QED BY <2>1, <2>10, <2>11, <2>13 DEF SlotInv, u
<1> QED BY <1>1, <1>2

-----------------------------------------------------------------------------
(* The operations *)

LEMMA WithCurrentSlots ==
    ASSUME NEW t, NEW m, Table(t)
    PROVE  SlotsOf(t, WithCurrent(t, m))
BY DEF WithCurrent, SlotsOf, Table

LEMMA InsertSlots ==
    ASSUME NEW t, NEW n, NEW v, Table(t)
    PROVE  SlotsOf(t, Insert(t, n, v))
BY WithCurrentSlots DEF Insert

LEMMA UnbindNameSlots ==
    ASSUME NEW t, NEW n, NEW old, Table(t)
    PROVE  SlotsOf(t, UnbindName(t, n, old))
BY DEF UnbindName, SlotsOf, Table

LEMMA NameStructSlots ==
    ASSUME NEW t, NEW s, NEW n, Table(t)
    PROVE  SlotsOf(t, NameStruct(t, s, n))
BY DEF NameStruct, SlotsOf, Table

LEMMA TakePlaceSlots ==
    ASSUME NEW t, NEW n, Table(t)
    PROVE  SlotsOf(t, TakePlace(t, n))
BY InsertSlots DEF TakePlace, SlotsOf, Table

LEMMA ReleaseSlots ==
    ASSUME NEW t, NEW lent, Table(t)
    PROVE  SlotsOf(t, Release(t, lent))
BY DEF Release, SlotsOf, Table

LEMMA SetGlobalInv ==
    ASSUME NEW t, NEW n, NEW v, SlotInv(t)
    PROVE  SlotInv(SetGlobal(t, n, v))
<1> DEFINE old == Current(t)[n]
           set == Insert(t, n, v)
           slotted == IF old = Absent /\ n \notin DOMAIN t.slots
                      THEN TakeSlot(set, n) ELSE set
<1>1. SlotInv(set) /\ set.slots = t.slots
  BY InsertSlots, SameSlotsInv DEF SlotInv, SlotsOf
<1> HIDE DEF set, old
<1>2. SlotInv(slotted)
  BY <1>1, TakeSlotInv
<1>3. SlotInv(UnbindName(slotted, n, old))
  BY <1>2, UnbindNameSlots, SameSlotsInv DEF SlotInv
<1> QED BY <1>3 DEF SetGlobal, set, old

LEMMA RemoveGlobalInv ==
    ASSUME NEW t, NEW n, SlotInv(t)
    PROVE  SlotInv(RemoveGlobal(t, n))
<1> DEFINE old == Current(t)[n]
           cut == Insert(t, n, Absent)
<1>1. SlotInv(cut)
  BY InsertSlots, SameSlotsInv DEF SlotInv
<1> HIDE DEF cut, old
<1>2. SlotInv(UnbindName(cut, n, old))
  BY <1>1, UnbindNameSlots, SameSlotsInv DEF SlotInv
<1> QED BY <1>2, FreeSlotInv DEF RemoveGlobal, cut, old

LEMMA StorePlaceInv ==
    ASSUME NEW t, NEW n, NEW v, SlotInv(t)
    PROVE  SlotInv(StorePlace(t, n, v))
BY SetGlobalInv, RemoveGlobalInv DEF StorePlace

LEMMA PutPlaceInv ==
    ASSUME NEW t, NEW n, NEW v, SlotInv(t)
    PROVE  SlotInv(PutPlace(t, n, v))
<1>1. SlotInv([t EXCEPT !.name[v] = n])
  BY SameSlotsInv DEF SlotInv, SlotsOf, Table
<1>2. SlotInv(StorePlace([t EXCEPT !.name[v] = n], n, v))
  BY <1>1, StorePlaceInv
<1>3. SlotInv(StorePlace(t, n, v))
  BY StorePlaceInv
<1>4. SlotInv(NameStruct(StorePlace(t, n, v), v, n))
  BY <1>3, NameStructSlots, SameSlotsInv DEF SlotInv
<1> QED BY <1>2, <1>3, <1>4 DEF PutPlace

LEMMA TakePlaceInv ==
    ASSUME NEW t, NEW n, SlotInv(t)
    PROVE  SlotInv(TakePlace(t, n))
BY TakePlaceSlots, SameSlotsInv DEF SlotInv

LEMMA ReleaseInv ==
    ASSUME NEW t, NEW lent, SlotInv(t)
    PROVE  SlotInv(Release(t, lent))
BY ReleaseSlots, SameSlotsInv DEF SlotInv

LEMMA BindLoopVarInv ==
    ASSUME NEW t, NEW n, NEW v, NEW lent, SlotInv(t)
    PROVE  SlotInv(BindLoopVar(t, n, v, lent))
<1> DEFINE back == Release(t, lent)
<1>1. SlotInv(back)
  BY ReleaseInv
<1> HIDE DEF back
<1>2. SlotInv([back EXCEPT !.name[v] = n])
  BY <1>1, SameSlotsInv DEF SlotInv, SlotsOf, Table
<1> QED BY <1>1, <1>2, StorePlaceInv DEF BindLoopVar, back

-----------------------------------------------------------------------------
(* Every statement keeps the invariant *)

LEMMA InitSlotInv == Init => SlotInv(tab)
<1> SUFFICES ASSUME Init PROVE SlotInv(tab)
  OBVIOUS
<1>1. Table(tab) /\ tab.slots = <<>> /\ tab.free = {}
  BY DEF Init, Table
<1>2. DOMAIN tab.slots = {} /\ tab.slots \in [DOMAIN tab.slots -> Nat]
  BY <1>1
<1>3. IsFiniteSet(DOMAIN tab.slots) /\ IsFiniteSet(tab.free)
      /\ Cardinality(DOMAIN tab.slots) = 0 /\ Cardinality(tab.free) = 0
  BY <1>1, <1>2, FS_EmptySet
<1>4. FiniteSlots(tab) /\ Distinct(tab) /\ Dense(tab)
  BY <1>1, <1>2, <1>3 DEF FiniteSlots, Distinct, Dense, Used
<1> QED BY <1>1, <1>4 DEF SlotInv

LEMMA NextSlotInv == SlotInv(tab) /\ [Next]_vars => SlotInv(tab)'
<1> SUFFICES ASSUME SlotInv(tab), [Next]_vars PROVE SlotInv(tab')
  OBVIOUS
<1>1. ASSUME NEW n \in script.names, NEW v \in script.vals, Assign(n, v) PROVE SlotInv(tab')
  BY <1>1, PutPlaceInv DEF Assign
<1>2. ASSUME NEW n \in script.names, NEW v \in script.vals, Mutate(n, v) PROVE SlotInv(tab')
  BY <1>2, PutPlaceInv, TakePlaceInv DEF Mutate
<1>3. ASSUME NEW n \in script.names, NEW v \in script.vals, BeginLoop(n, v) PROVE SlotInv(tab')
  BY <1>3, BindLoopVarInv DEF BeginLoop
<1>4. ASSUME NEW n \in script.names, Delete(n) PROVE SlotInv(tab')
  BY <1>4, PutPlaceInv DEF Delete
<1>5. CASE Clear
  BY <1>5, SameSlotsInv DEF Clear, SlotInv, SlotsOf, Table
<1>6. ASSUME NEW refs \in OneOrTwo(script.names), BeginCall(refs) PROVE SlotInv(tab')
  BY <1>6, TakePlaceInv DEF BeginCall
<1>7. ASSUME NEW args \in OneOrTwo(script.vals \union {Undef}), EndCall(args) PROVE SlotInv(tab')
  BY <1>7, PutPlaceInv DEF EndCall
<1>8. ASSUME NEW v \in script.vals, NextItem(v) PROVE SlotInv(tab')
  BY <1>8, BindLoopVarInv DEF NextItem
<1>9. CASE EndLoop
  BY <1>9, ReleaseInv DEF EndLoop
<1>10. CASE EnterPackage
  BY <1>10, SameSlotsInv DEF EnterPackage, SlotInv, SlotsOf, Table
<1>11. CASE LeavePackage
  BY <1>11, SameSlotsInv DEF LeavePackage, SlotInv, SlotsOf, Table
<1>12. CASE UNCHANGED vars
  BY <1>12 DEF vars
<1> QED BY <1>1, <1>2, <1>3, <1>4, <1>5, <1>6, <1>7, <1>8, <1>9, <1>10,
           <1>11, <1>12 DEF Next, Statement

LEMMA SlotInvImpliesSlotsOK == SlotInv(tab) => SlotsOK
BY DEF SlotInv, Distinct, Dense, Used, SlotsOK

\* No statement, however calls, loops and packages nest and whatever their
\* bodies do, makes two identifiers share a slot, loses a slot, or numbers
\* one past the end of the table (`set_global`, `remove_global`).
THEOREM SlotsStayDense == Spec => []SlotsOK
<1>1. Init => SlotInv(tab)
  BY InitSlotInv
<1>2. SlotInv(tab) /\ [Next]_vars => SlotInv(tab)'
  BY NextSlotInv
<1>3. SlotInv(tab) => SlotsOK
  BY SlotInvImpliesSlotsOK
<1> QED BY <1>1, <1>2, <1>3, PTL DEF Spec

-----------------------------------------------------------------------------
(* Every global keeps a slot *)

\* The globals of `t`, with no package file being read, have slots.
SlotsKept(t) ==
    /\ Table(t) /\ t.pkgs = <<>>
    /\ DOMAIN t.globals = Names
    /\ \A n \in Names : t.globals[n] # Absent => n \in DOMAIN t.slots

\* `u` has the globals, packages and slots of `t`: it may name otherwise.
NamesOnly(t, u) ==
    /\ Table(u) /\ u.globals = t.globals /\ u.pkgs = t.pkgs
    /\ u.slots = t.slots /\ u.free = t.free

LEMMA UnbindNamesOnly ==
    ASSUME NEW t, NEW n, NEW old, Table(t)
    PROVE  NamesOnly(t, UnbindName(t, n, old))
BY DEF UnbindName, NamesOnly, Table

LEMMA NameStructNamesOnly ==
    ASSUME NEW t, NEW s, NEW n, Table(t)
    PROVE  NamesOnly(t, NameStruct(t, s, n))
BY DEF NameStruct, NamesOnly, Table

LEMMA NamesOnlySlotsKept ==
    ASSUME NEW t, NEW u, SlotsKept(t), NamesOnly(t, u)
    PROVE  SlotsKept(u)
BY DEF NamesOnly, SlotsKept

\* Without packages the table's map is that of the globals.
LEMMA InsertMap ==
    ASSUME NEW t, NEW n, NEW v, Table(t), t.pkgs = <<>>, DOMAIN t.globals = Names
    PROVE  /\ Current(t) = t.globals
           /\ Table(Insert(t, n, v)) /\ Insert(t, n, v).pkgs = <<>>
           /\ Insert(t, n, v).slots = t.slots /\ Insert(t, n, v).free = t.free
           /\ Insert(t, n, v).name = t.name /\ Insert(t, n, v).aliases = t.aliases
           /\ DOMAIN Insert(t, n, v).globals = Names
           /\ \A m \in Names : Insert(t, n, v).globals[m] = IF m = n THEN v ELSE t.globals[m]
BY DEF Insert, WithCurrent, Current, InPackage, Table

LEMMA InsertType ==
    ASSUME NEW t, NEW n, NEW S, NEW v \in S, Table(t), t.pkgs = <<>>, t.globals \in [Names -> S]
    PROVE  Insert(t, n, v).globals \in [Names -> S]
BY DEF Insert, WithCurrent, Current, InPackage, Table

LEMMA SlotsKeptFields ==
    ASSUME NEW t, SlotsKept(t)
    PROVE  Table(t) /\ t.pkgs = <<>> /\ DOMAIN t.globals = Names
BY DEF SlotsKept

LEMMA SlotsAfterTake ==
    ASSUME NEW t, NEW n, Table(t)
    PROVE  LET u == TakeSlot(t, n)
           IN  /\ Table(u) /\ u.pkgs = t.pkgs /\ u.globals = t.globals
               /\ u.name = t.name /\ u.aliases = t.aliases
               /\ DOMAIN u.slots = DOMAIN t.slots \union {n}
               /\ \A m \in DOMAIN u.slots : m # n => u.slots[m] = t.slots[m]
BY DEF TakeSlot, Table

LEMMA SlotsAfterFree ==
    ASSUME NEW t, NEW n, Table(t)
    PROVE  LET u == FreeSlot(t, n)
           IN  /\ Table(u) /\ u.pkgs = t.pkgs /\ u.globals = t.globals
               /\ u.name = t.name /\ u.aliases = t.aliases
               /\ DOMAIN u.slots = DOMAIN t.slots \ {n}
               /\ \A m \in DOMAIN u.slots : u.slots[m] = t.slots[m]
<1>1. CASE n \in DOMAIN t.slots
  BY <1>1 DEF FreeSlot, Table
<1>2. CASE n \notin DOMAIN t.slots
  BY <1>2 DEF FreeSlot
<1> QED
  BY <1>1, <1>2

LEMMA SetGlobalKept ==
    ASSUME NEW t, NEW n \in Names, NEW v, SlotsKept(t)
    PROVE  SlotsKept(SetGlobal(t, n, v))
<1> DEFINE old == Current(t)[n]
           set == Insert(t, n, v)
           slotted == IF old = Absent /\ n \notin DOMAIN t.slots
                      THEN TakeSlot(set, n) ELSE set
<1>1. /\ old = t.globals[n]
      /\ Table(set) /\ set.pkgs = <<>> /\ set.slots = t.slots
      /\ DOMAIN set.globals = Names
      /\ \A m \in Names : set.globals[m] = IF m = n THEN v ELSE t.globals[m]
  BY InsertMap, SlotsKeptFields
<1> HIDE DEF old, set
<1>2. SlotsKept(slotted)
  BY <1>1, SlotsAfterTake DEF SlotsKept
<1> HIDE DEF slotted
<1>3. SlotsKept(UnbindName(slotted, n, old))
  BY <1>2, UnbindNamesOnly, NamesOnlySlotsKept DEF SlotsKept
<1> QED
  BY <1>3 DEF SetGlobal, slotted, set, old

LEMMA RemoveGlobalKept ==
    ASSUME NEW t, NEW n \in Names, SlotsKept(t)
    PROVE  SlotsKept(RemoveGlobal(t, n))
<1> DEFINE old == Current(t)[n]
           cut == Insert(t, n, Absent)
           unbound == UnbindName(cut, n, old)
<1>1. /\ Table(cut) /\ cut.pkgs = <<>> /\ cut.slots = t.slots
      /\ DOMAIN cut.globals = Names
      /\ \A m \in Names : cut.globals[m] = IF m = n THEN Absent ELSE t.globals[m]
  BY InsertMap, SlotsKeptFields
<1> HIDE DEF old, cut
<1>2. NamesOnly(cut, unbound)
  BY <1>1, UnbindNamesOnly
<1> HIDE DEF unbound
<1>3. SlotsKept(FreeSlot(unbound, n))
  BY <1>1, <1>2, SlotsAfterFree DEF SlotsKept, NamesOnly
<1> QED
  BY <1>3 DEF RemoveGlobal, unbound, cut, old

LEMMA StorePlaceKept ==
    ASSUME NEW t, NEW n \in Names, NEW v, SlotsKept(t)
    PROVE  SlotsKept(StorePlace(t, n, v))
BY SetGlobalKept, RemoveGlobalKept DEF StorePlace

LEMMA NamedKept ==
    ASSUME NEW t, NEW n, NEW v, SlotsKept(t)
    PROVE  SlotsKept([t EXCEPT !.name[v] = n])
BY DEF SlotsKept, Table

LEMMA PutPlaceKept ==
    ASSUME NEW t, NEW n \in Names, NEW v, SlotsKept(t)
    PROVE  SlotsKept(PutPlace(t, n, v))
<1>1. SlotsKept(StorePlace([t EXCEPT !.name[v] = n], n, v))
  BY NamedKept, StorePlaceKept
<1>2. SlotsKept(StorePlace(t, n, v))
  BY StorePlaceKept
<1>3. SlotsKept(NameStruct(StorePlace(t, n, v), v, n))
  BY <1>2, NameStructNamesOnly, NamesOnlySlotsKept DEF SlotsKept
<1> QED
  BY <1>1, <1>2, <1>3 DEF PutPlace

LEMMA TakePlaceKept ==
    ASSUME NEW t, NEW n \in Names, SlotsKept(t)
    PROVE  SlotsKept(TakePlace(t, n))
<1>1. CASE Current(t)[n] = Absent
  BY <1>1 DEF TakePlace
<1>2. CASE Current(t)[n] # Absent
  <2> DEFINE out == Insert(t, n, Undef)
  <2>1. /\ Current(t) = t.globals
        /\ Table(out) /\ out.pkgs = <<>> /\ out.slots = t.slots
        /\ DOMAIN out.globals = Names
        /\ \A m \in Names : out.globals[m] = IF m = n THEN Undef ELSE t.globals[m]
    BY InsertMap, SlotsKeptFields
  <2> HIDE DEF out
  <2>2. SlotsKept(out)
    BY <1>2, <2>1 DEF SlotsKept
  <2> QED
    BY <1>2, <2>2 DEF TakePlace, out
<1> QED
  BY <1>1, <1>2

LEMMA ReleaseKept ==
    ASSUME NEW t, NEW lent, SlotsKept(t)
    PROVE  SlotsKept(Release(t, lent))
BY DEF Release, SlotsKept, Table

LEMMA BindLoopVarKept ==
    ASSUME NEW t, NEW n \in Names, NEW v, NEW lent, SlotsKept(t)
    PROVE  SlotsKept(BindLoopVar(t, n, v, lent))
<1> DEFINE back == Release(t, lent)
<1>1. SlotsKept(back)
  BY ReleaseKept
<1> HIDE DEF back
<1>2. SlotsKept(StorePlace([back EXCEPT !.name[v] = n], n, v))
  BY <1>1, NamedKept, StorePlaceKept
<1>3. SlotsKept(StorePlace(back, n, v))
  BY <1>1, StorePlaceKept
<1> QED
  BY <1>2, <1>3 DEF BindLoopVar, back

\* What is under way where no package is read.
CallFrame == [kind : {"call"}, refs : OneOrTwo(Names)]
LoopFrame == [kind : {"loop"}, var : Names, lent : Named \union {NoName}]
Frame == CallFrame \union LoopFrame

KeptInv ==
    /\ script \in Scripts
    /\ "package" \notin script.uses => frames \in Seq(Frame) /\ SlotsKept(tab)

LEMMA InitKeptInv == Init => KeptInv
<1> SUFFICES ASSUME Init PROVE KeptInv
  OBVIOUS
<1>1. SlotsKept(tab)
  BY DEF Init, SlotsKept, Table, EmptyMap
<1> QED
  BY <1>1 DEF Init, KeptInv

LEMMA ScriptFields ==
    ASSUME script \in Scripts
    PROVE  script.names \subseteq Names /\ script.vals \subseteq Vals
BY ConstantsAssumption

LEMMA InnerFrame ==
    ASSUME frames \in Seq(Frame), frames # <<>>
    PROVE  /\ Inner \in Frame
           /\ SubSeq(frames, 1, Len(frames) - 1) \in Seq(Frame)
<1>1. Len(frames) \in Nat /\ Len(frames) > 0
  OBVIOUS
<1>2. Len(frames) \in 1..Len(frames)
  BY <1>1
<1> QED
  BY <1>1, <1>2 DEF Inner

LEMMA ReplaceInner ==
    ASSUME NEW fs \in Seq(Frame), NEW n \in DOMAIN fs, NEW f \in Frame
    PROVE  [fs EXCEPT ![n] = f] \in Seq(Frame)
OBVIOUS

LEMMA NextKeptInv == KeptInv /\ [Next]_vars => KeptInv'
<1> SUFFICES ASSUME KeptInv, [Next]_vars PROVE KeptInv'
  OBVIOUS
<1>1. script' = script /\ script \in Scripts
  BY DEF KeptInv, Next, vars
<1> SUFFICES ASSUME "package" \notin script.uses
             PROVE  frames' \in Seq(Frame) /\ SlotsKept(tab')
  BY <1>1 DEF KeptInv
<1>2. frames \in Seq(Frame) /\ SlotsKept(tab)
  BY DEF KeptInv
<1>3. script.names \subseteq Names /\ script.vals \subseteq Vals
  BY <1>1, ScriptFields
<1>4. ASSUME NEW f \in Frame, Push(f) PROVE frames' \in Seq(Frame)
  BY <1>2, <1>4 DEF Push
<1>5. ASSUME frames # <<>>, Pop PROVE frames' \in Seq(Frame)
  BY <1>2, <1>5, InnerFrame DEF Pop
<1>6. ASSUME NEW n \in script.names, NEW v \in script.vals, Assign(n, v)
      PROVE  frames' \in Seq(Frame) /\ SlotsKept(tab')
  BY <1>2, <1>3, <1>6, PutPlaceKept DEF Assign
<1>7. ASSUME NEW n \in script.names, NEW v \in script.vals, Mutate(n, v)
      PROVE  frames' \in Seq(Frame) /\ SlotsKept(tab')
  BY <1>2, <1>3, <1>7, PutPlaceKept, TakePlaceKept DEF Mutate
<1>8. ASSUME NEW n \in script.names, NEW v \in script.vals, BeginLoop(n, v)
      PROVE  frames' \in Seq(Frame) /\ SlotsKept(tab')
  <2> DEFINE f == [kind |-> "loop", var |-> n, lent |-> Lent(tab, v, NoName)]
  <2>1. Lent(tab, v, NoName) \in Named \union {NoName}
    BY DEF Lent
  <2>2. f \in LoopFrame
    BY <1>3, <2>1 DEF LoopFrame
  <2>3. f \in Frame /\ Push(f) /\ n \in Names
    BY <1>3, <1>8, <2>2 DEF Frame, BeginLoop
  <2> HIDE DEF f
  <2> QED
    BY <1>2, <1>4, <1>8, <2>3, BindLoopVarKept DEF BeginLoop
<1>9. ASSUME NEW n \in script.names, Delete(n)
      PROVE  frames' \in Seq(Frame) /\ SlotsKept(tab')
  BY <1>2, <1>3, <1>9, PutPlaceKept DEF Delete
<1>10. CASE Clear
  <2>1. Table(tab') /\ tab'.pkgs = <<>> /\ tab'.globals = EmptyMap
    BY <1>2, <1>10 DEF Clear, SlotsKept, Table
  <2> QED
    BY <1>2, <1>10, <2>1 DEF Clear, SlotsKept, EmptyMap
<1>11. ASSUME NEW refs \in OneOrTwo(script.names), BeginCall(refs)
       PROVE  frames' \in Seq(Frame) /\ SlotsKept(tab')
  <2> DEFINE f == [kind |-> "call", refs |-> refs]
  <2>1. refs \in OneOrTwo(Names)
    BY <1>3 DEF OneOrTwo
  <2>2. f \in Frame /\ Push(f)
    BY <1>11, <2>1 DEF Frame, CallFrame, BeginCall
  <2> HIDE DEF f
  <2>3. Len(refs) = 1 => refs[1] \in Names
    BY <2>1 DEF OneOrTwo
  <2>4. Len(refs) # 1 => refs[1] \in Names /\ refs[2] \in Names
    BY <2>1 DEF OneOrTwo
  <2>5. SlotsKept(tab')
    BY <1>2, <1>11, <2>3, <2>4, TakePlaceKept DEF BeginCall
  <2> QED
    BY <1>4, <2>2, <2>5
<1>12. ASSUME NEW args \in OneOrTwo(script.vals \union {Undef}), EndCall(args)
       PROVE  frames' \in Seq(Frame) /\ SlotsKept(tab')
  <2>1. Inner \in Frame /\ Inner.kind = "call" /\ frames # <<>>
    BY <1>2, <1>12, InnerFrame DEF EndCall, Running
  <2>2. Inner.refs \in OneOrTwo(Names)
    BY <2>1 DEF Frame, CallFrame, LoopFrame
  <2>3. Len(Inner.refs) = 1 => Inner.refs[1] \in Names
    BY <2>2 DEF OneOrTwo
  <2>4. Len(Inner.refs) # 1 => Inner.refs[1] \in Names /\ Inner.refs[2] \in Names
    BY <2>2 DEF OneOrTwo
  <2>5. SlotsKept(tab')
    BY <1>2, <1>12, <2>3, <2>4, PutPlaceKept DEF EndCall
  <2> QED
    BY <1>5, <1>12, <2>1, <2>5 DEF EndCall
<1>13. ASSUME Running("loop")
       PROVE  Inner \in LoopFrame /\ frames # <<>>
  BY <1>2, <1>13, InnerFrame DEF Running, Frame, CallFrame
<1>14. ASSUME NEW v \in script.vals, NextItem(v)
       PROVE  frames' \in Seq(Frame) /\ SlotsKept(tab')
  <2> DEFINE f == [Inner EXCEPT !.lent = Lent(tab, v, Inner.lent)]
  <2>1. Inner \in LoopFrame /\ frames # <<>>
    BY <1>13, <1>14 DEF NextItem
  <2>2. Lent(tab, v, Inner.lent) \in Named \union {NoName}
    BY DEF Lent
  <2>3. f \in Frame
    BY <2>1, <2>2 DEF LoopFrame, Frame
  <2>4. frames' = [frames EXCEPT ![Len(frames)] = f]
    BY <1>14 DEF NextItem, Inner
  <2> HIDE DEF f
  <2>5. frames' \in Seq(Frame)
    <3>1. Len(frames) \in DOMAIN frames
      BY <1>2, <2>1
    <3> QED
      BY ONLY <1>2, <2>3, <2>4, <3>1, ReplaceInner
  <2>6. Inner.var \in Names
    BY <2>1 DEF LoopFrame
  <2> QED
    BY <1>2, <1>14, <2>5, <2>6, BindLoopVarKept DEF NextItem
<1>15. CASE EndLoop
  BY <1>2, <1>5, <1>13, <1>15, ReleaseKept DEF EndLoop
<1>16. ~EnterPackage
  BY DEF EnterPackage
<1>17. ~LeavePackage
  <2> SUFFICES ASSUME Inner \in Frame, Inner.kind = "package" PROVE FALSE
    BY <1>2, InnerFrame DEF LeavePackage, Running
  <2> QED
    BY DEF Frame, CallFrame, LoopFrame
<1>18. CASE UNCHANGED vars
  BY <1>2, <1>18 DEF vars
<1> QED
  BY <1>6, <1>7, <1>8, <1>9, <1>10, <1>11, <1>12, <1>14, <1>15, <1>16, <1>17, <1>18
     DEF Next, Statement

\* Where no package file is read, a declared identifier keeps its slot:
\* through calls that have its value, loops and `clear` (`set_global`).
THEOREM EveryGlobalKeepsItsSlot == Spec => []GlobalsKeepSlots
<1>1. KeptInv => GlobalsKeepSlots
  BY DEF KeptInv, GlobalsKeepSlots, EveryGlobalHasSlot, SlotsKept
<1> QED
  BY <1>1, InitKeptInv, NextKeptInv, PTL DEF Spec

-----------------------------------------------------------------------------
(* Sequences of aliases *)

OnceEach(s) == \A i, j \in DOMAIN s : s[i] = s[j] => i = j

\* `retain` keeps what is in S, each as often as it was there.
LEMMA RetainFacts ==
    ASSUME NEW T, NEW s \in Seq(T), NEW S
    PROVE  /\ Retain(s, S) \in Seq(T)
           /\ Elems(Retain(s, S)) = Elems(s) \cap S
           /\ OnceEach(s) => OnceEach(Retain(s, S))
<1> DEFINE K == {i \in DOMAIN s : s[i] \in S}
           Before(i) == {k \in K : k < i}
           rank(i) == Cardinality(Before(i))
           c == Cardinality(K)
           Nth(j) == CHOOSE i \in K : rank(i) = j - 1
           r == Retain(s, S)
<1>1. K \in SUBSET (1..Len(s)) /\ IsFiniteSet(K) /\ c \in Nat
  <2>1. K \in SUBSET (1..Len(s)) /\ Len(s) \in Nat
    OBVIOUS
  <2> HIDE DEF K
  <2>2. IsFiniteSet(1..Len(s))
    BY <2>1, FS_Interval
  <2> QED
    BY <2>1, <2>2, FS_Subset, FS_CardinalityType
<1>2. \A i \in K : i \in DOMAIN s /\ s[i] \in S /\ s[i] \in T
  OBVIOUS
<1>3. \A i \in DOMAIN s : s[i] \in S => i \in K
  OBVIOUS
<1>4. r = [j \in 1..c |-> s[Nth(j)]]
  BY DEF Retain
<1> HIDE DEF K, r
<1>5. /\ \A i \in K : Before(i) \in SUBSET K /\ i \in Int
      /\ \A i, k \in K : k \in Before(i) <=> k < i
  BY <1>1
<1> HIDE DEF Before
<1>6. \A i \in K : IsFiniteSet(Before(i)) /\ rank(i) \in Nat
  BY <1>1, <1>5, FS_Subset, FS_CardinalityType
<1>7. ASSUME NEW i \in K, NEW S2, S2 \in SUBSET K, i \notin Before(i),
             Before(i) \union {i} \in SUBSET S2
      PROVE  rank(i) < Cardinality(S2)
  <2>1. IsFiniteSet(S2) /\ IsFiniteSet(Before(i)) /\ rank(i) \in Nat
    BY <1>1, <1>6, <1>7, FS_Subset
  <2>2. Cardinality(Before(i) \union {i}) = rank(i) + 1
    BY <1>7, <2>1, FS_AddElement
  <2>3. Cardinality(Before(i) \union {i}) <= Cardinality(S2) /\ Cardinality(S2) \in Nat
    BY <1>7, <2>1, FS_Subset, FS_CardinalityType
  <2> QED
    BY <2>1, <2>2, <2>3
<1>8. \A i \in K : rank(i) < c
  <2> SUFFICES ASSUME NEW i \in K PROVE rank(i) < c
    OBVIOUS
  <2>1. i \notin Before(i) /\ Before(i) \union {i} \in SUBSET K /\ K \in SUBSET K
    BY <1>5
  <2> QED
    BY ONLY <1>7, <2>1
<1>9. \A i, k \in K : i < k => rank(i) < rank(k)
  <2> SUFFICES ASSUME NEW i \in K, NEW k \in K, i < k PROVE rank(i) < rank(k)
    OBVIOUS
  <2>1. Before(i) \in SUBSET K /\ Before(k) \in SUBSET K /\ i \in Before(k) /\ i \notin Before(i)
    BY <1>5
  <2>2. \A j \in K : j < i => j < k
    BY <1>5
  <2>3. Before(i) \union {i} \in SUBSET Before(k)
    BY <1>5, <2>1, <2>2
  <2> QED
    BY ONLY <1>7, <2>1, <2>3
<1> HIDE DEF rank
<1>10. \A i, k \in K : rank(i) = rank(k) => i = k
  BY <1>5, <1>6, <1>9
<1>11. \A j \in 1..c : \E i \in K : rank(i) = j - 1
  <2> DEFINE f == [i \in K |-> rank(i) + 1]
  <2>1. \A i \in K : f[i] \in 1..c
    BY <1>1, <1>6, <1>8
  <2>2. f \in Injection(K, 1..c)
    BY <1>6, <1>10, <2>1 DEF Injection, IsInjective
  <2>3. IsFiniteSet(1..c) /\ Cardinality(1..c) = c
    BY <1>1, FS_Interval
  <2>4. f \in Surjection(K, 1..c)
    BY <2>2, <2>3, FS_Injection
  <2> SUFFICES ASSUME NEW j \in 1..c PROVE \E i \in K : rank(i) = j - 1
    OBVIOUS
  <2>5. PICK i \in K : f[i] = j
    BY <2>4 DEF Surjection
  <2> QED
    BY <1>6, <2>5
<1>12. \A j \in 1..c : Nth(j) \in K /\ rank(Nth(j)) = j - 1
  BY <1>11
<1> HIDE DEF Nth
<1>13. r \in Seq(T) /\ DOMAIN r = 1..c /\ \A j \in 1..c : r[j] = s[Nth(j)]
  <2>1. \A j \in 1..c : s[Nth(j)] \in T
    BY <1>2, <1>12
  <2>2. r \in [1..c -> T]
    BY <1>4, <2>1
  <2> QED
    BY <1>1, <1>4, <2>2
<1>14. Elems(r) \subseteq Elems(s) \cap S
  BY <1>2, <1>12, <1>13 DEF Elems
<1>15. \A i \in K : s[i] \in Elems(r)
  <2> SUFFICES ASSUME NEW i \in K PROVE s[i] \in Elems(r)
    OBVIOUS
  <2>1. rank(i) + 1 \in 1..c /\ rank(i) \in Nat
    BY <1>1, <1>6, <1>8
  <2>2. Nth(rank(i) + 1) \in K /\ rank(Nth(rank(i) + 1)) = rank(i)
    BY <1>12, <2>1
  <2>3. Nth(rank(i) + 1) = i
    BY <1>10, <2>2
  <2> QED
    BY <1>13, <2>1, <2>3 DEF Elems
<1>16. ASSUME OnceEach(s), NEW i \in DOMAIN r, NEW j \in DOMAIN r, r[i] = r[j]
       PROVE  i = j
  <2>1. Nth(i) = Nth(j)
    BY <1>2, <1>12, <1>13, <1>16 DEF OnceEach
  <2>2. i - 1 = j - 1
    BY <1>12, <1>13, <2>1
  <2> QED
    BY <1>1, <1>13, <2>2
<1> QED
  BY <1>3, <1>13, <1>14, <1>15, <1>16 DEF Elems, OnceEach, r

\* Taking out one of several that are there once.
LEMMA RemoveIndexFacts ==
    ASSUME NEW T, NEW s \in Seq(T), OnceEach(s), NEW i \in DOMAIN s
    PROVE  /\ RemoveIndex(s, i) \in Seq(T)
           /\ Elems(RemoveIndex(s, i)) = Elems(s) \ {s[i]}
           /\ OnceEach(RemoveIndex(s, i))
<1> DEFINE r == RemoveIndex(s, i)
           from(j) == IF j < i THEN j ELSE j + 1
<1>1. Len(s) \in Nat /\ i \in 1..Len(s) /\ DOMAIN s = 1..Len(s) /\ Len(s) - 1 \in Nat
  OBVIOUS
<1>2. \A j \in 1..(Len(s) - 1) : from(j) \in DOMAIN s /\ from(j) # i
  BY <1>1
<1>3. DOMAIN r = 1..(Len(s) - 1) /\ \A j \in DOMAIN r : r[j] = s[from(j)]
  BY DEF RemoveIndex
<1>4. \A j, k \in DOMAIN r : from(j) = from(k) => j = k
  BY <1>1, <1>3
<1>5. \A k \in DOMAIN s : k # i => \E j \in DOMAIN r : from(j) = k
  <2> SUFFICES ASSUME NEW k \in DOMAIN s, k # i PROVE \E j \in DOMAIN r : from(j) = k
    OBVIOUS
  <2>1. CASE k < i
    BY <1>1, <1>3, <2>1
  <2>2. CASE k > i
    <3>1. k - 1 \in 1..(Len(s) - 1) /\ from(k - 1) = k
      BY <1>1, <2>2
    <3> QED
      BY <1>3, <3>1
  <2> QED
    BY <1>1, <2>1, <2>2
<1>6. r \in Seq(T)
  BY <1>1, <1>2, <1>3 DEF RemoveIndex
<1> HIDE DEF r, from
<1>7. OnceEach(r)
  BY <1>2, <1>3, <1>4 DEF OnceEach
<1>8. Elems(r) = Elems(s) \ {s[i]}
  BY <1>2, <1>3, <1>5 DEF OnceEach, Elems
<1> QED
  BY <1>6, <1>7, <1>8 DEF r

-----------------------------------------------------------------------------
(* Names and holders *)

\* A structure with the holders `H` goes by the first of them, and the others
\* are its aliases, each once; `sl` are the slots.
Known(H, sl, nm, al) ==
    /\ al \in Seq(Names) /\ OnceEach(al)
    /\ Elems(al) = H \ {nm}
    /\ H = {} => nm = NoName
    /\ H # {} => nm \in H /\ \A m \in H : m = nm \/ sl[nm] < sl[m]

\* Different identifiers of N have different slots.
Slotted(N, sl) ==
    /\ N \subseteq DOMAIN sl
    /\ \A m \in N : sl[m] \in Nat
    /\ \A m, n \in N : sl[m] = sl[n] => m = n

\* Of aliases with slots, that in the first slot takes over.
LEMMA NextNameFacts ==
    ASSUME NEW t, NEW s \in Seq(Names), OnceEach(s), s # <<>>, Slotted(Elems(s), t.slots)
    PROVE  /\ NextName(t, s) \in DOMAIN s
           /\ \A j \in DOMAIN s :
                j = NextName(t, s) \/ t.slots[s[NextName(t, s)]] < t.slots[s[j]]
<1> DEFINE slot(i) == t.slots[s[i]]
           First(i) == \A j \in DOMAIN s :
                         /\ ~SlotBefore(t, s[j], s[i])
                         /\ j < i => SlotBefore(t, s[i], s[j])
<1>1. /\ \A i \in DOMAIN s : slot(i) \in Nat
      /\ \A i, j \in DOMAIN s : slot(i) = slot(j) => i = j
      /\ \A i, j \in DOMAIN s : SlotBefore(t, s[i], s[j]) <=> slot(i) < slot(j)
  BY DEF Slotted, Elems, OnceEach, SlotBefore
<1> HIDE DEF slot, First
<1>2. DOMAIN s # {} /\ \A i \in DOMAIN s : i \in Int
  <2>1. Len(s) \in Nat /\ Len(s) # 0 /\ DOMAIN s = 1..Len(s)
    OBVIOUS
  <2>2. 1 \in DOMAIN s
    BY ONLY <2>1
  <2>3. \A i \in DOMAIN s : i \in Int
    BY ONLY <2>1
  <2> QED
    BY ONLY <2>2, <2>3
<1>3. PICK i \in DOMAIN s : \A j \in DOMAIN s : slot(i) <= slot(j)
  <2> DEFINE S == {slot(j) : j \in DOMAIN s}
  <2>1. S \in SUBSET Nat /\ S # {}
    BY <1>1, <1>2
  <2>2. Lowest(S) \in S /\ \A j \in S : Lowest(S) <= j
    BY ONLY <2>1, LowestIsLeast
  <2> QED
    BY <2>2
<1>4. First(i)
  <2> SUFFICES ASSUME NEW j \in DOMAIN s
               PROVE  ~(slot(j) < slot(i)) /\ (j < i => slot(i) < slot(j))
    BY <1>1 DEF First
  <2>1. slot(i) \in Nat /\ slot(j) \in Nat /\ slot(i) <= slot(j) /\ i \in Int /\ j \in Int
    BY <1>1, <1>2, <1>3
  <2>2. i # j => slot(i) # slot(j)
    BY <1>1
  <2> QED
    BY <2>1, <2>2
<1>5. NextName(t, s) \in DOMAIN s /\ First(NextName(t, s))
  BY <1>4 DEF NextName, First
<1>6. ASSUME NEW j \in DOMAIN s, j # NextName(t, s)
      PROVE  slot(NextName(t, s)) < slot(j)
  <2>1. ~(slot(j) < slot(NextName(t, s))) /\ slot(j) # slot(NextName(t, s))
    BY <1>1, <1>5, <1>6 DEF First
  <2>2. slot(j) \in Nat /\ slot(NextName(t, s)) \in Nat
    BY <1>1, <1>5
  <2> QED
    BY <2>1, <2>2
<1> QED
  BY <1>5, <1>6 DEF slot

\* A table as scripts of assignments and deletions leave it.
Plainly(t) ==
    /\ SlotInv(t) /\ SlotsKept(t)
    /\ t.globals \in [Names -> Vals \union {Absent}]
    /\ DOMAIN t.name = Named /\ DOMAIN t.aliases = Structs

Holding(t, s) == {m \in Names : t.globals[m] = s}

LEMMA LookupGlobal ==
    ASSUME NEW t, t.pkgs = <<>>, t.globals \in [Names -> Vals \union {Absent}], NEW m \in Names
    PROVE  LookupVariable(t, m) = t.globals[m]
<1>1. t.globals[m] # Undef
  BY ConstantsAssumption
<1> QED
  BY <1>1 DEF LookupVariable, InPackage

\* A structure that `n` no longer holds: `unbind_name` looks for its next
\* name among its other holders.
LEMMA UnbindKnown ==
    ASSUME NEW t, Table(t), t.pkgs = <<>>, t.globals \in [Names -> Vals \union {Absent}],
           DOMAIN t.name = Named, DOMAIN t.aliases = Structs,
           NEW old \in Structs, NEW n \in Names, t.globals[n] # old,
           Slotted(Holding(t, old), t.slots),
           Known(Holding(t, old) \union {n}, t.slots, t.name[old], t.aliases[old])
    PROVE  LET u == UnbindName(t, n, old)
           IN  /\ DOMAIN u.name = Named /\ DOMAIN u.aliases = Structs
               /\ \A s \in Structs : s # old => u.name[s] = t.name[s] /\ u.aliases[s] = t.aliases[s]
               /\ Known(Holding(t, old), t.slots, u.name[old], u.aliases[old])
<1> DEFINE u == UnbindName(t, n, old)
           H == Holding(t, old)
           al == t.aliases[old]
           still == {m \in Names \ {n} : LookupVariable(t, m) = old}
           kept == Retain(al, still)
           i == NextName(t, kept)
<1>1. n \notin H /\ still = H
  BY LookupGlobal DEF Holding
<1>2. al \in Seq(Names) /\ OnceEach(al) /\ Elems(al) = (H \union {n}) \ {t.name[old]}
  BY DEF Known
<1>3. kept \in Seq(Names) /\ OnceEach(kept) /\ Elems(kept) = H \ {t.name[old]}
  BY <1>1, <1>2, RetainFacts
<1>4. LookupVariable(t, n) # old /\ old \in Named
  BY LookupGlobal DEF Named
<1>5. CASE t.name[old] # n
  <2>1. u = [t EXCEPT !.aliases[old] = kept]
    BY <1>4, <1>5 DEF UnbindName
  <2>2. /\ u.name = t.name /\ u.aliases = [t.aliases EXCEPT ![old] = kept]
    BY <2>1 DEF Table
  <2>3. Known(H, t.slots, t.name[old], kept)
    BY <1>1, <1>3, <1>5 DEF Known
  <2> HIDE DEF u, kept, H
  <2>4. u.aliases[old] = kept
    BY <2>2
  <2> QED
    BY <2>2, <2>3, <2>4 DEF u, H
<1>6. CASE t.name[old] = n /\ kept = <<>>
  <2>1. u = [t EXCEPT !.aliases[old] = kept, !.name[old] = NoName]
    BY <1>4, <1>6 DEF UnbindName
  <2>2. /\ u.name = [t.name EXCEPT ![old] = NoName]
        /\ u.aliases = [t.aliases EXCEPT ![old] = kept]
    BY <2>1 DEF Table
  <2>3. H = {}
    BY <1>1, <1>3, <1>6 DEF Elems
  <2>4. Known(H, t.slots, NoName, kept)
    BY <1>3, <1>6, <2>3, ConstantsAssumption DEF Known
  <2> HIDE DEF u, kept, H
  <2>5. u.aliases[old] = kept /\ u.name[old] = NoName
    BY <1>4, <2>2
  <2> QED
    BY <1>4, <2>2, <2>4, <2>5 DEF u, H
<1>7. CASE t.name[old] = n /\ kept # <<>>
  <2> DEFINE rest == RemoveIndex(kept, i)
             next == kept[i]
  <2>1. u = [t EXCEPT !.aliases[old] = rest, !.name[old] = next]
    BY <1>4, <1>7 DEF UnbindName
  <2>2. /\ u.name = [t.name EXCEPT ![old] = next]
        /\ u.aliases = [t.aliases EXCEPT ![old] = rest]
    BY <2>1 DEF Table
  <2>3. Elems(kept) = H
    BY <1>1, <1>3, <1>7
  <2> HIDE DEF u, kept, H
  <2>4. Slotted(Elems(kept), t.slots)
    BY <2>3 DEF H
  <2>5. /\ i \in DOMAIN kept
        /\ \A j \in DOMAIN kept : j = i \/ t.slots[kept[i]] < t.slots[kept[j]]
    BY <1>3, <1>7, <2>4, NextNameFacts
  <2> HIDE DEF i
  <2>6. rest \in Seq(Names) /\ OnceEach(rest) /\ Elems(rest) = H \ {next}
    BY <1>3, <2>3, <2>5, RemoveIndexFacts
  <2>7. next \in H /\ \A m \in H : m = next \/ t.slots[next] < t.slots[m]
    BY <2>3, <2>5 DEF Elems
  <2>8. Known(H, t.slots, next, rest)
    BY <2>6, <2>7 DEF Known
  <2> HIDE DEF rest, next
  <2>9. u.aliases[old] = rest /\ u.name[old] = next
    BY <1>4, <2>2
  <2> QED
    BY <1>4, <2>2, <2>8, <2>9 DEF u, H
<1> QED
  BY <1>5, <1>6, <1>7

\* What is known of a structure depends on the slots of its holders only.
LEMMA KnownBySlots ==
    ASSUME NEW H, NEW sl, NEW to, NEW nm, NEW al, Known(H, sl, nm, al),
           \A m \in H : to[m] = sl[m]
    PROVE  Known(H, to, nm, al)
BY DEF Known

\* All structures but `v` go by their first holders.
OthersKnown(t, v) ==
    \A s \in Structs : s # v => Known(Holding(t, s), t.slots, t.name[s], t.aliases[s])

LEMMA PlainSlots ==
    ASSUME NEW t, Plainly(t), NEW s \in Structs
    PROVE  Slotted(Holding(t, s), t.slots)
<1>1. s # Absent
  BY ConstantsAssumption DEF Vals, Named
<1>2. Holding(t, s) \subseteq DOMAIN t.slots
  BY <1>1 DEF Holding, Plainly, SlotsKept
<1> QED
  BY <1>2 DEF Slotted, Plainly, SlotInv, FiniteSlots, Distinct

\* `n` is assigned `v`, or removed: what it held before goes by another.
LEMMA UnbindOthers ==
    ASSUME NEW t, NEW u, NEW n \in Names, NEW v, Plainly(t), OthersKnown(t, v),
           Table(u), u.pkgs = <<>>, u.globals \in [Names -> Vals \union {Absent}],
           u.name = t.name, u.aliases = t.aliases,
           \A m \in Names : u.globals[m] = IF m = n THEN v ELSE t.globals[m],
           \A m \in DOMAIN t.slots : m \in DOMAIN u.slots /\ u.slots[m] = t.slots[m],
           NEW w, w = UnbindName(u, n, t.globals[n])
    PROVE  /\ OthersKnown(w, v)
           /\ DOMAIN w.name = Named /\ DOMAIN w.aliases = Structs
           /\ v \in Structs => w.name[v] = t.name[v] /\ w.aliases[v] = t.aliases[v]
<1> DEFINE old == t.globals[n]
<1>1. NamesOnly(u, w)
  BY UnbindNamesOnly
<1>2. /\ DOMAIN t.name = Named /\ DOMAIN t.aliases = Structs
      /\ \A s \in Structs : Slotted(Holding(t, s), t.slots)
  BY PlainSlots DEF Plainly
<1>3. \A s \in Structs : s # v /\ s # old => Holding(u, s) = Holding(t, s)
  BY DEF Holding
<1>4. \A s \in Structs : \A m \in Holding(t, s) : u.slots[m] = t.slots[m]
  BY <1>2 DEF Slotted
<1>5. ASSUME NEW s \in Structs, s # v, s # old
      PROVE  Known(Holding(u, s), u.slots, t.name[s], t.aliases[s])
  BY <1>3, <1>4, <1>5, KnownBySlots DEF OthersKnown
<1>6. \A s : Holding(w, s) = Holding(u, s)
  BY <1>1 DEF Holding, NamesOnly
<1>7. CASE old \notin Structs \/ old = v
  <2>1. LookupVariable(u, n) = v
    BY LookupGlobal
  <2>2. w = u
    BY <1>7, <2>1 DEF UnbindName
  <2> QED
    BY <1>2, <1>5, <1>7, <2>2 DEF OthersKnown
<1>8. CASE old \in Structs /\ old # v
  <2>1. Holding(t, old) = Holding(u, old) \union {n} /\ u.globals[n] # old
    BY <1>8 DEF Holding
  <2>2. Known(Holding(u, old) \union {n}, u.slots, t.name[old], t.aliases[old])
    <3>1. Known(Holding(t, old), t.slots, t.name[old], t.aliases[old])
      BY <1>8 DEF OthersKnown
    <3> QED
      BY ONLY <1>4, <1>8, <2>1, <3>1, KnownBySlots
  <2>3. Slotted(Holding(u, old), u.slots)
    <3>1. Slotted(Holding(t, old), t.slots)
      BY <1>2, <1>8
    <3> QED
      BY <1>4, <1>8, <2>1, <3>1 DEF Slotted
  <2>4. /\ DOMAIN w.name = Named /\ DOMAIN w.aliases = Structs
        /\ \A s \in Structs : s # old => w.name[s] = u.name[s] /\ w.aliases[s] = u.aliases[s]
        /\ Known(Holding(u, old), u.slots, w.name[old], w.aliases[old])
    <3> DEFINE x == UnbindName(u, n, old)
    <3>1. /\ Table(u) /\ u.pkgs = <<>> /\ u.globals \in [Names -> Vals \union {Absent}]
          /\ DOMAIN u.name = Named /\ DOMAIN u.aliases = Structs
          /\ old \in Structs /\ n \in Names /\ u.globals[n] # old
      BY <1>2, <1>8, <2>1
    <3>2. Known(Holding(u, old) \union {n}, u.slots, u.name[old], u.aliases[old])
      BY <2>2
    <3> HIDE DEF old
    <3>3. /\ DOMAIN x.name = Named /\ DOMAIN x.aliases = Structs
          /\ \A s \in Structs : s # old => x.name[s] = u.name[s] /\ x.aliases[s] = u.aliases[s]
          /\ Known(Holding(u, old), u.slots, x.name[old], x.aliases[old])
      BY ONLY <2>3, <3>1, <3>2, UnbindKnown
    <3>4. w = x
      BY DEF old
    <3> HIDE DEF x
    <3> QED
      BY ONLY <3>3, <3>4
  <2>5. ASSUME NEW s \in Structs, s # v
        PROVE  Known(Holding(w, s), w.slots, w.name[s], w.aliases[s])
    BY <1>1, <1>5, <1>6, <2>4, <2>5 DEF NamesOnly
  <2> QED
    BY <1>8, <2>4, <2>5 DEF OthersKnown
<1> QED
  BY <1>7, <1>8

\* `set_global`: all structures but the assigned one go by their first holders.
LEMMA SetGlobalNames ==
    ASSUME NEW t, NEW n \in Names, NEW v \in Vals, Plainly(t), OthersKnown(t, v)
    PROVE  LET u == SetGlobal(t, n, v)
           IN  /\ Plainly(u) /\ OthersKnown(u, v) /\ n \in DOMAIN u.slots
               /\ \A m \in Names : u.globals[m] = IF m = n THEN v ELSE t.globals[m]
               /\ \A m \in DOMAIN t.slots : m \in DOMAIN u.slots /\ u.slots[m] = t.slots[m]
               /\ v \in Structs => u.name[v] = t.name[v] /\ u.aliases[v] = t.aliases[v]
<1> DEFINE old == t.globals[n]
           set == Insert(t, n, v)
           slotted == IF old = Absent /\ n \notin DOMAIN t.slots
                      THEN TakeSlot(set, n) ELSE set
           u == UnbindName(slotted, n, old)
<1>1. /\ SlotsKept(t) /\ t.globals \in [Names -> Vals \union {Absent}]
      /\ Current(t) = t.globals
      /\ Table(set) /\ set.pkgs = <<>> /\ set.slots = t.slots
      /\ set.name = t.name /\ set.aliases = t.aliases
      /\ DOMAIN set.globals = Names
      /\ \A m \in Names : set.globals[m] = IF m = n THEN v ELSE t.globals[m]
  BY InsertMap, SlotsKeptFields DEF Plainly
<1>2. u = SetGlobal(t, n, v)
  BY <1>1 DEF SetGlobal
<1> HIDE DEF set
<1>3. /\ Table(slotted) /\ slotted.pkgs = <<>> /\ slotted.globals = set.globals
      /\ slotted.name = t.name /\ slotted.aliases = t.aliases
      /\ n \in DOMAIN slotted.slots
      /\ \A m \in DOMAIN t.slots : m \in DOMAIN slotted.slots /\ slotted.slots[m] = t.slots[m]
  <2>1. CASE old = Absent /\ n \notin DOMAIN t.slots
    BY <1>1, <2>1, SlotsAfterTake
  <2>2. CASE ~(old = Absent /\ n \notin DOMAIN t.slots)
    BY <1>1, <2>2 DEF SlotsKept
  <2> QED
    BY <2>1, <2>2
<1> HIDE DEF slotted
<1>4. slotted.globals \in [Names -> Vals \union {Absent}]
  <2>1. Table(t) /\ t.pkgs = <<>> /\ v \in Vals \union {Absent}
    BY <1>1 DEF SlotsKept
  <2>2. set.globals \in [Names -> Vals \union {Absent}]
    BY ONLY <1>1, <2>1, InsertType DEF set
  <2> QED
    BY ONLY <1>3, <2>2
<1>5. /\ OthersKnown(u, v)
      /\ DOMAIN u.name = Named /\ DOMAIN u.aliases = Structs
      /\ v \in Structs => u.name[v] = t.name[v] /\ u.aliases[v] = t.aliases[v]
  <2>1. u = UnbindName(slotted, n, t.globals[n])
    OBVIOUS
  <2>2. \A m \in Names : slotted.globals[m] = IF m = n THEN v ELSE t.globals[m]
    BY ONLY <1>1, <1>3
  <2> HIDE DEF u, old
  <2> QED
    BY <1>3, <1>4, <2>1, <2>2, UnbindOthers
<1>6. NamesOnly(slotted, u)
  BY <1>3, UnbindNamesOnly
<1>7. SlotInv(u) /\ SlotsKept(u)
  BY <1>1, <1>2, SetGlobalInv, SetGlobalKept DEF Plainly
<1> HIDE DEF u
<1>8. Plainly(u)
  BY <1>4, <1>5, <1>6, <1>7 DEF Plainly, NamesOnly
<1> QED
  BY <1>1, <1>2, <1>3, <1>5, <1>6, <1>8 DEF NamesOnly

\* `remove_global`: all structures go by their first holders.
LEMMA RemoveGlobalNames ==
    ASSUME NEW t, NEW n \in Names, Plainly(t), OthersKnown(t, Absent)
    PROVE  LET u == RemoveGlobal(t, n) IN Plainly(u) /\ OthersKnown(u, Absent)
<1> DEFINE old == t.globals[n]
           cut == Insert(t, n, Absent)
           w == UnbindName(cut, n, old)
           u == FreeSlot(w, n)
<1>1. /\ SlotsKept(t) /\ t.globals \in [Names -> Vals \union {Absent}]
      /\ Current(t) = t.globals
      /\ Table(cut) /\ cut.pkgs = <<>> /\ cut.slots = t.slots
      /\ cut.name = t.name /\ cut.aliases = t.aliases
      /\ DOMAIN cut.globals = Names
      /\ \A m \in Names : cut.globals[m] = IF m = n THEN Absent ELSE t.globals[m]
  BY InsertMap, SlotsKeptFields DEF Plainly
<1>2. u = RemoveGlobal(t, n)
  BY <1>1 DEF RemoveGlobal
<1> HIDE DEF cut
<1>3. cut.globals \in [Names -> Vals \union {Absent}]
  BY <1>1, InsertType DEF cut, SlotsKept
<1>4. OthersKnown(w, Absent) /\ DOMAIN w.name = Named /\ DOMAIN w.aliases = Structs
  BY <1>1, <1>3, UnbindOthers
<1>5. NamesOnly(cut, w)
  BY <1>1, UnbindNamesOnly
<1> HIDE DEF w
<1>6. /\ u.globals = cut.globals /\ u.name = w.name /\ u.aliases = w.aliases
      /\ DOMAIN u.slots = DOMAIN w.slots \ {n}
      /\ \A m \in DOMAIN u.slots : u.slots[m] = w.slots[m]
  BY <1>5, SlotsAfterFree DEF NamesOnly
<1>7. SlotInv(u) /\ SlotsKept(u)
  BY <1>1, <1>2, RemoveGlobalInv, RemoveGlobalKept DEF Plainly
<1> HIDE DEF u
<1>8. Plainly(u)
  BY <1>3, <1>4, <1>6, <1>7 DEF Plainly
<1>9. ASSUME NEW s \in Structs
      PROVE  Known(Holding(u, s), u.slots, u.name[s], u.aliases[s])
  <2>1. s # Absent
    BY ConstantsAssumption DEF Vals, Named
  <2>2. Known(Holding(w, s), w.slots, w.name[s], w.aliases[s])
    BY <1>4, <2>1 DEF OthersKnown
  <2>3. Holding(u, s) = Holding(w, s)
    BY <1>5, <1>6 DEF Holding, NamesOnly
  <2>4. Holding(u, s) \subseteq DOMAIN u.slots
    BY <1>8, PlainSlots DEF Slotted
  <2>5. \A m \in Holding(w, s) : u.slots[m] = w.slots[m]
    BY <1>6, <2>3, <2>4
  <2>6. Known(Holding(w, s), u.slots, w.name[s], w.aliases[s])
    BY ONLY <2>2, <2>5, KnownBySlots
  <2> QED
    BY <1>6, <2>3, <2>6
<1> QED
  BY <1>2, <1>8, <1>9 DEF OthersKnown

LEMMA AppendFacts ==
    ASSUME NEW T, NEW s \in Seq(T), OnceEach(s), NEW e \in T, e \notin Elems(s)
    PROVE  /\ Append(s, e) \in Seq(T)
           /\ Elems(Append(s, e)) = Elems(s) \union {e}
           /\ OnceEach(Append(s, e))
<1> DEFINE r == Append(s, e)
<1>1. /\ r \in Seq(T) /\ Len(s) \in Nat /\ DOMAIN s = 1..Len(s)
      /\ DOMAIN r = 1..(Len(s) + 1) /\ r[Len(s) + 1] = e
      /\ \A i \in DOMAIN s : r[i] = s[i]
  OBVIOUS
<1> HIDE DEF r
<1>2. /\ \A i \in DOMAIN r : i \in DOMAIN s \/ i = Len(s) + 1
      /\ DOMAIN s \subseteq DOMAIN r /\ Len(s) + 1 \in DOMAIN r
  BY <1>1
<1>3. Elems(r) = Elems(s) \union {e}
  BY <1>1, <1>2 DEF Elems
<1>4. OnceEach(r)
  BY <1>1, <1>2 DEF Elems, OnceEach
<1> QED
  BY <1>1, <1>3, <1>4 DEF r

\* `name_struct`: `n` now holds the structure too; it takes over the name if
\* its slot comes first and is an alias otherwise.
LEMMA NameStructKnown ==
    ASSUME NEW t, Plainly(t), NEW s \in Structs, NEW n \in Holding(t, s), NEW H,
           H \union {n} = Holding(t, s), t.name[s] # NoName,
           Known(H, t.slots, t.name[s], t.aliases[s]), OthersKnown(t, s),
           NEW u, u = NameStruct(t, s, n)
    PROVE  Plainly(u) /\ OthersKnown(u, Absent)
<1> DEFINE cur == t.name[s]
           al == t.aliases[s]
<1>1. /\ NamesOnly(t, u) /\ Plainly(t) /\ s \in Named /\ n \in Names /\ s # Absent
      /\ DOMAIN t.name = Named /\ DOMAIN t.aliases = Structs
  BY NameStructNamesOnly, ConstantsAssumption DEF Plainly, SlotsKept, Named, Vals, Holding
<1>2. SlotInv(u) /\ SlotsKept(u)
  BY <1>1, SameSlotsInv, NamesOnlySlotsKept DEF Plainly, NamesOnly, SlotsOf
<1>3. cur \in H /\ \A m \in H : m = cur \/ t.slots[cur] < t.slots[m]
  BY DEF Known
<1>4. al \in Seq(Names) /\ OnceEach(al) /\ Elems(al) = H \ {cur}
  BY DEF Known
<1>5. Slotted(Holding(t, s), t.slots)
  BY PlainSlots
<1>6. \A r : Holding(u, r) = Holding(t, r)
  BY <1>1 DEF Holding, NamesOnly
<1>7. /\ DOMAIN u.name = Named /\ DOMAIN u.aliases = Structs
      /\ \A r \in Structs : r # s => u.name[r] = t.name[r] /\ u.aliases[r] = t.aliases[r]
  BY <1>1 DEF NameStruct, Table, SlotsKept
<1>8. Plainly(u)
  BY <1>1, <1>2, <1>7 DEF Plainly, NamesOnly
<1>9. Known(Holding(t, s), t.slots, u.name[s], u.aliases[s])
  <2>1. CASE cur = n \/ n \in Elems(al)
    <3>1. u = t
      BY <2>1 DEF NameStruct
    <3>2. H = Holding(t, s)
      BY <1>3, <1>4, <2>1
    <3> QED
      BY <3>1, <3>2
  <2>2. CASE cur # n /\ n \notin Elems(al)
    <3>1. n \notin H
      BY <1>4, <2>2
    <3>2. cur \in Names /\ t.slots[n] \in Nat /\ t.slots[cur] \in Nat
          /\ t.slots[n] # t.slots[cur]
          /\ (SlotBefore(t, n, cur) <=> t.slots[n] < t.slots[cur])
          /\ \A m \in H : t.slots[m] \in Nat
      <4>1. n \in Holding(t, s) /\ cur \in Holding(t, s) /\ H \subseteq Holding(t, s)
        BY <1>3
      <4> QED
        BY <1>5, <2>2, <4>1 DEF Slotted, SlotBefore, Holding
    <3>3. CASE t.slots[n] < t.slots[cur]
      <4>1. u = [t EXCEPT !.name[s] = n, !.aliases[s] = Append(@, cur)]
        BY <2>2, <3>2, <3>3 DEF NameStruct
      <4>2. u.name[s] = n /\ u.aliases[s] = Append(al, cur)
        BY <1>1, <4>1 DEF Table, Plainly, SlotsKept
      <4>3. /\ Append(al, cur) \in Seq(Names) /\ OnceEach(Append(al, cur))
            /\ Elems(Append(al, cur)) = Elems(al) \union {cur}
        BY ONLY <1>4, <3>2, AppendFacts
      <4>4. Elems(Append(al, cur)) = Holding(t, s) \ {n}
        BY <1>3, <1>4, <3>1, <4>3
      <4>5. \A m \in Holding(t, s) : m = n \/ t.slots[n] < t.slots[m]
        BY <1>3, <3>2, <3>3
      <4> QED
        BY <4>2, <4>3, <4>4, <4>5 DEF Known
    <3>4. CASE ~(t.slots[n] < t.slots[cur])
      <4>1. u = [t EXCEPT !.aliases[s] = Append(@, n)]
        BY <2>2, <3>2, <3>4 DEF NameStruct
      <4>2. u.name[s] = cur /\ u.aliases[s] = Append(al, n)
        BY <1>1, <4>1 DEF Table, Plainly, SlotsKept
      <4>3. /\ Append(al, n) \in Seq(Names) /\ OnceEach(Append(al, n))
            /\ Elems(Append(al, n)) = Elems(al) \union {n}
        BY ONLY <1>1, <1>4, <2>2, AppendFacts
      <4>4. Elems(Append(al, n)) = Holding(t, s) \ {cur}
        BY <1>3, <1>4, <2>2, <4>3
      <4>5. \A m \in Holding(t, s) : m = cur \/ t.slots[cur] < t.slots[m]
        BY <1>3, <3>2, <3>4
      <4> QED
        BY <1>3, <4>2, <4>3, <4>4, <4>5 DEF Known
    <3> QED
      BY <3>3, <3>4
  <2> QED
    BY <2>1, <2>2
<1>10. ASSUME NEW r \in Structs
       PROVE  Known(Holding(u, r), u.slots, u.name[r], u.aliases[r])
  BY <1>1, <1>6, <1>7, <1>9 DEF OthersKnown, NamesOnly
<1> QED
  BY <1>8, <1>10 DEF OthersKnown

\* All structures go by their first holders.
LEMMA AllKnown ==
    ASSUME NEW t, NEW s \in Structs, OthersKnown(t, Absent)
    PROVE  OthersKnown(t, s) /\ Known(Holding(t, s), t.slots, t.name[s], t.aliases[s])
<1>1. \A r \in Structs : r # Absent
  BY ConstantsAssumption DEF Vals, Named
<1> QED
  BY <1>1 DEF OthersKnown

LEMMA SetOthers ==
    ASSUME NEW t, NEW n \in Names, NEW v \in Vals \ Structs, Plainly(t), OthersKnown(t, Absent)
    PROVE  Plainly(SetGlobal(t, n, v)) /\ OthersKnown(SetGlobal(t, n, v), Absent)
<1>1. OthersKnown(t, v)
  BY AllKnown DEF OthersKnown
<1>2. \A s \in Structs : s # v
  OBVIOUS
<1>3. Plainly(SetGlobal(t, n, v)) /\ OthersKnown(SetGlobal(t, n, v), v)
  BY <1>1, SetGlobalNames
<1> QED
  BY <1>2, <1>3 DEF OthersKnown

\* An assignment or a deletion leaves all structures known by their first holders.
LEMMA PutPlaceNames ==
    ASSUME NEW t, NEW n \in Names, NEW v \in Vals \union {Undef},
           Plainly(t), OthersKnown(t, Absent)
    PROVE  Plainly(PutPlace(t, n, v)) /\ OthersKnown(PutPlace(t, n, v), Absent)
<1>1. CASE v = Undef
  <2>1. PutPlace(t, n, v) = RemoveGlobal(t, n)
    BY <1>1, ConstantsAssumption DEF PutPlace, StorePlace, Vals, Named
  <2> QED
    BY <2>1, RemoveGlobalNames
<1>2. CASE v \in Vals /\ v \notin Named
  <2>1. PutPlace(t, n, v) = SetGlobal(t, n, v)
    BY <1>2, ConstantsAssumption DEF PutPlace, StorePlace, Named
  <2> QED
    BY <1>2, <2>1, SetOthers DEF Named
<1>3. CASE v \in Aggs
  <2> DEFINE first == [t EXCEPT !.name[v] = n]
  <2>1. v \in Vals \ Structs /\ v \in Named /\ v # Undef
    BY <1>3, ConstantsAssumption DEF Vals, Named
  <2>2. PutPlace(t, n, v) = SetGlobal(IF t.name[v] = NoName THEN first ELSE t, n, v)
    BY <2>1 DEF PutPlace, StorePlace
  <2>3. /\ first.globals = t.globals /\ first.slots = t.slots /\ first.free = t.free
        /\ first.aliases = t.aliases /\ DOMAIN first.name = Named /\ Table(first)
        /\ \A s \in Structs : first.name[s] = t.name[s]
    BY <2>1 DEF Plainly, SlotsKept, Table
  <2>4. SlotInv(first) /\ SlotsKept(first)
    BY <2>3, SameSlotsInv, NamedKept DEF Plainly, SlotsOf
  <2> HIDE DEF first
  <2>5. Plainly(first) /\ OthersKnown(first, Absent)
    BY <2>3, <2>4 DEF Plainly, OthersKnown, Holding
  <2> QED
    BY <2>1, <2>2, <2>5, SetOthers
<1>4. CASE v \in Structs /\ t.name[v] = NoName
  <2> DEFINE first == [t EXCEPT !.name[v] = n]
             u == SetGlobal(first, n, v)
  <2>1. v \in Vals /\ v \in Named /\ v # Undef
    BY <1>4, ConstantsAssumption DEF Vals, Named
  <2>2. PutPlace(t, n, v) = u
    BY <1>4, <2>1 DEF PutPlace, StorePlace
  <2>3. /\ first.globals = t.globals /\ first.slots = t.slots /\ first.free = t.free
        /\ first.aliases = t.aliases /\ DOMAIN first.name = Named /\ Table(first)
        /\ first.name[v] = n
        /\ \A s \in Structs : s # v => first.name[s] = t.name[s]
    BY <2>1 DEF Plainly, SlotsKept, Table
  <2>4. SlotInv(first) /\ SlotsKept(first)
    BY <2>3, SameSlotsInv, NamedKept DEF Plainly, SlotsOf
  <2>5. Holding(t, v) = {} /\ Elems(t.aliases[v]) = {} /\ t.aliases[v] \in Seq(Names)
        /\ OnceEach(t.aliases[v])
    <3>1. Known(Holding(t, v), t.slots, NoName, t.aliases[v])
      BY <1>4, AllKnown
    <3>2. NoName \notin Holding(t, v)
      BY ConstantsAssumption DEF Holding
    <3> QED
      BY <3>1, <3>2 DEF Known
  <2> HIDE DEF first, u
  <2>6. Plainly(first) /\ OthersKnown(first, v)
    <3>1. \A s : Holding(first, s) = Holding(t, s)
      BY <2>3 DEF Holding
    <3>2. ASSUME NEW s \in Structs, s # v
          PROVE  Known(Holding(first, s), first.slots, first.name[s], first.aliases[s])
      BY <2>3, <3>1, <3>2, AllKnown
    <3> QED
      BY <2>3, <2>4, <3>2 DEF Plainly, OthersKnown
  <2>7. /\ Plainly(u) /\ OthersKnown(u, v)
        /\ \A m \in Names : u.globals[m] = IF m = n THEN v ELSE t.globals[m]
        /\ u.name[v] = n /\ u.aliases[v] = t.aliases[v]
    BY <1>4, <2>1, <2>3, <2>6, SetGlobalNames DEF u
  <2>8. Holding(u, v) = {n}
    BY <2>5, <2>7 DEF Holding
  <2>9. Known(Holding(u, v), u.slots, u.name[v], u.aliases[v])
    BY <2>5, <2>7, <2>8 DEF Known
  <2> QED
    BY <2>2, <2>7, <2>9 DEF OthersKnown
<1>5. CASE v \in Structs /\ t.name[v] # NoName
  <2> DEFINE u == SetGlobal(t, n, v)
             w == NameStruct(u, v, n)
  <2>1. v \in Vals /\ v \in Named /\ v # Undef
    BY <1>5, ConstantsAssumption DEF Vals, Named
  <2>2. PutPlace(t, n, v) = w
    BY <1>5, <2>1 DEF PutPlace, StorePlace
  <2>3. OthersKnown(t, v) /\ Known(Holding(t, v), t.slots, t.name[v], t.aliases[v])
    BY <1>5, AllKnown
  <2> HIDE DEF u
  <2>4. /\ Plainly(u) /\ OthersKnown(u, v)
        /\ \A m \in Names : u.globals[m] = IF m = n THEN v ELSE t.globals[m]
        /\ \A m \in DOMAIN t.slots : m \in DOMAIN u.slots /\ u.slots[m] = t.slots[m]
        /\ u.name[v] = t.name[v] /\ u.aliases[v] = t.aliases[v]
    BY <1>5, <2>1, <2>3, SetGlobalNames DEF u
  <2>5. Holding(u, v) = Holding(t, v) \union {n} /\ n \in Holding(u, v)
    BY <2>4 DEF Holding
  <2>6. \A m \in Holding(t, v) : u.slots[m] = t.slots[m]
    BY <1>5, <2>4, PlainSlots DEF Slotted
  <2>7. Known(Holding(t, v), u.slots, u.name[v], u.aliases[v])
    <3>1. Known(Holding(t, v), u.slots, t.name[v], t.aliases[v])
      BY ONLY <2>3, <2>6, KnownBySlots
    <3> QED
      BY ONLY <3>1, <2>4
  <2>8. v \in Structs /\ u.name[v] # NoName /\ w = NameStruct(u, v, n)
    BY <1>5, <2>4
  <2> HIDE DEF w
  <2>9. Plainly(w) /\ OthersKnown(w, Absent)
    BY ONLY <2>4, <2>5, <2>7, <2>8, NameStructKnown
  <2> QED
    BY <2>2, <2>9
<1> QED
  BY <1>1, <1>2, <1>3, <1>4, <1>5 DEF Vals, Named

\* Scripts of assignments and deletions.
NamesInv ==
    /\ script \in Scripts
    /\ script.uses = {} => frames = <<>> /\ Plainly(tab) /\ OthersKnown(tab, Absent)

LEMMA InitNamesInv == Init => NamesInv
<1> SUFFICES ASSUME Init PROVE NamesInv
  OBVIOUS
<1>1. SlotInv(tab) /\ SlotsKept(tab)
  BY InitSlotInv DEF Init, SlotsKept, Table, EmptyMap
<1>2. Plainly(tab)
  BY <1>1 DEF Init, Plainly, EmptyMap
<1>3. ASSUME NEW s \in Structs
      PROVE  Known(Holding(tab, s), tab.slots, tab.name[s], tab.aliases[s])
  <2>1. Holding(tab, s) = {}
    BY ConstantsAssumption DEF Init, EmptyMap, Holding, Vals, Named
  <2>2. tab.name[s] = NoName /\ tab.aliases[s] = <<>>
    BY DEF Init, Named
  <2>3. <<>> \in Seq(Names) /\ OnceEach(<<>>) /\ Elems(<<>>) = {}
    BY DEF OnceEach, Elems
  <2> QED
    BY <2>1, <2>2, <2>3 DEF Known
<1> QED
  BY <1>2, <1>3 DEF Init, NamesInv, OthersKnown

LEMMA NextNamesInv == NamesInv /\ [Next]_vars => NamesInv'
<1> SUFFICES ASSUME NamesInv, [Next]_vars PROVE NamesInv'
  OBVIOUS
<1>1. script' = script /\ script \in Scripts
  BY DEF NamesInv, Next, vars
<1> SUFFICES ASSUME script.uses = {}
             PROVE  frames' = <<>> /\ Plainly(tab') /\ OthersKnown(tab', Absent)
  BY <1>1 DEF NamesInv, Plainly, OthersKnown, Holding
<1>2. frames = <<>> /\ Plainly(tab) /\ OthersKnown(tab, Absent)
  BY DEF NamesInv
<1>3. script.names \subseteq Names /\ script.vals \subseteq Vals
  BY <1>1, ScriptFields
<1>4. ASSUME NEW n \in script.names, NEW v \in script.vals, Assign(n, v)
      PROVE  frames' = <<>> /\ Plainly(tab') /\ OthersKnown(tab', Absent)
  BY <1>2, <1>3, <1>4, PutPlaceNames DEF Assign
<1>5. ASSUME NEW n \in script.names, Delete(n)
      PROVE  frames' = <<>> /\ Plainly(tab') /\ OthersKnown(tab', Absent)
  BY <1>2, <1>3, <1>5, PutPlaceNames DEF Delete
<1>6. CASE UNCHANGED vars
  BY <1>2, <1>6 DEF vars
<1>7. /\ \A n, v : ~Mutate(n, v) /\ ~BeginLoop(n, v)
      /\ ~Clear /\ ~EnterPackage
      /\ \A refs : ~BeginCall(refs)
  BY DEF Mutate, BeginLoop, Clear, EnterPackage, BeginCall
<1>8. /\ \A args : ~EndCall(args)
      /\ \A v : ~NextItem(v)
      /\ ~EndLoop /\ ~LeavePackage
  BY <1>2 DEF EndCall, NextItem, EndLoop, LeavePackage, Running
<1> QED
  BY <1>4, <1>5, <1>6, <1>7, <1>8 DEF Next, Statement

\* Of what is there once the length counts the elements.
LEMMA OnceEachCount ==
    ASSUME NEW T, NEW s \in Seq(T), OnceEach(s)
    PROVE  Len(s) = Cardinality(Elems(s))
<1> DEFINE f == [i \in 1..Len(s) |-> s[i]]
<1>1. Len(s) \in Nat /\ DOMAIN s = 1..Len(s)
  OBVIOUS
<1>2. IsFiniteSet(1..Len(s)) /\ Cardinality(1..Len(s)) = Len(s)
  BY <1>1, FS_Interval
<1>3. f \in Bijection(1..Len(s), Elems(s))
  BY <1>1 DEF Elems, OnceEach, Bijection, Injection, IsInjective, Surjection
<1> HIDE DEF f
<1> QED
  BY <1>2, <1>3, FS_Bijection DEF ExistsBijection

LEMMA HoldersAreHolding ==
    ASSUME NamesInv, script.uses = {}, NEW s
    PROVE  Holders(s) = Holding(tab, s)
<1>1. tab.pkgs = <<>> /\ tab.globals \in [Names -> Vals \union {Absent}]
  BY DEF NamesInv, Plainly, SlotsKept
<1>2. \A m \in Names : LookupVariable(tab, m) = tab.globals[m]
  BY <1>1, LookupGlobal
<1> QED
  BY <1>2 DEF Holders, Holding

\* A structure goes by the first of the globals that hold it, whatever was
\* assigned to what and deleted before, and one no global holds has no name
\* (`name_struct`, `unbind_name`).
THEOREM FirstHolderNames == Spec => []AssignmentsKeepNames
<1>1. NamesInv => AssignmentsKeepNames
  <2> SUFFICES ASSUME NamesInv, script.uses = {}, NEW s \in Structs
               PROVE  IF Holders(s) = {} THEN tab.name[s] = NoName
                      ELSE /\ tab.name[s] \in Holders(s)
                           /\ \A n \in Holders(s) : \/ n = tab.name[s]
                                                    \/ SlotBefore(tab, tab.name[s], n)
    BY DEF AssignmentsKeepNames, KnownByFirstHolder
  <2>1. Plainly(tab) /\ Known(Holding(tab, s), tab.slots, tab.name[s], tab.aliases[s])
    BY AllKnown DEF NamesInv
  <2>2. Slotted(Holding(tab, s), tab.slots)
    BY <2>1, PlainSlots
  <2>3. Holders(s) = Holding(tab, s)
    BY HoldersAreHolding
  <2> QED
    BY <2>1, <2>2, <2>3 DEF Known, Slotted, SlotBefore
<1> QED
  BY <1>1, InitNamesInv, NextNamesInv, PTL DEF Spec

\* The aliases `unbind_name` chooses from are the structure's other holders,
\* each once: an assignment never adds one twice or leaves one behind.
THEOREM AliasesListTheOthers == Spec => []AliasesAreOtherHolders
<1>1. NamesInv => AliasesAreOtherHolders
  <2> SUFFICES ASSUME NamesInv, script.uses = {}, NEW s \in Structs
               PROVE  /\ Elems(tab.aliases[s]) = Holders(s) \ {tab.name[s]}
                      /\ Len(tab.aliases[s]) = Cardinality(Elems(tab.aliases[s]))
    BY DEF AliasesAreOtherHolders
  <2>1. Known(Holding(tab, s), tab.slots, tab.name[s], tab.aliases[s])
    BY AllKnown DEF NamesInv
  <2>2. Holders(s) = Holding(tab, s)
    BY HoldersAreHolding
  <2> QED
    BY <2>1, <2>2, OnceEachCount DEF Known
<1> QED
  BY <1>1, InitNamesInv, NextNamesInv, PTL DEF Spec
=============================================================================
