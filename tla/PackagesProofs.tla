--------------------------- MODULE PackagesProofs ---------------------------
(***************************************************************************)
(* For any files, any saves, failures and nesting of packages: the table   *)
(* has the intrinsics of the packages that are attached or being attached, *)
(* in one text of each; nothing is attached that was not asked for, but    *)
(* for what was detached while it waited; and statements run with the      *)
(* texts their checks saw.                                                 *)
(*                                                                         *)
(* A file is withdrawn when its attachment begins and entered when it      *)
(* ends, so that in between it is not attached, and it is not being        *)
(* attached twice: what it defines can only be told from its one text.     *)
(* That text and the time it is entered with belong together, and a file   *)
(* between its withdrawal and its entry is in `work` (Times).              *)
(***************************************************************************)
EXTENDS Packages, SequenceTheorems, TLAPS

Text == [save : Nat, parses : BOOLEAN]
Attachment == [path : Files, text : Text, step : {"read", "run"}, mtime : Nat]

Typed ==
    /\ disk \in [Files -> Text]
    /\ work \in Seq(Attachment)

\* A file is attached, being attached, or neither.
OnePlaceEach ==
    /\ \A i, j \in DOMAIN work : work[i].path = work[j].path => i = j
    /\ \A f : Working(f) => ~Attached(f)

IInv == Typed /\ OnePlaceEach /\ NoOrphans /\ OneTextEach

\* The same of the packages `ps`, signatures `ss` and attachments `w`.
Known(ps, ss, w) ==
    /\ \A i, j \in DOMAIN w : w[i].path = w[j].path => i = j
    /\ \A i \in DOMAIN w, p \in ps : p.path # w[i].path
    /\ \A s \in ss : (\E p \in ps : p.path = s.source) \/ (\E i \in DOMAIN w : w[i].path = s.source)
    /\ \A s \in ss, p \in ps : p.path = s.source => p.save = s.save
    /\ \A s \in ss, i \in DOMAIN w : w[i].path = s.source => w[i].text.save = s.save
    /\ \A p, q \in ps : p.path = q.path => p = q

LEMMA IInvIsKnown == IInv <=> Typed /\ Known(packages, sigs, work)
BY Zenon DEF IInv, OnePlaceEach, NoOrphans, OneTextEach, Known, Working, Attached

LEMMA IInvIsKnownNext == IInv' <=> Typed' /\ Known(packages', sigs', work')
BY Zenon DEF IInv, OnePlaceEach, NoOrphans, OneTextEach, Known, Working, Attached

-----------------------------------------------------------------------------
(* The three operations on packages, signatures and attachments *)

\* Withdrawing a file that may be attached or being attached.
LEMMA WithdrawKnown ==
    ASSUME NEW f, Known(packages, sigs, work)
    PROVE  Known(Without(f), SigsWithout(f), work)
BY DEF Known, Without, SigsWithout

\* Its attachment begins.
LEMMA BeginKnown ==
    ASSUME NEW f, NEW ps, NEW ss, NEW a \in Attachment,
           work \in Seq(Attachment), Known(ps, ss, work),
           \A p \in ps : p.path # a.path, \A s \in ss : s.source # a.path,
           ~Working(a.path)
    PROVE  Known(ps, ss, Append(work, a))
<1> DEFINE w == Append(work, a)
<1>1. /\ DOMAIN work = 1..Len(work) /\ Len(work) \in Nat
      /\ DOMAIN w = 1..(Len(work) + 1)
      /\ w[Len(work) + 1] = a
      /\ \A i \in DOMAIN work : w[i] = work[i]
  BY SMT
<1>2. \A i \in DOMAIN w : (i \in DOMAIN work /\ w[i] = work[i]) \/ (i = Len(work) + 1 /\ w[i] = a)
  BY <1>1
<1>3. \A i \in DOMAIN work : i \in DOMAIN w /\ i # Len(work) + 1 /\ work[i].path # a.path
  BY <1>1 DEF Working
<1> HIDE DEF w
<1>4. \A i, j \in DOMAIN w : w[i].path = w[j].path => i = j
  BY <1>2, <1>3 DEF Known
<1>5. \A i \in DOMAIN w, p \in ps : p.path # w[i].path
  BY <1>2 DEF Known
<1>6. \A s \in ss : (\E p \in ps : p.path = s.source) \/ (\E i \in DOMAIN w : w[i].path = s.source)
  BY <1>1, <1>3 DEF Known
<1>7. \A s \in ss, i \in DOMAIN w : w[i].path = s.source => w[i].text.save = s.save
  BY <1>2 DEF Known
<1> QED
  BY <1>4, <1>5, <1>6, <1>7 DEF Known, w

\* An attachment is over; its file is entered, or what it defined withdrawn.
LEMMA OuterFacts ==
    ASSUME work \in Seq(Attachment), ~Idle
    PROVE  /\ Len(work) \in DOMAIN work /\ Top \in Attachment
           /\ Outer \in Seq(Attachment)
           /\ DOMAIN Outer = DOMAIN work \ {Len(work)}
           /\ \A i \in DOMAIN Outer : Outer[i] = work[i]
<1>1. Len(work) \in Nat /\ Len(work) > 0 /\ DOMAIN work = 1..Len(work)
  BY DEF Idle
<1>2. Len(work) \in DOMAIN work /\ Top \in Attachment
  BY <1>1 DEF Top
<1>3. Outer \in Seq(Attachment) /\ Len(Outer) = Len(work) - 1
  BY <1>1 DEF Outer
<1>4. \A i \in 1..(Len(work) - 1) : Outer[i] = work[i]
  BY <1>1 DEF Outer
<1>5. DOMAIN Outer = 1..(Len(work) - 1)
  BY <1>3
<1>6. 1..(Len(work) - 1) = (1..Len(work)) \ {Len(work)}
  BY <1>1
<1> QED
  BY <1>1, <1>2, <1>3, <1>4, <1>5, <1>6

LEMMA EndKnown ==
    ASSUME work \in Seq(Attachment), ~Idle, Known(packages, sigs, work)
    PROVE  /\ Known(packages, SigsWithout(Top.path), Outer)
           /\ \A p : p.path = Top.path /\ p.save = Top.text.save
                        => Known(packages \union {p}, sigs, Outer)
<1> DEFINE n == Len(work)
<1>1. /\ n \in DOMAIN work /\ work[n] = Top
      /\ DOMAIN Outer = DOMAIN work \ {n}
      /\ \A i \in DOMAIN Outer : Outer[i] = work[i]
  BY OuterFacts DEF Top
<1> HIDE DEF n
<1>2. /\ \A i, j \in DOMAIN Outer : Outer[i].path = Outer[j].path => i = j
      /\ \A i \in DOMAIN Outer : Outer[i].path # Top.path
      /\ \A i \in DOMAIN Outer, p \in packages : p.path # Outer[i].path
      /\ \A s \in sigs, i \in DOMAIN Outer : Outer[i].path = s.source => Outer[i].text.save = s.save
      /\ \A s \in sigs : \/ \E p \in packages : p.path = s.source
                         \/ \E i \in DOMAIN Outer : Outer[i].path = s.source
                         \/ Top.path = s.source /\ Top.text.save = s.save
      /\ \A s \in sigs : Top.path = s.source => Top.text.save = s.save
      /\ \A p \in packages : p.path # Top.path
  BY <1>1 DEF Known
<1>3. Known(packages, SigsWithout(Top.path), Outer)
  BY <1>2 DEF Known, SigsWithout
<1>4. ASSUME NEW p, p.path = Top.path, p.save = Top.text.save
      PROVE  Known(packages \union {p}, sigs, Outer)
  BY <1>2, <1>4 DEF Known
<1> QED
  BY <1>3, <1>4

LEMMA DefineKnown ==
    ASSUME work \in Seq(Attachment), ~Idle, Known(packages, sigs, work)
    PROVE  Known(packages, sigs \union {[source |-> Top.path, save |-> Top.text.save]}, work)
<1>1. Len(work) \in DOMAIN work /\ work[Len(work)] = Top
  BY OuterFacts DEF Top
<1> QED
  BY <1>1 DEF Known

-----------------------------------------------------------------------------
(* The steps *)

LEMMA InitIInv == Init => IInv
<1> SUFFICES ASSUME Init PROVE IInv
  OBVIOUS
<1>1. disk \in [Files -> Text]
  <2>1. [save : {0, 1}, parses : {TRUE}] \subseteq Text
    <3> SUFFICES ASSUME NEW t \in [save : {0, 1}, parses : {TRUE}]
                 PROVE  t \in [save : Nat, parses : BOOLEAN]
      BY DEF Text
    <3>1. t = [save |-> t.save, parses |-> t.parses]
      OBVIOUS
    <3>2. t.save \in {0, 1} /\ t.parses \in {TRUE}
      OBVIOUS
    <3>3. t.save \in Nat
      BY <3>2, SMT
    <3>4. t.parses \in BOOLEAN
      BY <3>2, Zenon
    <3> QED
      BY <3>1, <3>3, <3>4, Zenon
  <2>2. disk \in [Files -> [save : {0, 1}, parses : {TRUE}]]
    BY DEF Init
  <2> QED
    BY <2>1, <2>2
<1>2. work \in Seq(Attachment) /\ DOMAIN work = {}
  BY DEF Init
<1>3. Known(packages, sigs, work)
  BY <1>2 DEF Init, Known
<1> QED
  BY <1>1, <1>2, <1>3, IInvIsKnown DEF Typed

LEMMA SaveIInv ==
    ASSUME IInv, NEW f \in Files, NEW parses \in BOOLEAN, Save(f, parses)
    PROVE  IInv'
<1>1. Typed /\ Known(packages, sigs, work)
  BY IInvIsKnown
<1>2. disk[f].save + 1 \in Nat
  BY <1>1 DEF Typed, Text
<1>3. [save |-> disk[f].save + 1, parses |-> parses] \in Text
  BY <1>2 DEF Text
<1>4. Typed'
  BY <1>1, <1>3 DEF Typed, Save
<1> QED
  BY <1>1, <1>4, IInvIsKnownNext DEF Save

LEMMA BeginIInv ==
    ASSUME IInv, NEW f \in Files, Begin(f), UNCHANGED disk
    PROVE  IInv'
<1> DEFINE a == [path |-> f, text |-> disk[f], step |-> "read", mtime |-> 0]
<1>1. Typed /\ Known(packages, sigs, work)
  BY IInvIsKnown
<1>2. packages' = Without(f) /\ sigs' = SigsWithout(f) /\ ~Working(f)
  BY DEF Begin, Withdraw
<1>3. Known(packages', sigs', work)
  BY <1>1, <1>2, WithdrawKnown
<1>4. CASE work' = work
  <2>1. Typed'
    BY <1>1, <1>4 DEF Typed
  <2> QED
    BY <1>3, <1>4, <2>1, IInvIsKnownNext
<1>5. CASE work' = Append(work, a)
  <2>1. a \in Attachment /\ a.path = f
    BY <1>1 DEF Typed, Attachment
  <2>2. (\A p \in packages' : p.path # f) /\ (\A s \in sigs' : s.source # f)
    BY <1>2 DEF Without, SigsWithout
  <2> HIDE DEF a
  <2>3. Known(packages', sigs', Append(work, a))
    BY <1>1, <1>2, <1>3, <2>1, <2>2, BeginKnown DEF Typed
  <2>4. Typed'
    BY <1>1, <1>5, <2>1 DEF Typed
  <2> QED
    BY <1>5, <2>3, <2>4, IInvIsKnownNext
<1> QED
  BY <1>4, <1>5 DEF Begin

LEMMA WithdrawIInv ==
    ASSUME IInv, NEW f \in Files, Withdraw(f), UNCHANGED <<disk, work>>
    PROVE  IInv'
<1>1. Typed /\ Known(packages, sigs, work)
  BY IInvIsKnown
<1>2. Known(packages', sigs', work)
  BY <1>1, WithdrawKnown DEF Withdraw
<1>3. Typed'
  BY <1>1 DEF Typed
<1> QED
  BY <1>2, <1>3, IInvIsKnownNext

LEMMA ReadTimeIInv == ASSUME IInv, ReadTime PROVE IInv'
<1> DEFINE n == Len(work)
<1>1. Typed /\ Known(packages, sigs, work)
  BY IInvIsKnown
<1>2. n \in DOMAIN work /\ Top \in Attachment /\ Top = work[n]
  BY <1>1, OuterFacts DEF Typed, ReadTime, Top
<1>3. disk[Top.path].save \in Nat
  BY <1>1, <1>2 DEF Typed, Text, Attachment
<1> DEFINE a == [Top EXCEPT !.mtime = disk[Top.path].save, !.step = "run"]
<1>4. a \in Attachment /\ a.path = Top.path /\ a.text = Top.text
  BY <1>2, <1>3 DEF Attachment
<1>5. work' = [work EXCEPT ![n] = a]
  BY <1>2 DEF ReadTime
<1> HIDE DEF n, a
<1>6. work' \in Seq(Attachment)
  BY <1>1, <1>2, <1>4, <1>5 DEF Typed
<1>7. /\ DOMAIN work' = DOMAIN work
      /\ \A i \in DOMAIN work : work'[i].path = work[i].path /\ work'[i].text = work[i].text
  BY <1>1, <1>2, <1>4, <1>5 DEF Typed
<1>8. Known(packages, sigs, work')
  BY <1>1, <1>7 DEF Known
<1>9. Typed'
  BY <1>1, <1>6 DEF Typed, ReadTime
<1> QED
  BY <1>8, <1>9, IInvIsKnownNext DEF ReadTime

LEMMA DefineIInv == ASSUME IInv, Define PROVE IInv'
<1>1. Typed /\ Known(packages, sigs, work)
  BY IInvIsKnown
<1>2. Known(packages', sigs', work')
  BY <1>1, DefineKnown DEF Define, Running, Typed
<1>3. Typed'
  BY <1>1 DEF Typed, Define
<1> QED
  BY <1>2, <1>3, IInvIsKnownNext

LEMMA EndIInv == ASSUME IInv, End PROVE IInv'
<1> DEFINE p == [path |-> Top.path, mtime |-> Top.mtime, save |-> Top.text.save]
<1>1. Typed /\ Known(packages, sigs, work) /\ ~Idle
  BY IInvIsKnown DEF End
<1>2. work' = Outer /\ Outer \in Seq(Attachment) /\ UNCHANGED disk
  BY <1>1, OuterFacts DEF Typed, End
<1>3. p.path = Top.path /\ p.save = Top.text.save
  OBVIOUS
<1>4. \/ sigs' = SigsWithout(Top.path) /\ packages' = packages
      \/ packages' = packages \union {p} /\ sigs' = sigs
  BY DEF End
<1> HIDE DEF p
<1>5. Known(packages', sigs', Outer)
  BY <1>1, <1>3, <1>4, EndKnown DEF Typed
<1>6. Typed'
  BY <1>1, <1>2 DEF Typed
<1> QED
  BY <1>2, <1>5, <1>6, IInvIsKnownNext

LEMMA SameIInv ==
    ASSUME IInv, UNCHANGED <<disk, packages, sigs, work>>
    PROVE  IInv'
<1>1. Typed /\ Known(packages, sigs, work)
  BY IInvIsKnown
<1>2. Typed'
  BY <1>1 DEF Typed
<1> QED
  BY <1>1, <1>2, IInvIsKnownNext

LEMMA NextIInv == IInv /\ [Next]_vars => IInv'
<1> SUFFICES ASSUME IInv, [Next]_vars PROVE IInv'
  OBVIOUS
<1>1. CASE \E f \in Files, parses \in BOOLEAN : Save(f, parses)
  BY <1>1, SaveIInv
<1>2. CASE \E n \in 1..MaxScript : Enter(n)
  BY <1>2, SameIInv DEF Enter
<1>3. CASE \E f \in Files : AttachNested(f) \/ Attach(f) \/ Import(f) \/ Reload(f)
  BY <1>3, BeginIInv DEF AttachNested, Attach, Import, Reload
<1>4. CASE \E f \in Files : DetachNested(f) \/ Detach(f)
  BY <1>4, WithdrawIInv DEF DetachNested, Detach
<1>5. CASE ReadTime
  BY <1>5, ReadTimeIInv
<1>6. CASE Define
  BY <1>6, DefineIInv
<1>7. CASE End
  BY <1>7, EndIInv
<1>8. CASE FailIn \/ CatchIn \/ Check \/ GiveUp \/ BeginStatement \/ EndStatement
  BY <1>8, SameIInv DEF FailIn, CatchIn, Check, GiveUp, BeginStatement, EndStatement
<1>9. CASE UNCHANGED vars
  BY <1>9, SameIInv DEF vars
<1> QED
  BY <1>1, <1>2, <1>3, <1>4, <1>5, <1>6, <1>7, <1>8, <1>9 DEF Next, Step

\* The table has no intrinsics of a file that is neither attached nor being
\* attached, however packages fail, are detached or attach each other.
THEOREM NothingIsLeftBehind == Spec => []NoOrphans
<1>1. IInv => NoOrphans
  BY DEF IInv
<1> QED
  BY <1>1, InitIInv, NextIInv, PTL DEF Spec

\* What it has of a file is of the one text that was read last, and a file
\* is attached once.
THEOREM OneTextOfEachFile == Spec => []OneTextEach
<1>1. IInv => OneTextEach
  BY DEF IInv
<1> QED
  BY <1>1, InitIInv, NextIInv, PTL DEF Spec

-----------------------------------------------------------------------------
(* What was asked for, and when it was read *)

\* Where the session is, and what can be under way there.
Phases ==
    /\ TypeOK
    /\ queue \subseteq Files
    /\ phase = "reload" => left > 0
    /\ phase = "run" => queue = {}

\* Asked for, or detached in vain.
Owed == wanted \union undone

\* What is attached, or is going to be attached again, is owed.
Asked ==
    /\ \A p \in packages : p.path \in Owed
    /\ queue \subseteq Owed
    /\ (phase = "reload" /\ 1 \in DOMAIN work) => work[1].path \in Owed

\* Without nesting nothing is detached in vain.
Flat ==
    "nested" \notin uses =>
        /\ undone = {} /\ DOMAIN work \subseteq {1}
        /\ phase = "reload" => \A i \in DOMAIN work : work[i].path \notin queue

\* No check saw more than there is.
Looked ==
    /\ seen \in [Files -> Nat]
    /\ \A f \in Files : seen[f] <= disk[f].save

\* The package is being attached again.
Again(f) == phase = "reload" /\ 1 \in DOMAIN work /\ work[1].path = f

\* A text has the time of its file, what was asked for is attached or being
\* attached again, and while the queue is worked off, a package is in it or
\* has the text that the check saw, or a later one.
Times ==
    /\ \A i \in DOMAIN work :
          /\ disk[work[i].path].save # 0
          /\ work[i].step = "read" => i = Len(work) /\ work[i].text.save = disk[work[i].path].save
          /\ work[i].step = "run" => work[i].mtime = work[i].text.save
    /\ \A p \in packages : p.mtime = p.save /\ disk[p.path].save # 0
    /\ \A f \in queue : disk[f].save # 0
    /\ \A f \in wanted : Attached(f) \/ Again(f)
    /\ phase = "reload" =>
          /\ \A i \in DOMAIN work : work[i].text.save >= seen[work[i].path]
          /\ \A p \in packages : p.path \in queue \/ p.save >= seen[p.path]

Raceless == "race" \notin uses => Times

SInv == IInv /\ Phases /\ Asked /\ Flat /\ Looked /\ Raceless

LEMMA WorkTyped ==
    ASSUME IInv
    PROVE  \A i \in DOMAIN work : work[i] \in Attachment /\ work[i].path \in Files
<1> SUFFICES ASSUME NEW i \in DOMAIN work PROVE work[i] \in Attachment
  BY DEF Attachment
<1>1. work \in Seq(Attachment)
  BY DEF IInv, Typed
<1>2. i \in 1..Len(work)
  BY <1>1
<1> QED
  BY ONLY <1>1, <1>2, ElementOfSeq

LEMMA BeginWork ==
    ASSUME IInv, NEW f \in Files, Begin(f)
    PROVE  /\ packages' = Without(f) /\ ~Working(f)
           /\ \/ error' /\ work' = work /\ disk[f].save = 0
              \/ /\ error' = error /\ disk[f].save # 0
                 /\ Len(work') \notin DOMAIN work /\ (Idle => Len(work') = 1)
                 /\ DOMAIN work' = DOMAIN work \union {Len(work')}
                 /\ \A i \in DOMAIN work : work'[i] = work[i]
                 /\ work'[Len(work')].path = f /\ work'[Len(work')].text = disk[f]
                 /\ work'[Len(work')].step = "read"
<1> DEFINE a == [path |-> f, text |-> disk[f], step |-> "read", mtime |-> 0]
<1>1. packages' = Without(f) /\ ~Working(f) /\ work \in Seq(Attachment)
  BY DEF Begin, Withdraw, IInv, Typed
<1>2. CASE disk[f].save = 0
  BY <1>1, <1>2 DEF Begin
<1>3. CASE disk[f].save # 0
  <2>1. work' = Append(work, a) /\ error' = error
    BY <1>3 DEF Begin
  <2>2. a.path = f /\ a.text = disk[f] /\ a.step = "read"
    OBVIOUS
  <2> HIDE DEF a
  <2>3. /\ DOMAIN work = 1..Len(work) /\ Len(work) \in Nat /\ Len(work') = Len(work) + 1
        /\ DOMAIN work' = 1..(Len(work) + 1)
        /\ work'[Len(work) + 1] = a /\ \A i \in DOMAIN work : work'[i] = work[i]
    BY <1>1, <2>1
  <2>4. DOMAIN work' = DOMAIN work \union {Len(work')} /\ Len(work') \notin DOMAIN work
    BY <2>3
  <2>5. Idle => Len(work') = 1
    BY <2>1 DEF Idle
  <2> QED
    BY <1>1, <1>3, <2>1, <2>2, <2>3, <2>4, <2>5
<1> QED
  BY <1>2, <1>3

LEMMA ReadTimeWork ==
    ASSUME IInv, ReadTime
    PROVE  /\ DOMAIN work' = DOMAIN work
           /\ \A i \in DOMAIN work :
                 /\ work'[i].path = work[i].path /\ work'[i].text = work[i].text
                 /\ \/ work'[i] = work[i]
                    \/ /\ work[i].step = "read" /\ work'[i].step = "run"
                       /\ work'[i].mtime = disk[work[i].path].save
<1> DEFINE n == Len(work)
<1>1. work \in Seq(Attachment) /\ n \in DOMAIN work /\ Top \in Attachment /\ Top = work[n]
  BY OuterFacts DEF IInv, Typed, ReadTime, Top
<1> DEFINE a == [Top EXCEPT !.mtime = disk[Top.path].save, !.step = "run"]
<1>2. /\ a.path = Top.path /\ a.text = Top.text /\ a.step = "run"
      /\ a.mtime = disk[Top.path].save
  BY <1>1 DEF Attachment
<1>3. work' = [work EXCEPT ![n] = a] /\ Top.step = "read"
  BY <1>1 DEF ReadTime
<1> HIDE DEF n, a
<1>4. DOMAIN work' = DOMAIN work /\ \A i \in DOMAIN work : work'[i] = IF i = n THEN a ELSE work[i]
  BY <1>1, <1>3
<1> QED
  BY <1>1, <1>2, <1>3, <1>4

\* The attachment on top is over.
LEMMA EndWork ==
    ASSUME IInv, End
    PROVE  /\ Len(work) \in DOMAIN work /\ work[Len(work)] = Top /\ Top.path \in Files
           /\ DOMAIN work' = DOMAIN work \ {Len(work)}
           /\ \A i \in DOMAIN work' : work'[i] = work[i] /\ work[i].path # Top.path
           /\ ~Attached(Top.path)
<1>1. work \in Seq(Attachment) /\ ~Idle /\ work' = Outer
  BY DEF End, IInv, Typed
<1>2. /\ Len(work) \in DOMAIN work /\ Top \in Attachment
      /\ DOMAIN work' = DOMAIN work \ {Len(work)}
      /\ \A i \in DOMAIN work' : work'[i] = work[i]
  BY <1>1, OuterFacts
<1>3. work[Len(work)] = Top /\ Top.path \in Files
  BY <1>2 DEF Top, Attachment
<1>4. \A i \in DOMAIN work' : work[i].path # Top.path
  BY <1>2, <1>3 DEF IInv, OnePlaceEach
<1>5. ~Attached(Top.path)
  BY <1>2, <1>3 DEF IInv, OnePlaceEach, Working
<1> QED
  BY <1>2, <1>3, <1>4, <1>5

LEMMA InitSInv == Init => SInv
<1> SUFFICES ASSUME Init PROVE SInv
  OBVIOUS
<1>1. IInv
  BY InitIInv
<1>2. Phases
  BY PackagesAssumption DEF Init, Phases, TypeOK, Idle
<1>3. Asked /\ Flat
  BY DEF Init, Asked, Flat
<1>4. \A f \in Files : disk[f].save \in Nat
  BY <1>1 DEF IInv, Typed, Text
<1>5. Looked
  BY <1>4 DEF Init, Looked
<1>6. Times
  BY DEF Init, Times
<1> QED
  BY <1>1, <1>2, <1>3, <1>5, <1>6 DEF SInv, Raceless

LEMMA NextPhases ==
    ASSUME IInv, Phases, [Next]_vars
    PROVE  Phases'
<1>1. /\ \A p \in packages : p.path \in Files
      /\ left \in 0..MaxScript /\ MaxScript \in Nat
      /\ phase \in {"check", "reload", "run"} /\ queue \subseteq Files
      /\ phase = "check" => Idle /\ ~error /\ queue = {}
      /\ phase = "run" => left > 0 /\ queue = {}
      /\ phase = "reload" => left > 0
  BY PackagesAssumption DEF Phases, TypeOK
<1>2. CASE \E f \in Files, parses \in BOOLEAN : Save(f, parses)
  BY <1>1, <1>2 DEF Save, session, Phases, TypeOK, Idle
<1>3. CASE \E n \in 1..MaxScript : Enter(n)
  BY <1>1, <1>3 DEF Enter, Phases, TypeOK, Idle
<1>4. ASSUME ~Idle
      PROVE  Top.path \in Files
  BY <1>4, OuterFacts DEF IInv, Typed, Attachment
<1>5. CASE \E f \in Files : AttachNested(f) \/ DetachNested(f)
  <2>1. UNCHANGED session /\ phase # "check" /\ packages' \subseteq packages
    BY <1>1, <1>5 DEF AttachNested, DetachNested, Begin, Withdraw, Without, Running
  <2> QED
    BY <1>1, <2>1 DEF Phases, TypeOK, session
<1>6. CASE \E f \in Files : Attach(f) \/ Import(f) \/ Detach(f)
  <2>1. UNCHANGED session /\ phase = "run" /\ packages' \subseteq packages
    BY <1>6 DEF Attach, Import, Detach, Begin, Withdraw, Without
  <2> QED
    BY <1>1, <2>1 DEF Phases, TypeOK, session
<1>7. CASE \E f \in Files : Reload(f)
  <2>1. UNCHANGED <<phase, left>> /\ phase = "reload" /\ packages' \subseteq packages
        /\ queue' \subseteq queue
    BY <1>7 DEF Reload, Begin, Withdraw, Without
  <2> QED
    BY <1>1, <2>1 DEF Phases, TypeOK
<1>8. CASE ReadTime \/ Define \/ FailIn \/ CatchIn
  <2>1. UNCHANGED <<session, packages>> /\ phase # "check"
    BY <1>1, <1>8 DEF ReadTime, Define, FailIn, CatchIn, Running
  <2> QED
    BY <1>1, <2>1 DEF Phases, TypeOK, session
<1>9. CASE End
  <2>1. UNCHANGED session /\ phase # "check" /\ Top.path \in Files
    BY <1>1, <1>4, <1>9 DEF End
  <2>2. \A p \in packages' : p.path \in Files
    BY <1>1, <1>9, <2>1 DEF End
  <2> QED
    BY <1>1, <2>1, <2>2 DEF Phases, TypeOK, session
<1>10. CASE Check
  BY <1>1, <1>10 DEF Check, Phases, TypeOK, Idle
<1>11. CASE GiveUp \/ BeginStatement \/ EndStatement
  BY <1>1, <1>11 DEF GiveUp, BeginStatement, EndStatement, Phases, TypeOK, Idle
<1>12. CASE UNCHANGED vars
  BY <1>1, <1>12 DEF vars, Phases, TypeOK, Idle
<1> QED
  BY <1>2, <1>3, <1>5, <1>6, <1>7, <1>8, <1>9, <1>10, <1>11, <1>12 DEF Next, Step

-----------------------------------------------------------------------------
(* What is attached was asked for *)

\* What is queued or being attached stays owed, and all other files.
LEMMA ForgetOwed ==
    ASSUME NEW f, Forget(f)
    PROVE  /\ \A g \in Owed : g \in Owed' \/ (g = f /\ f \notin queue /\ ~Working(f))
           /\ (f \notin queue /\ ~Working(f)) => undone' = undone \ {f}
BY DEF Forget, Owed

LEMMA ForgetAsked ==
    ASSUME Asked, NEW f, Forget(f), packages' = Without(f), UNCHANGED <<queue, phase>>,
           (phase = "reload" /\ 1 \in DOMAIN work') => (1 \in DOMAIN work /\ work'[1] = work[1])
    PROVE  Asked'
<1>1. \A g \in Owed : g \in Owed' \/ (g = f /\ f \notin queue /\ ~Working(f))
  BY ForgetOwed
<1>2. \A p \in packages' : p \in packages /\ p.path # f
  BY DEF Without
<1>3. 1 \in DOMAIN work => Working(work[1].path)
  BY DEF Working
<1> QED
  BY <1>1, <1>2, <1>3 DEF Asked

LEMMA EndAsked ==
    ASSUME IInv, Asked, End
    PROVE  Asked'
<1>1. /\ Len(work) \in DOMAIN work /\ work[Len(work)] = Top
      /\ DOMAIN work' = DOMAIN work \ {Len(work)}
      /\ \A i \in DOMAIN work' : work'[i] = work[i] /\ work[i].path # Top.path
      /\ ~Attached(Top.path)
  BY EndWork
<1>2. UNCHANGED <<queue, phase>>
  BY DEF End, session
<1>3. CASE error
  <2>1. packages' = packages /\ Failed(Top.path)
    BY <1>3 DEF End
  <2>2. \A g \in Owed : g \in Owed' \/ (g = Top.path /\ g \notin queue)
    BY <2>1 DEF Failed, Owed
  <2> QED
    BY <1>1, <1>2, <2>1, <2>2 DEF Asked, Attached
<1>4. CASE ~error
  <2>1. (\A p \in packages' : p \in packages \/ p.path = Top.path) /\ Entered(Top.path)
    BY <1>4 DEF End
  <2>2. Owed \subseteq Owed'
    BY <2>1 DEF Entered, Owed
  <2>3. Top.path \in Owed'
    BY <1>1, <2>1, <2>2 DEF Entered, Owed, Reloading, Asked
  <2> QED
    BY <1>1, <1>2, <2>1, <2>2, <2>3 DEF Asked
<1> QED
  BY <1>3, <1>4

LEMMA NextAsked ==
    ASSUME IInv, Phases, Asked, [Next]_vars
    PROVE  Asked'
<1>1. CASE UNCHANGED <<packages, work, queue, phase, wanted, undone>>
  BY <1>1 DEF Asked, Owed
<1>2. CASE \E f \in Files, parses \in BOOLEAN : Save(f, parses)
  BY <1>1, <1>2 DEF Save, session, auxiliary
<1>3. CASE \E n \in 1..MaxScript : Enter(n)
  BY <1>1, <1>3 DEF Enter, auxiliary
\* A package that is being attached stays at the bottom.
<1>4. ASSUME NEW f \in Files, AttachNested(f)
      PROVE  Asked'
  <2>1. Forget(f) /\ Begin(f) /\ UNCHANGED session /\ ~Idle
    BY <1>4 DEF AttachNested, Running
  <2>2. 1 \in DOMAIN work
    BY <2>1, OuterFacts DEF IInv, Typed
  <2>3. packages' = Without(f) /\ work'[1] = work[1]
    BY <2>1, <2>2, BeginWork
  <2> QED
    BY <2>1, <2>2, <2>3, ForgetAsked DEF session
<1>5. ASSUME NEW f \in Files, DetachNested(f)
      PROVE  Asked'
  BY <1>5, ForgetAsked DEF DetachNested, Withdraw, session
<1>6. ASSUME NEW f \in Files, Attach(f)
      PROVE  Asked'
  BY <1>6, ForgetAsked, BeginWork DEF Attach, session
<1>7. ASSUME NEW f \in Files, Detach(f)
      PROVE  Asked'
  BY <1>7, ForgetAsked DEF Detach, Withdraw, session
<1>8. ASSUME NEW f \in Files, Reload(f)
      PROVE  Asked'
  <2>1. /\ UNCHANGED <<phase, wanted, undone>> /\ queue' = queue \ {f} /\ f \in queue
        /\ Begin(f) /\ Idle
    BY <1>8 DEF Reload, auxiliary
  <2>2. DOMAIN work = {}
    BY <2>1 DEF Idle
  <2>3. /\ packages' = Without(f)
        /\ 1 \in DOMAIN work' => work'[1].path = f
    BY <2>1, <2>2, BeginWork
  <2>4. Owed' = Owed
    BY <2>1 DEF Owed
  <2> QED
    BY <2>1, <2>3, <2>4 DEF Asked, Without
<1>9. CASE ReadTime
  <2>1. UNCHANGED <<packages, queue, phase, wanted, undone>>
    BY <1>9 DEF ReadTime, session, auxiliary
  <2>2. DOMAIN work' = DOMAIN work /\ (1 \in DOMAIN work => work'[1].path = work[1].path)
    BY <1>9, ReadTimeWork
  <2> QED
    BY <2>1, <2>2 DEF Asked, Owed
<1>10. CASE Define \/ FailIn \/ CatchIn
  BY <1>1, <1>10 DEF Define, FailIn, CatchIn, session, auxiliary
<1>11. CASE End
  BY <1>11, EndAsked
<1>12. CASE Check
  <2>1. /\ UNCHANGED <<packages, work, wanted, undone>>
        /\ \A f \in queue' : \E p \in packages : p.path = f
    BY <1>12 DEF Check
  <2>2. work = <<>>
    BY <1>12 DEF Check, Phases, TypeOK, Idle
  <2> QED
    BY <2>1, <2>2 DEF Asked, Owed
<1>13. CASE GiveUp \/ BeginStatement \/ EndStatement
  BY <1>13 DEF GiveUp, BeginStatement, EndStatement, Asked, Owed, auxiliary
<1>14. CASE UNCHANGED vars
  BY <1>1, <1>14 DEF vars
<1> QED
  BY <1>2, <1>3, <1>4, <1>5, <1>6, <1>7, <1>8, <1>9, <1>10, <1>11, <1>12, <1>13, <1>14
     DEF Next, Step, Import

LEMMA NextFlat ==
    ASSUME IInv, Phases, Flat, [Next]_vars
    PROVE  Flat'
<1> SUFFICES ASSUME "nested" \notin uses' PROVE Flat'
  BY DEF Flat
<1>1. /\ uses' = uses /\ undone = {} /\ DOMAIN work \subseteq {1}
      /\ phase = "reload" => \A i \in DOMAIN work : work[i].path \notin queue
  BY DEF Flat, Next, vars
<1>2. /\ phase = "run" => queue = {}
      /\ phase = "check" => work = <<>> /\ queue = {}
      /\ phase \in {"check", "reload", "run"}
  BY DEF Phases, TypeOK, Idle
<1>3. CASE UNCHANGED <<work, queue, phase, undone>>
  BY <1>1, <1>3 DEF Flat
<1>4. CASE \E f \in Files, parses \in BOOLEAN : Save(f, parses)
  BY <1>3, <1>4 DEF Save, session, auxiliary
<1>5. CASE \E n \in 1..MaxScript : Enter(n)
  BY <1>3, <1>5 DEF Enter, auxiliary
\* Between statements nothing is queued or being attached.
<1>6. ASSUME NEW f \in Files, Attach(f) \/ Detach(f)
      PROVE  Flat'
  <2>1. Forget(f) /\ UNCHANGED session /\ phase = "run" /\ queue = {} /\ Idle
    BY <1>2, <1>6 DEF Attach, Detach
  <2>2. DOMAIN work = {} /\ ~Working(f)
    BY <2>1 DEF Idle, Working
  <2>3. undone' = {}
    BY <1>1, <2>1, <2>2, ForgetOwed
  <2>4. CASE Attach(f)
    <3>1. Begin(f)
      BY <2>4 DEF Attach
    <3>2. DOMAIN work' \subseteq {1}
      BY <2>1, <2>2, <3>1, BeginWork
    <3> QED
      BY <2>1, <2>3, <3>2 DEF Flat, session
  <2>5. CASE Detach(f)
    BY <1>1, <2>1, <2>3, <2>5 DEF Detach, Flat, session
  <2> QED
    BY <1>6, <2>4, <2>5
<1>7. ASSUME NEW f \in Files, Reload(f)
      PROVE  Flat'
  <2>1. UNCHANGED <<phase, undone>> /\ queue' = queue \ {f} /\ Begin(f) /\ Idle
    BY <1>7 DEF Reload, auxiliary
  <2>2. DOMAIN work = {}
    BY <2>1 DEF Idle
  <2>3. DOMAIN work' \subseteq {1} /\ \A i \in DOMAIN work' : work'[i].path = f
    BY <2>1, <2>2, BeginWork
  <2> QED
    BY <1>1, <2>1, <2>3 DEF Flat
<1>8. CASE ReadTime
  <2>1. UNCHANGED <<queue, phase, undone>>
    BY <1>8 DEF ReadTime, session, auxiliary
  <2> QED
    BY <1>1, <1>8, <2>1, ReadTimeWork DEF Flat
<1>9. CASE Define \/ FailIn \/ CatchIn
  BY <1>3, <1>9 DEF Define, FailIn, CatchIn, session, auxiliary
<1>10. CASE End
  <2>1. /\ Len(work) \in DOMAIN work /\ work[Len(work)] = Top
        /\ DOMAIN work' = DOMAIN work \ {Len(work)}
    BY <1>10, EndWork
  <2>2. DOMAIN work' = {} /\ UNCHANGED <<queue, phase>>
    BY <1>1, <1>10, <2>1 DEF End, session
  <2>3. Top.path \notin queue
    BY <1>1, <1>2, <2>1
  <2>4. undone' = {}
    BY <1>1, <1>10, <2>3 DEF End, Failed, Entered
  <2> QED
    BY <2>2, <2>4 DEF Flat
<1>11. CASE Check
  <2>1. UNCHANGED <<work, undone>> /\ work = <<>>
    BY <1>2, <1>11 DEF Check
  <2> QED
    BY <1>1, <2>1 DEF Flat
<1>12. CASE GiveUp \/ BeginStatement \/ EndStatement
  BY <1>1, <1>12 DEF GiveUp, BeginStatement, EndStatement, Flat, auxiliary
<1>13. ASSUME NEW f \in Files, AttachNested(f) \/ DetachNested(f)
       PROVE  FALSE
  BY <1>1, <1>13 DEF AttachNested, DetachNested
<1>14. CASE UNCHANGED vars
  BY <1>3, <1>14 DEF vars
<1> QED
  BY <1>4, <1>5, <1>6, <1>7, <1>8, <1>9, <1>10, <1>11, <1>12, <1>13, <1>14 DEF Next, Step, Import

-----------------------------------------------------------------------------
(* Statements run with the texts their checks saw *)

LEMMA NextLooked ==
    ASSUME IInv, Looked, [Next]_vars
    PROVE  Looked'
<1>1. /\ disk \in [Files -> Text] /\ \A g \in Files : disk[g].save \in Nat
      /\ seen \in [Files -> Nat] /\ \A g \in Files : seen[g] <= disk[g].save
  BY DEF IInv, Typed, Text, Looked
<1>2. CASE UNCHANGED <<disk, seen>>
  BY <1>2 DEF Looked
<1>3. ASSUME NEW f \in Files, NEW parses \in BOOLEAN, Save(f, parses)
      PROVE  Looked'
  <2> DEFINE t == [save |-> disk[f].save + 1, parses |-> parses]
  <2>1. disk' = [disk EXCEPT ![f] = t] /\ seen' = seen /\ t.save = disk[f].save + 1
    BY <1>3, Zenon DEF Save, auxiliary
  <2> HIDE DEF t
  <2>2. \A g \in Files : disk'[g].save = IF g = f THEN disk[f].save + 1 ELSE disk[g].save
    BY <1>1, <2>1
  <2> QED
    BY <1>1, <2>1, <2>2 DEF Looked
<1>4. CASE Check
  BY <1>1, <1>4 DEF Check, Looked
<1>5. CASE \E f \in Files : AttachNested(f) \/ DetachNested(f) \/ Attach(f) \/ Detach(f) \/ Import(f)
  BY <1>2, <1>5 DEF AttachNested, DetachNested, Attach, Detach, Import, Forget
<1>6. CASE End
  BY <1>2, <1>6 DEF End, Entered, Failed
<1>7. CASE (\E n \in 1..MaxScript : Enter(n)) \/ \E f \in Files : Reload(f)
  BY <1>2, <1>7 DEF Enter, Reload, auxiliary
<1>8. CASE ReadTime \/ Define \/ FailIn \/ CatchIn \/ GiveUp \/ BeginStatement \/ EndStatement
  BY <1>2, <1>8 DEF ReadTime, Define, FailIn, CatchIn, GiveUp, BeginStatement, EndStatement, auxiliary
<1>9. CASE UNCHANGED vars
  BY <1>2, <1>9 DEF vars
<1> QED
  BY <1>3, <1>4, <1>5, <1>6, <1>7, <1>8, <1>9 DEF Next, Step

\* Nothing is begun while a time is still to be read.
LEMMA TopRuns ==
    ASSUME IInv, Times, Idle \/ Top.step = "run"
    PROVE  \A i \in DOMAIN work : work[i].step = "run"
<1> SUFFICES ASSUME NEW i \in DOMAIN work PROVE work[i].step = "run"
  OBVIOUS
<1>1. work[i] \in Attachment /\ ~Idle
  BY WorkTyped DEF Idle
<1>2. work[i].step \in {"read", "run"}
  BY <1>1 DEF Attachment
<1>3. work[i].step = "read" => work[i] = Top
  BY DEF Times, Top
<1> QED
  BY <1>1, <1>2, <1>3

\* A text that is begun is the one on disk; `wanted` has lost the file, or
\* the file is the one that is attached again.
LEMMA BeginTimes ==
    ASSUME IInv, Looked, Times, NEW f \in Files, Begin(f), Idle \/ Top.step = "run",
           UNCHANGED <<disk, phase, seen>>, queue' \subseteq queue,
           \A g \in queue : g \in queue' \/ g = f,
           (\A i \in DOMAIN work : work[i].path # f) =>
             \/ wanted' = wanted \ {f}
             \/ wanted' = wanted /\ Idle /\ phase = "reload" /\ disk[f].save # 0
    PROVE  Times'
<1>1. packages' = Without(f) /\ ~Working(f)
  BY BeginWork
<1>2. \A p \in packages' : p \in packages /\ p.path # f
  BY <1>1 DEF Without
<1>3. \A p \in packages : p.path = f \/ p \in packages'
  BY <1>1 DEF Without
<1>4. \/ wanted' = wanted \ {f}
      \/ wanted' = wanted /\ Idle /\ phase = "reload" /\ disk[f].save # 0
  BY <1>1 DEF Working
<1>5. \A i \in DOMAIN work : work[i].step = "run"
  BY TopRuns
<1>6. CASE error' /\ work' = work /\ disk[f].save = 0
  BY <1>2, <1>3, <1>4, <1>6 DEF Times, Attached, Again
<1>7. CASE /\ error' = error /\ disk[f].save # 0
           /\ Len(work') \notin DOMAIN work /\ (Idle => Len(work') = 1)
           /\ DOMAIN work' = DOMAIN work \union {Len(work')}
           /\ \A i \in DOMAIN work : work'[i] = work[i]
           /\ work'[Len(work')].path = f /\ work'[Len(work')].text = disk[f]
           /\ work'[Len(work')].step = "read"
  <2>1. disk[f].save >= seen[f]
    BY DEF IInv, Typed, Text, Looked
  <2>2. \A i \in DOMAIN work' : (i \in DOMAIN work /\ work'[i] = work[i]) \/ i = Len(work')
    BY <1>7
  <2>3. \A i \in DOMAIN work' :
            /\ disk[work'[i].path].save # 0
            /\ work'[i].step = "read" => i = Len(work') /\ work'[i].text.save = disk[work'[i].path].save
            /\ work'[i].step = "run" => work'[i].mtime = work'[i].text.save
            /\ phase = "reload" => work'[i].text.save >= seen[work'[i].path]
    BY <1>5, <1>7, <2>1, <2>2 DEF Times
  <2>4. \A g \in wanted' : (\E p \in packages' : p.path = g)
                           \/ (phase = "reload" /\ 1 \in DOMAIN work' /\ work'[1].path = g)
    <3>1. \A g \in wanted : \/ \E p \in packages : p.path = g
                            \/ phase = "reload" /\ 1 \in DOMAIN work /\ work[1].path = g
      BY DEF Times, Attached, Again
    <3>2. CASE wanted' = wanted \ {f}
      BY <1>3, <1>7, <3>1, <3>2
    <3>3. CASE wanted' = wanted /\ Idle /\ phase = "reload" /\ disk[f].save # 0
      <4>1. DOMAIN work = {} /\ 1 \in DOMAIN work' /\ work'[1].path = f
        BY <1>7, <3>3 DEF Idle
      <4> QED
        BY <1>3, <3>1, <3>3, <4>1
    <3> QED
      BY <1>4, <3>2, <3>3
  <2>5. \A p \in packages' :
            /\ p.mtime = p.save /\ disk[p.path].save # 0
            /\ phase = "reload" => p.path \in queue' \/ p.save >= seen[p.path]
    BY <1>2 DEF Times
  <2> QED
    BY <2>3, <2>4, <2>5 DEF Times, Attached, Again
<1> QED
  BY <1>6, <1>7, BeginWork

LEMMA WithdrawTimes ==
    ASSUME Times, NEW f, Withdraw(f), Forget(f), UNCHANGED <<disk, work, queue, phase>>
    PROVE  Times'
<1>1. packages' = Without(f) /\ wanted' = wanted \ {f} /\ seen' = seen
  BY DEF Withdraw, Forget
<1>2. (\A p \in packages' : p \in packages) /\ \A p \in packages : p.path = f \/ p \in packages'
  BY <1>1 DEF Without
<1> QED
  BY <1>1, <1>2 DEF Times, Attached, Again

LEMMA SaveTimes ==
    ASSUME IInv, Phases, Times, "race" \notin uses,
           NEW f \in Files, NEW parses \in BOOLEAN, Save(f, parses)
    PROVE  Times'
<1> DEFINE t == [save |-> disk[f].save + 1, parses |-> parses]
<1>1. /\ disk' = [disk EXCEPT ![f] = t] /\ t.save = disk[f].save + 1
      /\ UNCHANGED <<packages, work, queue, phase, wanted, seen>>
  BY Zenon DEF Save, session, auxiliary
<1> HIDE DEF t
<1>2. disk \in [Files -> Text] /\ \A g \in Files : disk[g].save \in Nat
  BY DEF IInv, Typed, Text
<1>3. \A g \in Files : /\ disk[g].save # 0 => disk'[g].save # 0
                       /\ g # f => disk'[g].save = disk[g].save
  BY <1>1, <1>2
<1>4. \A i \in DOMAIN work : work[i].path \in Files /\ (work[i].step = "read" => work[i].path # f)
  <2> SUFFICES ASSUME NEW i \in DOMAIN work, work[i].step = "read" PROVE work[i].path # f
    BY WorkTyped
  <2>1. Top = work[i] /\ ~Idle
    BY DEF Times, Top, Idle
  <2> QED
    BY <2>1 DEF Save
<1>5. (\A p \in packages : p.path \in Files) /\ queue \subseteq Files
  BY DEF Phases, TypeOK
<1> QED
  BY <1>1, <1>3, <1>4, <1>5 DEF Times, Attached, Again

LEMMA ReadTimeTimes ==
    ASSUME IInv, Times, ReadTime
    PROVE  Times'
<1>1. UNCHANGED <<disk, packages, queue, phase, wanted, seen>>
  BY DEF ReadTime, session, auxiliary
<1>2. /\ DOMAIN work' = DOMAIN work /\ Len(work') = Len(work)
      /\ \A i \in DOMAIN work :
            /\ work'[i].path = work[i].path /\ work'[i].text = work[i].text
            /\ \/ work'[i] = work[i]
               \/ /\ work[i].step = "read" /\ work'[i].step = "run"
                  /\ work'[i].mtime = disk[work[i].path].save
  BY ReadTimeWork DEF IInv, Typed, ReadTime
<1> QED
  BY <1>1, <1>2 DEF Times, Attached, Again

\* It is entered with the text and the time it was begun with.
LEMMA EndTimes ==
    ASSUME IInv, Times, End
    PROVE  Times'
<1>1. /\ Len(work) \in DOMAIN work /\ work[Len(work)] = Top
      /\ DOMAIN work' = DOMAIN work \ {Len(work)}
      /\ \A i \in DOMAIN work' : work'[i] = work[i] /\ work[i].path # Top.path
  BY EndWork
<1>2. UNCHANGED <<disk, queue, phase, seen>> /\ Top.step = "run"
  BY DEF End, session, Entered, Failed
<1>3. \A i \in DOMAIN work : work[i].step = "run"
  BY <1>2, TopRuns
<1>4. \A i \in DOMAIN work' :
          /\ disk'[work'[i].path].save # 0
          /\ work'[i].step = "run" /\ work'[i].mtime = work'[i].text.save
          /\ phase = "reload" => work'[i].text.save >= seen[work'[i].path]
  BY <1>1, <1>2, <1>3 DEF Times
<1>5. \A g \in wanted : g # Top.path =>
          Attached(g) \/ (phase = "reload" /\ 1 \in DOMAIN work' /\ work'[1].path = g)
  BY <1>1 DEF Times, Again
<1>6. CASE error
  <2>1. packages' = packages /\ wanted' = wanted \ {Top.path}
    BY <1>6 DEF End, Failed
  <2> QED
    BY <1>2, <1>4, <1>5, <2>1 DEF Times, Attached, Again
<1>7. CASE ~error
  <2> DEFINE q == [path |-> Top.path, mtime |-> Top.mtime, save |-> Top.text.save]
  <2>1. packages' = packages \union {q} /\ wanted' \subseteq wanted \union {Top.path}
    BY <1>7 DEF End, Entered
  <2>2. q.path = Top.path /\ q.mtime = Top.mtime /\ q.save = Top.text.save
    OBVIOUS
  <2> HIDE DEF q
  <2>3. /\ q.mtime = q.save /\ disk[q.path].save # 0
        /\ phase = "reload" => q.save >= seen[q.path]
    BY <1>1, <1>3, <2>2 DEF Times
  <2>4. \A p \in packages' :
            /\ p.mtime = p.save /\ disk[p.path].save # 0
            /\ phase = "reload" => p.path \in queue \/ p.save >= seen[p.path]
    BY <2>1, <2>3 DEF Times
  <2>5. \A g \in wanted' : (\E p \in packages' : p.path = g)
                           \/ (phase = "reload" /\ 1 \in DOMAIN work' /\ work'[1].path = g)
    BY <1>5, <2>1, <2>2 DEF Attached
  <2> QED
    BY <1>2, <1>4, <2>4, <2>5 DEF Times, Attached, Again
<1> QED
  BY <1>6, <1>7

\* The check queues what is not in the text it sees.
LEMMA CheckTimes ==
    ASSUME Phases, Looked, IInv, Times, Check
    PROVE  Noticed /\ Times'
<1>1. /\ work = <<>> /\ queue = {} /\ phase = "check"
      /\ \A p \in packages : p.path \in Files
  BY DEF Check, Phases, TypeOK, Idle
<1>2. /\ UNCHANGED <<disk, packages, work, wanted>>
      /\ \A f \in queue' : disk[f].save # 0
      /\ \A p \in packages : p.path \in queue' \/ disk[p.path].save = p.save
      /\ \A f \in Files : seen'[f] = disk[f].save
  BY DEF Check, Stale, Times
<1>3. \A f \in wanted : \E p \in packages : p.path = f
  BY <1>1 DEF Times, Attached, Again
<1>4. Noticed
  BY <1>2, <1>3 DEF Noticed
<1>5. \A p \in packages : p.path \in queue' \/ p.save >= seen'[p.path]
  <2> SUFFICES ASSUME NEW p \in packages, p.path \notin queue' PROVE p.save >= seen'[p.path]
    OBVIOUS
  <2>1. p.save = seen'[p.path] /\ seen'[p.path] = disk[p.path].save /\ p.path \in Files
    BY <1>1, <1>2
  <2>2. disk[p.path].save \in Nat
    BY <2>1 DEF IInv, Typed, Text
  <2> QED
    BY <2>1, <2>2
<1>6. Times'
  BY <1>1, <1>2, <1>3, <1>5 DEF Times, Attached
<1> QED
  BY <1>4, <1>6

LEMMA NextRaceless ==
    ASSUME IInv, Phases, Looked, Raceless, [Next]_vars
    PROVE  Raceless'
<1> SUFFICES ASSUME "race" \notin uses' PROVE Times'
  BY DEF Raceless
<1>1. uses' = uses /\ "race" \notin uses /\ Times
  BY DEF Raceless, Next, vars
<1>2. CASE UNCHANGED <<disk, packages, work, queue, phase, wanted, seen>>
  BY <1>1, <1>2 DEF Times, Attached, Again
<1>3. ASSUME NEW f \in Files, NEW parses \in BOOLEAN, Save(f, parses)
      PROVE  Times'
  BY <1>1, <1>3, SaveTimes
<1>4. CASE \E n \in 1..MaxScript : Enter(n)
  BY <1>2, <1>4 DEF Enter, auxiliary
<1>5. ASSUME NEW f \in Files, AttachNested(f)
      PROVE  Times'
  BY <1>1, <1>5, BeginTimes DEF AttachNested, Running, Forget, session
<1>6. ASSUME NEW f \in Files, DetachNested(f)
      PROVE  Times'
  BY <1>1, <1>6, WithdrawTimes DEF DetachNested, session
<1>7. ASSUME NEW f \in Files, Attach(f)
      PROVE  Times'
  BY <1>1, <1>7, BeginTimes DEF Attach, Forget, session
<1>8. ASSUME NEW f \in Files, Detach(f)
      PROVE  Times'
  BY <1>1, <1>8, WithdrawTimes DEF Detach, session
\* What is queued is there to be read again.
<1>9. ASSUME NEW f \in Files, Reload(f)
      PROVE  Times'
  <2>1. disk[f].save # 0
    BY <1>1, <1>9 DEF Reload, Times
  <2> QED
    BY <1>1, <1>9, <2>1, BeginTimes DEF Reload, auxiliary
<1>10. CASE ReadTime
  BY <1>1, <1>10, ReadTimeTimes
<1>11. CASE Define \/ FailIn \/ CatchIn
  BY <1>2, <1>11 DEF Define, FailIn, CatchIn, session, auxiliary
<1>12. CASE End
  BY <1>1, <1>12, EndTimes
<1>13. CASE Check
  BY <1>1, <1>13, CheckTimes
<1>14. CASE GiveUp \/ BeginStatement \/ EndStatement
  <2>1. /\ UNCHANGED <<disk, packages, work, wanted, seen>> /\ work = <<>>
        /\ phase' # "reload" /\ queue' \subseteq queue
    BY <1>14 DEF GiveUp, BeginStatement, EndStatement, auxiliary, Idle
  <2> QED
    BY <1>1, <2>1 DEF Times, Attached, Again
<1>15. CASE UNCHANGED vars
  BY <1>2, <1>15 DEF vars
<1> QED
  BY <1>3, <1>4, <1>5, <1>6, <1>7, <1>8, <1>9, <1>10, <1>11, <1>12, <1>13, <1>14, <1>15
     DEF Next, Step, Import

LEMMA NextSInv == SInv /\ [Next]_vars => SInv'
BY NextIInv, NextPhases, NextAsked, NextFlat, NextLooked, NextRaceless DEF SInv

\* The queue is empty when the statement begins.
LEMMA BeginStatementSees ==
    ASSUME Times, BeginStatement
    PROVE  \A f \in wanted : \E p \in packages : p.path = f /\ p.save >= seen[f]
<1>1. work = <<>> /\ queue = {} /\ phase = "reload"
  BY DEF BeginStatement, Idle
<1> SUFFICES ASSUME NEW f \in wanted PROVE \E p \in packages : p.path = f /\ p.save >= seen[f]
  OBVIOUS
<1>2. PICK p \in packages : p.path = f
  BY <1>1 DEF Times, Attached, Again
<1> QED
  BY <1>1, <1>2 DEF Times

-----------------------------------------------------------------------------
(* The theorems *)

\* What is attached is of the files the session knows, errors are over and
\* no package is being attached between statements.
THEOREM PackagesTyped == Spec => []TypeOK
<1>1. SInv => TypeOK
  BY DEF SInv, Phases
<1> QED
  BY <1>1, InitSInv, NextSInv, PTL DEF Spec

\* Whatever is saved, fails, and attaches and detaches others: an attached
\* package was asked for and not detached since, unless it was detached or
\* failed while it waited to be attached again or was being attached, which
\* takes a package that attaches or detaches others.
THEOREM NothingComesBack == Spec => []DetachedStaysDetached
<1>1. SInv => DetachedStaysDetached
  BY DEF SInv, Asked, Flat, Owed, DetachedStaysDetached
<1> QED
  BY <1>1, InitSInv, NextSInv, PTL DEF Spec

\* Where no package is saved between the reading of its text and of its
\* time, a check finds every package that was asked for in the text that is
\* on disk, or queues it, whatever failed and however packages attach and
\* detach each other.
THEOREM SavesAreSeen == Spec => SavesAreNoticed
<1>1. SInv /\ [Next]_vars => [(phase = "check" /\ phase' = "reload" /\ "race" \notin uses)
                                => Noticed]_vars
  <2> SUFFICES ASSUME SInv, [Next]_vars, phase = "check", phase' = "reload", "race" \notin uses
               PROVE  Noticed
    OBVIOUS
  <2>1. Check
    BY DEF Next, Step, vars, session, Save, Enter, AttachNested, DetachNested, Attach, Import,
           Detach, Reload, ReadTime, Define, FailIn, CatchIn, End, GiveUp, BeginStatement,
           EndStatement
  <2> QED
    BY <2>1, CheckTimes DEF SInv, Raceless
<1> QED
  BY <1>1, InitSInv, NextSInv, PTL DEF Spec, SavesAreNoticed

\* And a statement runs with every package that was asked for in the text
\* that its check saw, or a later one: a failure among the packages that are
\* attached again keeps the statement from running, and what was queued
\* behind it is found again by the next check.
THEOREM NoStatementRunsOldText == Spec => StatementsSeeSaves
<1>1. SInv /\ [Next]_vars => [(phase = "reload" /\ phase' = "run" /\ "race" \notin uses) =>
                                \A f \in wanted : \E p \in packages : p.path = f /\ p.save >= seen[f]]_vars
  <2> SUFFICES ASSUME SInv, [Next]_vars, phase = "reload", phase' = "run", "race" \notin uses
               PROVE  \A f \in wanted : \E p \in packages : p.path = f /\ p.save >= seen[f]
    OBVIOUS
  <2>1. BeginStatement
    BY DEF Next, Step, vars, session, Save, Enter, AttachNested, DetachNested, Attach, Import,
           Detach, Reload, ReadTime, Define, FailIn, CatchIn, End, GiveUp, Check,
           EndStatement
  <2> QED
    BY <2>1, BeginStatementSees DEF SInv, Raceless
<1> QED
  BY <1>1, InitSInv, NextSInv, PTL DEF Spec, StatementsSeeSaves
=============================================================================
