----------------------- MODULE DbOperationMngr_proofs -----------------------
(***************************************************************************)
(* Proofs about DbOperationMngr, for any types, threads, batch size and    *)
(* number of rows.                                                         *)
(***************************************************************************)
EXTENDS DbOperationMngr, SequenceTheorems, TLAPS

-----------------------------------------------------------------------------
(* What a step does to the callbacks.                                      *)

\* Continue moves one callback and no other.
LEMMA ContinueEffect ==
  ASSUME NEW c \in Callbacks, NEW pc \in PCs, NEW batch \in Seq(Nat), NEW reg \in Int,
         cb \in [Callbacks -> CallbackState],
         Continue(c, pc, batch, reg)
  PROVE  /\ cb' \in [Callbacks -> CallbackState]
         /\ cb'[c].pc = pc /\ cb'[c].batch = batch /\ cb'[c].reg = reg
         /\ \A d \in Callbacks \ {c} : cb'[d] = cb[d]
BY DEF Continue, CallbackState

\* Goto keeps the batch.
LEMMA GotoEffect ==
  ASSUME NEW c \in Callbacks, NEW pc \in PCs,
         cb \in [Callbacks -> CallbackState],
         Goto(c, pc)
  PROVE  /\ cb' \in [Callbacks -> CallbackState]
         /\ cb'[c].pc = pc /\ cb'[c].batch = cb[c].batch /\ cb'[c].reg = 0
         /\ \A d \in Callbacks \ {c} : cb'[d] = cb[d]
<1>1. cb[c].batch \in Seq(Nat)
  BY DEF CallbackState
<1> QED BY <1>1, ContinueEffect DEF Goto

\* A callback that returns has no batch.
LEMMA ReturnEffect ==
  ASSUME NEW c \in Callbacks,
         cb \in [Callbacks -> CallbackState],
         Return(c)
  PROVE  /\ cb' \in [Callbacks -> CallbackState]
         /\ cb'[c].pc = "idle" /\ cb'[c].batch = <<>>
         /\ \A d \in Callbacks \ {c} : cb'[d] = cb[d]
BY DEF Return, NoCallback, CallbackState, PCs, Section, Null

\* A tick begins one callback.
LEMMA FireEffect ==
  ASSUME NEW c \in Callbacks, NEW t \in Timers,
         cb \in [Callbacks -> CallbackState],
         rows \in Seq(Kinds), live \subseteq 1 .. Len(rows),
         Fire(c, t)
  PROVE  /\ cb' \in [Callbacks -> CallbackState]
         /\ cb'[c].pc = "enter" /\ cb'[c].batch = <<>>
         /\ \A d \in Callbacks \ {c} : cb'[d] = cb[d]
<1>1. rows[t] \in Kinds
  BY DEF Fire
<1> QED BY <1>1 DEF Fire, CallbackState, PCs, Section

\* After a crash no callback runs.
LEMMA CrashEffect ==
  ASSUME Crash
  PROVE  /\ cb' \in [Callbacks -> CallbackState]
         /\ \A c \in Callbacks : cb'[c].pc = "idle" /\ cb'[c].batch = <<>>
BY DEF Crash, NoCallback, CallbackState, PCs, Section, Null

-----------------------------------------------------------------------------
(* Types. The flags apart, for which another prover is needed. TypeOK is   *)
(* not inductive without RegTypes: steps store values loaded steps before. *)

FlagTypes == timerIsRunning \in BOOLEAN /\ isDbRuning \in BOOLEAN

DataTypes ==
  /\ rows \in Seq(Kinds)
  /\ firstRow \in Nat
  /\ array \in Seq(Nat) /\ head \in Nat \ {0} /\ tail \in Int /\ count \in Int
  /\ timerSteps \in 0 .. StepsCap
  /\ timer \in Nat /\ live \subseteq 1 .. Len(rows)
  /\ insert \in InsertState
  /\ written \in Seq(Nat)

\* What an insert has done: there is a row from Put on, and the copy is the longer array.
InsertInv ==
  /\ insert.pc \in {"count", "reset", "test", "start"} => Len(rows) > 0
  /\ insert.pc = "count" => array # <<>>
  /\ insert.pc = "grow" => Len(insert.grown) > Len(array)

\* The head is a position of the array, as soon as there is one.
HeadInv ==
  IF array = <<>> THEN head = 1 /\ tail = 1 /\ count <= 0 ELSE head <= Len(array)

DequeueInv == \A c \in Callbacks :
  /\ Dequeuing(c) => array # <<>>
  /\ cb[c].pc = "advance" => cb[c].reg \in 1 .. Len(array)

PlaceInv == InsertInv /\ HeadInv /\ DequeueInv

\* Register values that will be stored.
Storable(pc, reg) == pc = "bump" => reg \in 0 .. StepsCap
RegTypes == \A c \in Callbacks : Storable(cb[c].pc, cb[c].reg)
CbTypes == cb \in [Callbacks -> CallbackState] /\ RegTypes
Types == DataTypes /\ CbTypes /\ PlaceInv

\* Every step leaves the two flags Boolean (lines 25-26).
LEMMA FlagsNext == FlagTypes /\ [Next]_vars => FlagTypes'
<1> SUFFICES ASSUME FlagTypes, [Next]_vars PROVE FlagTypes'
  OBVIOUS
<1> USE DEF FlagTypes
<1>1. CASE Crash
  BY <1>1, Zenon DEF Crash
<1>2. CASE Insert
  BY <1>2, Zenon DEF Insert, Enqueue, Grow, Put, StoreCount, ResetSteps, TestTimer, StartTimer, timerVars
<1>3. ASSUME NEW c \in Callbacks, Callback(c), ~Crash PROVE FlagTypes'
  <2>1. CASE Enter(c) \/ Claim(c) \/ Dequeue(c) \/ Clear(c) \/ Advance(c) \/ Shrink(c)
    BY <1>3, <2>1, Zenon DEF Enter, Claim, Dequeue, Clear, Advance, Shrink, timerVars
  <2>2. CASE Write(c) \/ Resave(c) \/ Release(c) \/ CountEmpty(c) \/ Bump(c)
    BY <1>3, <2>2, Zenon DEF Write, Resave, Release, CountEmpty, Bump, timerVars
  <2>3. CASE TestSteps(c) \/ StopRunning(c) \/ Dispose(c) \/ Forget(c)
    BY <1>3, <2>3, Zenon DEF TestSteps, StopRunning, Dispose, Forget, timerVars
  <2> QED BY <1>3, <2>1, <2>2, <2>3, Zenon DEF Callback
<1>4. ASSUME NEW c \in Callbacks, NEW t \in Timers, Fire(c, t) PROVE FlagTypes'
  BY <1>4, Zenon DEF Fire, timerVars
<1>5. ASSUME NEW t \in Timers, Collect(t) PROVE FlagTypes'
  BY <1>5, Zenon DEF Collect
<1>6. CASE UNCHANGED vars
  BY <1>6, Zenon DEF vars, timerVars
<1> QED BY <1>1, <1>2, <1>3, <1>4, <1>5, <1>6, Zenon DEF Next

\* The static fields start well typed (lines 20-26).
LEMMA TypesInit == Init => Types
<1> SUFFICES ASSUME Init PROVE Types
  OBVIOUS
<1>1. cb \in [Callbacks -> CallbackState] /\ \A c \in Callbacks : cb[c].pc = "idle"
  BY DEF Init, NoCallback, CallbackState, PCs, Section, Null
<1>2. PlaceInv
  BY <1>1 DEF Init, NoInsert, PlaceInv, InsertInv, HeadInv, DequeueInv, Dequeuing
<1> QED BY <1>1, <1>2 DEF Init, Types, CbTypes, DataTypes, RegTypes, Storable, NoInsert, InsertState,
                          StepsCap, StepsToStop, Null

\* A restart is well typed.
LEMMA CrashTypes == Types /\ Crash => Types'
<1> SUFFICES ASSUME Types, Crash PROVE Types'
  OBVIOUS
<1>1. CbTypes' /\ DequeueInv'
  BY CrashEffect DEF CbTypes, RegTypes, Storable, DequeueInv, Dequeuing
<1>2. DataTypes' /\ InsertInv' /\ HeadInv'
  BY DEF Crash, Types, DataTypes, NoInsert, InsertState, StepsCap, StepsToStop, Null, InsertInv, HeadInv
<1> QED BY <1>1, <1>2 DEF Types, PlaceInv

\* The copy a growth makes is a longer array.
LEMMA GrownTypes ==
  ASSUME array \in Seq(Nat), head \in Nat \ {0}, tail \in Int, HeadInv, ~CopyFails
  PROVE  Grown \in Seq(Nat) /\ Len(Grown) > Len(array) /\ Grown # <<>>
<1> DEFINE unwrapped == Len(array) - head + 1
           wrapped == IF head < tail THEN 0 ELSE tail - 1
           size == Max2(2 * Len(array), Len(array) + MinimumGrow)
           slot(i) == IF i <= unwrapped THEN array[head + i - 1]
                      ELSE IF i <= unwrapped + wrapped THEN array[i - unwrapped] ELSE Null
<1>1. Len(array) \in Nat /\ size \in Nat /\ size > Len(array)
  BY ConstantsOK DEF Max2
<1>2. ASSUME NEW i \in 1 .. size PROVE slot(i) \in Nat
  <2>1. Len(array) = 0 => head = 1 /\ tail = 1
    BY DEF HeadInv
  <2>2. Len(array) > 0 => head <= Len(array)
    BY DEF HeadInv
  <2>3. CASE i <= unwrapped
    <3>1. head + i - 1 \in 1 .. Len(array)
      BY <1>1, <2>3
    <3> QED BY <2>3, <3>1
  <2>4. CASE ~(i <= unwrapped) /\ i <= unwrapped + wrapped
    <3>1. i - unwrapped \in 1 .. Len(array)
      BY <1>1, <2>1, <2>2, <2>4
    <3> QED BY <2>4, <3>1
  <2> QED BY <2>3, <2>4 DEF Null
<1>3. Grown = [i \in 1 .. size |-> slot(i)]
  BY DEF Grown
<1> HIDE DEF slot, size
<1>4. Grown \in Seq(Nat) /\ Len(Grown) = size
  BY <1>1, <1>2, <1>3
<1> QED BY <1>1, <1>4

\* The steps of an insert (lines 33-84) keep the types.
LEMMA InsertTypes == Types /\ Insert => Types'
<1> SUFFICES ASSUME Types, Insert PROVE Types'
  OBVIOUS
<1>1. UNCHANGED cb
  BY DEF Insert, Enqueue, Grow, Put, StoreCount, ResetSteps, TestTimer, StartTimer
<1>2. CbTypes'
  BY <1>1 DEF Types, CbTypes, RegTypes
<1>3. /\ DataTypes' /\ InsertInv' /\ HeadInv'
      /\ Len(array') >= Len(array) /\ (array # <<>> => array' # <<>>)
  <2> USE DEF Types, DataTypes, InsertState, PlaceInv, InsertInv, HeadInv, Proceed
  <2>0. Len(array) \in Nat /\ Len(rows) \in Nat
    OBVIOUS
  <2>1. CASE Enqueue
    <3>1. UNCHANGED <<rows, firstRow, array, head, tail, count, timerSteps, timer, live, written>>
      BY <2>1 DEF Enqueue, queueVars, timerVars
    <3>2. CASE insert' = [pc |-> "grow", reg |-> 0, grown |-> Grown] /\ ~CopyFails
      BY <2>0, <3>1, <3>2, GrownTypes
    <3>3. CASE Proceed("put", 0)
      BY <2>0, <3>1, <3>3
    <3> QED BY <2>1, <3>2, <3>3 DEF Enqueue
  <2>2. CASE Grow
    <3>1. /\ UNCHANGED <<rows, firstRow, count, timerSteps, timer, live, written>>
          /\ array' = insert.grown /\ head' = 1 /\ tail' \in Int /\ insert.pc = "grow"
          /\ Proceed("put", 0)
      BY <2>2 DEF Grow, timerVars
    <3>2. insert.grown \in Seq(Nat) /\ Len(insert.grown) > Len(array) /\ Len(insert.grown) \in Nat
      BY <3>1
    <3>3. array' # <<>>
      BY <2>0, <3>1, <3>2
    <3> QED BY <2>0, <3>1, <3>2, <3>3
  <2>3. ASSUME NEW kind \in Kinds, Put(kind)
        PROVE  /\ DataTypes' /\ InsertInv' /\ HeadInv'
               /\ Len(array') >= Len(array) /\ (array # <<>> => array' # <<>>)
    <3>1. UNCHANGED <<firstRow, head, count, timerSteps, timer, live, written>>
      BY <2>3 DEF Put, timerVars
    <3>2. CASE insert' = NoInsert /\ UNCHANGED <<rows, array, tail>>
      BY <2>0, <3>1, <3>2 DEF NoInsert
    <3>3. CASE /\ tail \in 1 .. Len(array)
               /\ rows' = Append(rows, kind)
               /\ array' = [array EXCEPT ![tail] = Len(rows) + 1]
               /\ tail' = Wrapped(tail)
               /\ Proceed("count", count)
      <4>1. /\ rows' \in Seq(Kinds) /\ Len(rows') = Len(rows) + 1
            /\ array' \in Seq(Nat) /\ Len(array') = Len(array) /\ Len(array) > 0
        BY <2>0, <3>3
      <4>2. tail' \in Int
        BY <3>3 DEF Wrapped
      <4>3. array # <<>> /\ array' # <<>> /\ live' \subseteq 1 .. Len(rows')
        BY <2>0, <3>1, <4>1
      <4> QED BY <2>0, <3>1, <3>3, <4>1, <4>2, <4>3
    <3> QED BY <2>3, <3>2, <3>3 DEF Put
  <2>4. CASE StoreCount
    BY <2>0, <2>4 DEF StoreCount, queueVars, timerVars
  <2>5. CASE ResetSteps
    BY <2>0, <2>5 DEF ResetSteps, queueVars, timerVars, StepsCap, StepsToStop
  <2>6. CASE TestTimer
    <3>1. insert.pc = "test" /\ insert' \in {NoInsert, [pc |-> "start", reg |-> 0, grown |-> <<>>]}
      BY <2>6 DEF TestTimer
    <3>3. insert' \in InsertState /\ insert'.pc \in {"idle", "start"}
      <4>1. NoInsert \in InsertState /\ [pc |-> "start", reg |-> 0, grown |-> <<>>] \in InsertState
        BY DEF NoInsert
      <4> HIDE DEF InsertState
      <4> QED BY <3>1, <4>1 DEF NoInsert
    <3>2. UNCHANGED <<rows, firstRow, array, head, tail, count, timerSteps, timer, live, written>>
      BY <2>6 DEF TestTimer, queueVars
    <3> QED BY <2>0, <3>1, <3>2, <3>3
  <2>7. CASE StartTimer
    <3>1. insert' = NoInsert /\ insert.pc = "start" /\ live' = live \cup {Len(rows)} /\ timer' = Len(rows)
          /\ UNCHANGED <<rows, firstRow, array, head, tail, count, timerSteps, written>>
      BY <2>7 DEF StartTimer, queueVars
    <3>2. Len(rows) \in Nat /\ Len(rows) > 0
      BY <3>1
    <3>3. live' \subseteq 1 .. Len(rows') /\ timer' \in Nat
      <4>1. Len(rows) \in 1 .. Len(rows) /\ live \subseteq 1 .. Len(rows)
        BY <3>2
      <4> QED BY <3>1, <3>2, <4>1
    <3> QED BY <2>0, <3>1, <3>3 DEF NoInsert
  <2> QED BY <2>1, <2>2, <2>3, <2>4, <2>5, <2>6, <2>7 DEF Insert
<1>4. DequeueInv'
  <2>1. Len(array) \in Nat /\ Len(array') \in Nat
    BY <1>3 DEF Types, DataTypes
  <2> QED BY <1>1, <1>3, <2>1 DEF Types, PlaceInv, DequeueInv, Dequeuing
<1> QED BY <1>2, <1>3, <1>4 DEF Types, PlaceInv

\* The moves of a callback keep the types, given a register the next step may store.
LEMMA MoveTypes ==
  ASSUME CbTypes, NEW c \in Callbacks
  PROVE  /\ Return(c) => CbTypes'
         /\ \A pc \in PCs \ {"bump"} : Goto(c, pc) => CbTypes'
         /\ \A pc \in PCs, batch \in Seq(Nat), reg \in Int :
              Continue(c, pc, batch, reg) /\ Storable(pc, reg) => CbTypes'
<1>1. Return(c) => CbTypes'
  BY ReturnEffect DEF CbTypes, RegTypes, Storable
<1>2. ASSUME NEW pc \in PCs \ {"bump"}, Goto(c, pc) PROVE CbTypes'
  BY <1>2, GotoEffect DEF CbTypes, RegTypes, Storable
<1>3. ASSUME NEW pc \in PCs, NEW batch \in Seq(Nat), NEW reg \in Int,
             Continue(c, pc, batch, reg), Storable(pc, reg)
      PROVE  CbTypes'
  BY <1>3, ContinueEffect DEF CbTypes, RegTypes, Storable
<1> QED BY <1>1, <1>2, <1>3

\* The moves of a callback by what they need of the queue to keep the places right.
LEMMA MovePlaces ==
  ASSUME DequeueInv, cb \in [Callbacks -> CallbackState], UNCHANGED array,
         NEW c \in Callbacks
  PROVE  /\ Return(c) => DequeueInv'
         /\ \A pc \in PCs \ {"clear", "advance", "shrink"} : Goto(c, pc) => DequeueInv'
         /\ \A pc \in PCs, batch \in Seq(Nat), reg \in Int :
              Continue(c, pc, batch, reg) /\ (pc \in {"clear", "shrink"} => array # <<>>)
                /\ pc # "advance" => DequeueInv'
<1> USE DEF DequeueInv, Dequeuing
<1>1. Return(c) => DequeueInv'
  BY ReturnEffect
<1>2. ASSUME NEW pc \in PCs \ {"clear", "advance", "shrink"}, Goto(c, pc) PROVE DequeueInv'
  BY <1>2, GotoEffect
<1>3. ASSUME NEW pc \in PCs, NEW batch \in Seq(Nat), NEW reg \in Int,
             Continue(c, pc, batch, reg), pc \in {"clear", "shrink"} => array # <<>>, pc # "advance"
      PROVE  DequeueInv'
  BY <1>3, ContinueEffect
<1> QED BY <1>1, <1>2, <1>3

\* The steps of a callback (lines 46-80) keep the types.
LEMMA CallbackTypes == ASSUME NEW c \in Callbacks PROVE Types /\ Callback(c) => Types'
<1> SUFFICES ASSUME Types, Callback(c), ~Crash PROVE Types'
  BY CrashTypes
<1>0. /\ CbTypes /\ cb[c].batch \in Seq(Nat) /\ cb[c].reg \in Int /\ DequeueInv
      /\ cb \in [Callbacks -> CallbackState]
      /\ head \in Nat \ {0} /\ count \in Int /\ timerSteps \in 0 .. StepsCap
      /\ array \in Seq(Nat) /\ Len(array) \in Nat
  BY DEF Types, DataTypes, CbTypes, CallbackState, PlaceInv
<1>1. CbTypes' /\ DequeueInv'
  <2> USE <1>0, MoveTypes, MovePlaces DEF PCs, Section, Storable, queueVars
  <2>1. CASE Enter(c)
    BY <2>1 DEF Enter
  <2>2. CASE Claim(c)
    BY <2>2 DEF Claim
  <2>3. CASE Dequeue(c)
    <3>1. CASE Goto(c, "write")
      BY <2>3, <3>1 DEF Dequeue
    <3>2. CASE Continue(c, "clear", Append(cb[c].batch, array[head]), 0) /\ Len(cb[c].batch) < Min2(count, MaxBatch)
      <4>1. count > 0
        BY <3>2, ConstantsOK DEF Min2
      <4>2. array # <<>> /\ head \in 1 .. Len(array)
        BY <4>1 DEF Types, PlaceInv, HeadInv
      <4>3. Append(cb[c].batch, array[head]) \in Seq(Nat)
        BY <4>2
      <4>4. "clear" \in PCs /\ 0 \in Int /\ Storable("clear", 0) /\ "clear" # "advance" /\ UNCHANGED array
        BY <2>3 DEF Dequeue
      <4>5. CbTypes'
        BY <3>2, <4>3, <4>4
      <4>6. DequeueInv'
        BY <3>2, <4>2, <4>3, <4>4
      <4> QED BY <4>5, <4>6
    <3> QED BY <2>3, <3>1, <3>2 DEF Dequeue
  <2>4. CASE Clear(c)
    <3>1. /\ cb' \in [Callbacks -> CallbackState] /\ cb'[c].pc = "advance" /\ cb'[c].reg = head
          /\ \A d \in Callbacks \ {c} : cb'[d] = cb[d]
      BY <2>4, ContinueEffect DEF Clear
    <3>2. array # <<>> /\ head \in 1 .. Len(array)
      BY <2>4 DEF Clear, DequeueInv, Dequeuing, Types, PlaceInv, HeadInv
    <3>3. array' \in Seq(Nat) /\ Len(array') = Len(array) /\ array' # <<>>
      BY <2>4, <3>2 DEF Clear, Null
    <3>4. CbTypes'
      BY <3>1 DEF CbTypes, RegTypes
    <3>5. DequeueInv'
      BY <3>1, <3>2, <3>3 DEF DequeueInv, Dequeuing
    <3> QED BY <3>4, <3>5
  <2>5. CASE Advance(c)
    <3>1. array # <<>>
      BY <2>5 DEF Advance, DequeueInv, Dequeuing
    <3> QED BY <2>5, <3>1 DEF Advance
  <2>6. CASE Shrink(c)
    BY <2>6 DEF Shrink
  <2>7. CASE Write(c) \/ Resave(c)
    <3>1. Continue(c, "release", <<>>, 0) /\ UNCHANGED array
      BY <2>7 DEF Write, Resave
    <3>2. "release" \in PCs /\ <<>> \in Seq(Nat) /\ 0 \in Int /\ Storable("release", 0)
      OBVIOUS
    <3> QED BY <3>1, <3>2
  <2>8. CASE Release(c)
    BY <2>8 DEF Release
  <2>9. CASE CountEmpty(c)
    BY <2>9 DEF CountEmpty, StepsCap, StepsToStop
  <2>10. CASE Bump(c)
    BY <2>10 DEF Bump
  <2>11. CASE TestSteps(c)
    BY <2>11 DEF TestSteps
  <2>12. CASE StopRunning(c)
    BY <2>12 DEF StopRunning
  <2>13. CASE Dispose(c)
    BY <2>13 DEF Dispose
  <2>14. CASE Forget(c)
    BY <2>14 DEF Forget
  <2> QED BY <2>1, <2>2, <2>3, <2>4, <2>5, <2>6, <2>7, <2>8, <2>9, <2>10, <2>11, <2>12, <2>13, <2>14
       DEF Callback
<1>2. DataTypes' /\ InsertInv' /\ HeadInv'
  <2> USE DEF Types, DataTypes, PlaceInv, InsertInv, HeadInv
  <2>1. CASE Enter(c) \/ Claim(c) \/ Dequeue(c) \/ CountEmpty(c) \/ TestSteps(c)
    <3>1. UNCHANGED <<rows, firstRow, array, head, tail, count, timerSteps, timer, live, insert, written>>
      BY <2>1 DEF Enter, Claim, Dequeue, CountEmpty, TestSteps, queueVars, timerVars
    <3> QED BY <3>1
  <2>2. CASE Clear(c)
    <3>1. /\ UNCHANGED <<rows, firstRow, head, tail, count, timerSteps, timer, live, insert, written>>
          /\ array' = [array EXCEPT ![head] = Null]
      BY <2>2 DEF Clear, timerVars
    <3>2. array # <<>> /\ head \in 1 .. Len(array)
      BY <1>0, <2>2 DEF Clear, DequeueInv, Dequeuing
    <3>3. array' \in Seq(Nat) /\ Len(array') = Len(array) /\ array' # <<>>
      BY <1>0, <3>1, <3>2 DEF Null
    <3> QED BY <1>0, <3>1, <3>2, <3>3
  <2>3. CASE Advance(c)
    <3>1. /\ UNCHANGED <<rows, firstRow, array, tail, count, timerSteps, timer, live, insert, written>>
          /\ head' = Wrapped(cb[c].reg) /\ cb[c].pc = "advance"
      BY <2>3 DEF Advance, timerVars
    <3>2. cb[c].reg \in 1 .. Len(array) /\ array # <<>>
      BY <1>0, <3>1 DEF DequeueInv, Dequeuing
    <3>3. head' \in 1 .. Len(array)
      BY <1>0, <3>1, <3>2 DEF Wrapped
    <3> QED BY <1>0, <3>1, <3>2, <3>3
  <2>4. CASE Shrink(c)
    <3>1. cb[c].reg - 1 \in Int /\ array # <<>>
      BY <1>0, <2>4 DEF Shrink, DequeueInv, Dequeuing
    <3> QED BY <2>4, <3>1 DEF Shrink, queueVars, timerVars
  <2>5. CASE Write(c) \/ Resave(c)
    <3>1. cb[c].batch \in Seq(Nat)
      BY <1>0
    <3>2. written' \in {written \o cb[c].batch, written \o cb[c].batch \o cb[c].batch}
      BY <2>5 DEF Write, Resave
    <3>3. written \o cb[c].batch \in Seq(Nat)
      BY <3>1, ConcatProperties
    <3>4. written \o cb[c].batch \o cb[c].batch \in Seq(Nat)
      BY <3>1, <3>3, ConcatProperties
    <3>5. written' \in Seq(Nat)
      BY <3>2, <3>3, <3>4
    <3>6. UNCHANGED <<rows, firstRow, array, head, tail, count, timerSteps, timer, live, insert>>
      BY <2>5 DEF Write, Resave, queueVars, timerVars
    <3> QED BY <3>5, <3>6
  <2>6. CASE Release(c) \/ StopRunning(c)
    <3>1. UNCHANGED <<rows, firstRow, array, head, tail, count, timerSteps, timer, live, insert, written>>
      BY <2>6 DEF Release, StopRunning, queueVars, timerVars
    <3> QED BY <3>1
  <2>7. CASE Bump(c)
    <3>1. Min2(cb[c].reg + 1, StepsCap) \in 0 .. StepsCap
      <4>1. cb[c].pc = "bump"
        BY <2>7 DEF Bump
      <4>2. cb[c].reg \in 0 .. StepsCap
        BY <1>0, <4>1 DEF CbTypes, RegTypes, Storable
      <4> QED BY <4>2 DEF Min2, StepsCap, StepsToStop
    <3> QED BY <2>7, <3>1 DEF Bump, queueVars, timerVars
  <2>8. CASE Dispose(c)
    BY <2>8 DEF Dispose, queueVars
  <2>9. CASE Forget(c)
    BY <2>9 DEF Forget, queueVars, Null
  <2> QED BY <2>1, <2>2, <2>3, <2>4, <2>5, <2>6, <2>7, <2>8, <2>9 DEF Callback
<1> QED BY <1>1, <1>2 DEF Types, PlaceInv

\* Types is inductive.
LEMMA TypesNext == Types /\ [Next]_vars => Types'
<1> SUFFICES ASSUME Types, [Next]_vars PROVE Types'
  OBVIOUS
<1> USE DEF Types, DataTypes, PlaceInv, InsertInv, HeadInv, DequeueInv, Dequeuing, CbTypes, RegTypes, Storable
<1>1. ASSUME NEW c \in Callbacks, NEW t \in Timers, Fire(c, t) PROVE Types'
  BY <1>1, FireEffect DEF Fire, queueVars, timerVars
<1>2. ASSUME NEW t \in Timers, Collect(t) PROVE Types'
  BY <1>2 DEF Collect, queueVars
<1>3. CASE UNCHANGED vars
  BY <1>3 DEF vars, queueVars, timerVars
<1> QED BY <1>1, <1>2, <1>3, InsertTypes, CallbackTypes, CrashTypes DEF Next

\* Every behaviour is well typed: timerSteps among others stays between 0 and its cap.
THEOREM TypeCorrect == Spec => []TypeOK
<1>1. Init => FlagTypes
  BY DEF Init, FlagTypes
<1>2. FlagTypes /\ Types => TypeOK
  <2> SUFFICES ASSUME FlagTypes, Types PROVE TypeOK
    OBVIOUS
  <2>1. live \subseteq Nat
    BY DEF Types, DataTypes
  <2> QED BY <2>1 DEF Types, DataTypes, CbTypes, FlagTypes, TypeOK
<1> QED BY <1>1, <1>2, TypesInit, TypesNext, FlagsNext, PTL DEF Spec

-----------------------------------------------------------------------------
(* The steps of a callback by what they do to the queue and to the rows:   *)
(* most do nothing; Dequeue takes a row out of the queue in four of them;  *)
(* Write moves the batch to the database.                                  *)

Alone(c) == \A d \in Callbacks \ {c} : cb'[d] = cb[d]

\* Callback c moves between these places, in this step.
Moves(c, from, to) == Alone(c) /\ cb[c].pc = from /\ cb'[c].pc = to

Quiet(c) ==
  /\ UNCHANGED <<queueVars, count, insert, written>>
  /\ Alone(c)
  /\ \/ /\ cb[c].pc \notin Section /\ cb'[c].pc \notin Section
        /\ cb'[c].batch \in {cb[c].batch, <<>>}
        /\ UNCHANGED isDbRuning
     \/ /\ cb[c].pc = "claim" /\ cb'[c].pc = "loop"
        /\ cb'[c].batch = cb[c].batch
     \/ /\ cb[c].pc = "loop" /\ cb'[c].pc = "write"
        /\ cb'[c].batch = cb[c].batch
        /\ UNCHANGED isDbRuning
     \/ /\ cb[c].pc = "release" /\ cb'[c].pc = "count"
        /\ cb'[c].batch = cb[c].batch
        /\ isDbRuning' = FALSE

Takes(c) ==
  /\ UNCHANGED <<queueVars, count, insert, written, isDbRuning>>
  /\ Moves(c, "loop", "clear")
  /\ count > 0
  /\ cb'[c].batch = Append(cb[c].batch, array[head])

Empties(c) ==
  /\ UNCHANGED <<rows, firstRow, head, tail, count, insert, written, isDbRuning>>
  /\ Moves(c, "clear", "advance")
  /\ array' = [array EXCEPT ![head] = Null]
  /\ cb'[c].batch = cb[c].batch /\ cb'[c].reg = head

Advances(c) ==
  /\ UNCHANGED <<rows, firstRow, array, tail, count, insert, written, isDbRuning>>
  /\ Moves(c, "advance", "shrink")
  /\ head' = Wrapped(cb[c].reg)
  /\ cb'[c].batch = cb[c].batch /\ cb'[c].reg = count

Shrinks(c) ==
  /\ UNCHANGED <<queueVars, insert, written, isDbRuning>>
  /\ Moves(c, "shrink", "loop")
  /\ count' = cb[c].reg - 1
  /\ cb'[c].batch = cb[c].batch

Writes(c) ==
  /\ UNCHANGED <<queueVars, count, insert, isDbRuning>>
  /\ Moves(c, "write", "release")
  /\ cb'[c].batch = <<>>

\* A step of a callback that does not kill the process is one of these.
LEMMA CallbackKinds ==
  ASSUME NEW c \in Callbacks, Types, Callback(c), ~Crash
  PROVE  Quiet(c) \/ Takes(c) \/ Empties(c) \/ Advances(c) \/ Shrinks(c) \/ Writes(c)
<1>1. /\ cb \in [Callbacks -> CallbackState]
      /\ cb[c].batch \in Seq(Nat) /\ Len(cb[c].batch) \in Nat /\ cb[c].reg \in Int
      /\ array \in Seq(Nat) /\ head \in Nat \ {0} /\ count \in Int /\ timerSteps \in Int
  BY DEF Types, DataTypes, CbTypes, CallbackState, StepsCap, StepsToStop
<1>2. ASSUME NEW pc \in PCs, Goto(c, pc)
      PROVE  Alone(c) /\ cb'[c].pc = pc /\ cb'[c].batch = cb[c].batch
  BY <1>1, <1>2, GotoEffect DEF Alone
<1>3. ASSUME Return(c)
      PROVE  Alone(c) /\ cb'[c].pc = "idle" /\ cb'[c].batch = <<>>
  BY <1>1, <1>3, ReturnEffect DEF Alone
<1>4. ASSUME NEW pc \in PCs, NEW batch \in Seq(Nat), NEW reg \in Int, Continue(c, pc, batch, reg)
      PROVE  Alone(c) /\ cb'[c].pc = pc /\ cb'[c].batch = batch /\ cb'[c].reg = reg
  BY <1>1, <1>4, ContinueEffect DEF Alone
<1> USE <1>2, <1>3 DEF PCs, Section, Moves
<1>5. CASE Enter(c)
  BY <1>5 DEF Enter, Quiet
<1>6. CASE Claim(c)
  BY <1>6 DEF Claim, Quiet
<1>7. CASE Dequeue(c)
  <2>1. CASE Goto(c, "write")
    BY <1>7, <2>1 DEF Dequeue, Quiet
  <2>2. CASE /\ Len(cb[c].batch) < Min2(count, MaxBatch)
             /\ Continue(c, "clear", Append(cb[c].batch, array[head]), 0)
    <3>1. count > 0
      BY <1>1, <2>2, ConstantsOK DEF Min2
    <3>2. array[head] \in Nat
      <4>1. head \in 1 .. Len(array)
        BY <1>1, <3>1 DEF Types, PlaceInv, HeadInv
      <4> QED BY <1>1, <4>1
    <3>3. Append(cb[c].batch, array[head]) \in Seq(Nat)
      BY <1>1, <3>2
    <3>4. /\ Alone(c) /\ cb'[c].pc = "clear"
          /\ cb'[c].batch = Append(cb[c].batch, array[head])
      <4>1. "clear" \in PCs /\ 0 \in Int
        OBVIOUS
      <4> QED BY ONLY <1>4, <2>2, <3>3, <4>1
    <3>5. cb[c].pc = "loop" /\ UNCHANGED <<queueVars, count, insert, written, isDbRuning>>
      BY <1>7 DEF Dequeue
    <3> QED BY <3>1, <3>4, <3>5 DEF Takes
  <2> QED BY <1>7, <2>1, <2>2 DEF Dequeue
<1>8. CASE Clear(c)
  BY <1>1, <1>4, <1>8 DEF Clear, Empties
<1>9. CASE Advance(c)
  BY <1>1, <1>4, <1>9 DEF Advance, Advances
<1>10. CASE Shrink(c)
  BY <1>10 DEF Shrink, Shrinks
<1>11. CASE Write(c) \/ Resave(c)
  <2>1. Continue(c, "release", <<>>, 0)
    BY <1>11 DEF Write, Resave
  <2>2. "release" \in PCs /\ <<>> \in Seq(Nat) /\ 0 \in Int
    OBVIOUS
  <2> QED BY <1>4, <1>11, <2>1, <2>2 DEF Write, Resave, Writes
<1>12. CASE Release(c)
  BY <1>12 DEF Release, Quiet
<1>13. CASE CountEmpty(c)
  <2>1. CASE Goto(c, "steps")
    BY <1>13, <2>1 DEF CountEmpty, Quiet
  <2>2. CASE Continue(c, "bump", cb[c].batch, timerSteps)
    BY <1>1, <1>4, <1>13, <2>2 DEF CountEmpty, Quiet
  <2> QED BY <1>13, <2>1, <2>2 DEF CountEmpty
<1>14. CASE Bump(c)
  BY <1>14 DEF Bump, Quiet
<1>15. CASE TestSteps(c)
  BY <1>15 DEF TestSteps, Quiet
<1>16. CASE StopRunning(c)
  BY <1>16 DEF StopRunning, Quiet
<1>17. CASE Dispose(c)
  BY <1>17 DEF Dispose, Quiet
<1>18. CASE Forget(c)
  BY <1>18 DEF Forget, Quiet
<1> QED BY <1>5, <1>6, <1>7, <1>8, <1>9, <1>10, <1>11, <1>12, <1>13, <1>14, <1>15, <1>16, <1>17,
           <1>18 DEF Callback

-----------------------------------------------------------------------------
(* isDbRuning has an owner: a callback leaves its Section by Release, which *)
(* resets the flag, or with the process.                                    *)

\* Every step keeps the flag owned.
LEMMA FlagOwnedNext == Types /\ FlagOwned /\ [Next]_vars => FlagOwned'
<1> SUFFICES ASSUME Types, FlagOwned, [Next]_vars PROVE FlagOwned'
  OBVIOUS
<1> USE DEF FlagOwned, Flushing
<1>1. CASE Crash
  BY <1>1 DEF Crash
<1>2. ASSUME NEW c \in Callbacks, Callback(c), ~Crash PROVE FlagOwned'
  <2>1. CASE Quiet(c)
    BY <2>1 DEF Quiet, Alone, Section
  <2>2. CASE Takes(c) \/ Empties(c) \/ Advances(c)
    BY <2>2 DEF Takes, Empties, Advances, Moves, Alone, Section
  <2>3. CASE Shrinks(c) \/ Writes(c)
    BY <2>3 DEF Shrinks, Writes, Moves, Alone, Section
  <2> QED BY <1>2, <2>1, <2>2, <2>3, CallbackKinds
<1>3. ASSUME NEW c \in Callbacks, NEW t \in Timers, Fire(c, t) PROVE FlagOwned'
  <2>1. \A d \in Callbacks \ {c} : cb'[d] = cb[d]
    BY <1>3, FireEffect DEF Types, CbTypes, DataTypes
  <2>2. cb[c].pc = "idle" /\ UNCHANGED isDbRuning
    BY <1>3 DEF Fire
  <2> QED BY <2>1, <2>2 DEF Section
<1>4. CASE UNCHANGED <<cb, isDbRuning>>
  BY <1>4
<1>5. Insert \/ (\E t \in Timers : Collect(t)) \/ UNCHANGED vars => UNCHANGED <<cb, isDbRuning>>
  BY DEF Insert, Enqueue, Grow, Put, StoreCount, ResetSteps, TestTimer, StartTimer, Collect, vars
<1> QED BY <1>1, <1>2, <1>3, <1>4, <1>5 DEF Next

\* No exit of a callback leaves isDbRuning set with nobody flushing, not even when
\* callbacks overlap (lines 46-68).
THEOREM FlagAlwaysOwned == Spec => []FlagOwned
<1>1. Init => FlagOwned
  BY DEF Init, FlagOwned
<1> QED BY <1>1, TypesInit, TypesNext, FlagOwnedNext, PTL DEF Spec
=============================================================================
