-------------------- MODULE MaxConcurrentRequests_proofs --------------------
(***************************************************************************)
(* Proofs about MaxConcurrentRequests, for any set of requests, finite or  *)
(* not, and any settings of Startup.                                       *)
(***************************************************************************)
EXTENDS MaxConcurrentRequests, SequenceLemmas

-----------------------------------------------------------------------------
(* The inductive invariant. SlotsBounded alone is not inductive: that a    *)
(* decrement or a hand-over takes exactly one slot away needs to know that *)
(* the holders are finitely many, that whoever is handed a slot was in the *)
(* queue and had none (WaitersQueued), and that nobody decrements where    *)
(* nothing was counted.                                                    *)

\* The middleware never goes beyond the test of line 66 where there is no limit.
UnlimitedInv ==
  ~Limited => /\ \A r \in Requests : pc[r] \notin {"over", "waiting", "decrement"}
              /\ inline = None

LimiterInv == TypeOK /\ IsFiniteSet(Holders) /\ SlotsBounded /\ WaitersQueued /\ InlineHolds /\ UnlimitedInv

\* The counter starts at zero with nobody waiting (lines 22-35 of the middleware).
LEMMA LimiterInit == Init => LimiterInv
<1> SUFFICES ASSUME Init PROVE LimiterInv
  OBVIOUS
<1>1. options \in [limit : Nat, policy : Policies, maxQueueLength : Nat, timed : BOOLEAN]
  <2>1. PICK s \in Settings : options = Configured(s)
    BY DEF Init
  <2>2. s \in [limit : Int, policy : Policies, maxQueueLength : Int, timed : BOOLEAN]
    BY ConstantsOK
  <2>3. \A l, n \in Nat : [s EXCEPT !.limit = l, !.maxQueueLength = n]
                          \in [limit : Nat, policy : Policies, maxQueueLength : Nat, timed : BOOLEAN]
    BY <2>2
  <2>4. /\ (IF s.limit < ConcurrentRequestsUnlimited THEN ConcurrentRequestsUnlimited ELSE s.limit) \in Nat
        /\ (IF s.maxQueueLength < 0 THEN 0 ELSE s.maxQueueLength) \in Nat
    BY <2>2, ConstantsOK
  <2> QED BY <2>1, <2>3, <2>4, Zenon DEF Configured
<1>2. TypeOK
  BY <1>1 DEF Init, TypeOK
<1>3. Holders = {}
  BY DEF Init, Holders
<1>4. IsFiniteSet(Holders) /\ SlotsBounded
  BY <1>1, <1>3, FS_EmptySet DEF SlotsBounded, Init
<1>5. WaitersQueued
  BY <1>1, ToSetEmpty DEF Init, WaitersQueued
<1>6. InlineHolds /\ UnlimitedInv
  BY DEF Init, InlineHolds, UnlimitedInv
<1> QED BY <1>2, <1>4, <1>5, <1>6 DEF LimiterInv

-----------------------------------------------------------------------------
(* The queue. Each step that changes it keeps its members the waiters.     *)

\* The first of the queue waits for a slot and holds none.
LEMMA HeadWaits ==
  ASSUME TypeOK, WaitersQueued, queue # <<>>
  PROVE  /\ Head(queue) \in Requests /\ pc[Head(queue)] = "waiting"
         /\ Tail(queue) \in Seq(Requests) /\ IsInjective(Tail(queue))
         /\ Len(Tail(queue)) = Len(queue) - 1 /\ Len(queue) \in Nat
         /\ ToSet(Tail(queue)) = {r \in Requests : pc[r] = "waiting"} \ {Head(queue)}
<1>1. queue \in Seq(Requests) /\ IsInjective(queue) /\ ToSet(queue) = {r \in Requests : pc[r] = "waiting"}
  BY DEF TypeOK, WaitersQueued
<1>2. /\ Tail(queue) \in Seq(Requests) /\ Len(Tail(queue)) = Len(queue) - 1
      /\ Head(queue) \in ToSet(queue)
      /\ IsInjective(Tail(queue)) /\ ToSet(Tail(queue)) = ToSet(queue) \ {Head(queue)}
  BY <1>1, TailElements
<1> QED BY <1>1, <1>2, LenProperties

\* EnqueueAsync (lines 37-92 of the enqueuer): into the queue, or in the place of its
\* head, or not at all.
LEMMA EnqueueWaiters ==
  ASSUME TypeOK, WaitersQueued, NEW r \in Requests, EnqueueAsync(r)
  PROVE  /\ queue' \in Seq(Requests) /\ WaitersQueued'
         /\ \A q \in Requests :
              \/ pc'[q] = pc[q]
              \/ pc[q] \in {"over", "waiting"} /\ pc'[q] \in {"idle", "rejected", "waiting"}
         /\ pc' \in [Requests -> {"idle", "rejected", "over", "waiting", "running", "leaving", "decrement"}]
<1> DEFINE full == Len(queue) >= options.maxQueueLength
           dropHead == full /\ options.policy = "FifoQueueDropHead"
           room == IF dropHead THEN Tail(queue) ELSE queue
           enters == (~full \/ dropHead) /\ r \notin aborted
<1>1. /\ pc[r] = "over" /\ options.maxQueueLength > 0
      /\ queue' = IF enters THEN Append(room, r) ELSE room
      /\ pc' = [q \in Requests |->
                  IF q = r THEN IF enters THEN "waiting" ELSE Refused(r)
                  ELSE IF dropHead /\ q = Head(queue) THEN Refused(q)
                  ELSE pc[q]]
      /\ UNCHANGED options
  BY DEF EnqueueAsync
<1>2. /\ queue \in Seq(Requests) /\ Len(queue) \in Nat /\ options.maxQueueLength \in Nat
      /\ pc \in [Requests -> {"idle", "rejected", "over", "waiting", "running", "leaving", "decrement"}]
      /\ IsInjective(queue) /\ ToSet(queue) = {q \in Requests : pc[q] = "waiting"}
      /\ Len(queue) <= options.maxQueueLength
  BY LenProperties DEF TypeOK, WaitersQueued
<1>3. \A q : Refused(q) \in {"idle", "rejected"}
  BY DEF Refused
<1>4. full => queue # <<>>
  BY <1>1, <1>2, EmptySeq
<1>5. /\ room \in Seq(Requests) /\ IsInjective(room) /\ Len(room) \in Nat
      /\ ToSet(room) = {q \in Requests : pc[q] = "waiting" /\ ~(dropHead /\ q = Head(queue))}
      /\ dropHead => Len(room) = Len(queue) - 1 /\ pc[Head(queue)] = "waiting"
      /\ ~dropHead => Len(room) = Len(queue)
  <2>1. CASE dropHead
    BY <1>2, <1>4, <2>1, HeadWaits
  <2>2. CASE ~dropHead
    BY <1>2, <2>2
  <2> QED BY <2>1, <2>2
<1> HIDE DEF room
<1>6. r \notin ToSet(room)
  BY <1>1, <1>5
<1>7. CASE enters
  <2>1. /\ queue' = Append(room, r) /\ Append(room, r) \in Seq(Requests)
        /\ Len(Append(room, r)) = Len(room) + 1
    BY <1>1, <1>5, <1>7, AppendProperties
  <2>2. ToSet(Append(room, r)) = ToSet(room) \cup {r}
    BY <1>5, ToSetAppends
  <2>3. IsInjective(Append(room, r))
    BY <1>5, <1>6, AppendInjects
  <2>4. Len(room) + 1 <= options.maxQueueLength
    BY <1>2, <1>5, <1>7
  <2>5. {q \in Requests : pc'[q] = "waiting"} = ToSet(room) \cup {r}
    BY <1>1, <1>3, <1>5, <1>7
  <2> QED BY <1>1, <1>2, <1>3, <1>5, <1>7, <2>1, <2>2, <2>3, <2>4, <2>5 DEF WaitersQueued
<1>8. CASE ~enters
  <2>1. queue' = room /\ Len(room) <= options.maxQueueLength
    BY <1>1, <1>2, <1>5, <1>8
  <2>2. {q \in Requests : pc'[q] = "waiting"} = ToSet(room)
    BY <1>1, <1>3, <1>5, <1>8
  <2> QED BY <1>1, <1>2, <1>3, <1>5, <1>8, <2>1, <2>2 DEF WaitersQueued
<1> QED BY <1>7, <1>8

\* CancelEnqueue (lines 94-137 of the enqueuer) takes its own request out, and no other.
LEMMA CancelWaiters ==
  ASSUME TypeOK, WaitersQueued, NEW r \in Requests, CancelEnqueue(r)
  PROVE  queue' \in Seq(Requests) /\ WaitersQueued'
<1>1. /\ queue \in Seq(Requests) /\ IsInjective(queue) /\ r \in ToSet(queue)
      /\ ToSet(queue) = {q \in Requests : pc[q] = "waiting"}
      /\ Len(queue) <= options.maxQueueLength /\ Len(queue) \in Nat /\ options.maxQueueLength \in Nat
  BY LenProperties DEF TypeOK, WaitersQueued, CancelEnqueue
<1>2. /\ RemoveFirst(queue, r) \in Seq(Requests) /\ Len(RemoveFirst(queue, r)) = Len(queue) - 1
      /\ IsInjective(RemoveFirst(queue, r)) /\ ToSet(RemoveFirst(queue, r)) = ToSet(queue) \ {r}
  BY <1>1, RemoveFirstElements
<1>3. {q \in Requests : pc'[q] = "waiting"} = ToSet(queue) \ {r}
  BY <1>1 DEF CancelEnqueue, Refused, TypeOK
<1>4. queue' = RemoveFirst(queue, r) /\ UNCHANGED options
  BY DEF CancelEnqueue
<1> QED BY <1>1, <1>2, <1>3, <1>4 DEF WaitersQueued

\* Dequeue (lines 61-75 of the enqueuer) takes the first.
LEMMA HandOverWaiters ==
  ASSUME TypeOK, WaitersQueued, NEW r \in Requests, HandOver(r)
  PROVE  queue' \in Seq(Requests) /\ WaitersQueued'
<1>1. queue # <<>> /\ queue' = Tail(queue) /\ UNCHANGED options
      /\ pc' = [pc EXCEPT ![r] = "idle", ![Head(queue)] = "running"] /\ pc[r] = "leaving"
  BY DEF HandOver
<1>2. {q \in Requests : pc'[q] = "waiting"} = {q \in Requests : pc[q] = "waiting"} \ {Head(queue)}
  BY <1>1, HeadWaits DEF TypeOK
<1>3. Len(queue) <= options.maxQueueLength /\ options.maxQueueLength \in Nat
  BY DEF WaitersQueued, TypeOK
<1>4. /\ Tail(queue) \in Seq(Requests) /\ IsInjective(Tail(queue))
      /\ Len(Tail(queue)) = Len(queue) - 1 /\ Len(queue) \in Nat
      /\ ToSet(Tail(queue)) = {q \in Requests : pc[q] = "waiting"} \ {Head(queue)}
  BY <1>1, HeadWaits
<1>5. Len(Tail(queue)) <= options.maxQueueLength
  BY <1>3, <1>4
<1> QED BY <1>1, <1>2, <1>4, <1>5 DEF WaitersQueued

\* The other steps leave the queue and its members alone.
LEMMA OtherWaiters ==
  ASSUME TypeOK, WaitersQueued, UNCHANGED <<options, queue>>,
         \A r \in Requests : pc'[r] = "waiting" <=> pc[r] = "waiting"
  PROVE  queue' \in Seq(Requests) /\ WaitersQueued'
BY DEF TypeOK, WaitersQueued

-----------------------------------------------------------------------------
(* The slots.                                                              *)

\* A step that changes where one request is changes the number of holders by that one.
LEMMA HoldersMove ==
  ASSUME IsFiniteSet(Holders), NEW r \in Requests,
         \A q \in Requests \ {r} : pc'[q] = pc[q]
  PROVE  /\ IsFiniteSet(Holders')
         /\ Cardinality(Holders) \in Nat
         /\ r \in Holders /\ r \in Holders' => Cardinality(Holders') = Cardinality(Holders)
         /\ r \notin Holders /\ r \notin Holders' => Cardinality(Holders') = Cardinality(Holders)
         /\ r \notin Holders /\ r \in Holders' => Cardinality(Holders') = Cardinality(Holders) + 1
         /\ r \in Holders /\ r \notin Holders' => /\ Cardinality(Holders') = Cardinality(Holders) - 1
                                                  /\ Cardinality(Holders) > 0
<1>1. \/ Holders' = Holders /\ (r \in Holders <=> r \in Holders')
      \/ Holders' = Holders \cup {r} /\ r \notin Holders
      \/ Holders' = Holders \ {r} /\ r \in Holders
  BY DEF Holders
<1>2. /\ IsFiniteSet(Holders \cup {r})
      /\ r \notin Holders => Cardinality(Holders \cup {r}) = Cardinality(Holders) + 1
  BY FS_AddElement
<1>3. /\ IsFiniteSet(Holders \ {r})
      /\ r \in Holders => Cardinality(Holders \ {r}) = Cardinality(Holders) - 1
  BY FS_RemoveElement
<1>4. Cardinality(Holders) \in Nat /\ Cardinality(Holders \ {r}) \in Nat
  BY <1>3, FS_CardinalityType
<1>5. CASE Holders' = Holders /\ (r \in Holders <=> r \in Holders')
  BY <1>4, <1>5
<1>6. CASE Holders' = Holders \cup {r} /\ r \notin Holders
  <2>1. r \in Holders'
    BY <1>6
  <2> QED BY <1>2, <1>4, <1>6, <2>1
<1>7. CASE Holders' = Holders \ {r} /\ r \in Holders
  <2>1. r \notin Holders'
    BY <1>7
  <2>2. Cardinality(Holders) > 0
    BY <1>3, <1>4, <1>7
  <2> QED BY <1>3, <1>4, <1>7, <2>1, <2>2
<1> QED BY <1>1, <1>5, <1>6, <1>7

\* A hand-over moves a slot from the request that leaves to the first in the queue.
LEMMA HandOverHolders ==
  ASSUME LimiterInv, NEW r \in Requests, HandOver(r)
  PROVE  IsFiniteSet(Holders') /\ Cardinality(Holders') = Cardinality(Holders)
<1> DEFINE h == Head(queue)
<1>1. /\ pc[r] = "leaving" /\ pc[h] = "waiting" /\ h \in Requests
      /\ pc' = [pc EXCEPT ![r] = "idle", ![h] = "running"]
      /\ pc \in [Requests -> {"idle", "rejected", "over", "waiting", "running", "leaving", "decrement"}]
      /\ IsFiniteSet(Holders)
  BY HeadWaits DEF HandOver, LimiterInv, TypeOK
<1> HIDE DEF h
<1>2. r \in Holders /\ h \notin Holders /\ Holders' = (Holders \ {r}) \cup {h}
  BY <1>1 DEF Holders
<1>3. IsFiniteSet(Holders \ {r}) /\ Cardinality(Holders \ {r}) = Cardinality(Holders) - 1
  BY <1>1, <1>2, FS_RemoveElement
<1>4. /\ IsFiniteSet((Holders \ {r}) \cup {h})
      /\ Cardinality((Holders \ {r}) \cup {h}) = Cardinality(Holders) - 1 + 1
  BY <1>2, <1>3, FS_AddElement
<1>5. Cardinality(Holders) \in Nat
  BY <1>1, FS_CardinalityType
<1> QED BY <1>2, <1>4, <1>5

-----------------------------------------------------------------------------
(* Every step keeps the invariant.                                         *)

PCs == {"idle", "rejected", "over", "waiting", "running", "leaving", "decrement"}
Holding == {"running", "leaving", "decrement"}

Slot(at) == IF at \in Holding THEN 1 ELSE 0

\* A step that moves one request to or from anywhere but the queue: what is left to show is
\* that the counter counts the slots, and that nobody but a holder is left in the lock.
LEMMA MoveKeeps ==
  ASSUME LimiterInv, NEW r \in Requests,
         pc' \in [Requests -> PCs], \A q \in Requests \ {r} : pc'[q] = pc[q],
         pc[r] # "waiting", pc'[r] # "waiting", ~Limited => pc'[r] \notin {"over", "decrement"},
         UNCHANGED <<options, queue>>, aborted' \subseteq Requests,
         inline' \in {None, inline}, inline' = r => pc'[r] \in Holding,
         leaked' \in Nat, count' \in Int, ~Limited => count' = count,
         Limited => /\ count' - leaked' - Slot(pc'[r]) = count - leaked - Slot(pc[r])
                    /\ count' <= options.limit
  PROVE  LimiterInv'
<1> USE DEF PCs, Holding
<1>1. /\ TypeOK /\ WaitersQueued /\ InlineHolds /\ UnlimitedInv /\ IsFiniteSet(Holders)
      /\ count \in Nat /\ leaked \in Nat /\ options.limit \in Nat
      /\ Limited => count = Cardinality(Holders) + leaked
      /\ Limited' <=> Limited
  BY DEF LimiterInv, TypeOK, SlotsBounded, Limited
<1>2. /\ IsFiniteSet(Holders') /\ Cardinality(Holders) \in Nat
      /\ Cardinality(Holders') - Slot(pc'[r]) = Cardinality(Holders) - Slot(pc[r])
  <2>1. (r \in Holders <=> pc[r] \in Holding) /\ (r \in Holders' <=> pc'[r] \in Holding)
    BY DEF Holders
  <2>2. /\ IsFiniteSet(Holders')
        /\ Cardinality(Holders) \in Nat
        /\ r \in Holders /\ r \in Holders' => Cardinality(Holders') = Cardinality(Holders)
        /\ r \notin Holders /\ r \notin Holders' => Cardinality(Holders') = Cardinality(Holders)
        /\ r \notin Holders /\ r \in Holders' => Cardinality(Holders') = Cardinality(Holders) + 1
        /\ r \in Holders /\ r \notin Holders' => Cardinality(Holders') = Cardinality(Holders) - 1
    BY <1>1, HoldersMove
  <2> QED BY <2>1, <2>2 DEF Slot
<1>3. Cardinality(Holders') \in Nat /\ Slot(pc[r]) \in Nat /\ Slot(pc'[r]) \in Nat
  BY <1>2, FS_CardinalityType DEF Slot
<1>4. SlotsBounded' /\ count' \in Nat
  <2>1. CASE Limited
    <3>1. /\ count' - leaked' - Slot(pc'[r]) = count - leaked - Slot(pc[r])
          /\ count = Cardinality(Holders) + leaked
      BY <1>1, <2>1
    <3>2. count' = count - leaked - Slot(pc[r]) + leaked' + Slot(pc'[r])
      BY <1>1, <1>3, <3>1
    <3>3. count - leaked = Cardinality(Holders)
      BY <1>1, <1>2, <3>1
    <3>4. Cardinality(Holders) - Slot(pc[r]) = Cardinality(Holders') - Slot(pc'[r])
      BY <1>2
    <3>5. count' = Cardinality(Holders') + leaked'
      BY <1>1, <1>2, <1>3, <3>2, <3>3, <3>4
    <3> QED BY <1>1, <1>3, <2>1, <3>5 DEF SlotsBounded
  <2>2. CASE ~Limited
    BY <1>1, <2>2 DEF SlotsBounded
  <2> QED BY <2>1, <2>2
<1>5. TypeOK'
  BY <1>1, <1>4 DEF TypeOK
<1>6. WaitersQueued'
  BY <1>1, OtherWaiters
<1>7. InlineHolds'
  BY <1>1 DEF InlineHolds, TypeOK
<1>8. UnlimitedInv'
  BY <1>1 DEF UnlimitedInv
<1> QED BY <1>2, <1>4, <1>5, <1>6, <1>7, <1>8 DEF LimiterInv

\* A step that changes the queue: it moves no slot to or from anybody but through the
\* counted hand-over, and only a request that is handed a slot gets inside the lock.
LEMMA QueueKeeps ==
  ASSUME LimiterInv, Limited, UNCHANGED <<options, count, leaked, aborted>>,
         queue' \in Seq(Requests), WaitersQueued', pc' \in [Requests -> PCs],
         IsFiniteSet(Holders'), Cardinality(Holders') = Cardinality(Holders),
         inline' \in Requests \cup {None}, InlineHolds'
  PROVE  LimiterInv'
<1>1. TypeOK' /\ SlotsBounded'
  BY DEF LimiterInv, TypeOK, SlotsBounded, Limited, PCs
<1>2. UnlimitedInv'
  BY DEF UnlimitedInv, Limited
<1> QED BY <1>1, <1>2 DEF LimiterInv

\* Every step of a request keeps the invariant.
LEMMA LimiterNext == LimiterInv /\ [Next]_vars => LimiterInv'
<1> SUFFICES ASSUME LimiterInv, [Next]_vars PROVE LimiterInv'
  OBVIOUS
<1>1. /\ TypeOK /\ WaitersQueued /\ InlineHolds /\ UnlimitedInv /\ IsFiniteSet(Holders)
      /\ pc \in [Requests -> PCs] /\ count \in Nat /\ leaked \in Nat /\ options.limit \in Nat
      /\ aborted \subseteq Requests /\ inline \in Requests \cup {None}
      /\ Limited => count = Cardinality(Holders) + leaked /\ count <= options.limit
      /\ None \notin Requests
  BY ConstantsOK DEF LimiterInv, TypeOK, SlotsBounded, PCs
<1>2. CASE UNCHANGED vars
  BY <1>2 DEF vars, LimiterInv, TypeOK, Holders, SlotsBounded, WaitersQueued, InlineHolds,
              UnlimitedInv, Limited
<1>3. ASSUME NEW r \in Requests,
             \/ Arrive(r) \/ Refuse(r) \/ EnqueueAsync(r) \/ Abort(r) \/ CancelEnqueue(r)
             \/ Yield(r) \/ Finish(r) \/ Fail(r) \/ HandOver(r) \/ NoHandOver(r) \/ Decrement(r)
      PROVE  LimiterInv'
  <2> USE <1>1 DEF PCs, Holding, Slot
  <2>1. CASE Arrive(r)
    <3>1. inline # r
      BY <2>1 DEF Arrive, InlineHolds
    <3> QED BY <2>1, <3>1, MoveKeeps DEF Arrive
  <2>2. CASE Refuse(r)
    <3>1. inline # r /\ Refused(r) \in {"idle", "rejected"}
      BY <2>2 DEF Refuse, InlineHolds, Refused
    <3> QED BY <2>2, <3>1, MoveKeeps DEF Refuse
  <2>3. CASE EnqueueAsync(r)
    <3>1. /\ queue' \in Seq(Requests) /\ WaitersQueued' /\ pc' \in [Requests -> PCs]
          /\ \A q \in Requests :
               \/ pc'[q] = pc[q]
               \/ pc[q] \in {"over", "waiting"} /\ pc'[q] \in {"idle", "rejected", "waiting"}
      BY <2>3, EnqueueWaiters
    <3>2. Limited /\ UNCHANGED <<options, count, leaked, aborted, inline>>
      BY <2>3 DEF EnqueueAsync, UnlimitedInv
    <3>3. Holders' = Holders
      BY <3>1 DEF Holders
    <3>4. InlineHolds'
      BY <3>1, <3>2 DEF InlineHolds
    <3> QED BY <3>1, <3>2, <3>3, <3>4, QueueKeeps
  <2>4. CASE Abort(r)
    BY <2>4 DEF Abort, LimiterInv, TypeOK, Holders, SlotsBounded, WaitersQueued, InlineHolds,
                UnlimitedInv, Limited
  <2>5. CASE CancelEnqueue(r)
    <3>1. queue' \in Seq(Requests) /\ WaitersQueued'
      BY <2>5, CancelWaiters
    <3>2. /\ pc[r] = "waiting" /\ pc' = [pc EXCEPT ![r] = Refused(r)] /\ Refused(r) \in {"idle", "rejected"}
          /\ Limited /\ UNCHANGED <<options, count, leaked, aborted, inline>>
      BY <2>5 DEF CancelEnqueue, UnlimitedInv, Refused
    <3>3. Holders' = Holders
      BY <3>2 DEF Holders
    <3>4. InlineHolds'
      BY <3>2 DEF InlineHolds
    <3> QED BY <3>1, <3>2, <3>3, <3>4, QueueKeeps
  <2>6. CASE Yield(r)
    BY <2>6 DEF Yield, LimiterInv, TypeOK, Holders, SlotsBounded, WaitersQueued, InlineHolds,
                UnlimitedInv, Limited
  <2>7. CASE Finish(r)
    BY <2>7, MoveKeeps DEF Finish
  <2>8. CASE Fail(r)
    BY <2>8, MoveKeeps DEF Fail, Unwind
  <2>9. CASE HandOver(r)
    <3>1. queue' \in Seq(Requests) /\ WaitersQueued'
      BY <2>9, HandOverWaiters
    <3>2. IsFiniteSet(Holders') /\ Cardinality(Holders') = Cardinality(Holders)
      BY <2>9, HandOverHolders
    <3>3. /\ Head(queue) \in Requests /\ pc[r] = "leaving" /\ pc[Head(queue)] = "waiting"
          /\ pc' = [pc EXCEPT ![r] = "idle", ![Head(queue)] = "running"]
          /\ inline' \in {Head(queue), None} /\ Limited
          /\ UNCHANGED <<options, count, leaked, aborted>>
      BY <2>9, HeadWaits DEF HandOver, CanLock
    <3>4. InlineHolds'
      BY <3>3 DEF InlineHolds
    <3> QED BY <3>1, <3>2, <3>3, <3>4, QueueKeeps
  <2>10. CASE NoHandOver(r)
    <3>1. CASE ~Limited
      <4>1. inline = None /\ pc' = [pc EXCEPT ![r] = "idle"]
        BY <2>10, <3>1 DEF NoHandOver, UnlimitedInv
      <4> QED BY <2>10, <3>1, <4>1, MoveKeeps DEF NoHandOver
    <3>2. CASE Limited
      BY <2>10, <3>2, MoveKeeps DEF NoHandOver
    <3> QED BY <3>1, <3>2
  <2>11. CASE Decrement(r)
    <3>1. Limited /\ pc[r] = "decrement"
      BY <2>11 DEF Decrement, UnlimitedInv
    <3> QED BY <2>11, <3>1, MoveKeeps DEF Decrement, Unwind
  <2> QED BY <1>3, <2>1, <2>2, <2>3, <2>4, <2>5, <2>6, <2>7, <2>8, <2>9, <2>10, <2>11
<1> QED BY <1>2, <1>3 DEF Next

-----------------------------------------------------------------------------
(* The theorems.                                                           *)

\* The invariant holds in every behaviour of the limiter.
THEOREM LimiterInvariant == Spec => []LimiterInv
BY LimiterInit, LimiterNext, PTL DEF Spec

\* Every variable has its type; among others the counter never gets below zero.
THEOREM LimiterTyped == Spec => []TypeOK
<1>1. LimiterInv => TypeOK
  BY DEF LimiterInv
<1> QED BY <1>1, LimiterInvariant, PTL

\* The counter is exactly the slots in use and lost, and never more than Limit.
THEOREM SlotsAlwaysBounded == Spec => []SlotsBounded
<1>1. LimiterInv => SlotsBounded
  BY DEF LimiterInv
<1> QED BY <1>1, LimiterInvariant, PTL

\* The waiting requests are those in the queue, each once, in a queue of at most
\* MaxQueueLength.
THEOREM WaitersAlwaysQueued == Spec => []WaitersQueued
<1>1. LimiterInv => WaitersQueued
  BY DEF LimiterInv
<1> QED BY <1>1, LimiterInvariant, PTL

\* Only a request with a slot runs inside the enqueuer's lock.
THEOREM InlineAlwaysHolds == Spec => []InlineHolds
<1>1. LimiterInv => InlineHolds
  BY DEF LimiterInv
<1> QED BY <1>1, LimiterInvariant, PTL
=============================================================================
