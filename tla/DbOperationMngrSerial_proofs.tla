-------------------- MODULE DbOperationMngrSerial_proofs --------------------
(***************************************************************************)
(* Proofs about SerialSpec: the queue while its flushes do not overlap, no *)
(* update of it is torn and no acknowledgement of a commit is lost. The    *)
(* circular array keeps every row until a Dequeue takes it, and the queue  *)
(* is an AsyncWriter, for any types, threads, batch size, growth and       *)
(* number of rows.                                                         *)
(***************************************************************************)
EXTENDS DbOperationMngr_proofs

-----------------------------------------------------------------------------
(* The inductive invariant, in two layers. The ring: between the head and  *)
(* the tail the array holds the newest rows in order, whichever of the two *)
(* an insert or a Dequeue under way has moved already, and whether _size   *)
(* says so already or not. The rows: those written are less than those in  *)
(* the batch of the one callback that flushes, and those are less than the *)
(* first one in the queue.                                                 *)

One(b) == IF b THEN 1 ELSE 0
Taking == \E c \in Callbacks : Dequeuing(c)
Behind == \E c \in Callbacks : cb[c].pc \in {"clear", "advance"}

\* What _size would be if nobody were inside an Enqueue or a Dequeue.
Waiting == count + One(insert.pc = "count") - One(Taking)
\* How far the head is behind the first row in the queue.
Offset == One(Behind)
\* The first row in the queue: the newest rows wait.
First == Len(rows) + 1 - Waiting
\* The place k places behind the head.
Slot(k) == IF head + k <= Len(array) THEN head + k ELSE head + k - Len(array)

RingInv ==
  /\ 0 <= Waiting /\ Offset + Waiting <= Len(array) /\ count <= Len(array)
  /\ array # <<>> => tail = Slot(Offset + Waiting)
  /\ \A j \in Nat : j < Waiting => array[Slot(Offset + j)] = First + j
  /\ insert.pc = "put" => Offset + Waiting < Len(array)
  /\ insert.pc = "count" => insert.reg = count
  /\ insert.pc = "grow" =>
       count = Len(array) /\ \A i \in 1 .. count : insert.grown[i] = First + i - 1
  /\ \A c \in Callbacks :
       /\ cb[c].pc = "advance" => cb[c].reg = head
       /\ cb[c].pc = "shrink" => cb[c].reg = count

QueueInv == 1 <= firstRow /\ firstRow <= First

WrittenInv ==
  /\ \A k \in 1 .. Len(written) : 1 <= written[k] /\ written[k] < First
  /\ \A k, l \in 1 .. Len(written) : k < l => written[k] < written[l]

BatchInv == \A c \in Callbacks :
  /\ cb[c].pc \notin {"loop", "clear", "advance", "shrink", "write"} => cb[c].batch = <<>>
  /\ \A i \in 1 .. Len(cb[c].batch) :
       /\ firstRow <= cb[c].batch[i] /\ cb[c].batch[i] < First
       /\ \A k \in 1 .. Len(written) : written[k] < cb[c].batch[i]
  /\ \A i, j \in 1 .. Len(cb[c].batch) : i < j => cb[c].batch[i] < cb[c].batch[j]

\* A row that has left the queue is in a batch or in the database.
KeptInv == \A r \in firstRow .. First - 1 : InBatch(r) \/ r \in ToSet(written)

RowsInv == QueueInv /\ WrittenInv /\ BatchInv /\ KeptInv
SerialInv == NoOverlap /\ Untorn /\ RingInv /\ RowsInv

-----------------------------------------------------------------------------
(* The ring.                                                               *)

\* The terms of the ring are integers, and its places are places of the array.
LEMMA RingTypes ==
  ASSUME Types
  PROVE  /\ Len(rows) \in Nat /\ Len(array) \in Nat /\ array \in Seq(Nat)
         /\ head \in Nat \ {0} /\ tail \in Int /\ count \in Int /\ firstRow \in Nat
         /\ (array # <<>> => head <= Len(array) /\ Len(array) > 0)
         /\ Waiting \in Int /\ Offset \in Nat /\ Offset <= 1 /\ First \in Int
BY DEF Types, DataTypes, PlaceInv, HeadInv, Waiting, Offset, First, One

\* Places within the array's length of the head differ, and follow each other.
LEMMA SlotFacts ==
  ASSUME Types, array # <<>>
  PROVE  /\ \A k \in Nat : k <= Len(array) => Slot(k) \in 1 .. Len(array)
         /\ \A k \in Nat : k < Len(array) => Slot(k + 1) = Wrapped(Slot(k))
         /\ \A j, k \in Nat : j < k /\ k < Len(array) => Slot(j) # Slot(k)
         /\ Slot(0) = head /\ Slot(Len(array)) = head
<1>1. /\ Len(array) \in Nat /\ head \in Nat /\ 1 <= head /\ head <= Len(array)
  BY RingTypes
<1>2. ASSUME NEW n \in Nat, n = Len(array)
      PROVE  /\ \A k \in Nat : k <= n => Slot(k) \in 1 .. n
             /\ \A k \in Nat : k < n => Slot(k + 1) = Wrapped(Slot(k))
             /\ \A j, k \in Nat : j < k /\ k < n => Slot(j) # Slot(k)
             /\ Slot(0) = head /\ Slot(n) = head
  BY <1>1, <1>2 DEF Slot, Wrapped
<1> QED BY <1>1, <1>2

\* In a flush, the callback that flushes is the one that can be inside a Dequeue.
LEMMA PhaseStep ==
  ASSUME NoOverlap, NEW c \in Callbacks, Flushing(c), Alone(c)
  PROVE  /\ Taking <=> Dequeuing(c)
         /\ Taking' <=> Dequeuing(c)'
         /\ Behind <=> cb[c].pc \in {"clear", "advance"}
         /\ Behind' <=> cb'[c].pc \in {"clear", "advance"}
         /\ \A d \in Callbacks \ {c} : cb'[d].pc \notin {"advance", "shrink"}
<1>1. \A d \in Callbacks \ {c} : ~Flushing(d) /\ cb'[d] = cb[d]
  BY DEF NoOverlap, Alone
<1>2. \A d \in Callbacks \ {c} :
        /\ cb[d].pc \notin {"clear", "advance", "shrink"}
        /\ cb'[d].pc \notin {"clear", "advance", "shrink"}
  BY <1>1 DEF Flushing, Section
<1> QED BY <1>2 DEF Taking, Behind, Dequeuing

\* The steps that leave the queue alone keep the ring.
LEMMA RingStill ==
  ASSUME RingInv, UNCHANGED <<rows, array, head, tail, count>>,
         Taking' <=> Taking, Behind' <=> Behind,
         insert'.pc = "count" <=> insert.pc = "count",
         insert'.pc \in {"put", "count", "grow"} => UNCHANGED insert,
         \A c \in Callbacks : cb'[c].pc \in {"advance", "shrink"} => cb'[c] = cb[c]
  PROVE  RingInv' /\ UNCHANGED First
<1>1. UNCHANGED <<Waiting, Offset, First>>
  BY DEF Waiting, Offset, First, One
<1> QED BY <1>1 DEF RingInv, Slot

\* A growth copies the rows of the queue in their order.
LEMMA GrownRows ==
  ASSUME Types, RingInv, ~Taking, ~Behind, insert.pc = "idle", count = Len(array)
  PROVE  \A i \in 1 .. count : Grown[i] = First + i - 1
<1>1. Waiting = count /\ Offset = 0
  BY RingTypes DEF Waiting, Offset, One
<1> SUFFICES ASSUME NEW i \in 1 .. count PROVE Grown[i] = First + i - 1
  OBVIOUS
<1>2. array # <<>> /\ head \in 1 .. Len(array) /\ count \in Nat
  BY RingTypes
<1>3. tail = head
  BY <1>1, <1>2, RingTypes DEF RingInv, Slot
<1>4. array[Slot(i - 1)] = First + i - 1
  <2>1. i - 1 \in Nat /\ i - 1 < Waiting /\ Offset + (i - 1) = i - 1 /\ First + (i - 1) = First + i - 1
    BY <1>1, <1>2, RingTypes
  <2> QED BY <2>1 DEF RingInv
<1>5. i \in 1 .. Max2(2 * Len(array), Len(array) + MinimumGrow)
  BY <1>2, ConstantsOK, RingTypes DEF Max2
<1> DEFINE unwrapped == Len(array) - head + 1
<1>6. Grown[i] = IF i <= unwrapped THEN array[head + i - 1]
                 ELSE IF i <= unwrapped + (tail - 1) THEN array[i - unwrapped]
                 ELSE Null
  <2>1. ~(head < tail)
    BY <1>3, RingTypes
  <2>2. Grown = [k \in 1 .. Max2(2 * Len(array), Len(array) + MinimumGrow) |->
                   IF k <= unwrapped THEN array[head + k - 1]
                   ELSE IF k <= unwrapped + (tail - 1) THEN array[k - unwrapped]
                   ELSE Null]
    BY <2>1 DEF Grown
  <2> HIDE DEF unwrapped
  <2> QED BY <1>5, <2>2
<1>7. CASE i <= unwrapped
  <2>1. Slot(i - 1) = head + i - 1
    BY <1>2, <1>7, RingTypes DEF Slot
  <2> QED BY <1>4, <1>6, <1>7, <2>1
<1>8. CASE ~(i <= unwrapped)
  <2>1. Slot(i - 1) = i - unwrapped /\ i <= unwrapped + (tail - 1)
    BY <1>2, <1>3, <1>8, RingTypes DEF Slot
  <2> QED BY <1>4, <1>6, <1>8, <2>1
<1> QED BY <1>7, <1>8

\* A growth keeps the ring: nobody is inside a Dequeue.
LEMMA RingGrow ==
  ASSUME Types, Types', SerialInv, Grow
  PROVE  RingInv' /\ UNCHANGED First
<1>1. /\ UNCHANGED <<rows, count, cb>> /\ insert.pc = "grow" /\ insert'.pc = "put"
      /\ array' = insert.grown /\ head' = 1
      /\ tail' = IF count = Len(array') THEN 1 ELSE count + 1
  BY DEF Grow, Proceed
<1>2. Len(array') > Len(array) /\ count = Len(array) /\ Len(array') \in Nat
  BY <1>1 DEF SerialInv, RingInv, Types, DataTypes, PlaceInv, InsertInv
<1>3. ~Taking /\ ~Behind /\ ~Taking' /\ ~Behind'
  BY <1>1 DEF SerialInv, Untorn, Taking, Behind, Dequeuing
<1>4. /\ Waiting = count /\ Waiting' = count /\ Offset = 0 /\ Offset' = 0
      /\ UNCHANGED First
  BY <1>1, <1>3, RingTypes DEF Waiting, Offset, First, One
<1>5. \A i \in 1 .. count : array'[i] = First + i - 1
  BY <1>1 DEF SerialInv, RingInv
<1>6. ASSUME NEW j \in Nat, j <= count PROVE Slot(j)' = j + 1
  <2>1. head' + j <= Len(array') /\ head' + j = j + 1
    BY <1>1, <1>2, <1>6, RingTypes
  <2> QED BY <2>1 DEF Slot
<1>7. \A c \in Callbacks : cb'[c].pc \notin {"advance", "shrink"}
  BY <1>3 DEF Taking, Dequeuing
<1>8. tail' = Slot(Offset + Waiting)'
  BY <1>1, <1>2, <1>4, <1>6, RingTypes
<1>9. \A j \in Nat : j < Waiting' => array'[Slot(Offset + j)'] = First' + j
  <2> SUFFICES ASSUME NEW j \in Nat, j < count PROVE array'[Slot(0 + j)'] = First + j
    BY <1>4
  <2>1. Slot(0 + j)' = j + 1
    BY <1>6, RingTypes DEF Slot
  <2>2. j + 1 \in 1 .. count /\ First + (j + 1) - 1 = First + j
    BY RingTypes
  <2> QED BY <1>5, <2>1, <2>2
<1> QED BY <1>1, <1>2, <1>4, <1>7, <1>8, <1>9, RingTypes DEF RingInv

\* A row goes behind the others. Its slot is free.
LEMMA RingPut ==
  ASSUME Types, Types', SerialInv, NEW kind \in Kinds, Put(kind)
  PROVE  RingInv' /\ UNCHANGED First
<1>1. /\ UNCHANGED <<head, count, cb>> /\ insert.pc = "put"
      /\ UNCHANGED One(Taking) /\ UNCHANGED Offset
  BY DEF Put, Taking, Behind, Dequeuing, Offset
<1>2. /\ 0 <= Waiting /\ Offset + Waiting < Len(array) /\ array # <<>>
      /\ tail = Slot(Offset + Waiting) /\ Offset + Waiting \in Nat
  BY <1>1, RingTypes DEF SerialInv, RingInv
<1>3. tail \in 1 .. Len(array)
  <2>1. Offset + Waiting <= Len(array)
    BY <1>2, RingTypes
  <2> QED BY <1>2, <2>1, SlotFacts
<1>4. /\ rows' = Append(rows, kind) /\ array' = [array EXCEPT ![tail] = Len(rows) + 1]
      /\ tail' = Wrapped(tail) /\ insert'.pc = "count" /\ insert'.reg = count
  BY <1>3 DEF Put, Proceed
<1>5. Len(rows') = Len(rows) + 1 /\ Len(array') = Len(array)
  BY <1>4, RingTypes DEF Types, DataTypes
<1>6. Waiting' = Waiting + 1 /\ UNCHANGED First
  <2>1. One(insert.pc = "count") = 0 /\ One(insert.pc = "count")' = 1
    BY <1>1, <1>4 DEF One
  <2>2. One(Taking) \in Nat
    BY DEF One
  <2>3. Waiting' = Waiting + 1
    BY <1>1, <2>1, <2>2, RingTypes DEF Waiting
  <2> QED BY <1>5, <2>3, RingTypes DEF First
<1>7. \A k \in Nat : UNCHANGED Slot(k)
  BY <1>1, <1>5 DEF Slot
<1>8. tail' = Slot(Offset + Waiting + 1)
  BY <1>2, <1>3, <1>4, SlotFacts
<1>9. ASSUME NEW j \in Nat, j < Waiting + 1 PROVE array'[Slot(Offset + j)] = First + j
  <2>1. Slot(Offset + j) \in 1 .. Len(array)
    <3>1. Offset + j \in Nat /\ Offset + j <= Len(array)
      BY <1>2, <1>9, RingTypes
    <3> QED BY <1>2, <3>1, SlotFacts
  <2>2. CASE j < Waiting
    <3>1. Slot(Offset + j) # tail
      <4>1. /\ Offset + j \in Nat /\ Offset + j < Offset + Waiting
            /\ Offset + Waiting < Len(array)
        BY <1>2, <2>2, RingTypes
      <4> QED BY <1>2, <4>1, SlotFacts
    <3>2. array[Slot(Offset + j)] = First + j
      BY <2>2 DEF SerialInv, RingInv
    <3> QED BY <1>4, <2>1, <3>1, <3>2, RingTypes
  <2>3. CASE j = Waiting
    <3>1. First + j = Len(rows) + 1
      BY <2>3, RingTypes DEF First
    <3> QED BY <1>2, <1>3, <1>4, <2>3, <3>1, RingTypes
  <2> QED BY <1>9, <2>2, <2>3, RingTypes
<1>10. \A c \in Callbacks : cb'[c].pc = "advance" => cb'[c].reg = head'
  BY <1>1 DEF SerialInv, RingInv
<1>11. \A c \in Callbacks : cb'[c].pc = "shrink" => cb'[c].reg = count'
  BY <1>1 DEF SerialInv, RingInv
<1>12. tail' = Slot(Offset + Waiting)'
  <2>1. Offset + Waiting + 1 \in Nat /\ (Offset + Waiting)' = Offset + Waiting + 1
    BY <1>1, <1>2, <1>6, RingTypes
  <2> QED BY <1>1, <1>5, <1>8, <2>1 DEF Slot
<1>13. \A j \in Nat : j < Waiting' => array'[Slot(Offset + j)'] = First' + j
  BY <1>1, <1>5, <1>6, <1>9 DEF Slot
<1>14. /\ 0 <= Waiting' /\ Offset' + Waiting' <= Len(array') /\ count' <= Len(array')
  BY <1>1, <1>2, <1>5, <1>6, RingTypes DEF SerialInv, RingInv
<1>15. insert'.pc \notin {"put", "grow"} /\ insert'.reg = count'
  BY <1>1, <1>4
<1> QED BY <1>6, <1>10, <1>11, <1>12, <1>13, <1>14, <1>15 DEF RingInv

\* The steps of an insert keep the ring, and the first row in the queue.
LEMMA RingInsert ==
  ASSUME Types, Types', SerialInv, Untorn', Insert
  PROVE  RingInv' /\ UNCHANGED First
<1>1. UNCHANGED <<cb, Taking, Behind>>
  BY DEF Insert, Enqueue, Grow, Put, StoreCount, ResetSteps, TestTimer, StartTimer, Taking, Behind,
         Dequeuing
<1>2. CASE Enqueue
  <2>1. UNCHANGED <<rows, array, head, tail, count>> /\ insert.pc = "idle"
    BY <1>2 DEF Enqueue, queueVars
  <2>2. insert'.pc \in {"grow", "put"}
    BY <1>2 DEF Enqueue, Proceed
  <2>3. UNCHANGED <<Waiting, Offset, First>>
    BY <1>1, <2>1, <2>2 DEF Waiting, Offset, First, One
  <2>4. CASE insert'.pc = "put"
    <3>1. count # Len(array) /\ count <= Len(array)
      BY <1>2, <2>4 DEF Enqueue, SerialInv, RingInv
    <3>2. Offset + Waiting < Len(array)
      <4>1. Behind => Taking
        BY DEF Behind, Taking, Dequeuing
      <4> QED BY <2>1, <3>1, <4>1, RingTypes DEF Waiting, Offset, One
    <3> QED BY <1>1, <2>1, <2>3, <2>4, <3>2 DEF SerialInv, RingInv, Slot
  <2>5. CASE insert'.pc = "grow"
    <3>1. count = Len(array) /\ insert'.grown = Grown
      BY <1>2, <2>5 DEF Enqueue, Proceed
    <3>2. ~Taking /\ ~Behind
      BY <1>1, <2>5 DEF Untorn, Taking, Behind, Dequeuing
    <3>3. \A i \in 1 .. count : insert'.grown[i] = First + i - 1
      BY <2>1, <3>1, <3>2, GrownRows DEF SerialInv
    <3> QED BY <1>1, <2>1, <2>3, <2>5, <3>1, <3>3 DEF SerialInv, RingInv, Slot
  <2> QED BY <2>2, <2>3, <2>4, <2>5
<1>3. CASE StoreCount
  <2>1. /\ UNCHANGED <<rows, array, head, tail>> /\ insert.pc = "count" /\ insert'.pc = "reset"
        /\ count' = insert.reg + 1
    BY <1>3 DEF StoreCount, queueVars, Proceed
  <2>2. count' = count + 1
    BY <2>1 DEF SerialInv, RingInv
  <2>3. UNCHANGED <<Waiting, Offset, First>>
    <3>1. One(insert.pc = "count") = 1 /\ One(insert.pc = "count")' = 0
      BY <2>1 DEF One
    <3>2. UNCHANGED Waiting
      BY <1>1, <2>1, <2>2, <3>1, RingTypes DEF Waiting, One
    <3> QED BY <1>1, <2>1, <3>2 DEF Offset, First
  <2>4. \A c \in Callbacks : cb[c].pc # "shrink"
    BY <2>1 DEF SerialInv, Untorn
  <2>5. Taking => Behind
    BY <2>4 DEF Taking, Behind, Dequeuing
  <2>6. count' <= Len(array)
    BY <2>1, <2>2, <2>5, RingTypes DEF SerialInv, RingInv, Waiting, Offset, One
  <2> QED BY <1>1, <2>1, <2>3, <2>4, <2>6 DEF SerialInv, RingInv, Slot
<1>4. CASE ResetSteps \/ TestTimer \/ StartTimer
  <2>1. /\ UNCHANGED <<rows, array, head, tail, count>>
        /\ insert.pc \in {"reset", "test", "start"} /\ insert'.pc \in {"idle", "test", "start"}
    BY <1>4 DEF ResetSteps, TestTimer, StartTimer, queueVars, Proceed, NoInsert
  <2> QED BY <1>1, <2>1, RingStill DEF SerialInv
<1> QED BY <1>2, <1>3, <1>4, RingGrow, RingPut DEF Insert

\* The read of a Dequeue takes the first row: the next one is now the first in the queue.
LEMMA RingTakes ==
  ASSUME Types, Types', SerialInv, Untorn', NEW c \in Callbacks, Takes(c)
  PROVE  RingInv' /\ array[head] = First /\ First' = First + 1
<1>1. /\ UNCHANGED <<rows, array, head, tail, count, insert>> /\ count > 0
      /\ ~Taking /\ ~Behind /\ Taking' /\ Behind'
      /\ \A d \in Callbacks : cb'[d].pc \notin {"advance", "shrink"}
  BY PhaseStep DEF Takes, Moves, SerialInv, Flushing, Section, Dequeuing, queueVars
<1>2. /\ Waiting > 0 /\ Offset = 0
      /\ Waiting' = Waiting - 1 /\ Offset' = 1 /\ First' = First + 1
  <2>1. One(Taking) = 0 /\ One(Taking)' = 1 /\ UNCHANGED One(insert.pc = "count")
    BY <1>1 DEF One
  <2>2. One(insert.pc = "count") \in Nat
    BY DEF One
  <2>4. Waiting > 0 /\ Waiting' = Waiting - 1
    <3>1. Waiting = count + One(insert.pc = "count")
      BY <2>1, RingTypes, <2>2 DEF Waiting
    <3>2. Waiting' = count + One(insert.pc = "count") - 1
      BY <1>1, <2>1 DEF Waiting
    <3> QED BY <1>1, <2>2, <3>1, <3>2, RingTypes
  <2>3. Offset = 0 /\ Offset' = 1
    BY <1>1 DEF Offset, One
  <2> QED BY <1>1, <2>3, <2>4, RingTypes DEF First
<1>3. array # <<>> /\ count <= Len(array)
  BY <1>1, RingTypes DEF SerialInv, RingInv
<1>4. array[head] = First
  <2>1. Slot(0 + 0) = head
    BY <1>3, RingTypes DEF Slot
  <2>2. array[Slot(Offset + 0)] = First + 0
    BY <1>2, RingTypes DEF SerialInv, RingInv
  <2> QED BY <1>2, <2>1, <2>2, RingTypes
<1>5. \A k : UNCHANGED Slot(k)
  BY <1>1 DEF Slot
<1>6. ASSUME NEW j \in Nat, j < Waiting' PROVE array'[Slot(Offset + j)'] = First' + j
  <2>1. j + 1 \in Nat /\ j + 1 < Waiting
    BY <1>2, <1>6, RingTypes
  <2>2. array[Slot(Offset + (j + 1))] = First + (j + 1)
    BY <2>1 DEF SerialInv, RingInv
  <2>3. Slot(Offset + j)' = Slot(Offset + (j + 1))
    BY <1>1, <1>2, <2>1 DEF Slot
  <2> QED BY <1>1, <1>2, <2>2, <2>3, RingTypes
<1>7. tail' = Slot(Offset + Waiting)'
  <2>1. (Offset + Waiting)' = Offset + Waiting
    BY <1>2, RingTypes
  <2> QED BY <1>1, <1>3, <2>1 DEF SerialInv, RingInv, Slot
<1>8. 0 <= Waiting' /\ Offset' + Waiting' <= Len(array') /\ Offset' + Waiting' = Offset + Waiting
  BY <1>1, <1>2, RingTypes DEF SerialInv, RingInv
<1>9. insert'.pc = "put" => Offset' + Waiting' < Len(array')
  BY <1>1, <1>8 DEF SerialInv, RingInv
<1>10. /\ count' <= Len(array') /\ (insert'.pc = "count" => insert'.reg = count')
  BY <1>1, <1>3 DEF SerialInv, RingInv
<1>11. UNCHANGED insert /\ insert'.pc # "grow"
  <2>1. Dequeuing(c)'
    BY DEF Takes, Moves, Dequeuing
  <2> QED BY <1>1, <2>1 DEF Untorn
<1>12. \A j \in Nat : j < Waiting' => array'[Slot(Offset + j)'] = First' + j
  BY <1>6
<1>13. \A d \in Callbacks : cb'[d].pc \notin {"advance", "shrink"}
  BY <1>1
<1> QED BY <1>4, <1>2, <1>7, <1>8, <1>9, <1>10, <1>11, <1>12, <1>13 DEF RingInv

\* Emptying the slot of the row that was taken keeps the ring.
LEMMA RingEmpties ==
  ASSUME Types, Types', SerialInv, NEW c \in Callbacks, Empties(c)
  PROVE  RingInv' /\ UNCHANGED First
<1>1. /\ UNCHANGED <<rows, head, tail, count, insert>> /\ array' = [array EXCEPT ![head] = Null]
      /\ Taking /\ Behind /\ Taking' /\ Behind' /\ cb'[c].pc = "advance" /\ cb'[c].reg = head
      /\ \A d \in Callbacks \ {c} : cb'[d].pc \notin {"advance", "shrink"}
      /\ insert.pc # "grow" /\ array # <<>>
  BY PhaseStep DEF Empties, Moves, SerialInv, Flushing, Section, Dequeuing, Untorn, Types, PlaceInv,
                   DequeueInv
<1>2. UNCHANGED <<Waiting, Offset, First>> /\ Offset = 1
  BY <1>1 DEF Waiting, Offset, First, One
<1>3. Len(array') = Len(array)
  BY <1>1, RingTypes
<1>4. ASSUME NEW j \in Nat, j < Waiting PROVE array'[Slot(Offset + j)] = First + j
  <2>1. Slot(Offset + j) \in 1 .. Len(array) /\ Slot(Offset + j) # head
    <3>1. 0 < Offset + j /\ Offset + j \in Nat /\ Offset + j < Len(array)
      BY <1>2, <1>4, RingTypes DEF SerialInv, RingInv
    <3> QED BY <1>1, <3>1, SlotFacts
  <2>2. array[Slot(Offset + j)] = First + j
    BY <1>4 DEF SerialInv, RingInv
  <2> QED BY <1>1, <2>1, <2>2, RingTypes
<1> QED BY <1>1, <1>2, <1>3, <1>4 DEF SerialInv, RingInv, Slot

\* Moving the head over that slot keeps it.
LEMMA RingAdvances ==
  ASSUME Types, Types', SerialInv, NEW c \in Callbacks, Advances(c)
  PROVE  RingInv' /\ UNCHANGED First
<1>1. /\ UNCHANGED <<rows, array, tail, count, insert>> /\ head' = Wrapped(head)
      /\ Taking /\ Behind /\ Taking' /\ ~Behind' /\ cb'[c].pc = "shrink" /\ cb'[c].reg = count
      /\ \A d \in Callbacks \ {c} : cb'[d].pc \notin {"advance", "shrink"}
      /\ insert.pc # "grow" /\ array # <<>>
  BY PhaseStep DEF Advances, Moves, SerialInv, RingInv, Flushing, Section, Dequeuing, Untorn, Types,
                   PlaceInv, DequeueInv
<1>2. UNCHANGED <<Waiting, First>> /\ Offset = 1 /\ Offset' = 0
  BY <1>1 DEF Waiting, Offset, First, One
<1>3. 0 <= Waiting /\ 1 + Waiting <= Len(array)
  BY <1>2 DEF SerialInv, RingInv
<1>4. ASSUME NEW k \in Nat, k <= Waiting PROVE Slot(0 + k)' = Slot(1 + k)
  <2>1. head \in Nat /\ head <= Len(array) /\ 1 <= head /\ Len(array) \in Nat /\ k < Len(array)
    BY <1>1, <1>3, <1>4, RingTypes
  <2>2. Slot(0 + k)' = IF Wrapped(head) + k <= Len(array) THEN Wrapped(head) + k
                       ELSE Wrapped(head) + k - Len(array)
    BY <1>1, <2>1 DEF Slot, Wrapped
  <2> QED BY <2>1, <2>2 DEF Slot, Wrapped
<1>5. ASSUME NEW j \in Nat, j < Waiting PROVE array[Slot(0 + j)'] = First + j
  <2>1. array[Slot(1 + j)] = First + j
    BY <1>2, <1>5 DEF SerialInv, RingInv
  <2> QED BY <1>4, <1>5, <2>1, RingTypes
<1>6. tail = Slot(0 + Waiting)'
  <2>1. tail = Slot(1 + Waiting) /\ Waiting \in Nat
    BY <1>1, <1>2, <1>3, RingTypes DEF SerialInv, RingInv
  <2> QED BY <1>2, <1>4, <2>1 DEF Slot
<1>7. \A j \in Nat : j < Waiting' => array'[Slot(Offset + j)'] = First' + j
  BY <1>1, <1>2, <1>5 DEF Slot
<1>8. tail' = Slot(Offset + Waiting)'
  BY <1>1, <1>2, <1>6 DEF Slot
<1>9. 0 <= Waiting' /\ Offset' + Waiting' <= Len(array') /\ count' <= Len(array')
  BY <1>1, <1>2, <1>3, RingTypes DEF SerialInv, RingInv
<1>10. insert'.pc = "put" => Offset' + Waiting' < Len(array')
  BY <1>1, <1>2, RingTypes DEF SerialInv, RingInv
<1>11. insert'.pc # "grow" /\ (insert'.pc = "count" => insert'.reg = count')
  BY <1>1 DEF SerialInv, RingInv
<1>12. \A d \in Callbacks : cb'[d].pc # "advance" /\ (cb'[d].pc = "shrink" => cb'[d].reg = count')
  BY <1>1
<1> QED BY <1>2, <1>7, <1>8, <1>9, <1>10, <1>11, <1>12 DEF RingInv

\* Decrementing _size keeps it: no increment comes between its load and its store.
LEMMA RingShrinks ==
  ASSUME Types, Types', SerialInv, NEW c \in Callbacks, Shrinks(c)
  PROVE  RingInv' /\ UNCHANGED First
<1>1. /\ UNCHANGED <<rows, array, head, tail, insert>> /\ count' = count - 1
      /\ Taking /\ ~Behind /\ ~Taking' /\ ~Behind'
      /\ \A d \in Callbacks : cb'[d].pc \notin {"advance", "shrink"}
      /\ insert.pc # "grow" /\ insert.pc # "count"
  BY PhaseStep DEF Shrinks, Moves, SerialInv, RingInv, Flushing, Section, Dequeuing, Untorn, queueVars
<1>2. UNCHANGED <<Waiting, Offset, First>>
  BY <1>1, RingTypes DEF Waiting, Offset, First, One
<1>3. count' <= Len(array)
  BY <1>1, RingTypes DEF SerialInv, RingInv
<1> QED BY <1>1, <1>2, <1>3 DEF SerialInv, RingInv, Slot

\* The other steps of a callback have nothing to do with it.
LEMMA RingQuiet ==
  ASSUME SerialInv, NEW c \in Callbacks, Quiet(c) \/ Writes(c)
  PROVE  RingInv' /\ UNCHANGED First
<1>1. /\ UNCHANGED <<rows, array, head, tail, count, insert>> /\ Alone(c)
      /\ cb[c].pc \notin {"clear", "advance", "shrink"} /\ cb'[c].pc \notin {"clear", "advance", "shrink"}
  BY DEF Quiet, Writes, Moves, queueVars, Section
<1>2. (Taking' <=> Taking) /\ (Behind' <=> Behind)
  BY <1>1 DEF Alone, Taking, Behind, Dequeuing
<1>3. \A d \in Callbacks : cb'[d].pc \in {"advance", "shrink"} => cb'[d] = cb[d]
  BY <1>1 DEF Alone
<1> QED BY <1>1, <1>2, <1>3, RingStill DEF SerialInv

\* After a restart the queue is empty.
LEMMA RingCrash ==
  ASSUME Types, Crash
  PROVE  RingInv' /\ First' = Len(rows) + 1 /\ NoOverlap' /\ Untorn'
<1>1. /\ array' = <<>> /\ head' = 1 /\ tail' = 1 /\ count' = 0 /\ UNCHANGED rows
      /\ insert'.pc = "idle" /\ \A c \in Callbacks : cb'[c].pc = "idle"
  BY CrashEffect DEF Crash, NoInsert
<1>2. Waiting' = 0 /\ Offset' = 0 /\ First' = Len(rows) + 1
  <2>1. ~Taking' /\ ~Behind'
    BY <1>1 DEF Taking, Behind, Dequeuing
  <2>2. Waiting' = 0 /\ Offset' = 0
    <3>1. One(insert.pc = "count")' = 0 /\ One(Taking)' = 0 /\ One(Behind)' = 0
      BY <1>1, <2>1 DEF One
    <3> QED BY <1>1, <3>1 DEF Waiting, Offset
  <2> QED BY <1>1, <2>2, RingTypes DEF First
<1> QED BY <1>1, <1>2 DEF RingInv, NoOverlap, Flushing, Section, Untorn, Dequeuing

-----------------------------------------------------------------------------
(* Sequences and their elements.                                           *)

\* An element of a sequence has a place in it.
LEMMA ToSetIndex ==
  ASSUME NEW s \in Seq(Nat)
  PROVE  \A x : x \in ToSet(s) <=> \E i \in 1 .. Len(s) : s[i] = x
BY DEF ToSet

\* Append adds its element.
LEMMA ToSetAppend ==
  ASSUME NEW s \in Seq(Nat), NEW n \in Nat
  PROVE  \A x : x \in ToSet(Append(s, n)) <=> x \in ToSet(s) \/ x = n
<1>1. /\ Append(s, n) \in Seq(Nat) /\ Len(Append(s, n)) = Len(s) + 1
      /\ \A i \in 1 .. Len(s) : Append(s, n)[i] = s[i]
      /\ Append(s, n)[Len(s) + 1] = n /\ Len(s) \in Nat
  BY AppendProperties
<1>2. \A i : i \in 1 .. Len(s) + 1 <=> i \in 1 .. Len(s) \/ i = Len(s) + 1
  BY <1>1
<1>3. \A x : x \in ToSet(Append(s, n)) <=> \E i \in 1 .. Len(s) + 1 : Append(s, n)[i] = x
  <2>1. \A x : x \in ToSet(Append(s, n)) <=>
                \E i \in 1 .. Len(Append(s, n)) : Append(s, n)[i] = x
    BY <1>1, ToSetIndex
  <2> QED BY <1>1, <2>1
<1> SUFFICES ASSUME NEW x PROVE x \in ToSet(Append(s, n)) <=> x \in ToSet(s) \/ x = n
  OBVIOUS
<1>4. x \in ToSet(s) <=> \E i \in 1 .. Len(s) : s[i] = x
  BY ToSetIndex
<1>5. ASSUME x \in ToSet(Append(s, n)) PROVE x \in ToSet(s) \/ x = n
  <2>1. PICK i \in 1 .. Len(s) + 1 : Append(s, n)[i] = x
    BY <1>3, <1>5
  <2> QED BY <1>1, <1>2, <1>4, <2>1
<1>6. ASSUME x \in ToSet(s) PROVE x \in ToSet(Append(s, n))
  <2>1. PICK i \in 1 .. Len(s) : s[i] = x
    BY <1>4, <1>6
  <2> QED BY <1>1, <1>2, <1>3, <2>1
<1>7. n \in ToSet(Append(s, n))
  BY <1>1, <1>2, <1>3
<1> QED BY <1>5, <1>6, <1>7

\* The elements of a concatenation, by place.
LEMMA WrittenIndex ==
  ASSUME NEW s \in Seq(Nat), NEW t \in Seq(Nat)
  PROVE  /\ Len(s \o t) = Len(s) + Len(t)
         /\ \A i \in 1 .. Len(s) : (s \o t)[i] = s[i]
         /\ \A i \in 1 .. Len(t) : (s \o t)[Len(s) + i] = t[i]
         /\ \A k \in 1 .. Len(s \o t) :
              k \in 1 .. Len(s) \/ \E i \in 1 .. Len(t) : k = Len(s) + i
<1>1. Len(s) \in Nat /\ Len(t) \in Nat
  OBVIOUS
<1>2. /\ Len(s \o t) = Len(s) + Len(t)
      /\ \A i \in 1 .. Len(s) + Len(t) : (s \o t)[i] = IF i <= Len(s) THEN s[i] ELSE t[i - Len(s)]
  BY ConcatProperties
<1>3. ASSUME NEW k \in 1 .. Len(s) + Len(t), k \notin 1 .. Len(s)
      PROVE  \E i \in 1 .. Len(t) : k = Len(s) + i
  <2>1. k - Len(s) \in 1 .. Len(t) /\ k = Len(s) + (k - Len(s))
    BY <1>1, <1>3
  <2> QED BY <2>1
<1>4. ASSUME NEW i \in 1 .. Len(t) PROVE (s \o t)[Len(s) + i] = t[i]
  <2>1. Len(s) + i \in 1 .. Len(s) + Len(t) /\ ~(Len(s) + i <= Len(s)) /\ Len(s) + i - Len(s) = i
    BY <1>1
  <2> QED BY <1>2, <2>1
<1>5. \A i \in 1 .. Len(s) : (s \o t)[i] = s[i]
  BY <1>1, <1>2
<1> QED BY <1>2, <1>3, <1>4, <1>5

\* A concatenation has the elements of both.
LEMMA ToSetConcat ==
  ASSUME NEW s \in Seq(Nat), NEW t \in Seq(Nat)
  PROVE  \A x : x \in ToSet(s \o t) <=> x \in ToSet(s) \/ x \in ToSet(t)
<1>1. /\ \A i \in 1 .. Len(s) : i \in 1 .. Len(s \o t) /\ (s \o t)[i] = s[i]
      /\ \A i \in 1 .. Len(t) : Len(s) + i \in 1 .. Len(s \o t) /\ (s \o t)[Len(s) + i] = t[i]
      /\ \A k \in 1 .. Len(s \o t) : k \in 1 .. Len(s) \/ \E i \in 1 .. Len(t) : k = Len(s) + i
  BY WrittenIndex
<1>2. \A x : x \in ToSet(s \o t) <=> \E k \in 1 .. Len(s \o t) : (s \o t)[k] = x
  BY ConcatProperties, ToSetIndex
<1>3. \A x : x \in ToSet(s) <=> \E i \in 1 .. Len(s) : s[i] = x
  BY ToSetIndex
<1>4. \A x : x \in ToSet(t) <=> \E i \in 1 .. Len(t) : t[i] = x
  BY ToSetIndex
<1> SUFFICES ASSUME NEW x PROVE x \in ToSet(s \o t) <=> x \in ToSet(s) \/ x \in ToSet(t)
  OBVIOUS
<1>5. (s \o t) \in Seq(Nat) /\ Len(s) \in Nat
  BY ConcatProperties
<1>6. ASSUME x \in ToSet(s \o t) PROVE x \in ToSet(s) \/ x \in ToSet(t)
  <2>1. PICK k \in 1 .. Len(s \o t) : (s \o t)[k] = x
    BY <1>2, <1>6
  <2>2. CASE k \in 1 .. Len(s)
    BY <1>1, <1>3, <2>1, <2>2
  <2>3. ASSUME NEW i \in 1 .. Len(t), k = Len(s) + i PROVE x \in ToSet(t)
    BY <1>1, <1>4, <2>1, <2>3
  <2> QED BY <1>1, <2>2, <2>3
<1>7. ASSUME x \in ToSet(s) PROVE x \in ToSet(s \o t)
  <2>1. PICK i \in 1 .. Len(s) : s[i] = x
    BY <1>3, <1>7
  <2> QED BY <1>1, <1>2, <2>1
<1>8. ASSUME x \in ToSet(t) PROVE x \in ToSet(s \o t)
  <2>1. PICK i \in 1 .. Len(t) : t[i] = x
    BY <1>4, <1>8
  <2> QED BY <1>1, <1>2, <2>1
<1> QED BY <1>6, <1>7, <1>8

-----------------------------------------------------------------------------
(* The rows.                                                               *)

\* Every step that moves no row keeps their order.
LEMMA RowsStay ==
  ASSUME RowsInv, UNCHANGED <<firstRow, written, First>>,
         \A c \in Callbacks : cb'[c].batch = cb[c].batch,
         \A c \in Callbacks :
           cb'[c].pc \notin {"loop", "clear", "advance", "shrink", "write"} => cb'[c].batch = <<>>
  PROVE  RowsInv'
<1>1. QueueInv' /\ WrittenInv' /\ BatchInv'
  BY DEF RowsInv, QueueInv, WrittenInv, BatchInv
<1>2. KeptInv'
  BY DEF RowsInv, KeptInv, InBatch
<1> QED BY <1>1, <1>2 DEF RowsInv

\* While one callback is in its Section, the batches of the others are empty.
LEMMA OthersEmpty ==
  ASSUME SerialInv, NEW c \in Callbacks, Flushing(c), NEW d \in Callbacks \ {c}
  PROVE  ~Flushing(d) /\ cb[d].batch = <<>>
BY DEF SerialInv, NoOverlap, Flushing, Section, RowsInv, BatchInv

\* The places of a sequence with one element more.
LEMMA AppendIndex ==
  ASSUME NEW s \in Seq(Nat), NEW n \in Nat
  PROVE  /\ Len(Append(s, n)) = Len(s) + 1 /\ Len(s) \in Nat
         /\ \A i \in 1 .. Len(s) : Append(s, n)[i] = s[i] /\ s[i] \in Nat
         /\ Append(s, n)[Len(s) + 1] = n
         /\ \A i \in 1 .. Len(Append(s, n)) : i \in 1 .. Len(s) \/ i = Len(s) + 1
<1>1. Len(Append(s, n)) = Len(s) + 1 /\ Append(s, n)[Len(s) + 1] = n
  BY AppendProperties
<1>2. \A i \in 1 .. Len(s) : Append(s, n)[i] = s[i] /\ s[i] \in Nat
  BY AppendProperties, ElementOfSeq
<1> QED BY <1>1, <1>2

\* A Dequeue that takes the first row of the queue keeps the order: it is greater than the
\* rows taken before.
LEMMA RowsTake ==
  ASSUME Types, SerialInv, NEW c \in Callbacks, Takes(c), array[head] = First, First' = First + 1
  PROVE  RowsInv'
<1> DEFINE b == cb[c].batch
<1>1. /\ b \in Seq(Nat) /\ First \in Nat /\ firstRow \in Nat /\ written \in Seq(Nat)
      /\ 1 <= firstRow /\ firstRow <= First
  BY RingTypes DEF Types, DataTypes, CbTypes, CallbackState, SerialInv, RowsInv, QueueInv
<1>2. \A d \in Callbacks \ {c} : cb[d].batch = <<>> /\ cb'[d] = cb[d]
  BY OthersEmpty DEF Takes, Moves, Alone, Flushing, Section
<1>3. /\ cb'[c].batch = Append(b, First) /\ cb'[c].pc = "clear"
      /\ UNCHANGED <<firstRow, written>>
  BY DEF Takes, Moves, queueVars
<1>4. QueueInv'
  BY <1>1, <1>3 DEF QueueInv
<1>5. WrittenInv'
  BY <1>1, <1>3 DEF SerialInv, RowsInv, WrittenInv
<1>6. ASSUME NEW i \in 1 .. Len(b)
      PROVE  /\ firstRow <= b[i] /\ b[i] < First /\ \A k \in 1 .. Len(written) : written[k] < b[i]
             /\ \A j \in 1 .. Len(b) : i < j => b[i] < b[j]
  BY DEF SerialInv, RowsInv, BatchInv
<1> HIDE DEF b
<1>7. ASSUME NEW i \in 1 .. Len(Append(b, First))
      PROVE  /\ firstRow <= Append(b, First)[i] /\ Append(b, First)[i] < First + 1
             /\ \A k \in 1 .. Len(written) : written[k] < Append(b, First)[i]
  <2>1. CASE i \in 1 .. Len(b)
    <3>1. Append(b, First)[i] = b[i] /\ b[i] \in Nat
      BY <1>1, <2>1, AppendIndex
    <3> QED BY <1>1, <1>6, <2>1, <3>1
  <2>2. CASE i = Len(b) + 1
    <3>1. Append(b, First)[i] = First
      BY <1>1, <2>2, AppendIndex
    <3> QED BY <1>1, <3>1 DEF SerialInv, RowsInv, WrittenInv
  <2> QED BY <1>1, <2>1, <2>2, AppendIndex
<1>8. ASSUME NEW i \in 1 .. Len(Append(b, First)), NEW j \in 1 .. Len(Append(b, First)), i < j
      PROVE  Append(b, First)[i] < Append(b, First)[j]
  <2>1. i \in 1 .. Len(b)
    BY <1>1, <1>8, AppendIndex
  <2>2. Append(b, First)[i] = b[i]
    BY <1>1, <2>1, AppendIndex
  <2>3. CASE j \in 1 .. Len(b)
    <3>1. Append(b, First)[j] = b[j]
      BY <1>1, <2>3, AppendIndex
    <3> QED BY <1>6, <1>8, <2>1, <2>2, <2>3, <3>1
  <2>4. CASE j = Len(b) + 1
    <3>1. Append(b, First)[j] = First
      BY <1>1, <2>4, AppendIndex
    <3> QED BY <1>6, <2>1, <2>2, <3>1
  <2> QED BY <1>1, <2>3, <2>4, AppendIndex
<1>9. BatchInv'
  <2>1. \A d \in Callbacks \ {c} : Len(cb'[d].batch) = 0
    BY <1>2
  <2>2. \A d \in Callbacks \ {c} : cb'[d].batch = <<>>
    BY <1>2
  <2>3. ASSUME NEW d \in Callbacks
        PROVE  /\ cb'[d].pc \notin {"loop", "clear", "advance", "shrink", "write"} => cb'[d].batch = <<>>
               /\ \A i \in 1 .. Len(cb'[d].batch) :
                    /\ firstRow' <= cb'[d].batch[i] /\ cb'[d].batch[i] < First'
                    /\ \A k \in 1 .. Len(written') : written'[k] < cb'[d].batch[i]
               /\ \A i, j \in 1 .. Len(cb'[d].batch) : i < j => cb'[d].batch[i] < cb'[d].batch[j]
    <3>1. CASE d = c
      BY <1>3, <1>7, <1>8, <3>1
    <3>2. CASE d # c
      BY <2>1, <2>2, <3>2
    <3> QED BY <3>1, <3>2
  <2> QED BY <2>3 DEF BatchInv
<1>10. KeptInv'
  <2> SUFFICES ASSUME NEW r \in firstRow .. First PROVE InBatch(r)' \/ r \in ToSet(written)
    <3>1. First' - 1 = First
      BY <1>1
    <3> QED BY <1>3, <3>1 DEF KeptInv
  <2>1. \A x : x \in ToSet(cb'[c].batch) <=> x \in ToSet(b) \/ x = First
    BY <1>1, <1>3, ToSetAppend
  <2>2. InBatch(r) => InBatch(r)'
    BY <1>2, <2>1 DEF InBatch, b
  <2>3. r = First => InBatch(r)'
    BY <2>1 DEF InBatch
  <2> QED BY <1>1, <2>2, <2>3 DEF SerialInv, RowsInv, KeptInv
<1> QED BY <1>4, <1>5, <1>9, <1>10 DEF RowsInv

\* The batch of a callback moves to the database.
SerialWrites(c) == Writes(c) /\ written' = written \o cb[c].batch

\* A save keeps the order: what it adds is greater than what is written.
LEMMA RowsWrite ==
  ASSUME Types, SerialInv, NEW c \in Callbacks, SerialWrites(c), UNCHANGED First
  PROVE  RowsInv'
<1> DEFINE b == cb[c].batch
<1>1. /\ b \in Seq(Nat) /\ First \in Nat /\ firstRow \in Nat /\ written \in Seq(Nat)
      /\ 1 <= firstRow /\ firstRow <= First
  BY RingTypes DEF Types, DataTypes, CbTypes, CallbackState, SerialInv, RowsInv, QueueInv
<1>2. \A d \in Callbacks : cb'[d].batch = <<>> /\ (d # c => cb[d].batch = <<>>)
  BY OthersEmpty DEF SerialWrites, Writes, Moves, Alone, Flushing, Section
<1>3. UNCHANGED firstRow /\ written' = written \o b
  BY DEF SerialWrites, Writes, queueVars
<1>4. QueueInv'
  BY <1>3 DEF SerialInv, RowsInv, QueueInv
<1>5. ASSUME NEW i \in 1 .. Len(b)
      PROVE  /\ 1 <= b[i] /\ b[i] < First
             /\ \A k \in 1 .. Len(written) : written[k] < b[i]
             /\ \A j \in 1 .. Len(b) : i < j => b[i] < b[j]
  <2>1. /\ firstRow <= b[i] /\ b[i] < First /\ \A k \in 1 .. Len(written) : written[k] < b[i]
        /\ \A j \in 1 .. Len(b) : i < j => b[i] < b[j]
    BY DEF SerialInv, RowsInv, BatchInv
  <2>2. b[i] \in Nat
    <3> HIDE DEF b
    <3> QED BY <1>1, ElementOfSeq
  <2> HIDE DEF b
  <2> QED BY <1>1, <2>1, <2>2
<1>6. WrittenInv'
  <2> DEFINE w == written \o b
  <2>1. /\ \A i \in 1 .. Len(written) : w[i] = written[i] /\ written[i] \in Nat
        /\ \A i \in 1 .. Len(b) : w[Len(written) + i] = b[i]
        /\ \A k \in 1 .. Len(w) : k \notin 1 .. Len(written) => \E i \in 1 .. Len(b) : k = Len(written) + i
        /\ Len(written) \in Nat /\ Len(w) \in Nat
    <3> HIDE DEF b
    <3>1. Len(w) = Len(written) + Len(b) /\ Len(written) \in Nat /\ Len(b) \in Nat
      BY <1>1, WrittenIndex
    <3>2. \A i \in 1 .. Len(written) : w[i] = written[i] /\ written[i] \in Nat
      BY <1>1, WrittenIndex, ElementOfSeq
    <3> QED BY <1>1, <3>1, <3>2, WrittenIndex
  <2> HIDE DEF w, b
  <2>2. ASSUME NEW k \in 1 .. Len(w) PROVE 1 <= w[k] /\ w[k] < First
    <3>1. CASE k \in 1 .. Len(written)
      BY <2>1, <3>1 DEF SerialInv, RowsInv, WrittenInv
    <3>2. CASE k \notin 1 .. Len(written)
      <4>1. PICK i \in 1 .. Len(b) : k = Len(written) + i
        BY <2>1, <3>2
      <4> QED BY <1>5, <2>1, <4>1
    <3> QED BY <3>1, <3>2
  <2>3. ASSUME NEW k \in 1 .. Len(w), NEW l \in 1 .. Len(w), k < l PROVE w[k] < w[l]
    <3>1. CASE k \in 1 .. Len(written) /\ l \in 1 .. Len(written)
      BY <2>1, <2>3, <3>1 DEF SerialInv, RowsInv, WrittenInv
    <3>2. CASE k \in 1 .. Len(written) /\ l \notin 1 .. Len(written)
      <4>1. PICK j \in 1 .. Len(b) : l = Len(written) + j
        BY <2>1, <3>2
      <4> QED BY <1>5, <2>1, <3>2, <4>1
    <3>3. CASE k \notin 1 .. Len(written)
      <4>1. l \notin 1 .. Len(written)
        BY <2>1, <2>3, <3>3
      <4>2. PICK i \in 1 .. Len(b) : k = Len(written) + i
        BY <2>1, <3>3
      <4>3. PICK j \in 1 .. Len(b) : l = Len(written) + j
        BY <2>1, <4>1
      <4>4. i < j
        BY <2>1, <2>3, <4>2, <4>3
      <4> QED BY <1>5, <2>1, <4>2, <4>3, <4>4
    <3> QED BY <3>1, <3>2, <3>3
  <2> QED BY <1>3, <2>2, <2>3 DEF WrittenInv, w
<1>7. BatchInv'
  BY <1>2 DEF BatchInv
<1>8. KeptInv'
  <2>1. \A x : x \in ToSet(written') <=> x \in ToSet(written) \/ x \in ToSet(b)
    BY <1>1, <1>3, ToSetConcat
  <2> SUFFICES ASSUME NEW r \in firstRow .. First - 1 PROVE r \in ToSet(written) \/ r \in ToSet(b)
    BY <1>3, <2>1 DEF KeptInv
  <2>2. \A d \in Callbacks : d # c => ToSet(cb[d].batch) = {}
    BY <1>2 DEF ToSet
  <2> QED BY <2>2 DEF SerialInv, RowsInv, KeptInv, InBatch
<1> QED BY <1>4, <1>6, <1>7, <1>8 DEF RowsInv

\* A restart forgets the older rows.
LEMMA RowsCrash ==
  ASSUME Types, SerialInv, Crash, First' = Len(rows) + 1
  PROVE  RowsInv'
<1>1. /\ Len(rows) \in Nat /\ firstRow' = Len(rows) + 1 /\ UNCHANGED written
      /\ \A c \in Callbacks : cb'[c].batch = <<>>
  BY CrashEffect, RingTypes DEF Crash
<1>2. First <= Len(rows) + 1 /\ First \in Int
  BY RingTypes DEF SerialInv, RingInv, First
<1>3. \A k \in 1 .. Len(written) : written[k] \in Nat
  BY DEF Types, DataTypes
<1>4. QueueInv' /\ BatchInv' /\ KeptInv'
  BY <1>1 DEF QueueInv, BatchInv, KeptInv
<1>5. WrittenInv'
  BY <1>1, <1>2, <1>3 DEF SerialInv, RowsInv, WrittenInv
<1> QED BY <1>4, <1>5 DEF RowsInv

-----------------------------------------------------------------------------
(* The invariant.                                                          *)

\* It holds when the process starts.
LEMMA SerialInit == Init => SerialInv
<1> SUFFICES ASSUME Init PROVE SerialInv
  OBVIOUS
<1>1. /\ rows = <<>> /\ firstRow = 1 /\ array = <<>> /\ head = 1 /\ tail = 1 /\ count = 0
      /\ insert.pc = "idle" /\ written = <<>>
      /\ \A c \in Callbacks : cb[c].pc = "idle" /\ cb[c].batch = <<>>
  BY DEF Init, NoInsert, NoCallback
<1>2. Waiting = 0 /\ Offset = 0 /\ First = 1
  <2>1. ~Taking /\ ~Behind
    BY <1>1 DEF Taking, Behind, Dequeuing
  <2>2. Waiting = 0 /\ Offset = 0
    <3>1. One(insert.pc = "count") = 0 /\ One(Taking) = 0 /\ One(Behind) = 0
      BY <1>1, <2>1 DEF One
    <3> QED BY <1>1, <3>1 DEF Waiting, Offset
  <2> QED BY <1>1, <2>2 DEF First
<1>3. NoOverlap /\ Untorn /\ RingInv
  BY <1>1, <1>2 DEF NoOverlap, Flushing, Section, Untorn, Dequeuing, RingInv
<1>4. RowsInv
  BY <1>1, <1>2 DEF RowsInv, QueueInv, WrittenInv, BatchInv, KeptInv
<1> QED BY <1>3, <1>4 DEF SerialInv

\* The steps of the queue's environment: they leave every batch as it is.
Outside ==
  \/ Insert
  \/ \E c \in Callbacks, t \in Timers : Fire(c, t)
  \/ \E t \in Timers : Collect(t)
  \/ UNCHANGED vars

\* The environment adds a row at most, and begins a callback at most.
LEMMA OutsideEffect ==
  ASSUME Types, Outside
  PROVE  /\ UNCHANGED <<firstRow, written>>
         /\ \/ UNCHANGED rows
            \/ \E kind \in Kinds : rows' = Append(rows, kind)
         /\ (Insert /\ UNCHANGED cb) \/ UNCHANGED <<rows, array, head, tail, count, insert>>
         /\ UNCHANGED cb \/ \E c \in Callbacks :
              /\ cb[c].pc = "idle" /\ cb'[c].pc = "enter" /\ cb'[c].batch = <<>>
              /\ \A d \in Callbacks \ {c} : cb'[d] = cb[d]
<1>1. CASE Insert
  BY <1>1 DEF Insert, Enqueue, Grow, Put, StoreCount, ResetSteps, TestTimer, StartTimer, queueVars
<1>2. ASSUME NEW c \in Callbacks, NEW t \in Timers, Fire(c, t)
      PROVE  /\ UNCHANGED <<queueVars, count, insert, written>>
             /\ cb[c].pc = "idle" /\ cb'[c].pc = "enter" /\ cb'[c].batch = <<>>
             /\ \A d \in Callbacks \ {c} : cb'[d] = cb[d]
  BY <1>2, FireEffect DEF Fire, Types, CbTypes, DataTypes
<1>3. CASE (\E t \in Timers : Collect(t)) \/ UNCHANGED vars
  BY <1>3 DEF Collect, vars, queueVars
<1> QED BY <1>1, <1>2, <1>3 DEF Outside, queueVars

\* The environment keeps it.
LEMMA SerialOutside ==
  ASSUME Types, Types', SerialInv, Untorn', Outside
  PROVE  RingInv' /\ RowsInv'
<1>1. \A c \in Callbacks :
        /\ cb'[c].batch = cb[c].batch
        /\ cb'[c].pc \notin {"loop", "clear", "advance", "shrink", "write"} => cb'[c].batch = <<>>
        /\ cb'[c].pc \in {"clear", "advance", "shrink"} => cb'[c] = cb[c]
        /\ cb[c].pc \in {"clear", "advance", "shrink"} => cb'[c] = cb[c]
  BY OutsideEffect DEF SerialInv, RowsInv, BatchInv
<1>2. (Taking' <=> Taking) /\ (Behind' <=> Behind)
  BY <1>1 DEF Taking, Behind, Dequeuing
<1>3. RingInv' /\ UNCHANGED First
  <2>1. CASE Insert
    BY <2>1, RingInsert
  <2>2. CASE UNCHANGED <<rows, array, head, tail, count, insert>>
    BY <1>1, <1>2, <2>2, RingStill DEF SerialInv
  <2> QED BY <2>1, <2>2, OutsideEffect
<1>4. RowsInv'
  BY <1>1, <1>3, OutsideEffect, RowsStay DEF SerialInv
<1> QED BY <1>3, <1>4

\* A step of a callback, other than its death and a repeated save.
SerialStep(c) ==
  Quiet(c) \/ Takes(c) \/ Empties(c) \/ Advances(c) \/ Shrinks(c) \/ SerialWrites(c)

\* The steps of a callback keep it.
LEMMA SerialCallback ==
  ASSUME Types, Types', SerialInv, Untorn', NEW c \in Callbacks, SerialStep(c)
  PROVE  RingInv' /\ RowsInv'
<1>1. CASE Takes(c)
  BY <1>1, RingTakes, RowsTake
<1>2. CASE SerialWrites(c)
  BY <1>2, RingQuiet, RowsWrite DEF SerialWrites
<1>3. CASE Quiet(c) \/ Empties(c) \/ Advances(c) \/ Shrinks(c)
  <2>1. RingInv' /\ UNCHANGED First
    BY <1>3, RingQuiet, RingEmpties, RingAdvances, RingShrinks
  <2>2. UNCHANGED <<firstRow, written>>
    BY <1>3 DEF Quiet, Empties, Advances, Shrinks, queueVars
  <2>3. \A d \in Callbacks :
          /\ cb'[d].batch = cb[d].batch
          /\ cb'[d].pc \notin {"loop", "clear", "advance", "shrink", "write"} => cb'[d].batch = <<>>
    <3>1. CASE Quiet(c)
      BY <3>1 DEF Quiet, Alone, Section, SerialInv, RowsInv, BatchInv
    <3>2. CASE Empties(c) \/ Advances(c) \/ Shrinks(c)
      BY <3>2 DEF Empties, Advances, Shrinks, Moves, Alone, SerialInv, RowsInv, BatchInv
    <3> QED BY <1>3, <3>1, <3>2
  <2> QED BY <2>1, <2>2, <2>3, RowsStay DEF SerialInv
<1> QED BY <1>1, <1>2, <1>3 DEF SerialStep

\* Every step is one of these.
LEMMA SerialKinds ==
  ASSUME Types, [SerialNext]_vars
  PROVE  Outside \/ Crash \/ \E c \in Callbacks : SerialStep(c)
<1>1. ASSUME NEW c \in Callbacks, Callback(c), ~Crash, ~Resave(c)
      PROVE  SerialStep(c)
  <2>1. CASE Writes(c)
    <3>1. Write(c)
      BY <1>1, <2>1 DEF Writes, Moves, Callback, Enter, Claim, Dequeue, Clear, Advance, Shrink, Release,
                        CountEmpty, Bump, TestSteps, StopRunning, Dispose, Forget
    <3> QED BY <1>1, <2>1, <3>1 DEF Write, SerialWrites, SerialStep
  <2> QED BY <1>1, <2>1, CallbackKinds DEF SerialStep
<1> QED BY <1>1 DEF SerialNext, Next, Outside

\* SerialInv is inductive.
LEMMA SerialNextInv == Types /\ SerialInv /\ [SerialNext]_vars => SerialInv'
<1> SUFFICES ASSUME Types, SerialInv, [SerialNext]_vars PROVE SerialInv'
  OBVIOUS
<1>1. Types'
  BY TypesNext DEF SerialNext
<1>2. NoOverlap' /\ Untorn'
  BY DEF SerialNext, SerialInv, NoOverlap, Flushing, Untorn, Dequeuing, vars
<1>3. CASE Crash
  BY <1>3, RingCrash, RowsCrash DEF SerialInv
<1>4. CASE Outside
  BY <1>1, <1>2, <1>4, SerialOutside DEF SerialInv
<1>5. ASSUME NEW c \in Callbacks, SerialStep(c) PROVE SerialInv'
  BY <1>1, <1>2, <1>5, SerialCallback DEF SerialInv
<1> QED BY <1>3, <1>4, <1>5, SerialKinds

-----------------------------------------------------------------------------
(* No row is lost.                                                         *)

\* A row that is not waiting has been kept, and one that waits is in the array.
LEMMA SerialConserves == Types /\ SerialInv => Conservation
<1> SUFFICES ASSUME Types, SerialInv, NEW r \in firstRow .. Len(rows)
             PROVE  Queued(r) \/ InBatch(r) \/ r \in ToSet(written)
  BY DEF Conservation
<1>1. r \in Int /\ firstRow <= r /\ r <= Len(rows) /\ First \in Int
  BY RingTypes
<1>2. CASE r < First
  BY <1>1, <1>2 DEF SerialInv, RowsInv, KeptInv
<1>3. CASE ~(r < First)
  <2> DEFINE j == r - First
  <2>1. j \in Nat /\ j < Waiting /\ First + j = r
    <3>1. First = Len(rows) + 1 - Waiting
      BY DEF First
    <3>2. Waiting \in Int /\ Len(rows) \in Nat
      BY RingTypes
    <3> QED BY <1>1, <1>3, <3>1, <3>2
  <2>2. Offset + j \in Nat /\ Offset + j <= Len(array) /\ array # <<>>
    <3>1. Offset + Waiting <= Len(array)
      BY DEF SerialInv, RingInv
    <3> HIDE DEF j
    <3>2. Offset + j \in Nat /\ Offset + j < Len(array)
      BY <2>1, <3>1, RingTypes
    <3> QED BY <3>2, RingTypes
  <2>3. array[Slot(Offset + j)] = r
    BY <2>1 DEF SerialInv, RingInv
  <2>4. Slot(Offset + j) \in 1 .. Len(array)
    <3> HIDE DEF j
    <3> QED BY <2>2, SlotFacts
  <2> HIDE DEF j
  <2>5. r \in ToSet(array)
    BY <2>3, <2>4, RingTypes, ToSetIndex
  <2> QED BY <2>5 DEF Queued
<1> QED BY <1>2, <1>3

\* While flushes do not overlap and no update of the queue is torn, every row this process
\* accepted is queued, in a batch or in the database, whatever else the unlocked Dequeue
\* (line 60) and the Enqueue under the lock (line 37) do to the circular array.
THEOREM RowsConserved == SerialSpec => []Conservation
<1>1. Types /\ SerialInv /\ [SerialNext]_vars => Types' /\ SerialInv'
  BY TypesNext, SerialNextInv DEF SerialNext
<1> QED BY <1>1, TypesInit, SerialInit, SerialConserves, PTL DEF SerialSpec

-----------------------------------------------------------------------------
(* Refinement: an insert accepts, a write persists, a crash is a death, and *)
(* the other steps change nothing an AsyncWriter has.                       *)

\* What has left the queue are rows there have been.
LEMMA WaitingRows ==
  ASSUME Types, SerialInv
  PROVE  /\ First <= Len(rows) + 1 /\ firstRow <= Len(rows) + 1
         /\ \A n \in Nat : n < First => n <= Len(rows)
<1>1. 0 <= Waiting /\ firstRow <= First
  BY DEF SerialInv, RingInv, RowsInv, QueueInv
<1>2. First <= Len(rows) + 1
  BY <1>1, RingTypes DEF First
<1> QED BY <1>1, <1>2, RingTypes

\* An insert is an Accept.
LEMMA WriterAccept ==
  ASSUME Types, SerialInv, NEW kind \in Kinds,
         rows' = Append(rows, kind), UNCHANGED <<firstRow, written>>
  PROVE  Writer!Accept
<1>1. rows \in Seq(Kinds) /\ Len(rows) \in Nat /\ firstRow \in Nat /\ firstRow <= Len(rows) + 1
      /\ written \in Seq(Nat)
  BY WaitingRows DEF Types, DataTypes
<1>2. Len(rows') = Len(rows) + 1
  BY <1>1, AppendProperties
<1>3. Len(rows) + 1 \notin ToSet(written)
  <2>1. \A k \in 1 .. Len(written) : written[k] \in Nat /\ written[k] <= Len(rows)
    BY <1>1, WaitingRows DEF SerialInv, RowsInv, WrittenInv
  <2> QED BY <1>1, <2>1, ToSetIndex
<1>4. firstRow .. Len(rows) + 1 = (firstRow .. Len(rows)) \cup {Len(rows) + 1}
  BY <1>1
<1> QED BY <1>2, <1>3, <1>4 DEF Writer!Accept

\* A crash is a Die.
LEMMA WriterDie ==
  ASSUME Types, Crash
  PROVE  Writer!Die
<1>1. Len(rows) \in Nat /\ firstRow' = Len(rows) + 1 /\ UNCHANGED <<rows, written>>
  BY DEF Crash, Types, DataTypes
<1>2. firstRow' .. Len(rows') = {}
  BY <1>1
<1> QED BY <1>1, <1>2 DEF Writer!Die

\* A save is a Persist.
LEMMA WriterPersist ==
  ASSUME Types, SerialInv, SerialInv', NEW c \in Callbacks, SerialWrites(c)
  PROVE  Writer!Persist
<1> DEFINE b == cb[c].batch
           pending == (firstRow .. Len(rows)) \ ToSet(written)
           news == {written'[i] : i \in Len(written) + 1 .. Len(written')}
<1>1. /\ b \in Seq(Nat) /\ written \in Seq(Nat) /\ Len(b) \in Nat /\ Len(written) \in Nat
      /\ Len(rows) \in Nat /\ firstRow \in Nat
  BY DEF Types, DataTypes, CbTypes, CallbackState
<1>2. written' = written \o b /\ UNCHANGED <<rows, firstRow>>
  BY DEF SerialWrites, Writes, queueVars
<1>3. /\ Len(written') = Len(written) + Len(b)
      /\ \A i \in 1 .. Len(written) : written'[i] = written[i]
      /\ \A i \in 1 .. Len(b) : written'[Len(written) + i] = b[i]
  BY <1>1, <1>2, WrittenIndex
<1>4. \A i \in 1 .. Len(b) : b[i] \in pending
  <2> SUFFICES ASSUME NEW i \in 1 .. Len(b)
               PROVE  b[i] \in firstRow .. Len(rows) /\ b[i] \notin ToSet(written)
    OBVIOUS
  <2>1. b[i] \in Nat
    <3> HIDE DEF b
    <3> QED BY <1>1, ElementOfSeq
  <2>3. /\ firstRow <= b[i] /\ b[i] < First
        /\ \A k \in 1 .. Len(written) : written[k] < b[i]
    BY DEF SerialInv, RowsInv, BatchInv
  <2>5. b[i] <= Len(rows)
    <3> HIDE DEF b
    <3> QED BY <2>1, <2>3, WaitingRows, RingTypes
  <2>4. ASSUME b[i] \in ToSet(written) PROVE FALSE
    <3>1. PICK k \in 1 .. Len(written) : written[k] = b[i]
      BY <1>1, <2>4, ToSetIndex
    <3> QED BY <2>1, <2>3, <3>1
  <2> HIDE DEF b
  <2> QED BY <1>1, <2>1, <2>3, <2>4, <2>5
<1>5. \A i \in Len(written) + 1 .. Len(written') : \E j \in 1 .. Len(b) : i = Len(written) + j
  <2> SUFFICES ASSUME NEW i \in Len(written) + 1 .. Len(written')
               PROVE  \E j \in 1 .. Len(b) : i = Len(written) + j
    OBVIOUS
  <2>1. i - Len(written) \in 1 .. Len(b) /\ i = Len(written) + (i - Len(written))
    BY <1>1, <1>3
  <2> QED BY <2>1
<1>6. \A i \in Len(written) + 1 .. Len(written') : written'[i] \in pending
  BY <1>3, <1>4, <1>5
<1>7. \A i, j \in 1 .. Len(written') : i < j => written'[i] < written'[j]
  BY DEF SerialInv, RowsInv, WrittenInv
<1>8. \A x : x \in ToSet(written') <=> x \in ToSet(written) \/ x \in news
  <2>1. ASSUME NEW x, x \in news PROVE x \in ToSet(b)
    <3>1. PICK i \in Len(written) + 1 .. Len(written') : written'[i] = x
      BY <2>1
    <3>2. PICK j \in 1 .. Len(b) : i = Len(written) + j
      BY <1>5
    <3>3. b[j] = x
      BY <1>3, <3>1, <3>2
    <3> QED BY <1>1, <3>3, ToSetIndex
  <2>2. ASSUME NEW x, x \in ToSet(b) PROVE x \in news
    <3>1. PICK j \in 1 .. Len(b) : b[j] = x
      BY <1>1, <2>2, ToSetIndex
    <3>2. Len(written) + j \in Len(written) + 1 .. Len(written')
      BY <1>1, <1>3
    <3> QED BY <1>3, <3>1, <3>2
  <2>3. \A x : x \in ToSet(written') <=> x \in ToSet(written) \/ x \in ToSet(b)
    BY <1>1, <1>2, ToSetConcat
  <2> QED BY <2>1, <2>2, <2>3
<1>9. ((firstRow .. Len(rows)) \ ToSet(written))' = pending \ news
  BY <1>2, <1>8
<1>10. Len(written') >= Len(written) /\ UNCHANGED Len(rows)
  BY <1>1, <1>2, <1>3
<1> QED BY <1>3, <1>6, <1>7, <1>9, <1>10 DEF Writer!Persist

\* Every step of SerialSpec is a step of AsyncWriter or leaves it alone.
LEMMA WriterStep ==
  ASSUME Types, Types', SerialInv, SerialInv', [SerialNext]_vars
  PROVE  [Writer!Next]_(Writer!aVars)
<1> USE DEF Writer!Next, Writer!aVars
<1>1. ASSUME UNCHANGED <<rows, firstRow, written>>
      PROVE  UNCHANGED Writer!aVars
  BY <1>1
<1>2. CASE Outside
  BY <1>1, <1>2, OutsideEffect, WriterAccept
<1>3. CASE Crash
  BY <1>3, WriterDie
<1>4. ASSUME NEW c \in Callbacks, Quiet(c) \/ Takes(c) \/ Empties(c) \/ Advances(c) \/ Shrinks(c)
      PROVE  UNCHANGED Writer!aVars
  BY <1>1, <1>4 DEF Quiet, Takes, Empties, Advances, Shrinks, queueVars
<1>5. ASSUME NEW c \in Callbacks, SerialWrites(c)
      PROVE  Writer!Persist
  BY <1>5, WriterPersist
<1> QED BY <1>2, <1>3, <1>4, <1>5, SerialKinds DEF SerialStep

\* Without overlapping flushes, torn updates and lost acknowledgements the queue is an
\* AsyncWriter: rows reach the database in the order of their Enqueue (line 37), each once,
\* and only a death of the process drops one (lines 46-68).
THEOREM ImplementsAsyncWriter == SerialSpec => IsAsyncWriter
<1>1. Init => Writer!Init
  BY DEF Init, Writer!Init
<1>2. Types /\ SerialInv /\ [SerialNext]_vars => Types' /\ SerialInv'
  BY TypesNext, SerialNextInv DEF SerialNext
<1>3. Types /\ SerialInv /\ Types' /\ SerialInv' /\ [SerialNext]_vars => [Writer!Next]_(Writer!aVars)
  BY WriterStep
<1> QED BY <1>1, <1>2, <1>3, TypesInit, SerialInit, PTL DEF SerialSpec, IsAsyncWriter, Writer!Spec
=============================================================================
