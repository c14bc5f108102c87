-------------------------- MODULE DbOperationMngr --------------------------
(***************************************************************************)
(* PostManager/DbOperationMngr.cs, the write-behind queue between the vote *)
(* handlers and MySQL. A handler enqueues its row under blockObj and, when *)
(* no timer runs, starts one; the timer's callback takes rows from the     *)
(* queue and writes them as one batch, without any lock, on thread-pool    *)
(* threads that may overlap. The timer stops itself after three callbacks  *)
(* in a row that leave the queue empty.                                    *)
(*                                                                         *)
(* The queue is a Queue<Object> of .NET: a circular array that grows when  *)
(* an Enqueue finds _size equal to its length. Positions count from 1, as  *)
(* sequences do. A row is the number of its Enqueue (1, 2, ...). A Timer   *)
(* is named by the row whose insert created it: that insert's T and batch  *)
(* function are the ones its callbacks use.                                *)
(***************************************************************************)
EXTENDS Integers, SequencesExt

CONSTANTS
  Kinds,      \* the element types T of the inserts (VoteLog, JDLYLog)
  Callbacks,  \* the thread-pool threads that may run timer callbacks
  MaxBatch,   \* maxBatchSize
  MinimumGrow, \* of Queue<T>: by how much the array grows at least
  MaxRows     \* bound of the model: how many rows are ever inserted

ASSUME ConstantsOK ==
  /\ MaxBatch \in Nat \ {0} /\ MinimumGrow \in Nat \ {0}
  /\ MaxRows \in Nat

Null == 0       \* an empty slot of the array, and no Timer
StepsToStop == 3
StepsCap == StepsToStop + 1   \* timerSteps saturates here: only "= 3" is ever asked

VARIABLES
  rows,            \* the T of every row ever put in the queue
  firstRow,        \* the first row of this process (a restart forgets the older ones)
  array, head, tail, count,  \* the queue's _array, _head, _tail and _size
  timerIsRunning, isDbRuning, timerSteps,
  timer,           \* _timer
  live,            \* the Timers that are scheduled
  insert,          \* the insert inside lock(blockObj)
  cb,              \* the timer callbacks
  written          \* the rows in the database, in the order of their writes

queueVars == <<rows, firstRow, array, head, tail>>
timerVars == <<timerIsRunning, timer, live>>
vars == <<queueVars, count, timerVars, isDbRuning, timerSteps, insert, cb, written>>

NoInsert == [pc |-> "idle", reg |-> 0, grown |-> <<>>]
NoCallback == [pc |-> "idle", type |-> Null, batch |-> <<>>, reg |-> 0]

Init ==
  /\ rows = <<>> /\ firstRow = 1
  /\ array = <<>> /\ head = 1 /\ tail = 1 /\ count = 0
  /\ timerIsRunning = FALSE /\ isDbRuning = FALSE /\ timerSteps = 0
  /\ timer = Null /\ live = {}
  /\ insert = NoInsert
  /\ cb = [c \in Callbacks |-> NoCallback]
  /\ written = <<>>

Min2(a, b) == IF a < b THEN a ELSE b
Max2(a, b) == IF a < b THEN b ELSE a

\* The insert goes on at pc, with this value in a register.
Proceed(pc, reg) == insert' = [pc |-> pc, reg |-> reg, grown |-> <<>>]

\* Callback c goes on at pc, with this batch and this value in a register.
Continue(c, pc, batch, reg) ==
  cb' = [cb EXCEPT ![c] = [pc |-> pc, type |-> cb[c].type, batch |-> batch, reg |-> reg]]
Goto(c, pc) == Continue(c, pc, cb[c].batch, 0)
Return(c) == cb' = [cb EXCEPT ![c] = NoCallback]

-----------------------------------------------------------------------------
(* The process dies (an exception no callback catches, a kill, a deploy)   *)
(* and supervisor starts it again: its memory is gone, MySQL is not.       *)

Crash ==
  /\ firstRow' = Len(rows) + 1
  /\ array' = <<>> /\ head' = 1 /\ tail' = 1 /\ count' = 0
  /\ timerIsRunning' = FALSE /\ isDbRuning' = FALSE /\ timerSteps' = 0
  /\ timer' = Null /\ live' = {}
  /\ insert' = NoInsert
  /\ cb' = [c \in Callbacks |-> NoCallback]
  /\ UNCHANGED <<rows, written>>

-----------------------------------------------------------------------------
(* Mutated forms of definitions below: bugs a change of the code could     *)
(* bring in, and which the properties must notice.                         *)

\* The insert grants the timer one more round than the others.
MutantResetSteps ==
  /\ insert.pc = "reset"
  /\ timerSteps' = -1
  /\ Proceed("test", 0)
  /\ UNCHANGED <<queueVars, count, timerVars, isDbRuning, cb, written>>

\* A failing save is caught, and the callback returns from the catch block.
MutantWriteCaught(c) ==
  /\ cb[c].pc = "write"
  /\ \/ Return(c) /\ UNCHANGED written
     \/ /\ Null \notin ToSet(cb[c].batch)
        /\ written' = written \o cb[c].batch
        /\ Continue(c, "release", <<>>, 0)
  /\ UNCHANGED <<queueVars, count, timerVars, isDbRuning, timerSteps, insert>>

\* The rows of a batch are inserted at its front.
MutantDequeue(c) ==
  /\ cb[c].pc = "loop"
  /\ IF Len(cb[c].batch) < Min2(count, MaxBatch)
     THEN Continue(c, "clear", <<array[head]>> \o cb[c].batch, 0)
     ELSE Goto(c, "write")
  /\ UNCHANGED <<queueVars, count, timerVars, isDbRuning, timerSteps, insert, written>>

\* The flag is not reset on the way out.
MutantRelease(c) ==
  /\ cb[c].pc = "release"
  /\ Goto(c, "count")
  /\ UNCHANGED <<queueVars, count, timerVars, isDbRuning, timerSteps, insert, written>>

-----------------------------------------------------------------------------
(* InsertOptAutoRun. The lock lets one insert in at a time, but Enqueue    *)
(* meets the unlocked Dequeue of a callback: it compares _size with the    *)
(* array's length, perhaps copies the array, stores the row, and           *)
(* increments _size by a load and a store.                                 *)

Wrapped(i) == IF i = Len(array) THEN 1 ELSE i + 1   \* MoveNext

\* SetCapacity's copy: the rows from the head on, then, if the tail is not behind the
\* head, those from the start of the array to the tail.
Grown ==
  LET unwrapped == Len(array) - head + 1
      wrapped == IF head < tail THEN 0 ELSE tail - 1
  IN  [i \in 1 .. Max2(2 * Len(array), Len(array) + MinimumGrow) |->
         IF i <= unwrapped THEN array[head + i - 1]
         ELSE IF i <= unwrapped + wrapped THEN array[i - unwrapped]
         ELSE Null]

\* After a wrong _size the copy may be asked for more than the array has, or for less than
\* nothing. Its exception leaves the insert with nothing changed: that no Enqueue happens
\* is how a row is refused.
CopyFails == IF head < tail THEN head - 1 + count > Len(array) ELSE tail < 1

Enqueue ==
  /\ insert.pc = "idle"
  /\ Len(rows) < MaxRows
  /\ IF count = Len(array)
     THEN ~CopyFails /\ insert' = [pc |-> "grow", reg |-> 0, grown |-> Grown]
     ELSE Proceed("put", 0)
  /\ UNCHANGED <<queueVars, count, timerVars, isDbRuning, timerSteps, cb, written>>

\* The copy becomes the array, and the queue begins at its start.
Grow ==
  /\ insert.pc = "grow"
  /\ array' = insert.grown /\ head' = 1
  /\ tail' = IF count = Len(insert.grown) THEN 1 ELSE count + 1
  /\ Proceed("put", 0)
  /\ UNCHANGED <<rows, firstRow, count, timerVars, isDbRuning, timerSteps, cb, written>>

\* Whatever the slot at the tail holds is overwritten. A tail that Grow took from a _size
\* below zero is no position: the row is refused with an exception.
Put(kind) ==
  /\ insert.pc = "put"
  /\ \/ /\ tail \in 1 .. Len(array)
        /\ rows' = Append(rows, kind)
        /\ array' = [array EXCEPT ![tail] = Len(rows) + 1]
        /\ tail' = Wrapped(tail)
        /\ Proceed("count", count)
     \/ /\ tail \notin 1 .. Len(array)
        /\ insert' = NoInsert
        /\ UNCHANGED <<rows, array, tail>>
  /\ UNCHANGED <<firstRow, head, count, timerVars, isDbRuning, timerSteps, cb, written>>

StoreCount ==
  /\ insert.pc = "count"
  /\ count' = insert.reg + 1
  /\ Proceed("reset", 0)
  /\ UNCHANGED <<queueVars, timerVars, isDbRuning, timerSteps, cb, written>>

ResetSteps ==
  /\ insert.pc = "reset"
  /\ timerSteps' = 0
  /\ Proceed("test", 0)
  /\ UNCHANGED <<queueVars, count, timerVars, isDbRuning, cb, written>>

TestTimer ==
  /\ insert.pc = "test"
  /\ timerIsRunning' = TRUE
  /\ IF timerIsRunning THEN insert' = NoInsert ELSE Proceed("start", 0)
  /\ UNCHANGED <<queueVars, count, timer, live, isDbRuning, timerSteps, cb, written>>

StartTimer ==
  /\ insert.pc = "start"
  /\ timer' = Len(rows)
  /\ live' = live \cup {Len(rows)}
  /\ insert' = NoInsert
  /\ UNCHANGED <<queueVars, count, timerIsRunning, isDbRuning, timerSteps, cb, written>>

Insert ==
  \/ Enqueue \/ Grow \/ \E kind \in Kinds : Put(kind)
  \/ StoreCount \/ ResetSteps \/ TestTimer \/ StartTimer

-----------------------------------------------------------------------------
(* The timer callback. isDbRuning is tested and set in two steps.          *)

\* The period of Timer t elapses: a pool thread begins its callback, whose T is that of
\* the insert that created t.
Fire(c, t) ==
  /\ cb[c].pc = "idle"
  /\ t \in live
  /\ cb' = [cb EXCEPT ![c] = [pc |-> "enter", type |-> rows[t], batch |-> <<>>, reg |-> 0]]
  /\ UNCHANGED <<queueVars, count, timerVars, isDbRuning, timerSteps, insert, written>>

Enter(c) ==
  /\ cb[c].pc = "enter"
  /\ IF isDbRuning THEN Return(c) ELSE Goto(c, "claim")
  /\ UNCHANGED <<queueVars, count, timerVars, isDbRuning, timerSteps, insert, written>>

Claim(c) ==
  /\ cb[c].pc = "claim"
  /\ isDbRuning' = TRUE
  /\ Goto(c, "loop")
  /\ UNCHANGED <<queueVars, count, timerVars, timerSteps, insert, written>>

\* The loop compares i with a Count that its own Dequeues lower. Dequeue reads the slot
\* at the head (an empty one, if _size is too large), empties the slot at the head, moves
\* the head and decrements _size: an insert may come between, and grow the array.
Dequeue(c) ==
  /\ cb[c].pc = "loop"
  /\ IF Len(cb[c].batch) < Min2(count, MaxBatch)
     THEN Continue(c, "clear", Append(cb[c].batch, array[head]), 0)
     ELSE Goto(c, "write")
  /\ UNCHANGED <<queueVars, count, timerVars, isDbRuning, timerSteps, insert, written>>

Clear(c) ==
  /\ cb[c].pc = "clear"
  /\ array' = [array EXCEPT ![head] = Null]
  /\ Continue(c, "advance", cb[c].batch, head)
  /\ UNCHANGED <<rows, firstRow, head, tail, count, timerVars, isDbRuning, timerSteps, insert,
                 written>>

Advance(c) ==
  /\ cb[c].pc = "advance"
  /\ head' = Wrapped(cb[c].reg)
  /\ Continue(c, "shrink", cb[c].batch, count)
  /\ UNCHANGED <<rows, firstRow, array, tail, count, timerVars, isDbRuning, timerSteps, insert,
                 written>>

\* (T)Dequeue() throws on a row of another type than that of the Timer's insert.
CastFails(c) ==
  /\ Last(cb[c].batch) # Null
  /\ rows[Last(cb[c].batch)] # cb[c].type

Shrink(c) ==
  /\ cb[c].pc = "shrink"
  /\ \/ /\ CastFails(c)
        /\ Crash
     \/ /\ ~CastFails(c)
        /\ count' = cb[c].reg - 1
        /\ Goto(c, "loop")
        /\ UNCHANGED <<queueVars, timerVars, isDbRuning, timerSteps, insert, written>>

Poisoned(c) == Null \in ToSet(cb[c].batch)

\* optsFunc adds the batch to the DbContext and saves it in one transaction; it throws
\* on a null. A failing save is a Crash too: Task.WaitAll rethrows in the callback.
Write(c) ==
  /\ cb[c].pc = "write"
  /\ \/ /\ Poisoned(c)
        /\ Crash
     \/ /\ ~Poisoned(c)
        /\ written' = written \o cb[c].batch
        /\ Continue(c, "release", <<>>, 0)
        /\ UNCHANGED <<queueVars, count, timerVars, isDbRuning, timerSteps, insert>>

\* EnableRetryOnFailure(3): a save that committed, but whose acknowledgement was lost with
\* the connection, runs once more and inserts the batch again. Bound of the model: only
\* the first save.
Resave(c) ==
  /\ cb[c].pc = "write"
  /\ ~Poisoned(c) /\ cb[c].batch # <<>>
  /\ written = <<>>
  /\ written' = written \o cb[c].batch \o cb[c].batch
  /\ Continue(c, "release", <<>>, 0)
  /\ UNCHANGED <<queueVars, count, timerVars, isDbRuning, timerSteps, insert>>

Release(c) ==
  /\ cb[c].pc = "release"
  /\ isDbRuning' = FALSE
  /\ Goto(c, "count")
  /\ UNCHANGED <<queueVars, count, timerVars, timerSteps, insert, written>>

CountEmpty(c) ==
  /\ cb[c].pc = "count"
  /\ IF count = 0 THEN Continue(c, "bump", cb[c].batch, timerSteps) ELSE Goto(c, "steps")
  /\ UNCHANGED <<queueVars, count, timerVars, isDbRuning, timerSteps, insert, written>>

Bump(c) ==
  /\ cb[c].pc = "bump"
  /\ timerSteps' = Min2(cb[c].reg + 1, StepsCap)
  /\ Goto(c, "steps")
  /\ UNCHANGED <<queueVars, count, timerVars, isDbRuning, insert, written>>

TestSteps(c) ==
  /\ cb[c].pc = "steps"
  /\ IF timerSteps = StepsToStop THEN Goto(c, "stop") ELSE Return(c)
  /\ UNCHANGED <<queueVars, count, timerVars, isDbRuning, timerSteps, insert, written>>

StopRunning(c) ==
  /\ cb[c].pc = "stop"
  /\ timerIsRunning' = FALSE
  /\ Goto(c, "dispose")
  /\ UNCHANGED <<queueVars, count, timer, live, isDbRuning, timerSteps, insert, written>>

\* Disposes whatever _timer refers to by now; a NullReferenceException if nothing.
Dispose(c) ==
  /\ cb[c].pc = "dispose"
  /\ \/ /\ timer = Null
        /\ Crash
     \/ /\ timer # Null
        /\ live' = live \ {timer}
        /\ Goto(c, "forget")
        /\ UNCHANGED <<queueVars, count, timerIsRunning, timer, isDbRuning, timerSteps,
                       insert, written>>

Forget(c) ==
  /\ cb[c].pc = "forget"
  /\ timer' = Null
  /\ Return(c)
  /\ UNCHANGED <<queueVars, count, timerIsRunning, live, isDbRuning, timerSteps, insert, written>>

Callback(c) ==
  \/ Enter(c) \/ Claim(c) \/ Dequeue(c) \/ Clear(c) \/ Advance(c) \/ Shrink(c) \/ Write(c) \/ Resave(c)
  \/ Release(c) \/ CountEmpty(c) \/ Bump(c) \/ TestSteps(c)
  \/ StopRunning(c) \/ Dispose(c) \/ Forget(c)

\* The runtime finalizes a Timer nothing refers to: it fires no more.
Collect(t) ==
  /\ t \in live \ {timer}
  /\ live' = live \ {t}
  /\ UNCHANGED <<queueVars, count, timerIsRunning, timer, isDbRuning, timerSteps, insert,
                 cb, written>>

-----------------------------------------------------------------------------
Timers == 1 .. MaxRows

Next ==
  \/ Insert
  \/ \E c \in Callbacks, t \in Timers : Fire(c, t)
  \/ \E c \in Callbacks : Callback(c)
  \/ \E t \in Timers : Collect(t)
  \/ Crash

Spec == Init /\ [][Next]_vars

\* A callback between setting isDbRuning and resetting it.
Section == {"loop", "clear", "advance", "shrink", "write", "release"}
Flushing(c) == cb[c].pc \in Section
\* "isDbRuning" does what it is for: one flush at a time. The code does not guarantee
\* it (Enter and Claim of two callbacks may alternate), but ticks are 500 ms apart.
NoOverlap == \A c, d \in Callbacks : Flushing(c) /\ Flushing(d) => c = d

\* Callback c is inside Dequeue.
Dequeuing(c) == cb[c].pc \in {"clear", "advance", "shrink"}
\* No Dequeue meets a growth of the array, and no increment of _size a decrement. All else
\* that Enqueue and Dequeue do may interleave. The code does not guarantee it: the lock
\* is the inserts' alone.
Untorn == \A c \in Callbacks :
  /\ insert.pc = "grow" => ~Dequeuing(c)
  /\ insert.pc = "count" => cb[c].pc # "shrink"

\* The behaviours without overlapping flushes.
OneFlushSpec == Init /\ [][Next /\ NoOverlap']_vars

\* The behaviours without overlapping flushes, torn updates of the queue and lost
\* acknowledgements.
SerialNext == Next /\ NoOverlap' /\ Untorn' /\ \A c \in Callbacks : ~Resave(c)
SerialSpec == Init /\ [][SerialNext]_vars

\* The code's threads and the Timers go on: no thread stops forever inside its code, and
\* a scheduled Timer fires again and again. Nothing makes a client insert.
FairSpec ==
  /\ Init /\ [][Next]_vars
  /\ WF_vars(Grow \/ (\E kind \in Kinds : Put(kind)) \/ StoreCount \/ ResetSteps \/ TestTimer \/ StartTimer)
  /\ \A c \in Callbacks : WF_vars(Callback(c))
  /\ \A t \in Timers : WF_vars(\E c \in Callbacks : Fire(c, t))

-----------------------------------------------------------------------------
(* Properties. *)

Row == 1 .. Len(rows)
PCs == {"idle", "enter", "claim", "count", "bump", "steps", "stop", "dispose", "forget"} \cup Section
InsertState == [pc : {"idle", "grow", "put", "count", "reset", "test", "start"}, reg : Int,
                grown : Seq(Nat)]
CallbackState == [pc : PCs, type : Kinds \cup {Null}, batch : Seq(Nat), reg : Int]

TypeOK ==
  /\ rows \in Seq(Kinds)
  /\ firstRow \in Nat
  /\ array \in Seq(Nat) /\ head \in Nat \ {0} /\ tail \in Int /\ count \in Int
  /\ timerIsRunning \in BOOLEAN /\ isDbRuning \in BOOLEAN /\ timerSteps \in 0 .. StepsCap
  /\ timer \in Nat /\ live \subseteq Nat
  /\ insert \in InsertState
  /\ cb \in [Callbacks -> CallbackState]
  /\ written \in Seq(Nat)

Queued(r) == r \in ToSet(array)
InBatch(r) == \E c \in Callbacks : r \in ToSet(cb[c].batch)

\* While flushes do not overlap and no update of the queue is torn, a row accepted by this
\* process is in the queue, in the batch of a callback or in the database, however else
\* the locked Enqueue and the unlocked Dequeue meet, also in a queue that wraps around or
\* grows: none is overwritten (lines 37-67).
Conservation ==
  \A r \in firstRow .. Len(rows) : Queued(r) \/ InBatch(r) \/ r \in ToSet(written)

\* Comments of lines 30 and 31: the inserts take turns under the lock, dequeuing is
\* asynchronous. So while the process lives, the row of an insert that has returned is
\* still there, unless a callback holds a null it will die of.
InsertsKept ==
  \A r \in firstRow .. Len(rows) :
    \/ Queued(r) \/ InBatch(r) \/ r \in ToSet(written)
    \/ \E c \in Callbacks : Poisoned(c)

\* isDbRuning stays set only while some callback is between lines 50 and 68: no early
\* exit of a callback leaves it set, which would silence every later tick. It holds even
\* when flushes overlap.
FlagOwned == isDbRuning => \E c \in Callbacks : Flushing(c)

\* Without overlapping flushes, torn updates and lost acknowledgements it is an AsyncWriter:
\* rows reach the database in the order of their Enqueue, once each, and only a death of
\* the process drops one.
Writer == INSTANCE AsyncWriter WITH
  accepted <- Len(rows),
  pending <- (firstRow .. Len(rows)) \ ToSet(written),
  table <- written
IsAsyncWriter == Writer!Spec

\* A row does not wait forever in a queue that admits it is not empty while a Timer is
\* scheduled: some tick takes it. (What the code does not promise, that a Timer is
\* scheduled and _size is right, is TimerStopsDrained's subject.)
NoStarvation == \A r \in 1 .. MaxRows : []<>~(Queued(r) /\ count > 0 /\ live # {})

\* Comment of line 29: the timer exits after three rounds without a new row in the queue.
\* So a stopped timer with no insert under way has left nothing in the queue.
TimerStopsDrained == ~timerIsRunning /\ insert.pc = "idle" => \A r \in 1 .. MaxRows : ~Queued(r)
=============================================================================
