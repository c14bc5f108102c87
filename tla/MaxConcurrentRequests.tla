----------------------- MODULE MaxConcurrentRequests -----------------------
(***************************************************************************)
(* Middlewares/MaxConcurrentRequestsMiddleware.cs and its enqueuer: a      *)
(* request takes one of Limit slots by a compare-and-swap on a counter, or *)
(* waits in a bounded queue for a slot that a finishing request hands over *)
(* under a lock; timeouts and client aborts cancel a wait.                 *)
(*                                                                         *)
(* The queue's task completion sources run the waiter's continuation in    *)
(* line: a granted waiter executes on the thread of the finishing request, *)
(* still inside the enqueuer's lock, until its first asynchronous await.   *)
(***************************************************************************)
EXTENDS Integers, SequencesExt, FiniteSetsExt

CONSTANTS
  Requests,
  None,
  ConcurrentRequestsUnlimited,  \* the Limit that means no limit (256)
  Settings                      \* what Startup may configure: see ConstantsOK

Policies == {"Drop", "FifoQueueDropTail", "FifoQueueDropHead"}

ASSUME ConstantsOK ==
  /\ None \notin Requests
  /\ ConcurrentRequestsUnlimited \in Nat
  /\ Settings \subseteq [limit : Int, policy : Policies, maxQueueLength : Int, timed : BOOLEAN]

VARIABLES
  options,   \* MaxConcurrentRequestsOptions, fixed at start; timed: MaxTimeInQueue is set
  count,     \* _concurrentRequestsCount
  queue,     \* the enqueuer's LinkedList of waiting requests
  pc,        \* where each request is; a served one is "idle" again
  aborted,   \* the requests whose RequestAborted token has fired
  inline,    \* the waiter that runs inside the enqueuer's lock
  leaked     \* history: slots whose request died in an exception

vars == <<options, count, queue, pc, aborted, inline, leaked>>

\* The setters of Limit and MaxQueueLength.
Configured(s) == [s EXCEPT
  !.limit = IF @ < ConcurrentRequestsUnlimited THEN ConcurrentRequestsUnlimited ELSE @,
  !.maxQueueLength = IF @ < 0 THEN 0 ELSE @]

Init ==
  /\ options \in {Configured(s) : s \in Settings}
  /\ count = 0 /\ queue = <<>> /\ leaked = 0
  /\ pc = [r \in Requests |-> "idle"]
  /\ aborted = {} /\ inline = None

Limited == options.limit # ConcurrentRequestsUnlimited
HasEnqueuer == options.policy # "Drop"
CanLock(r) == inline \in {None, r}      \* the lock is re-entrant
Unwind(r) == inline' = IF inline = r THEN None ELSE inline
\* What a request that may not run ends with: a 503, or nothing if nobody listens.
Refused(r) == IF r \in aborted THEN "idle" ELSE "rejected"

-----------------------------------------------------------------------------
(* Mutated forms of definitions below: bugs a change of the code could     *)
(* bring in, and which the properties must notice.                         *)

\* The slot is handed over and decremented as well.
MutantHandOverTwice(r) ==
  /\ pc[r] = "leaving"
  /\ Limited /\ HasEnqueuer /\ CanLock(r) /\ queue # <<>>
  /\ queue' = Tail(queue)
  /\ pc' = [pc EXCEPT ![r] = "decrement", ![Head(queue)] = "running"]
  /\ inline' \in {Head(queue), IF inline = r THEN None ELSE inline}
  /\ UNCHANGED <<options, count, aborted, leaked>>

\* The youngest waiter is served first.
MutantHandOverLast(r) ==
  /\ pc[r] = "leaving"
  /\ Limited /\ HasEnqueuer /\ CanLock(r) /\ queue # <<>>
  /\ queue' = Front(queue)
  /\ pc' = [pc EXCEPT ![r] = "idle", ![Last(queue)] = "running"]
  /\ inline' \in {Last(queue), IF inline = r THEN None ELSE inline}
  /\ UNCHANGED <<options, count, aborted, leaked>>

\* The waiter is answered and left in the queue.
MutantCancelKeeps(r) ==
  /\ pc[r] = "waiting"
  /\ r \in aborted \/ options.timed
  /\ CanLock(r)
  /\ pc' = [pc EXCEPT ![r] = Refused(r)]
  /\ UNCHANGED <<options, count, queue, aborted, inline, leaked>>

\* The timeout's token is not linked.
MutantCancelAborted(r) ==
  /\ pc[r] = "waiting"
  /\ r \in aborted
  /\ CanLock(r)
  /\ queue' = RemoveFirst(queue, r)
  /\ pc' = [pc EXCEPT ![r] = Refused(r)]
  /\ UNCHANGED <<options, count, aborted, inline, leaked>>

\* EnqueueAsync does not take the lock.
MutantEnqueueUnlocked(r) ==
  /\ pc[r] = "over"
  /\ HasEnqueuer /\ Len(queue) < options.maxQueueLength
  /\ queue' = Append(queue, r)
  /\ pc' = [pc EXCEPT ![r] = "waiting"]
  /\ UNCHANGED <<options, count, aborted, inline, leaked>>

\* The exception of a request that runs in line leaves the lock taken.
MutantFailLocked(r) ==
  /\ pc[r] = "running"
  /\ pc' = [pc EXCEPT ![r] = "idle"]
  /\ leaked' = leaked + 1
  /\ UNCHANGED <<options, count, queue, aborted, inline>>

-----------------------------------------------------------------------------
\* Invoke and CheckLimitExceeded; the loop around the compare-and-swap ends in one of
\* its two outcomes, each at one instant.
Arrive(r) ==
  /\ pc[r] \in {"idle", "rejected"}
  /\ aborted' = aborted \ {r}
  /\ \/ /\ ~Limited
        /\ pc' = [pc EXCEPT ![r] = "running"]
        /\ UNCHANGED count
     \/ /\ Limited /\ count < options.limit
        /\ pc' = [pc EXCEPT ![r] = "running"]
        /\ count' = count + 1
     \/ /\ Limited /\ count >= options.limit
        /\ pc' = [pc EXCEPT ![r] = "over"]
        /\ UNCHANGED count
  /\ UNCHANGED <<options, queue, inline, leaked>>

\* No enqueuer, or one without room for anybody.
Refuse(r) ==
  /\ pc[r] = "over"
  /\ ~HasEnqueuer \/ options.maxQueueLength = 0
  /\ pc' = [pc EXCEPT ![r] = Refused(r)]
  /\ UNCHANGED <<options, count, queue, aborted, inline, leaked>>

\* EnqueueAsync inside the lock. An aborted request is not added, but a full queue that
\* drops its head has dropped it by then.
EnqueueAsync(r) ==
  /\ pc[r] = "over"
  /\ HasEnqueuer /\ options.maxQueueLength > 0
  /\ CanLock(r)
  /\ LET full == Len(queue) >= options.maxQueueLength
         dropHead == full /\ options.policy = "FifoQueueDropHead"
         room == IF dropHead THEN Tail(queue) ELSE queue
         enters == (~full \/ dropHead) /\ r \notin aborted
     IN /\ queue' = IF enters THEN Append(room, r) ELSE room
        /\ pc' = [q \in Requests |->
                    IF q = r THEN IF enters THEN "waiting" ELSE Refused(r)
                    ELSE IF dropHead /\ q = Head(queue) THEN Refused(q)
                    ELSE pc[q]]
  /\ UNCHANGED <<options, count, aborted, inline, leaked>>

\* The client goes away (what that does to a request that runs is _next's affair).
Abort(r) ==
  /\ pc[r] \in {"over", "waiting"}
  /\ aborted' = aborted \cup {r}
  /\ UNCHANGED <<options, count, queue, pc, inline, leaked>>

\* CancelEnqueue, called by the token of the abort or of the timeout.
CancelEnqueue(r) ==
  /\ pc[r] = "waiting"
  /\ r \in aborted \/ options.timed
  /\ CanLock(r)
  /\ queue' = RemoveFirst(queue, r)
  /\ pc' = [pc EXCEPT ![r] = Refused(r)]
  /\ UNCHANGED <<options, count, aborted, inline, leaked>>

\* A waiter that runs in line comes to its first asynchronous await: the finishing
\* request's Dequeue returns and the lock is free.
Yield(r) ==
  /\ inline = r
  /\ pc[r] = "running"
  /\ inline' = None
  /\ UNCHANGED <<options, count, queue, pc, aborted, leaked>>

\* _next completes.
Finish(r) ==
  /\ pc[r] = "running"
  /\ pc' = [pc EXCEPT ![r] = "leaving"]
  /\ UNCHANGED <<options, count, queue, aborted, inline, leaked>>

\* _next throws: Invoke has no finally, so nothing is handed over or decremented.
Fail(r) ==
  /\ pc[r] = "running"
  /\ pc' = [pc EXCEPT ![r] = "idle"]
  /\ leaked' = IF Limited THEN leaked + 1 ELSE leaked
  /\ Unwind(r)
  /\ UNCHANGED <<options, count, queue, aborted>>

\* ShouldDecrementConcurrentRequestsCount: Dequeue hands the slot to the first waiter, in
\* line if that has come to await its task, or there is none.
HandOver(r) ==
  /\ pc[r] = "leaving"
  /\ Limited /\ HasEnqueuer /\ CanLock(r) /\ queue # <<>>
  /\ queue' = Tail(queue)
  /\ pc' = [pc EXCEPT ![r] = "idle", ![Head(queue)] = "running"]
  /\ inline' \in {Head(queue), IF inline = r THEN None ELSE inline}
  /\ UNCHANGED <<options, count, aborted, leaked>>

NoHandOver(r) ==
  /\ pc[r] = "leaving"
  /\ \/ /\ ~Limited
        /\ pc' = [pc EXCEPT ![r] = "idle"]
     \/ /\ Limited
        /\ ~HasEnqueuer \/ (CanLock(r) /\ queue = <<>>)
        /\ pc' = [pc EXCEPT ![r] = "decrement"]
  /\ UNCHANGED <<options, count, queue, aborted, inline, leaked>>

Decrement(r) ==
  /\ pc[r] = "decrement"
  /\ count' = count - 1
  /\ pc' = [pc EXCEPT ![r] = "idle"]
  /\ Unwind(r)
  /\ UNCHANGED <<options, queue, aborted, leaked>>

Next == \E r \in Requests :
  \/ Arrive(r) \/ Refuse(r) \/ EnqueueAsync(r) \/ Abort(r) \/ CancelEnqueue(r)
  \/ Yield(r) \/ Finish(r) \/ Fail(r) \/ HandOver(r) \/ NoHandOver(r) \/ Decrement(r)

Spec == Init /\ [][Next]_vars

\* Handlers end, cancelled tokens call back, and a thread that keeps asking for the lock
\* gets it. Nobody has to send a request, and a handler need not be asynchronous (Yield).
FairSpec ==
  /\ Spec
  /\ \A r \in Requests :
       /\ WF_vars(Finish(r) \/ Fail(r)) /\ WF_vars(Decrement(r)) /\ WF_vars(Refuse(r))
       /\ SF_vars(EnqueueAsync(r)) /\ SF_vars(HandOver(r) \/ NoHandOver(r))
       /\ SF_vars(CancelEnqueue(r))

-----------------------------------------------------------------------------
(* Properties. *)

Holders == {r \in Requests : pc[r] \in {"running", "leaving", "decrement"}}

TypeOK ==
  /\ options \in [limit : Nat, policy : Policies, maxQueueLength : Nat, timed : BOOLEAN]
  /\ count \in Nat /\ leaked \in Nat
  /\ queue \in Seq(Requests)
  /\ pc \in [Requests -> {"idle", "rejected", "over", "waiting", "running", "leaving", "decrement"}]
  /\ aborted \subseteq Requests
  /\ inline \in Requests \cup {None}

\* The counter is exactly the slots in use, those lost to an exception included, and never
\* more than Limit: hand-overs, which leave it alone, and compare-and-swaps that race with
\* them never let a request run without a slot (lines 39-101 of the middleware).
SlotsBounded ==
  Limited => count = Cardinality(Holders) + leaked /\ count <= options.limit

\* The waiting requests are those in the queue, each once, and no more than
\* MaxQueueLength: nobody is answered twice, or taken off the queue and never answered,
\* however timeouts, aborts, drops and hand-overs cross.
WaitersQueued ==
  /\ ToSet(queue) = {r \in Requests : pc[r] = "waiting"}
  /\ IsInjective(queue)
  /\ Len(queue) <= options.maxQueueLength

\* Only a request with a slot runs inside the lock, and never one still in the queue.
InlineHolds == inline # None => pc[inline] \in {"running", "leaving", "decrement"}

\* The lock is not held forever by waiters that run in line, even if every handler is
\* synchronous and hands over to the next one from inside the lock: nobody can join the
\* queue meanwhile, so the chain ends.
LockReleased == []<>(inline = None)

\* With MaxTimeInQueue set every wait ends.
WaitEnds == \A r \in Requests :
  pc[r] = "waiting" /\ options.timed ~> pc[r] # "waiting"

\* Without it a waiter depends on others finishing; the queue is first in, first out, so
\* it is not passed over forever while requests keep finishing.
NoOvertaking == \A r \in Requests :
  []<>(\E q \in Requests : pc[q] = "leaving" /\ q # r) => []<>(pc[r] # "waiting")
=============================================================================
