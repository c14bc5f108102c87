---------------------- MODULE MCMaxConcurrentRequests ----------------------
EXTENDS MaxConcurrentRequests

\* Limit 0 is no limit here (256 in the code), so that one slot is a limit: two requests
\* wait for it, in queues of one and two. Both drop modes, with and without a timeout;
\* and no queue at all, by policy or by its length.
MCSettings ==
  {[limit |-> 1, policy |-> p, maxQueueLength |-> n, timed |-> t] :
     p \in Policies \ {"Drop"}, n \in {1, 2}, t \in BOOLEAN}
  \cup {[limit |-> l, policy |-> p, maxQueueLength |-> -1, timed |-> FALSE] :
     l \in {-1, 2}, p \in {"Drop", "FifoQueueDropTail"}}
=============================================================================
