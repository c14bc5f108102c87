----------------------------- MODULE Broadcast -----------------------------
(***************************************************************************)
(* The fan-out exchanges of RabbitMQ, the queue the server consumes from   *)
(* each and the WebSockets of its pool (RabbitMQClient.cs,                 *)
(* UseRabbitMQClient.cs, OryxWebSocketPool.cs). The server publishes to    *)
(* itself: every message goes through the broker and comes back to a       *)
(* consumer that sends it to each socket of the pool that asked for what   *)
(* comes from this queue.                                                  *)
(*                                                                         *)
(* The consumers are registered with autoAck false and never acknowledge.  *)
(* So the broker keeps what it has delivered, and delivers all of it again *)
(* when the connection is lost and recovered.                              *)
(***************************************************************************)
EXTENDS Naturals, Sequences

CONSTANTS
  Queues,         \* each with an exchange, a connection and a consumer of its own
  Receivers,      \* the clients that may open a socket
  Listens,        \* the queue whose messages a client's socket asks for
  MaxQueue,       \* bound of the model: messages on their way to one client
  MaxRecoveries   \* bound of the model: how often a connection to the broker is lost

VARIABLES
  queue,          \* the messages in each queue of the broker
  unacked,        \* those delivered and never acknowledged
  recoveries,     \* how often a connection has been lost
  socket,         \* the socket of each receiver: "closed", "opening" or "open"
  inbox           \* what was sent on it and is not received yet

vars == <<queue, unacked, recoveries, socket, inbox>>

\* The sockets of R are open, and nothing has been sent.
Start(R) ==
  /\ queue = [q \in Queues |-> <<>>]
  /\ unacked = [q \in Queues |-> <<>>]
  /\ recoveries = 0
  /\ socket = [r \in Receivers |-> IF r \in R THEN "open" ELSE "closed"]
  /\ inbox = [r \in Receivers |-> <<>>]

\* The sockets of the pool that asked for what comes from queue q.
Pool(q) == {r \in Receivers : socket[r] = "open" /\ Listens[r] = q}

\* Whether one more message stays within the bound MaxQueue.
Room(q) ==
  \A r \in Receivers : Listens[r] = q => Len(queue[q]) + Len(inbox[r]) < MaxQueue

\* IModel.BasicPublish of the exchange.
Publish(q, m) ==
  /\ queue' = [queue EXCEPT ![q] = Append(@, m)]
  /\ UNCHANGED <<unacked, recoveries, socket, inbox>>

\* The consumer's handler sends the first message to the receivers R, one after another.
\* What it has delivered is kept while it can still be delivered again.
SendTo(q, R) ==
  /\ queue[q] # <<>>
  /\ \A r \in R : Len(inbox[r]) < MaxQueue
  /\ queue' = [queue EXCEPT ![q] = Tail(@)]
  /\ unacked' = [unacked EXCEPT ![q] =
                   IF recoveries < MaxRecoveries THEN Append(@, Head(queue[q])) ELSE <<>>]
  /\ inbox' = [r \in Receivers |->
                 IF r \in R THEN Append(inbox[r], Head(queue[q])) ELSE inbox[r]]
  /\ UNCHANGED <<recoveries, socket>>

Deliver(q) == SendTo(q, Pool(q))

\* The handler iterates over the list of sockets while any client, also of another kind,
\* joins or leaves it: an InvalidOperationException, and the rest of the pool gets nothing.
Interrupted(q) == \E R \in SUBSET Pool(q) : R # Pool(q) /\ SendTo(q, R)

\* The connection to the broker is lost and recovered: the queue outlives it (it is neither
\* exclusive nor autoDelete) and all that was delivered is in it again. (A server that starts
\* anew has queues of its own, by the Guid EnvID.)
Recover(q) ==
  /\ recoveries < MaxRecoveries
  /\ unacked[q] # <<>>
  /\ recoveries' = recoveries + 1
  /\ queue' = [queue EXCEPT ![q] = unacked[q] \o @]
  /\ unacked' = [unacked EXCEPT ![q] = <<>>]
  /\ UNCHANGED <<socket, inbox>>

\* A client asks for a socket; the server adds it to its pool.
Connect(r) ==
  /\ socket[r] = "closed"
  /\ socket' = [socket EXCEPT ![r] = "opening"]
  /\ UNCHANGED <<queue, unacked, recoveries, inbox>>

Opened(r) ==
  /\ socket[r] = "opening"
  /\ socket' = [socket EXCEPT ![r] = "open"]
  /\ UNCHANGED <<queue, unacked, recoveries, inbox>>

\* It closes, for whatever reason; what was on its way is lost.
Closed(r) ==
  /\ socket[r] # "closed"
  /\ socket' = [socket EXCEPT ![r] = "closed"]
  /\ inbox' = [inbox EXCEPT ![r] = <<>>]
  /\ UNCHANGED <<queue, unacked, recoveries>>

\* The client takes the first message off its socket.
Receive(r) ==
  /\ inbox[r] # <<>>
  /\ inbox' = [inbox EXCEPT ![r] = Tail(@)]
  /\ UNCHANGED <<queue, unacked, recoveries, socket>>

=============================================================================
