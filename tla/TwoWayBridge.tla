------------------------------ MODULE TwoWayBridge -----------------------------
(***************************************************************************)
(* The queues of thrift/lib/cpp2/async/TwoWayBridge.h: one atomic word     *)
(* that is empty, holds the messages, holds a waiting consumer or is       *)
(* closed.  Every operation is one successful exchange of that word.       *)
(***************************************************************************)
EXTENDS Sequences

EmptyQueue == [type |-> "EMPTY", msgs |-> <<>>]
ClosedQueue == [type |-> "CLOSED", msgs |-> <<>>]

IsClosed(q) == q.type = "CLOSED"

(* The queues that messages drawn from a set can produce.                  *)
Queues(Messages) ==
  [type : {"EMPTY", "TAIL", "CONSUMER", "CLOSED"}, msgs : Seq(Messages)]

(* A message pushed to a closed queue is dropped.                          *)
Push(q, m) ==
  IF IsClosed(q) THEN q ELSE [type |-> "TAIL", msgs |-> Append(q.msgs, m)]

(* The push takes a waiting consumer off the queue and must wake it.       *)
Wakes(q) == q.type = "CONSUMER"

(* wait: TRUE if the consumer was left in the queue or told that the queue *)
(* is closed, FALSE if there are messages.                                 *)
Waits(q) == q.type \in {"EMPTY", "CLOSED"}
Wait(q) == IF q.type = "EMPTY" THEN [q EXCEPT !.type = "CONSUMER"] ELSE q

(* getMessages leaves an empty queue behind, or a closed one as it is.     *)
Taken(q) == IF IsClosed(q) THEN q ELSE EmptyQueue

=============================================================================
