------------------------ MODULE ServerPublisherStream -------------------------
(***************************************************************************)
(* thrift/lib/cpp2/async/ServerPublisherStream.h: a stream whose items are *)
(* published by the service's own threads.                                 *)
(*                                                                         *)
(* Four kinds of threads work on one reference-counted object without a    *)
(* lock.  The publishers push, before the stream is established into       *)
(* encodeOrQueue_ (an AtomicQueueOrPtr) and afterwards, encoded, into      *)
(* queue_.  The request's thread ("stream") establishes the stream or      *)
(* drops it.  The connection's event base ("evb") hands the items to the   *)
(* client's callback, as far as there is credit, and cancels.  The         *)
(* executor ("exec") runs the service's callback after a cancellation.     *)
(* That callback runs once (CallOnceFunction), whoever ends the stream     *)
(* first.                                                                  *)
(***************************************************************************)
EXTENDS TwoWayBridge, Integers

CONSTANTS Publishers,  \* threads that publish
          Completer,   \* the one of them that completes the stream
          Items,       \* publisher -> how many items it may publish
          MaxGrants    \* how many items the client may ask for

ASSUME PublisherAssumption ==
  /\ Completer \in Publishers
  /\ Items \in [Publishers -> Nat]
  /\ MaxGrants \in Nat
  /\ {"stream", "evb", "exec"} \intersect Publishers = {}

VARIABLES
  enc,      \* encodeOrQueue_: its messages, or closed
  payload,  \* has closedPayload_ been set?
  queue,    \* queue_
  batch,    \* messages the thread that establishes has in its hands
  pc,       \* thread -> where it is
  cur,      \* publisher -> what it publishes
  handle,   \* the ServerStreamPublisher: "held", "completed" or "dropped"
  credit,   \* creditBuffer_: a number of credits or messages without credit
  buffer,   \* messages that processPayloads has in its hands
  tasks,    \* processPayloads scheduled by consume()
  inTask,   \* does one of them run?
  once,     \* state of onStreamCompleteOrCancel_
  runs,     \* how often the service's callback has returned
  refs,     \* refCount_
  sent,     \* history: publisher -> number of items published
  seen,     \* history: the items given to the client's callback
  granted,  \* history: the credit given by the client
  client    \* the client's callback: "none", "open", "ended", "cancelled"

object == <<enc, payload, queue, credit, once, refs>>
history == <<sent, seen, granted>>
vars == <<object, batch, pc, cur, handle, buffer, tasks, inTask, runs, history,
          client>>

(* The empty Try that publish() pushes last; an exception is pushed and    *)
(* handed on in the same way.                                              *)
End == <<>>
Messages == {End} \union UNION {{p} \X (1..Items[p]) : p \in Publishers}

Threads == Publishers \union {"stream", "evb", "exec"}

Init ==
  /\ enc = EmptyQueue
  /\ payload = FALSE
  /\ queue = EmptyQueue
  /\ batch = <<>>
  /\ pc = [t \in Threads |-> IF t = "stream" THEN "fresh" ELSE "out"]
  /\ cur = [p \in Publishers |-> End]
  /\ handle = "held"
  /\ credit = [isSet |-> TRUE, val |-> 0, buf |-> <<>>]
  /\ buffer = <<>>
  /\ tasks = 0
  /\ inTask = FALSE
  /\ once = "READY"
  /\ runs = 0
  /\ refs = 2
  /\ sent = [p \in Publishers |-> 0]
  /\ seen = <<>>
  /\ granted = 0
  /\ client = "none"

Goto(t, step) == pc' = [pc EXCEPT ![t] = step]

-----------------------------------------------------------------------------
(* The publishers.                                                         *)

Idle == \A p \in Publishers : pc[p] = "out"

(* next()                                                                  *)
PublishNext(p) ==
  /\ handle = "held" /\ pc[p] = "out" /\ sent[p] < Items[p]
  /\ sent' = [sent EXCEPT ![p] = @ + 1]
  /\ cur' = [cur EXCEPT ![p] = <<p, sent[p] + 1>>]
  /\ Goto(p, "push")
  /\ UNCHANGED <<object, batch, handle, buffer, tasks, inTask, runs, seen,
                 granted, client>>

(* complete(), by the owner of the publisher when no other call is under   *)
(* way.                                                                    *)
Complete ==
  /\ handle = "held" /\ Idle
  /\ handle' = "completed"
  /\ cur' = [cur EXCEPT ![Completer] = End]
  /\ Goto(Completer, "push")
  /\ UNCHANGED <<object, batch, buffer, tasks, inTask, runs, history, client>>

(* ~ServerStreamPublisher, which checks that the stream was cancelled; the *)
(* callback may do it inline.                                              *)
Drop ==
  /\ handle = "held" /\ Idle
  /\ once # "READY"
  /\ handle' = "dropped"
  /\ refs' = refs - 1
  /\ UNCHANGED <<enc, payload, queue, credit, once, batch, pc, cur, buffer,
                 tasks, inTask, runs, history, client>>

(* Where publish() goes once its message is in a queue.                    *)
Published(p) == Goto(p, IF cur[p] = End THEN "call" ELSE "out")

(* pushOrGetClosedPayload: the compare-and-swap that succeeds.             *)
PushOrGetClosedPayload(p) ==
  /\ pc[p] = "push"
  /\ enc' = Push(enc, cur[p])
  /\ IF IsClosed(enc) THEN Goto(p, "queue") ELSE Published(p)
  /\ UNCHANGED <<payload, queue, credit, once, refs, batch, cur, handle,
                 buffer, tasks, inTask, runs, history, client>>

QueuePush(p) ==
  /\ pc[p] = "queue"
  /\ queue' = Push(queue, cur[p])
  /\ IF Wakes(queue) THEN Goto(p, "wake") ELSE Published(p)
  /\ UNCHANGED <<enc, payload, credit, once, refs, batch, cur, handle, buffer,
                 tasks, inTask, runs, history, client>>

\* mutant: the task is scheduled without a reference of its own
ConsumeWithoutCopy(p) ==
  /\ pc[p] = "wake"
  /\ tasks' = tasks + 1
  /\ Published(p)
  /\ UNCHANGED <<object, batch, cur, handle, buffer, inTask, runs, history,
                 client>>

(* consume(): the event base is told, with a reference of its own.         *)
Consume(p) ==
  /\ pc[p] = "wake"
  /\ tasks' = tasks + 1
  /\ refs' = refs + 1
  /\ Published(p)
  /\ UNCHANGED <<enc, payload, queue, credit, once, batch, cur, handle,
                 buffer, inTask, runs, history, client>>

-----------------------------------------------------------------------------
(* CallOnceFunction, called by the completing publisher, by the executor   *)
(* and by the request's thread if it drops the stream.                     *)

Callers == {Completer, "exec", "stream"}

Call(t) ==
  /\ pc[t] = "call"
  /\ IF once = "READY"
       THEN once' = "IN_PROGRESS" /\ Goto(t, "running")
       ELSE Goto(t, "called") /\ UNCHANGED once
  /\ UNCHANGED <<enc, payload, queue, credit, refs, batch, cur, handle, buffer,
                 tasks, inTask, runs, history, client>>

\* mutant: the thread that waits for the callback is not told
ReturnUnposted(t) ==
  /\ pc[t] = "running"
  /\ once' = IF once = "IN_PROGRESS" THEN "DONE" ELSE once
  /\ runs' = runs + 1
  /\ Goto(t, "called")
  /\ UNCHANGED <<enc, payload, queue, credit, refs, batch, cur, handle, buffer,
                 tasks, inTask, history, client>>

(* The service's callback returns: a thread that waits for it is woken.    *)
Return(t) ==
  /\ pc[t] = "running"
  /\ once' = IF once = "IN_PROGRESS" THEN "DONE" ELSE "POSTED"
  /\ runs' = runs + 1
  /\ Goto(t, "called")
  /\ UNCHANGED <<enc, payload, queue, credit, refs, batch, cur, handle, buffer,
                 tasks, inTask, history, client>>

\* mutant: complete() calls, but does not join
JoinNobody ==
  /\ pc[Completer] = "called"
  /\ Goto(Completer, "leave")
  /\ UNCHANGED <<object, batch, cur, handle, buffer, tasks, inTask, runs,
                 history, client>>

(* callOrJoin: publish() waits for a callback that another thread runs.    *)
Join ==
  /\ pc[Completer] = "called"
  /\ IF once = "IN_PROGRESS"
       THEN once' = "WAITING" /\ Goto(Completer, "join")
       ELSE Goto(Completer, "leave") /\ UNCHANGED once
  /\ UNCHANGED <<enc, payload, queue, credit, refs, batch, cur, handle, buffer,
                 tasks, inTask, runs, history, client>>

Joined ==
  /\ pc[Completer] = "join" /\ once = "POSTED"
  /\ once' = "DONE"
  /\ Goto(Completer, "leave")
  /\ UNCHANGED <<enc, payload, queue, credit, refs, batch, cur, handle, buffer,
                 tasks, inTask, runs, history, client>>

(* The caller lets go of its reference.                                    *)
Leave(t) ==
  /\ pc[t] = IF t = Completer THEN "leave" ELSE "called"
  /\ refs' = refs - 1
  /\ Goto(t, IF t = Completer THEN "out" ELSE "gone")
  /\ UNCHANGED <<enc, payload, queue, credit, once, batch, cur, handle, buffer,
                 tasks, inTask, runs, history, client>>

-----------------------------------------------------------------------------
(* The thread of the request.                                              *)

(* The ServerStream, or the factory made of it, is dropped: CancelDeleter. *)
Abandon ==
  /\ pc["stream"] \in {"fresh", "factory"}
  /\ Goto("stream", "call")
  /\ UNCHANGED <<object, batch, cur, handle, buffer, tasks, inTask, runs,
                 history, client>>

(* establishStream, with closeOrGetMessages called until it returns no     *)
(* message: the payload is stored first, ...                               *)
EstablishStream ==
  /\ pc["stream"] = "fresh"
  /\ payload' = TRUE
  /\ Goto("stream", "exchange")
  /\ UNCHANGED <<enc, queue, credit, once, refs, batch, cur, handle, buffer,
                 tasks, inTask, runs, history, client>>

(* ... then the messages are taken, ...                                    *)
Exchange ==
  /\ pc["stream"] = "exchange"
  /\ enc' = EmptyQueue
  /\ batch' = enc.msgs
  /\ Goto("stream", IF enc.type = "TAIL" THEN "flush" ELSE "cas")
  /\ UNCHANGED <<payload, queue, credit, once, refs, cur, handle, buffer,
                 tasks, inTask, runs, history, client>>

(* ... and if there were none the queue is closed, unless one has come.    *)
CloseIfEmpty ==
  /\ pc["stream"] = "cas"
  /\ IF enc.type = "EMPTY"
       THEN enc' = ClosedQueue /\ Goto("stream", "factory")
       ELSE Goto("stream", "exchange") /\ UNCHANGED enc
  /\ UNCHANGED <<payload, queue, credit, once, refs, batch, cur, handle,
                 buffer, tasks, inTask, runs, history, client>>

\* mutant: the messages are left in the order of the linked list
FlushReversed ==
  /\ pc["stream"] = "flush"
  /\ queue' = Push(queue, batch[Len(batch)])
  /\ batch' = SubSeq(batch, 1, Len(batch) - 1)
  /\ Goto("stream", IF Len(batch) = 1 THEN "exchange" ELSE "flush")
  /\ UNCHANGED <<enc, payload, credit, once, refs, cur, handle, buffer, tasks,
                 inTask, runs, history, client>>

(* The messages that came before are encoded and pushed one by one.        *)
Flush ==
  /\ pc["stream"] = "flush"
  /\ queue' = Push(queue, Head(batch))
  /\ batch' = Tail(batch)
  /\ Goto("stream", IF Len(batch) = 1 THEN "exchange" ELSE "flush")
  /\ UNCHANGED <<enc, payload, credit, once, refs, cur, handle, buffer, tasks,
                 inTask, runs, history, client>>

(* The factory is run on the event base: onFirstResponse.                  *)
FirstResponse ==
  /\ pc["stream"] = "factory" /\ pc["evb"] = "out"
  /\ client' = "open"
  /\ Goto("stream", "gone")
  /\ UNCHANGED <<object, batch, cur, handle, buffer, tasks, inTask, runs,
                 history>>

-----------------------------------------------------------------------------
(* The event base.                                                         *)

HasCredit == credit.isSet /\ credit.val > 0

OnEvb == client = "open" /\ pc["evb"] = "out"

(* onStreamRequestN: the first credit after none goes on with the messages *)
(* that waited for it.                                                     *)
RequestN(n) ==
  /\ OnEvb /\ granted + n <= MaxGrants
  /\ granted' = granted + n
  /\ IF HasCredit
       THEN /\ credit' = [credit EXCEPT !.val = @ + n]
            /\ UNCHANGED <<buffer, pc>>
       ELSE /\ credit' = [isSet |-> TRUE, val |-> n, buf |-> <<>>]
            /\ buffer' = credit.buf
            /\ Goto("evb", "process")
  /\ UNCHANGED <<enc, payload, queue, once, refs, batch, cur, handle, tasks,
                 inTask, runs, sent, seen, client>>

\* mutant: the task goes on whatever happened since it was scheduled
RunTaskAnyway ==
  /\ pc["evb"] = "out" /\ tasks > 0
  /\ tasks' = tasks - 1
  /\ inTask' = TRUE /\ Goto("evb", "process") /\ UNCHANGED refs
  /\ UNCHANGED <<enc, payload, queue, credit, once, batch, cur, handle, buffer,
                 runs, history, client>>

(* The function that consume() scheduled.                                  *)
RunTask ==
  /\ pc["evb"] = "out" /\ tasks > 0
  /\ tasks' = tasks - 1
  /\ IF IsClosed(queue)
       THEN refs' = refs - 1 /\ UNCHANGED <<inTask, pc>>
       ELSE inTask' = TRUE /\ Goto("evb", "process") /\ UNCHANGED refs
  /\ UNCHANGED <<enc, payload, queue, credit, once, batch, cur, handle, buffer,
                 runs, history, client>>

(* processPayloads returns, and with it the function that called it.       *)
ProcessReturns(closing) ==
  /\ Goto("evb", "out")
  /\ inTask' = FALSE
  /\ refs' = refs - (IF inTask THEN 1 ELSE 0) - (IF closing THEN 1 ELSE 0)

(* processQueue: an item goes to the client for a credit, ...              *)
ProcessItem ==
  /\ pc["evb"] = "process" /\ HasCredit /\ buffer # <<>> /\ Head(buffer) # End
  /\ seen' = Append(seen, Head(buffer))
  /\ buffer' = Tail(buffer)
  /\ credit' = [credit EXCEPT !.val = @ - 1]
  /\ UNCHANGED <<enc, payload, queue, once, refs, batch, pc, cur, handle,
                 tasks, inTask, runs, sent, granted, client>>

(* ... and the end closes the stream, but not queue_.                      *)
ProcessEnd ==
  /\ pc["evb"] = "process" /\ HasCredit /\ buffer # <<>> /\ Head(buffer) = End
  /\ client' = "ended"
  /\ buffer' = <<>>
  /\ ProcessReturns(TRUE)
  /\ UNCHANGED <<enc, payload, queue, credit, once, batch, cur, handle, tasks,
                 runs, history>>

\* mutant: the event base does not leave word that it waits
WaitUnnoticed ==
  /\ pc["evb"] = "process" /\ HasCredit /\ buffer = <<>>
  /\ IF Waits(queue) THEN ProcessReturns(FALSE)
                     ELSE Goto("evb", "get") /\ UNCHANGED <<refs, inTask>>
  /\ UNCHANGED <<enc, payload, queue, credit, once, batch, cur, handle, buffer,
                 tasks, runs, history, client>>

(* With credit left it waits for more, ...                                 *)
WaitForMore ==
  /\ pc["evb"] = "process" /\ HasCredit /\ buffer = <<>>
  /\ queue' = Wait(queue)
  /\ IF Waits(queue) THEN ProcessReturns(FALSE)
                     ELSE Goto("evb", "get") /\ UNCHANGED <<refs, inTask>>
  /\ UNCHANGED <<enc, payload, credit, once, batch, cur, handle, buffer, tasks,
                 runs, history, client>>

GetMessages ==
  /\ pc["evb"] = "get"
  /\ queue' = Taken(queue)
  /\ buffer' = queue.msgs
  /\ Goto("evb", "process")
  /\ UNCHANGED <<enc, payload, credit, once, refs, batch, cur, handle, tasks,
                 inTask, runs, history, client>>

(* ... and without it keeps what is left.                                  *)
OutOfCredit ==
  /\ pc["evb"] = "process" /\ ~HasCredit
  /\ credit' = IF buffer = <<>> THEN credit
               ELSE [isSet |-> FALSE, val |-> 0, buf |-> buffer]
  /\ buffer' = <<>>
  /\ ProcessReturns(FALSE)
  /\ UNCHANGED <<enc, payload, queue, once, batch, cur, handle, tasks, runs,
                 history, client>>

(* onStreamCancel: the executor is told, with a reference of its own, ...  *)
Cancel ==
  /\ OnEvb
  /\ client' = "cancelled"
  /\ pc' = [pc EXCEPT !["evb"] = "close", !["exec"] = "call"]
  /\ refs' = refs + 1
  /\ UNCHANGED <<enc, payload, queue, credit, once, batch, cur, handle, buffer,
                 tasks, inTask, runs, history>>

(* ... the queue is closed, ...                                            *)
CloseQueue ==
  /\ pc["evb"] = "close"
  /\ queue' = ClosedQueue
  /\ Goto("evb", "decref")
  /\ UNCHANGED <<enc, payload, credit, once, refs, batch, cur, handle, buffer,
                 tasks, inTask, runs, history, client>>

(* ... and the client's reference dropped.                                 *)
Close ==
  /\ pc["evb"] = "decref"
  /\ refs' = refs - 1
  /\ Goto("evb", "out")
  /\ UNCHANGED <<enc, payload, queue, credit, once, batch, cur, handle, buffer,
                 tasks, inTask, runs, history, client>>

-----------------------------------------------------------------------------
PublishStep(p) == PushOrGetClosedPayload(p) \/ QueuePush(p) \/ Consume(p)

CallStep(t) == Call(t) \/ Return(t) \/ Leave(t)

EstablishStep == Exchange \/ CloseIfEmpty \/ Flush

EvbStep == \/ RunTask \/ ProcessItem \/ ProcessEnd \/ WaitForMore
           \/ GetMessages \/ OutOfCredit \/ CloseQueue \/ Close

Next ==
  \/ \E p \in Publishers : PublishNext(p) \/ PublishStep(p)
  \/ Complete \/ Drop \/ Join \/ Joined
  \/ \E t \in Callers : CallStep(t)
  \/ Abandon \/ EstablishStream \/ EstablishStep \/ FirstResponse
  \/ \E n \in 1..MaxGrants : RequestN(n)
  \/ EvbStep \/ Cancel

Spec == Init /\ [][Next]_vars

(* Threads finish what they have begun, the executor runs its task, the    *)
(* event base its functions, the service's callback returns, and the       *)
(* request's thread establishes the stream or drops it.  Nobody has to     *)
(* publish, to complete, to give credit or to cancel.                      *)
FairSpec ==
  /\ Spec
  /\ \A p \in Publishers : WF_vars(PublishStep(p))
  /\ WF_vars(Join \/ Joined)
  /\ \A t \in Callers : WF_vars(CallStep(t))
  /\ WF_vars(Abandon \/ EstablishStream \/ FirstResponse)
  /\ WF_vars(EstablishStep)
  /\ WF_vars(EvbStep)

-----------------------------------------------------------------------------
(* Properties                                                              *)

(* Types; and what AtomicQueueOrPtr and CreditBuffer rely on: a publisher  *)
(* that finds the queue closed finds the payload, and nobody has ever      *)
(* waited in a queue without consumers.                                    *)
TypeOK ==
  /\ enc \in Queues(Messages) /\ queue \in Queues(Messages)
  /\ enc.type # "CONSUMER" /\ (IsClosed(enc) => payload)
  /\ batch \in Seq(Messages) /\ buffer \in Seq(Messages)
  /\ pc \in [Threads -> {"fresh", "out", "push", "queue", "wake", "call",
       "running", "called", "join", "leave", "gone", "exchange", "cas",
       "flush", "factory", "process", "get", "close", "decref"}]
  /\ cur \in [Publishers -> Messages]
  /\ handle \in {"held", "completed", "dropped"}
  /\ credit.val \in 0..MaxGrants /\ credit.buf \in Seq(Messages)
  /\ tasks \in 0..1 /\ inTask \in BOOLEAN
  /\ once \in {"READY", "IN_PROGRESS", "WAITING", "POSTED", "DONE"}
  /\ runs \in 0..1
  /\ refs \in Nat
  /\ sent \in [Publishers -> Nat] /\ granted \in 0..MaxGrants
  /\ client \in {"none", "open", "ended", "cancelled"}

Holds(what) == IF what THEN 1 ELSE 0

PublisherOwns ==
  handle = "held" \/ (handle = "completed" /\ pc[Completer] # "out")
StreamOwns ==
  \/ pc["stream"] # "gone"
  \/ client = "open"
  \/ client = "cancelled" /\ pc["evb"] \in {"close", "decref"}

(* refCount_ is exactly the number of owners: the publisher, the stream    *)
(* until it is ended or cancelled, every scheduled function and the        *)
(* executor's.  So the object is deleted once, and no thread still uses it.*)
OwnersCounted ==
  refs = Holds(PublisherOwns) + Holds(StreamOwns) + tasks + Holds(inTask)
           + Holds(pc["exec"] \in {"call", "running", "called"})

(* The service's callback has returned, once, before complete() returns    *)
(* ("ensure the callback has completed when we return from complete()")    *)
(* and before the object is deleted (~CallOnceFunction asserts it).        *)
CallbackJoined ==
  /\ handle = "completed" /\ pc[Completer] \in {"leave", "out"} => runs = 1
  /\ refs = 0 => runs = 1 /\ once = "DONE"

(* What processPayloads asserts: when it starts, and when a scheduled      *)
(* function will start it, there is credit, unless the stream was          *)
(* cancelled in the meantime, and it never runs on a closed queue.         *)
ProcessingHasCredit ==
  /\ TypeOK
  /\ tasks > 0 => HasCredit \/ IsClosed(queue) \/ client = "cancelled"
  /\ pc["evb"] \in {"process", "get"} => /\ client = "open"
                                        /\ ~IsClosed(queue)
                                        /\ IsClosed(enc)
  /\ pc["evb"] = "get" => buffer = <<>>

(* What StreamContract says of a stream is so of this one.                 *)
Contract == INSTANCE StreamContract WITH
  Producers <- Publishers,
  finished <- handle = "completed",
  over <- IF client = "none" THEN "open" ELSE client

ImplementsStream == Contract!Spec

(* The stream has come to an end on the client's side, or was never begun. *)
Over == \/ client \in {"ended", "cancelled"}
        \/ client = "none" /\ pc["stream"] \in {"call", "running", "called",
                                                "gone"}

(* Whatever has been published, before or after the stream is established, *)
(* reaches the client, and then the end, unless the stream is over or the  *)
(* client has no credit left: no wakeup is lost between the publishers,    *)
(* the queues and the event base.                                          *)
PublishedArrive ==
  /\ \A p \in Publishers : \A n \in 1..Items[p] :
       sent[p] >= n ~> \/ \E i \in DOMAIN seen : seen[i] = <<p, n>>
                       \/ Over \/ Len(seen) = granted
  /\ handle = "completed" ~> Over \/ Len(seen) = granted

(* A cancelled or abandoned stream calls the service back, a completing    *)
(* publisher is not left waiting, and once the publisher is gone and the   *)
(* stream is over, the object is deleted.                                  *)
StreamReleased ==
  /\ Over /\ client # "ended" ~> runs = 1
  /\ handle = "completed" ~> pc[Completer] = "out"
  /\ Over /\ handle # "held" ~> refs = 0

=============================================================================
