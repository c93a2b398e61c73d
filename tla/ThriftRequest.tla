----------------------------- MODULE ThriftRequest -----------------------------
(***************************************************************************)
(* The life of a request in the server, from the frame that brings it to   *)
(* the last bookkeeping: RequestStateMachine and ThriftRequestCore         *)
(* (thrift/lib/cpp2/transport/core), the admission test of                 *)
(* ThriftRocketServerHandler, the executor's side (ResourcePool and        *)
(* HandlerCallbackBase), and the stop of a Cpp2Worker.                     *)
(*                                                                         *)
(* A worker is an IO thread.  It owns one connection, the requests that    *)
(* arrive on it and their timers, so its callbacks do not interleave with  *)
(* each other; they do interleave with the executor's threads and with the *)
(* other workers, with which they share the count of active requests.      *)
(***************************************************************************)
EXTENDS Integers, Sequences, FiniteSets

CONSTANTS Requests,
          Oneway,       \* the requests that expect no response
          Workers,
          Owner,        \* request -> the worker whose connection brings it
          Timers,       \* request -> the timers its timeouts ask for
          Flows,        \* the requests for a stream or a sink
          Bypass,       \* the requests whose method bypasses MaxRequests
          Tracking,     \* is activeRequests_ kept?
          MaxRequests   \* getMaxRequests(), 0 if unlimited

Kinds == {"reply", "exception", "refusal", "queueTimeout", "taskTimeout"}

ASSUME RequestAssumption ==
  /\ IsFiniteSet(Requests) /\ IsFiniteSet(Workers)
  /\ Oneway \subseteq Requests /\ Flows \subseteq Requests \ Oneway
  /\ Bypass \subseteq Requests /\ Tracking \in BOOLEAN
  /\ Owner \in [Requests -> Workers]
  /\ Timers \in [Requests -> SUBSET {"queue", "task"}]
  /\ MaxRequests \in Nat

VARIABLES
  stage,     \* request -> where it is
  stopped,   \* request -> startProcessingOrQueueTimeout_
  cancelled, \* request -> cancelled_
  timers,    \* request -> its scheduled timers
  mail,      \* request -> what its event base has been handed to run
  sent,      \* request -> the responses given to the connection
  ran,       \* history: request -> did its handler run?
  active,    \* ServerConfigs::activeRequests_
  stopping,  \* worker -> Cpp2Worker::stopping_
  conn,      \* worker -> state of its connection
  guards,    \* worker -> Cpp2Worker::activeRequests_, one per connection
  baton      \* worker -> number of times stopBaton_ was posted

requests == <<stage, stopped, cancelled, timers, mail, sent, ran>>
worker == <<stopping, conn, guards, baton>>
vars == <<requests, active, worker>>

(* A request object is destroyed with its frame context, which completes   *)
(* it: destroyed after an answer, or closed when its connection is closed  *)
(* instead.  A stray completion is one that no count precedes; it leaves   *)
(* the request strayed if it lowers the count.                             *)
Stages == {"new", "admitted", "refused", "queued", "claim", "running",
           "posted", "destroyed", "dec", "closed", "closedDec",
           "stray", "strayDec", "complete", "strayed"}

Init ==
  /\ stage = [r \in Requests |-> "new"]
  /\ stopped = [r \in Requests |-> FALSE]
  /\ cancelled = [r \in Requests |-> FALSE]
  /\ timers = [r \in Requests |-> {}]
  /\ mail = [r \in Requests |-> "none"]
  /\ sent = [r \in Requests |-> <<>>]
  /\ ran = [r \in Requests |-> FALSE]
  /\ active = 0
  /\ stopping = [w \in Workers |-> FALSE]
  /\ conn = [w \in Workers |-> "open"]
  /\ guards = [w \in Workers |-> 1]
  /\ baton = [w \in Workers |-> 0]

(* The request object exists.                                              *)
Alive(r) == stage[r] \in {"admitted", "refused", "queued", "claim", "running",
                          "posted"}

(* The worker's thread is inside a callback that takes several steps.      *)
Busy(w) == \E r \in Requests : /\ Owner[r] = w
                               /\ stage[r] \in {"admitted", "refused", "dec",
                                               "closedDec", "strayDec"}

Goto(r, s) == stage' = [stage EXCEPT ![r] = s]

\* mutant: an answer is sent without asking whether it may
SendAgain(r, kind) ==
  /\ cancelled' = [cancelled EXCEPT ![r] = TRUE]
  /\ sent' = IF r \in Oneway
               THEN sent ELSE [sent EXCEPT ![r] = Append(@, kind)]

(* Every send* function: if tryCancel() succeeds the response goes to the  *)
(* connection, except that of a oneway. What happens to the timers is said *)
(* by the callers, most of which destroy the request in the same step.     *)
Send(r, kind) ==
  /\ cancelled' = [cancelled EXCEPT ![r] = TRUE]
  /\ sent' = IF cancelled[r] \/ r \in Oneway
               THEN sent ELSE [sent EXCEPT ![r] = Append(@, kind)]

(* ~ThriftRequestCore cancels both timers.                                 *)
Destroy(r) ==
  /\ timers' = [timers EXCEPT ![r] = {}]
  /\ Goto(r, "destroyed")

--------------------------------------------------------------------------------
(* The worker's thread: arrival.                                           *)

(* checkOverload, for max requests.  The count is compared as an unsigned  *)
(* number, so a negative one is above every limit.                         *)
OverMaxRequests(r) ==
  /\ Tracking /\ MaxRequests > 0 /\ r \notin Bypass
  /\ active < 0 \/ active >= MaxRequests

IncActiveRequests == active' = IF Tracking THEN active + 1 ELSE active

(* handleRequestCommon up to the overload check, which reads the count of  *)
(* active requests before this request is added to it.                     *)
Arrive(r) ==
  /\ stage[r] = "new" /\ conn[Owner[r]] = "open" /\ ~Busy(Owner[r])
  /\ ~stopping[Owner[r]]
  /\ Goto(r, IF OverMaxRequests(r) THEN "refused" ELSE "admitted")
  /\ timers' = [timers EXCEPT ![r] = Timers[r]]
  /\ UNCHANGED <<stopped, cancelled, mail, sent, ran, active, worker>>

\* mutant: a refused request is not counted
RefuseEarlyUncounted(r) ==
  /\ stage[r] = "new" /\ conn[Owner[r]] = "open" /\ ~Busy(Owner[r])
  /\ Send(r, "refusal")
  /\ Goto(r, "destroyed")
  /\ UNCHANGED <<stopped, timers, mail, ran, active, worker>>

(* The early refusals of handleRequestCommon (worker stopping, metadata or *)
(* checksum bad): counted, answered and destroyed in one go.               *)
RefuseEarly(r) ==
  /\ stage[r] = "new" /\ conn[Owner[r]] = "open" /\ ~Busy(Owner[r])
  /\ IncActiveRequests
  /\ Send(r, "refusal")
  /\ Goto(r, "destroyed")
  /\ UNCHANGED <<stopped, timers, mail, ran, worker>>

CloseConnection(w) ==
  /\ conn' = [conn EXCEPT ![w] = IF @ = "open" THEN "closing" ELSE @]
  /\ UNCHANGED <<stopping, guards, baton>>

(* A frame for a stream or a sink that breaks the contract (its stream id  *)
(* is in use, a sink without credit) closes the connection before there is *)
(* a request: its context dies uncounted, and completes all the same.      *)
RefuseFrame(r) ==
  /\ r \in Flows
  /\ stage[r] = "new" /\ conn[Owner[r]] = "open" /\ ~Busy(Owner[r])
  /\ Goto(r, "stray")
  /\ CloseConnection(Owner[r])
  /\ UNCHANGED <<stopped, cancelled, timers, mail, sent, ran, active>>

(* The rest of handleRequestCommon: the request is counted, then refused   *)
(* (overloaded, server not ready, preprocess, or the pool rejects it) or   *)
(* handed to the pool.                                                     *)
Dispatch(r) ==
  /\ stage[r] = "admitted"
  /\ IncActiveRequests
  /\ Goto(r, "queued")
  /\ UNCHANGED <<stopped, cancelled, timers, mail, sent, ran, worker>>

RefuseLate(r) ==
  /\ stage[r] \in {"admitted", "refused"}
  /\ IncActiveRequests
  /\ Send(r, "refusal")
  /\ Destroy(r)
  /\ UNCHANGED <<stopped, mail, ran, worker>>

(* sendErrorWrapped with kConnectionClosingErrorCode, for an interaction   *)
(* that exists already: the connection closes instead of an answer.        *)
RefuseByClosing(r) ==
  /\ stage[r] = "admitted"
  /\ IncActiveRequests
  /\ timers' = [timers EXCEPT ![r] = {}]
  /\ Goto(r, "closed")
  /\ CloseConnection(Owner[r])
  /\ UNCHANGED <<stopped, cancelled, mail, sent, ran>>

--------------------------------------------------------------------------------
(* The worker's thread: timers, and what the executor posts to it.         *)

(* Only the thread's own loop runs a timer or a posted function.           *)
OnLoop(r) == Alive(r) /\ ~Busy(Owner[r])

(* QueueTimeout::timeoutExpired: tryStopProcessing, then                   *)
(* sendQueueTimeoutResponse, which cancels both timers if it answers.      *)
QueueTimeout(r) ==
  /\ OnLoop(r) /\ "queue" \in timers[r]
  /\ stopped' = [stopped EXCEPT ![r] = TRUE]
  /\ IF stopped[r]
       THEN /\ timers' = [timers EXCEPT ![r] = @ \ {"queue"}]
            /\ UNCHANGED <<cancelled, sent>>
       ELSE /\ Send(r, "queueTimeout")
            /\ timers' = [timers EXCEPT ![r] =
                            IF cancelled[r] \/ r \in Oneway
                              THEN @ \ {"queue"} ELSE {}]
  /\ UNCHANGED <<stage, mail, ran, active, worker>>

(* TaskTimeout::timeoutExpired: the handler may be running; the queue      *)
(* timer, if it is scheduled, stays.                                       *)
TaskTimeout(r) ==
  /\ OnLoop(r) /\ "task" \in timers[r]
  /\ Send(r, "taskTimeout")
  /\ timers' = [timers EXCEPT ![r] = @ \ {"task"}]
  /\ UNCHANGED <<stage, stopped, mail, ran, active, worker>>

(* The posted function: a reply or an exception goes through a send*       *)
(* function; then, and when the request is only released, it is destroyed, *)
(* which cancels its timers.                                               *)
Deliver(r) ==
  /\ OnLoop(r) /\ mail[r] # "none"
  /\ IF mail[r] = "release" THEN UNCHANGED <<cancelled, sent>>
                            ELSE Send(r, mail[r])
  /\ mail' = [mail EXCEPT ![r] = "none"]
  /\ Destroy(r)
  /\ UNCHANGED <<stopped, ran, active, worker>>

(* Where a request is after a completion.  The handler of a stream or sink *)
(* whose connection was closed instead of an answer is still in streams_,  *)
(* and closeIfNeeded completes the request once more.                      *)
Completed(r) ==
  IF stage[r] \in {"closed", "closedDec"} /\ r \in Flows THEN "stray"
  ELSE IF stage[r] = "strayDec" THEN "strayed" ELSE "complete"

(* requestComplete, at once or when the response has been written or has   *)
(* failed to be: decActiveRequests tests the count and then decrements it. *)
RequestComplete(r) ==
  /\ stage[r] \in {"destroyed", "closed", "stray"} /\ ~Busy(Owner[r])
  /\ Goto(r, IF ~Tracking \/ active <= 0 THEN Completed(r)
             ELSE CASE stage[r] = "destroyed" -> "dec"
                    [] stage[r] = "closed"    -> "closedDec"
                    [] stage[r] = "stray"     -> "strayDec")
  /\ UNCHANGED <<stopped, cancelled, timers, mail, sent, ran, active, worker>>

DecActiveRequests(r) ==
  /\ stage[r] \in {"dec", "closedDec", "strayDec"}
  /\ active' = active - 1
  /\ Goto(r, Completed(r))
  /\ UNCHANGED <<stopped, cancelled, timers, mail, sent, ran, worker>>

--------------------------------------------------------------------------------
(* The executor's thread that has taken the request from the pool.         *)

(* The function that runs on the event base once the executor is done.     *)
Post(r, m) == Goto(r, "posted") /\ mail' = [mail EXCEPT ![r] = m]

(* A oneway is run whatever happened to it.                                *)
StartOneway(r) ==
  /\ stage[r] = "queued" /\ r \in Oneway
  /\ Goto(r, "running")
  /\ ran' = [ran EXCEPT ![r] = TRUE]
  /\ UNCHANGED <<stopped, cancelled, timers, mail, sent, active, worker>>

(* tryStartProcessing, first half: read cancelled_.                        *)
CheckCancelled(r) ==
  /\ stage[r] = "queued" /\ r \notin Oneway
  /\ IF cancelled[r] THEN Post(r, "release")
                     ELSE Goto(r, "claim") /\ UNCHANGED mail
  /\ UNCHANGED <<stopped, cancelled, timers, sent, ran, active, worker>>

\* mutant: the result of the exchange is ignored
ClaimAlways(r) ==
  /\ stage[r] = "claim"
  /\ stopped' = [stopped EXCEPT ![r] = TRUE]
  /\ Goto(r, "running")
  /\ ran' = [ran EXCEPT ![r] = TRUE]
  /\ UNCHANGED <<cancelled, timers, mail, sent, active, worker>>

(* Second half: exchange startProcessingOrQueueTimeout_.                   *)
Claim(r) ==
  /\ stage[r] = "claim"
  /\ stopped' = [stopped EXCEPT ![r] = TRUE]
  /\ IF stopped[r]
       THEN Post(r, "release") /\ UNCHANGED ran
       ELSE /\ Goto(r, "running")
            /\ ran' = [ran EXCEPT ![r] = TRUE]
            /\ UNCHANGED mail
  /\ UNCHANGED <<cancelled, timers, sent, active, worker>>

(* The handler completes its callback, with a result or an exception; a    *)
(* oneway's callback has nothing to send.                                  *)
Finish(r) ==
  /\ stage[r] = "running"
  /\ \E m \in {"reply", "exception"} :
       Post(r, IF r \in Oneway THEN "release" ELSE m)
  /\ UNCHANGED <<stopped, cancelled, timers, sent, ran, active, worker>>

\* mutant: a dropped callback sends nothing
AbandonSilently(r) ==
  /\ stage[r] = "running"
  /\ Post(r, "release")
  /\ UNCHANGED <<stopped, cancelled, timers, sent, ran, active, worker>>

(* The handler drops the callback: ~HandlerCallbackBase asks whether the   *)
(* request is still active and sends an exception if so.                   *)
Abandon(r) ==
  /\ stage[r] = "running"
  /\ Post(r, IF cancelled[r] \/ r \in Oneway THEN "release" ELSE "exception")
  /\ UNCHANGED <<stopped, cancelled, timers, sent, ran, active, worker>>

--------------------------------------------------------------------------------
(* Stopping a worker.                                                      *)

\* mutant: queued requests are not stopped
CancelsNone(w) == {}

(* cancelQueuedRequests: the requests it stops.                            *)
Cancels(w) == {r \in Requests : /\ Owner[r] = w /\ Alive(r)
                                /\ ~cancelled[r] /\ ~stopped[r]}

\* mutant: only the last guard posts
PostNever(w) == UNCHANGED baton

(* stopBaton_ is posted at once if the worker has no connection.           *)
PostIfIdle(w) ==
  baton' = [baton EXCEPT ![w] = IF guards[w] = 0 THEN @ + 1 ELSE @]

(* requestStop, in the worker's thread.                                    *)
RequestStop(w) ==
  /\ ~stopping[w] /\ ~Busy(w)
  /\ LET queued == Cancels(w)
     IN /\ stopped' = [r \in Requests |-> stopped[r] \/ r \in queued]
        /\ cancelled' = [r \in Requests |-> cancelled[r] \/ r \in queued]
        /\ sent' = [r \in Requests |->
                      IF r \in queued \ Oneway
                        THEN Append(sent[r], "queueTimeout") ELSE sent[r]]
        /\ timers' = [r \in Requests |->
                        IF r \in queued \ Oneway THEN {} ELSE timers[r]]
  /\ stopping' = [stopping EXCEPT ![w] = TRUE]
  /\ PostIfIdle(w)
  /\ UNCHANGED <<stage, mail, ran, active, conn, guards>>

(* The connection goes to CLOSING: the client left, or the server drops it.*)
Close(w) ==
  /\ conn[w] = "open" /\ ~Busy(w)
  /\ conn' = [conn EXCEPT ![w] = "closing"]
  /\ UNCHANGED <<requests, active, stopping, guards, baton>>

\* mutant: the connection goes while requests are in flight
InFlightNone(w) == FALSE

(* RocketServerConnection::isBusy: requests in flight or writes pending.   *)
InFlight(w) ==
  \E r \in Requests : /\ Owner[r] = w
                      /\ stage[r] \notin {"new", "complete", "strayed"}

(* closeIfNeeded destroys the connection, and with it the handler and the  *)
(* ActiveRequestsGuard that keeps the worker from being joined.            *)
DestroyConnection(w) ==
  /\ conn[w] = "closing" /\ ~InFlight(w)
  /\ conn' = [conn EXCEPT ![w] = "closed"]
  /\ guards' = [guards EXCEPT ![w] = @ - 1]
  /\ baton' = [baton EXCEPT ![w] =
                 IF guards[w] = 1 /\ stopping[w] THEN @ + 1 ELSE @]
  /\ UNCHANGED <<requests, active, stopping>>

--------------------------------------------------------------------------------
IOStep(r) == \/ Arrive(r) \/ RefuseEarly(r) \/ RefuseFrame(r)
             \/ Dispatch(r) \/ RefuseLate(r) \/ RefuseByClosing(r)
             \/ QueueTimeout(r) \/ TaskTimeout(r) \/ Deliver(r)
             \/ RequestComplete(r) \/ DecActiveRequests(r)

ExecutorStep(r) == \/ StartOneway(r) \/ CheckCancelled(r) \/ Claim(r)
                   \/ Finish(r) \/ Abandon(r)

WorkerStep(w) == RequestStop(w) \/ Close(w) \/ DestroyConnection(w)

Next == \/ \E r \in Requests : IOStep(r) \/ ExecutorStep(r)
        \/ \E w \in Workers : WorkerStep(w)

Spec == Init /\ [][Next]_vars

(* The event base runs what is posted to it and finishes its callbacks,    *)
(* the executor runs its tasks and handlers return; a stopping server      *)
(* drops its connections.  Nothing has to arrive and no timer has to fire. *)
FairSpec ==
  /\ Spec
  /\ \A r \in Requests : /\ WF_vars(\/ Dispatch(r) \/ RefuseLate(r)
                                    \/ RefuseByClosing(r))
                         /\ WF_vars(Deliver(r))
                         /\ WF_vars(RequestComplete(r) \/ DecActiveRequests(r))
                         /\ WF_vars(ExecutorStep(r))
  /\ \A w \in Workers : /\ WF_vars(stopping[w] /\ Close(w))
                        /\ WF_vars(DestroyConnection(w))

--------------------------------------------------------------------------------
(* Properties                                                              *)

(* The variables' types, and the lifetimes the destructors guarantee: a    *)
(* timer is scheduled, or a function posted, only for a live request.      *)
TypeOK ==
  /\ stage \in [Requests -> Stages]
  /\ stopped \in [Requests -> BOOLEAN]
  /\ cancelled \in [Requests -> BOOLEAN]
  /\ timers \in [Requests -> SUBSET {"queue", "task"}]
  /\ mail \in [Requests -> {"none", "reply", "exception", "release"}]
  /\ sent \in [Requests -> Seq(Kinds)]
  /\ ran \in [Requests -> BOOLEAN]
  /\ active \in Int
  /\ stopping \in [Workers -> BOOLEAN]
  /\ conn \in [Workers -> {"open", "closing", "closed"}]
  /\ guards \in [Workers -> Int] /\ baton \in [Workers -> Nat]
  /\ \A r \in Requests : /\ timers[r] # {} => Alive(r)
                         /\ (mail[r] # "none") <=> (stage[r] = "posted")

(* Whatever the order of replies, timeouts, refusals and the worker's      *)
(* stop, a request is answered at most once, and it is marked cancelled    *)
(* from its answer on (RequestStateMachine::tryCancel).                    *)
AnsweredOnce ==
  \A r \in Requests : /\ Len(sent[r]) <= (IF r \in Oneway THEN 0 ELSE 1)
                      /\ sent[r] # <<>> => cancelled[r]

(* A client told that its request timed out in the queue may send it       *)
(* again: its handler has not run and never will.  This is the race of     *)
(* tryStartProcessing in the executor with tryStopProcessing in a timer or *)
(* in the worker's stop.                                                   *)
ShedNeverRuns ==
  \A r \in Requests : ran[r] /\ sent[r] # <<>> => sent[r][1] # "queueTimeout"

(* The requests that activeRequests_ should count.                         *)
Counted == {r \in Requests : stage[r] \in {"queued", "claim", "running",
              "posted", "destroyed", "dec", "closed", "closedDec"}}

Admitted == {r \in Requests : stage[r] \in {"queued", "claim", "running",
                                            "posted"}}

Strayed == {r \in Requests : stage[r] = "strayed"}

(* The workers that bring requests to which the limit applies.             *)
Limited == {Owner[r] : r \in Requests \ Bypass}

(* activeRequests_ is exactly the number of requests that were counted and *)
(* are not complete, less at most one for every stray completion, and it   *)
(* never exceeds that number: a decrement that is skipped at zero makes up *)
(* for a stray one.  The overload check precedes the increment, so each    *)
(* worker may admit one request on a stale count, and no more than one;    *)
(* each stray completion lets another one in, and methods that bypass the  *)
(* limit are counted but never refused for it.  Without tracking there is  *)
(* neither count nor limit.                                                *)
ActiveRequestsExact ==
  /\ TypeOK
  /\ ~Tracking => active = 0
  /\ Tracking => active \in Cardinality(Counted) - Cardinality(Strayed)
                              .. Cardinality(Counted)
  /\ Tracking /\ MaxRequests > 0 =>
       Cardinality(Admitted \ Bypass)
         <= MaxRequests + Cardinality(Limited) - 1 + Cardinality(Strayed)

(* Once a worker is stopping, no request of its that a client still waits  *)
(* for starts processing: cancelQueuedRequests stops the queued ones and   *)
(* handleRequestCommon refuses the rest.                                   *)
NoLateStart ==
  [][\A r \in Requests \ Oneway :
       stopping[Owner[r]] /\ ~cancelled[r] /\ ~ran[r] => ~ran'[r]]_vars

(* The worker is joined once, and only when nothing of a request of its is *)
(* left: waitForStop returns when stopBaton_ is posted, which happens in   *)
(* requestStop or with the last connection, never in both.                 *)
JoinedWhenDrained ==
  \A w \in Workers :
    /\ baton[w] <= 1
    /\ baton[w] = 1 =>
         /\ stopping[w]
         /\ \A r \in Requests :
              Owner[r] = w => stage[r] \in {"new", "complete", "strayed"}

(* Every request that arrives and expects a response gets one, whatever    *)
(* its handler does with the callback, unless its connection is closed     *)
(* instead.                                                                *)
EveryRequestAnswered ==
  \A r \in Requests \ Oneway :
    Alive(r) \/ stage[r] = "destroyed" ~> sent[r] # <<>> \/ stage[r] = "closed"

(* A worker asked to stop is eventually joined: every request completes    *)
(* and the connection's guard is released.                                 *)
StopCompletes == \A w \in Workers : stopping[w] ~> baton[w] = 1

================================================================================
