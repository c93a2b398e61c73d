-------------------- MODULE ParallelConcurrencyController --------------------
(***************************************************************************)
(* Admission of requests by an asynchronous ResourcePool whose concurrency *)
(* controller is the ParallelConcurrencyController                         *)
(* (thrift/lib/cpp2/server/ParallelConcurrencyController.cpp).             *)
(*                                                                         *)
(* Any number of threads run, concurrently and without a lock,             *)
(*   - ResourcePool::acceptAsync: push a request into the request pile,    *)
(*     then onEnqueued();                                                  *)
(*   - a task of the executor: pile_.dequeue(), then executeRequest();     *)
(*   - onRequestFinished() of a request that was executing;                *)
(*   - setExecutionLimitRequests().                                        *)
(* They share the pair of 32 bit counters counters_, changed only by       *)
(* compare-and-swap loops, and executionLimit_, a relaxed atomic.          *)
(*                                                                         *)
(* A compare-and-swap loop that looks at counters_ alone is one atomic     *)
(* step.  trySchedule() reads executionLimit_ between loading and swapping *)
(* counters_, so it takes three: Load, ReadLimit and Swap.                 *)
(*                                                                         *)
(* The request pile is abstracted to the set of requests in it; the module *)
(* RoundRobinRequestPile models its priorities and buckets.  A dequeue     *)
(* takes any of the requests.  It may come back empty-handed from a pile   *)
(* that is not empty: the requests may have arrived at a priority it has   *)
(* already passed, or be in a bucket another thread is busy with.          *)
(***************************************************************************)
EXTENDS Integers, FiniteSets

CONSTANTS Requests,      \* the requests that arrive
          Oneway,        \* those without a response
          Threads,       \* threads that may be inside the pool at once
          PileLimit,     \* capacity of the pile, 0 if unlimited
          Word,          \* 2^32: the modulus of the two counters
          InitialLimit,  \* executionLimit_ when the server starts
          NewLimits,     \* arguments of setExecutionLimitRequests
          MultiBucket,   \* does the pile have several buckets?
          Delegate,      \* is the controller the pile's expiration delegate?
          NoRequest, NoLimit

ASSUME PoolAssumption ==
  /\ IsFiniteSet(Requests) /\ Requests # {}
  /\ IsFiniteSet(Threads) /\ Threads # {}
  /\ Oneway \subseteq Requests
  /\ NoRequest \notin Requests
  /\ PileLimit \in Nat
  /\ Word \in Nat /\ Word > Cardinality(Requests) + Cardinality(Threads)
  /\ InitialLimit \in Nat \ {0}
  /\ NewLimits \subseteq Nat
  /\ NoLimit \notin Nat
  /\ MultiBucket \in BOOLEAN
  /\ Delegate \in BOOLEAN

VARIABLES
  requestInExecution,  \* counters_.requestInExecution
  pendingDequeCalls,   \* counters_.pendingDequeCalls
  executionLimit,      \* executionLimit_, as every thread sees it
  stored,              \* thread -> its store to executionLimit_ still in flight
  maxLimit,            \* history: the highest limit ever stored
  tasks,               \* number of tasks waiting on the executor
  pile,                \* the requests in the pile
  stage,               \* request -> where it is in its life
  expired,             \* requests cancelled, or timed out in the queue
  pc,                  \* thread -> where it is
  caller,              \* thread -> who called trySchedule()
  seen,                \* thread -> countersOld
  limit,               \* thread -> currentLimit
  hand,                \* thread -> the request it has dequeued
  missed               \* thread -> the requests that arrived since its dequeue
                       \*   began, perhaps at a priority it has passed

shared == <<requestInExecution, pendingDequeCalls, executionLimit, stored,
            maxLimit, tasks, pile, stage, expired>>
local == <<pc, caller, seen, limit, hand, missed>>
vars == <<shared, local>>

Stages == {"new", "queued", "rejected", "dequeued", "executing", "done",
           "expired"}
Steps == {"idle", "index", "load", "limit", "swap", "dequeue", "claim",
          "drive", "expire", "arm", "empty", "execute"}
Callers == {"onEnqueued", "onExecuteFinish", "setExecutionLimit"}

counters == <<requestInExecution, pendingDequeCalls>>

(* uint32_t arithmetic.                                                    *)
Inc(x) == IF x = Word - 1 THEN 0 ELSE x + 1
Dec(x) == IF x = 0 THEN Word - 1 ELSE x - 1

Init ==
  /\ requestInExecution = 0
  /\ pendingDequeCalls = 0
  /\ executionLimit = InitialLimit
  /\ stored = [t \in Threads |-> NoLimit]
  /\ maxLimit = InitialLimit
  /\ tasks = 0
  /\ pile = {}
  /\ stage = [r \in Requests |-> "new"]
  /\ expired = {}
  /\ pc = [t \in Threads |-> "idle"]
  /\ caller = [t \in Threads |-> "onEnqueued"]
  /\ seen = [t \in Threads |-> <<0, 0>>]
  /\ limit = [t \in Threads |-> 0]
  /\ hand = [t \in Threads |-> NoRequest]
  /\ missed = [t \in Threads |-> {}]

Goto(t, step) == pc' = [pc EXCEPT ![t] = step]

(* Thread t calls trySchedule() on behalf of who.                          *)
CallTrySchedule(t, who) ==
  /\ Goto(t, "load")
  /\ caller' = [caller EXCEPT ![t] = who]

-----------------------------------------------------------------------------
(* trySchedule                                                             *)

Load(t) ==
  /\ pc[t] = "load"
  /\ seen' = [seen EXCEPT ![t] = counters]
  /\ Goto(t, "limit")
  /\ UNCHANGED <<shared, caller, limit, hand, missed>>

(* A thread reads its own store even while the others do not see it yet.   *)
ReadLimit(t) ==
  /\ pc[t] = "limit"
  /\ limit' = [limit EXCEPT
       ![t] = IF stored[t] # NoLimit THEN stored[t] ELSE executionLimit]
  /\ Goto(t, "swap")
  /\ UNCHANGED <<shared, caller, seen, hand, missed>>

(* The counters the thread proposes: in execution, pending.                *)
PendingSeen(t) ==
  IF caller[t] = "onEnqueued" THEN Inc(seen[t][2]) ELSE seen[t][2]
\* mutant: the limit compared inclusively
GetsTicketInclusive(t) == PendingSeen(t) # 0 /\ seen[t][1] <= limit[t]
GetsTicket(t) == PendingSeen(t) # 0 /\ seen[t][1] < limit[t]

(* The loop of setExecutionLimitRequests calls again after a success.      *)
AfterSuccess(t) == IF caller[t] = "setExecutionLimit" THEN "load" ELSE "idle"

(* The locals of the loop body end with the iteration.                     *)
EndIteration(t, step) ==
  /\ Goto(t, step)
  /\ seen' = [seen EXCEPT ![t] = <<0, 0>>]
  /\ limit' = [limit EXCEPT ![t] = 0]

SwapTicket(t) ==
  /\ pc[t] = "swap"
  /\ GetsTicket(t)
  /\ counters = seen[t]
  /\ requestInExecution' = Inc(seen[t][1])
  /\ pendingDequeCalls' = Dec(PendingSeen(t))
  /\ tasks' = tasks + 1
  /\ EndIteration(t, AfterSuccess(t))
  /\ UNCHANGED <<executionLimit, stored, maxLimit, pile, stage, expired,
                 caller, hand, missed>>

SwapPending(t) ==
  /\ pc[t] = "swap"
  /\ ~GetsTicket(t)
  /\ caller[t] = "onEnqueued"
  /\ counters = seen[t]
  /\ pendingDequeCalls' = PendingSeen(t)
  /\ EndIteration(t, "idle")
  /\ UNCHANGED <<requestInExecution, executionLimit, stored, maxLimit, tasks,
                 pile, stage, expired, caller, hand, missed>>

GiveUp(t) ==
  /\ pc[t] = "swap"
  /\ ~GetsTicket(t)
  /\ caller[t] # "onEnqueued"
  /\ EndIteration(t, "idle")
  /\ UNCHANGED <<shared, caller, hand, missed>>

SwapFails(t) ==
  /\ pc[t] = "swap"
  /\ GetsTicket(t) \/ caller[t] = "onEnqueued"
  /\ counters # seen[t]
  /\ EndIteration(t, "load")
  /\ UNCHANGED <<shared, caller, hand, missed>>

TrySchedule(t) ==
  \/ Load(t)
  \/ ReadLimit(t)
  \/ SwapTicket(t)
  \/ SwapPending(t)
  \/ GiveUp(t)
  \/ SwapFails(t)

-----------------------------------------------------------------------------
(* ResourcePool::acceptAsync                                               *)

(* The first push into an empty bucket has to publish the bucket's index.  *)
AcceptAsync(t, r) ==
  /\ pc[t] = "idle"
  /\ stage[r] = "new"
  /\ PileLimit = 0 \/ Cardinality(pile) < PileLimit
  /\ pile' = pile \union {r}
  /\ stage' = [stage EXCEPT ![r] = "queued"]
  /\ \/ CallTrySchedule(t, "onEnqueued")
     \/ /\ MultiBucket
        /\ Goto(t, "index")
        /\ caller' = [caller EXCEPT ![t] = "onEnqueued"]
  /\ missed' = [u \in Threads |->
       IF pc[u] = "dequeue" THEN missed[u] \union {r} ELSE missed[u]]
  /\ UNCHANGED <<counters, executionLimit, stored, maxLimit, tasks, expired,
                 seen, limit, hand>>

PublishIndex(t) ==
  /\ pc[t] = "index"
  /\ CallTrySchedule(t, "onEnqueued")
  /\ UNCHANGED <<shared, seen, limit, hand, missed>>

\* mutant: the early return of acceptAsync is missing
RejectAsyncCounted(t, r) ==
  /\ pc[t] = "idle"
  /\ stage[r] = "new"
  /\ stage' = [stage EXCEPT ![r] = "rejected"]
  /\ CallTrySchedule(t, "onEnqueued")
  /\ UNCHANGED <<counters, executionLimit, stored, maxLimit, tasks, pile,
                 expired, seen, limit, hand, missed>>

(* A bucket is full or the pre-enqueue filter refuses the request.         *)
RejectAsync(t, r) ==
  /\ pc[t] = "idle"
  /\ stage[r] = "new"
  /\ stage' = [stage EXCEPT ![r] = "rejected"]
  /\ UNCHANGED <<counters, executionLimit, stored, maxLimit, tasks, pile,
                 expired, local>>

(* The queue timeout fires, or the client goes away.                       *)
Expire(r) ==
  /\ stage[r] \in {"queued", "dequeued"}
  /\ r \notin expired
  /\ expired' = expired \union {r}
  /\ UNCHANGED <<counters, executionLimit, stored, maxLimit, tasks, pile,
                 stage, local>>

-----------------------------------------------------------------------------
(* The task of scheduleOnExecutor: executeRequest(pile_.dequeue()).        *)

RunTask(t) ==
  /\ pc[t] = "idle"
  /\ tasks > 0
  /\ tasks' = tasks - 1
  /\ Goto(t, "dequeue")
  /\ UNCHANGED <<counters, executionLimit, stored, maxLimit, pile, stage,
                 expired, caller, seen, limit, hand, missed>>

(* Only a pile of several buckets consults the expiration delegate.        *)
Discards(r) == MultiBucket /\ Delegate /\ r \in expired

(* A bucket's consumer looks at the request once it has taken it.          *)
DequeueTake(t, r) ==
  /\ pc[t] \in {"dequeue", "drive"}
  /\ r \in pile
  /\ pile' = pile \ {r}
  /\ stage' = [stage EXCEPT ![r] = "dequeued"]
  /\ hand' = [hand EXCEPT ![t] = r]
  /\ missed' = [missed EXCEPT ![t] = {}]
  /\ Goto(t, IF MultiBucket THEN "claim" ELSE "execute")
  /\ UNCHANGED <<counters, executionLimit, stored, maxLimit, tasks, expired,
                 caller, seen, limit>>

DequeueKeep(t) ==
  /\ pc[t] = "claim"
  /\ ~Discards(hand[t])
  /\ Goto(t, "arm")
  /\ UNCHANGED <<shared, caller, seen, limit, hand, missed>>

DequeueDiscard(t) ==
  /\ pc[t] = "claim"
  /\ Discards(hand[t])
  /\ stage' = [stage EXCEPT ![hand[t]] = "expired"]
  /\ hand' = [hand EXCEPT ![t] = NoRequest]
  /\ Goto(t, "expire")
  /\ UNCHANGED <<counters, executionLimit, stored, maxLimit, tasks, pile,
                 expired, caller, seen, limit, missed>>

(* processExpiredRequest: give back the ticket of the discarded request.   *)
ProcessExpiredRequest(t) ==
  /\ pc[t] = "expire"
  /\ pendingDequeCalls' = Dec(pendingDequeCalls)
  /\ Goto(t, "drive")
  /\ UNCHANGED <<requestInExecution, executionLimit, stored, maxLimit, tasks,
                 pile, stage, expired, caller, seen, limit, hand, missed>>

(* The bucket goes back to the end of the queue of non-empty buckets.      *)
Rearm(t) ==
  /\ pc[t] = "arm"
  /\ Goto(t, "execute")
  /\ UNCHANGED <<shared, caller, seen, limit, hand, missed>>

(* Another thread has a bucket in its hands, which nobody else finds.      *)
BucketBusy(t) ==
  \E u \in Threads \ {t} :
    pc[u] \in {"index", "claim", "drive", "expire", "arm"}

DequeueEmpty(t) ==
  /\ \/ pc[t] = "dequeue" /\ (pile \subseteq missed[t] \/ BucketBusy(t))
     \/ pc[t] = "drive"
  /\ missed' = [missed EXCEPT ![t] = {}]
  /\ Goto(t, "empty")
  /\ UNCHANGED <<shared, caller, seen, limit, hand>>

\* mutant: the dequeue ticket of an empty dequeue is not given back
ExecuteEmptyKeeps(t) ==
  /\ pc[t] = "empty"
  /\ requestInExecution' = Dec(requestInExecution)
  /\ CallTrySchedule(t, "onExecuteFinish")
  /\ UNCHANGED <<pendingDequeCalls, executionLimit, stored, maxLimit, tasks,
                 pile, stage, expired, seen, limit, hand, missed>>

(* executeRequest of nothing: onExecuteFinish(false).                      *)
ExecuteEmpty(t) ==
  /\ pc[t] = "empty"
  /\ requestInExecution' = Dec(requestInExecution)
  /\ pendingDequeCalls' = Inc(pendingDequeCalls)
  /\ CallTrySchedule(t, "onExecuteFinish")
  /\ UNCHANGED <<executionLimit, stored, maxLimit, tasks, pile, stage,
                 expired, seen, limit, hand, missed>>

ShouldStartProcessing(r) == r \in Oneway \/ r \notin expired

(* executeRequest of a live request: the handler runs, possibly beyond the *)
(* task that started it.                                                   *)
ExecuteRequest(t) ==
  /\ pc[t] = "execute"
  /\ ShouldStartProcessing(hand[t])
  /\ stage' = [stage EXCEPT ![hand[t]] = "executing"]
  /\ hand' = [hand EXCEPT ![t] = NoRequest]
  /\ Goto(t, "idle")
  /\ UNCHANGED <<counters, executionLimit, stored, maxLimit, tasks, pile,
                 expired, caller, seen, limit, missed>>

\* mutant: a released request does not notify the controller
ExecuteExpiredSilent(t) ==
  /\ pc[t] = "execute"
  /\ ~ShouldStartProcessing(hand[t])
  /\ stage' = [stage EXCEPT ![hand[t]] = "expired"]
  /\ hand' = [hand EXCEPT ![t] = NoRequest]
  /\ Goto(t, "idle")
  /\ UNCHANGED <<counters, executionLimit, stored, maxLimit, tasks, pile,
                 expired, caller, seen, limit, missed>>

(* executeRequest of a dead request: it is released, and ~ServerRequest    *)
(* calls onRequestFinished().                                              *)
ExecuteExpired(t) ==
  /\ pc[t] = "execute"
  /\ ~ShouldStartProcessing(hand[t])
  /\ stage' = [stage EXCEPT ![hand[t]] = "expired"]
  /\ hand' = [hand EXCEPT ![t] = NoRequest]
  /\ requestInExecution' = Dec(requestInExecution)
  /\ CallTrySchedule(t, "onExecuteFinish")
  /\ UNCHANGED <<pendingDequeCalls, executionLimit, stored, maxLimit, tasks,
                 pile, expired, seen, limit, missed>>

\* mutant: onExecuteFinish does not try to schedule the next request
OnRequestFinishedOnly(t, r) ==
  /\ pc[t] = "idle"
  /\ stage[r] = "executing"
  /\ stage' = [stage EXCEPT ![r] = "done"]
  /\ requestInExecution' = Dec(requestInExecution)
  /\ UNCHANGED <<pendingDequeCalls, executionLimit, stored, maxLimit, tasks,
                 pile, expired, local>>

(* ~HandlerCallbackBase on any thread: onRequestFinished().                *)
OnRequestFinished(t, r) ==
  /\ pc[t] = "idle"
  /\ stage[r] = "executing"
  /\ stage' = [stage EXCEPT ![r] = "done"]
  /\ requestInExecution' = Dec(requestInExecution)
  /\ CallTrySchedule(t, "onExecuteFinish")
  /\ UNCHANGED <<pendingDequeCalls, executionLimit, stored, maxLimit, tasks,
                 pile, expired, seen, limit, hand, missed>>

-----------------------------------------------------------------------------
(* setExecutionLimitRequests                                               *)

SetExecutionLimitRequests(t, l) ==
  /\ pc[t] = "idle"
  /\ stored[t] = NoLimit
  /\ stored' = [stored EXCEPT ![t] = l]
  /\ maxLimit' = IF l > maxLimit THEN l ELSE maxLimit
  /\ CallTrySchedule(t, "setExecutionLimit")
  /\ UNCHANGED <<counters, executionLimit, tasks, pile, stage, expired, seen,
                 limit, hand, missed>>

(* The relaxed store becomes visible to the other threads.                 *)
LimitVisible(t) ==
  /\ stored[t] # NoLimit
  /\ executionLimit' = stored[t]
  /\ stored' = [stored EXCEPT ![t] = NoLimit]
  /\ UNCHANGED <<counters, maxLimit, tasks, pile, stage, expired, local>>

-----------------------------------------------------------------------------
Task(t) ==
  \/ \E r \in Requests : DequeueTake(t, r)
  \/ DequeueKeep(t)
  \/ DequeueDiscard(t)
  \/ ProcessExpiredRequest(t)
  \/ Rearm(t)
  \/ DequeueEmpty(t)
  \/ ExecuteEmpty(t)
  \/ ExecuteRequest(t)
  \/ ExecuteExpired(t)

(* No request is left and nobody is at work: the pool is idle for good.    *)
Idle ==
  /\ \A r \in Requests : stage[r] \in {"rejected", "done", "expired"}
  /\ \A t \in Threads : pc[t] = "idle" /\ stored[t] = NoLimit
  /\ tasks = 0
  /\ UNCHANGED vars

Next ==
  \/ \E t \in Threads :
       \/ PublishIndex(t)
       \/ TrySchedule(t)
       \/ Task(t)
       \/ RunTask(t)
       \/ \E r \in Requests :
            AcceptAsync(t, r) \/ RejectAsync(t, r) \/ OnRequestFinished(t, r)
       \/ \E l \in NewLimits : SetExecutionLimitRequests(t, l)
       \/ LimitVisible(t)
  \/ \E r \in Requests : Expire(r)
  \/ Idle

Spec == Init /\ [][Next]_vars

(* Threads are scheduled, the executor runs its tasks and every handler    *)
(* completes its request.  Requests need not arrive, limits need not       *)
(* change and nothing has to expire.                                       *)
Fairness ==
  /\ \A t \in Threads :
       WF_vars(PublishIndex(t) \/ TrySchedule(t) \/ Task(t))
  /\ \A t \in Threads : WF_vars(LimitVisible(t))
  /\ WF_vars(\E t \in Threads : RunTask(t))
  /\ \A r \in Requests : WF_vars(\E t \in Threads : OnRequestFinished(t, r))

FairSpec == Spec /\ Fairness

-----------------------------------------------------------------------------
(* Properties                                                              *)

ThreadsAt(steps) == {t \in Threads : pc[t] \in steps}
RequestsAt(stages) == {r \in Requests : stage[r] \in stages}

(* Threads that hold an execution ticket of requestInExecution.            *)
TicketHolders == ThreadsAt({"dequeue", "claim", "drive", "expire", "arm",
                            "empty", "execute"})
(* Those that still have to find a request for their dequeue ticket.       *)
Dequeuers == ThreadsAt({"dequeue", "drive", "expire", "empty"})
(* Threads that have pushed a request but not counted it yet.              *)
Enqueuers ==
  {t \in ThreadsAt({"index", "load", "limit", "swap"}) :
     caller[t] = "onEnqueued"}

(* Every thread is at one of the steps of the code, and both halves of     *)
(* counters_ stay in their 32 bits, wrapping where the code's do.          *)
TypeOK ==
  /\ requestInExecution \in 0..Word - 1
  /\ pendingDequeCalls \in 0..Word - 1
  /\ executionLimit \in Nat
  /\ stored \in [Threads -> Nat \union {NoLimit}]
  /\ maxLimit \in Nat
  /\ tasks \in Nat
  /\ pile \in SUBSET Requests
  /\ stage \in [Requests -> Stages]
  /\ expired \in SUBSET Requests
  /\ pc \in [Threads -> Steps]
  /\ caller \in [Threads -> Callers]
  /\ seen \in [Threads -> (0..Word - 1) \X (0..Word - 1)]
  /\ limit \in [Threads -> Nat]
  /\ hand \in [Threads -> Requests \union {NoRequest}]
  /\ missed \in [Threads -> SUBSET Requests]

(* The execution tickets in circulation: tasks on the executor, threads    *)
(* running one, requests whose handler has not finished.                   *)
Tickets == tasks + Cardinality(TicketHolders)
             + Cardinality(RequestsAt({"executing"}))

(* The counted requests in the pile without a dequeue on its way to them,  *)
(* and those a dequeue has discarded but not taken out of the count.       *)
Waiting == Cardinality(pile) + Cardinality(ThreadsAt({"expire"}))
             - Cardinality(Enqueuers) - tasks - Cardinality(Dequeuers)

(* Execution tickets are neither lost nor invented, modulo 2^32:           *)
(* onExecuteFinish runs exactly once for every successful trySchedule.     *)
ExecutionTickets == (requestInExecution - Tickets) % Word = 0

(* Dequeue tickets are conserved modulo 2^32: each request adds one in     *)
(* onEnqueued, each scheduled dequeue takes one, an empty dequeue gives it *)
(* back and processExpiredRequest takes out that of a discarded request.   *)
DequeueTickets == (pendingDequeCalls - Waiting) % Word = 0

(* No more requests execute at a time than the highest limit ever set,     *)
(* whatever the races between trySchedule and setExecutionLimitRequests.   *)
ExecutionLimitRespected ==
  Cardinality(RequestsAt({"executing"})) <= maxLimit

(* No wakeup is lost: when no thread is inside the pool and no task is     *)
(* scheduled, requests wait in the pile only because the limit is reached. *)
NoStrandedRequest ==
  /\ \A t \in Threads : pc[t] = "idle" /\ stored[t] = NoLimit
  /\ tasks = 0
  /\ pile # {}
  => requestInExecution >= executionLimit

(* Every request accepted into the pile is dequeued.                       *)
QueuedRequestsLeave ==
  \A r \in Requests : stage[r] = "queued" ~> stage[r] # "queued"

(* The executor is not kept busy for ever: empty dequeues do not           *)
(* reschedule each other once the requests are gone.                       *)
ExecutorQuiesces == <>[](tasks = 0)

=============================================================================
