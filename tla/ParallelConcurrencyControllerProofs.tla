----------------- MODULE ParallelConcurrencyControllerProofs -----------------
(***************************************************************************)
(* The theorems about ParallelConcurrencyController: for every number of   *)
(* requests and threads, every sequence of limits and every pile, its      *)
(* types are kept, tickets are conserved and the execution limit is        *)
(* respected; and as long as the limit is not changed, no request is       *)
(* stranded.                                                               *)
(*                                                                         *)
(* The counters are sums over threads and requests, so every step is       *)
(* followed through the effect it has on a few cardinalities: a step moves *)
(* one thread t and one request r, and the set of those in a given place   *)
(* gains or loses at most that one element (CountMove).                    *)
(***************************************************************************)
EXTENDS ParallelConcurrencyController, FiniteSetTheorems, TLAPS

(* Most steps are first-order; the ones that need arithmetic, records or   *)
(* sequences cite SMTT.                                                    *)
USE ZenonT(30)

Ind(b) == IF b THEN 1 ELSE 0

(* The pile holds exactly the queued requests.                             *)
PileIsQueued == pile = RequestsAt({"queued"})

(* A thread that has dequeued a request is the only one that has it.       *)
HandsHold ==
  /\ \A t \in ThreadsAt({"claim", "arm", "execute"}) :
       hand[t] \in Requests /\ stage[hand[t]] = "dequeued"
  /\ \A t, u \in ThreadsAt({"claim", "arm", "execute"}) :
       hand[t] = hand[u] => t = u

(* Only onEnqueued publishes an index.                                     *)
IndexIsEnqueue == \A t \in ThreadsAt({"index"}) : caller[t] = "onEnqueued"

(* No thread has seen or stored a limit above the highest one.             *)
LimitsBounded ==
  /\ executionLimit <= maxLimit
  /\ \A t \in Threads : limit[t] <= maxLimit
  /\ \A t \in Threads : stored[t] # NoLimit => stored[t] <= maxLimit

(* As long as every limit fits the counter, requestInExecution is the      *)
(* number of tickets itself and not only congruent to it.                  *)
ExactTickets ==
  maxLimit < Word =>
    requestInExecution = Tickets /\ requestInExecution <= maxLimit

(* The inductive invariant.                                                *)
IInv ==
  /\ TypeOK
  /\ PileIsQueued
  /\ HandsHold
  /\ IndexIsEnqueue
  /\ LimitsBounded
  /\ ExecutionTickets
  /\ DequeueTickets
  /\ ExactTickets

-----------------------------------------------------------------------------
(* Arithmetic modulo Word and counting                                     *)

(* Going once round the counter keeps an expression a multiple of 2^32.    *)
LEMMA ShiftMod ==
  ASSUME NEW a \in Int, NEW b \in Int,
         a % Word = 0,
         b = a \/ b = a + Word \/ b = a - Word
  PROVE  b % Word = 0
<1>1. Word \in Nat /\ Word > 0
  BY PoolAssumption, FS_CardinalityType, SMTT(30)
<1> DEFINE q == a \div Word
<1>2. q \in Int /\ a = Word * q
  BY <1>1, SMTT(30)
<1> HIDE DEF q
<1>3. PICK k \in Int : b = Word * k
  <2>1. CASE b = a           BY <1>2, <2>1
  <2>2. CASE b = a + Word
    BY SMTT(30), <1>1, <1>2, <2>2, b = Word * (q + 1)
  <2>3. CASE b = a - Word
    BY SMTT(30), <1>1, <1>2, <2>3, b = Word * (q - 1)
  <2> QED  BY <2>1, <2>2, <2>3
<1>4. (Word * k) % Word = 0
  BY <1>1, SMTT(30)
<1> QED  BY <1>3, <1>4

(* Two subsets that differ at most in t differ in size by whether they     *)
(* have it: the effect of one thread's, or one request's, step.            *)
LEMMA CountMove ==
  ASSUME NEW T, IsFiniteSet(T), NEW A \in SUBSET T, NEW B \in SUBSET T,
         NEW t \in T, A \ {t} = B \ {t}
  PROVE  /\ Cardinality(A) \in Nat
         /\ Cardinality(B) \in Nat
         /\ Cardinality(B) = Cardinality(A) + Ind(t \in B) - Ind(t \in A)
<1>1. IsFiniteSet(A) /\ IsFiniteSet(B)
  BY FS_Subset
<1>2. Cardinality(A) \in Nat /\ Cardinality(B) \in Nat
  BY <1>1, FS_CardinalityType
<1>3. Cardinality(A \ {t}) = Cardinality(A) - Ind(t \in A)
  <2>1. CASE t \in A     BY <1>1, <1>2, <2>1, FS_RemoveElement DEF Ind
  <2>2. CASE t \notin A  BY <1>2, <2>2, A \ {t} = A, SMTT(30) DEF Ind
  <2> QED  BY <2>1, <2>2
<1>4. Cardinality(B \ {t}) = Cardinality(B) - Ind(t \in B)
  <2>1. CASE t \in B     BY <1>1, <1>2, <2>1, FS_RemoveElement DEF Ind
  <2>2. CASE t \notin B  BY <1>2, <2>2, B \ {t} = B, SMTT(30) DEF Ind
  <2> QED  BY <2>1, <2>2
<1>5. Cardinality(A \ {t}) = Cardinality(B \ {t})
  OBVIOUS
<1>6. Ind(t \in A) \in Int /\ Ind(t \in B) \in Int
  BY SMTT(30) DEF Ind
<1> QED  BY <1>2, <1>3, <1>4, <1>5, <1>6, SMTT(30)

(* What the step of a thread does to the number of threads in each place.  *)
LEMMA ThreadCounts ==
  ASSUME NEW t \in Threads,
         \A u \in Threads \ {t} : pc'[u] = pc[u] /\ caller'[u] = caller[u]
  PROVE  /\ \A S : /\ Cardinality(ThreadsAt(S)) \in Nat
                   /\ Cardinality(ThreadsAt(S))' \in Nat
                   /\ Cardinality(ThreadsAt(S))' = Cardinality(ThreadsAt(S))
                        + Ind(pc'[t] \in S) - Ind(pc[t] \in S)
         /\ Cardinality(Enqueuers) \in Nat
         /\ Cardinality(Enqueuers)' \in Nat
         /\ Cardinality(Enqueuers)' = Cardinality(Enqueuers)
              + Ind(pc'[t] \in {"index", "load", "limit", "swap"}
                      /\ caller'[t] = "onEnqueued")
              - Ind(pc[t] \in {"index", "load", "limit", "swap"}
                      /\ caller[t] = "onEnqueued")
<1>1. IsFiniteSet(Threads)
  BY PoolAssumption
<1>2. ASSUME NEW S
      PROVE  /\ Cardinality(ThreadsAt(S)) \in Nat
             /\ Cardinality(ThreadsAt(S))' \in Nat
             /\ Cardinality(ThreadsAt(S))' = Cardinality(ThreadsAt(S))
                  + Ind(pc'[t] \in S) - Ind(pc[t] \in S)
  <2> DEFINE A == {u \in Threads : pc[u] \in S}
             B == {u \in Threads : pc'[u] \in S}
  <2>1. A \in SUBSET Threads /\ B \in SUBSET Threads /\ A \ {t} = B \ {t}
    OBVIOUS
  <2>2. (t \in A <=> pc[t] \in S) /\ (t \in B <=> pc'[t] \in S)
    OBVIOUS
  <2> HIDE DEF A, B
  <2>3. /\ Cardinality(A) \in Nat
        /\ Cardinality(B) \in Nat
        /\ Cardinality(B) = Cardinality(A) + Ind(t \in B) - Ind(t \in A)
    BY <1>1, <2>1, CountMove, SMTT(30)
  <2> QED  BY <2>2, <2>3 DEF A, B, ThreadsAt, Ind
<1>3. /\ Cardinality(Enqueuers) \in Nat
      /\ Cardinality(Enqueuers)' \in Nat
      /\ Cardinality(Enqueuers)' = Cardinality(Enqueuers)
           + Ind(t \in Enqueuers') - Ind(t \in Enqueuers)
  <2>1. Enqueuers \in SUBSET Threads /\ Enqueuers' \in SUBSET Threads
    BY DEF Enqueuers, ThreadsAt
  <2>2. Enqueuers \ {t} = Enqueuers' \ {t}
    BY DEF Enqueuers, ThreadsAt
  <2> QED  BY <1>1, <2>1, <2>2, CountMove, SMTT(30)
<1> QED  BY <1>2, <1>3 DEF Enqueuers, ThreadsAt, Ind

(* What a step of a request does to the number of requests in each stage.  *)
LEMMA RequestCounts ==
  ASSUME NEW r \in Requests,
         \A q \in Requests \ {r} : stage'[q] = stage[q]
  PROVE  \A S : /\ Cardinality(RequestsAt(S)) \in Nat
                /\ Cardinality(RequestsAt(S))' \in Nat
                /\ Cardinality(RequestsAt(S))' = Cardinality(RequestsAt(S))
                     + Ind(stage'[r] \in S) - Ind(stage[r] \in S)
<1>1. IsFiniteSet(Requests)
  BY PoolAssumption
<1> TAKE S
<1> DEFINE A == {q \in Requests : stage[q] \in S}
           B == {q \in Requests : stage'[q] \in S}
<1>2. A \in SUBSET Requests /\ B \in SUBSET Requests /\ A \ {r} = B \ {r}
  BY SMTT(30)
<1>3. (r \in A <=> stage[r] \in S) /\ (r \in B <=> stage'[r] \in S)
  OBVIOUS
<1> HIDE DEF A, B
<1>4. /\ Cardinality(A) \in Nat
      /\ Cardinality(B) \in Nat
      /\ Cardinality(B) = Cardinality(A) + Ind(r \in B) - Ind(r \in A)
  BY <1>1, <1>2, CountMove, SMTT(30)
<1> QED  BY <1>3, <1>4 DEF A, B, RequestsAt, Ind

(* The counters stay 32 bit values, and move by one modulo 2^32.           *)
LEMMA Counters ==
  ASSUME NEW x \in 0..Word - 1
  PROVE  /\ Inc(x) \in 0..Word - 1
         /\ Dec(x) \in 0..Word - 1
         /\ Inc(x) = x + 1 \/ Inc(x) = x + 1 - Word
         /\ Dec(x) = x - 1 \/ Dec(x) = x - 1 + Word
         /\ x < Word - 1 => Inc(x) = x + 1
         /\ x # 0 => Dec(x) = x - 1
         /\ Dec(Inc(x)) = x
  BY PoolAssumption, FS_CardinalityType, SMTT(30) DEF Inc, Dec

(* The counters a thread has read are words.                                *)
LEMMA PendingSeenType ==
  ASSUME TypeOK, NEW t \in Threads
  PROVE  /\ seen[t][1] \in 0..Word - 1
         /\ seen[t][2] \in 0..Word - 1
         /\ PendingSeen(t) \in 0..Word - 1
<1>1. seen[t][1] \in 0..Word - 1 /\ seen[t][2] \in 0..Word - 1
  BY DEF TypeOK
<1> QED  BY <1>1, Counters DEF PendingSeen

-----------------------------------------------------------------------------
(* Type correctness                                                        *)

(* The types hold at first ...                                              *)
LEMMA TypeInit == Init => TypeOK
<1>1. 0 \in 0..Word - 1
  BY PoolAssumption, FS_CardinalityType, SMTT(30)
<1> QED  BY <1>1, PoolAssumption, SMTT(30)
         DEF Init, TypeOK, Stages, Steps, Callers

(* ... and every step keeps them.                                           *)
LEMMA TypeStep ==
  ASSUME TypeOK, [Next]_vars
  PROVE  TypeOK'
<1>0. Word \in Nat /\ 0 \in 0..Word - 1
  BY PoolAssumption, FS_CardinalityType, SMTT(30)
<1> USE DEF Stages, Steps, Callers
<1>1. ASSUME NEW t \in Threads, TrySchedule(t)
      PROVE  TypeOK'
  <2> USE <1>0 DEF TypeOK, shared, counters, EndIteration, Goto
  <2>1. CASE Load(t)         BY <2>1 DEF Load
  <2>2. CASE ReadLimit(t)    BY <2>2 DEF ReadLimit
  <2>3. CASE SwapTicket(t)
    <3>1. /\ Inc(seen[t][1]) \in 0..Word - 1
          /\ Dec(PendingSeen(t)) \in 0..Word - 1
      BY PendingSeenType, Counters
    <3>2. AfterSuccess(t) \in Steps
      BY DEF AfterSuccess
    <3> QED  BY <2>3, <3>1, <3>2, SMTT(30) DEF SwapTicket
  <2>4. CASE SwapPending(t)  BY <2>4, PendingSeenType DEF SwapPending
  <2>5. CASE GiveUp(t)       BY <2>5 DEF GiveUp
  <2>6. CASE SwapFails(t)    BY <2>6 DEF SwapFails
  <2> QED  BY <1>1, <2>1, <2>2, <2>3, <2>4, <2>5, <2>6 DEF TrySchedule
<1>2. ASSUME NEW t \in Threads, Task(t)
      PROVE  TypeOK'
  <2> USE <1>0 DEF TypeOK, shared, counters, Goto, CallTrySchedule
  <2>1. ASSUME NEW r \in Requests, DequeueTake(t, r) PROVE TypeOK'
    BY <2>1 DEF DequeueTake
  <2>2. CASE DequeueKeep(t)     BY <2>2 DEF DequeueKeep
  <2>3. CASE DequeueDiscard(t)  BY <2>3 DEF DequeueDiscard
  <2>4. CASE ProcessExpiredRequest(t)
    BY <2>4, Counters DEF ProcessExpiredRequest
  <2>5. CASE Rearm(t)           BY <2>5 DEF Rearm
  <2>6. CASE DequeueEmpty(t)    BY <2>6 DEF DequeueEmpty
  <2>7. CASE ExecuteEmpty(t)    BY <2>7, Counters DEF ExecuteEmpty
  <2>8. CASE ExecuteRequest(t)  BY <2>8 DEF ExecuteRequest
  <2>9. CASE ExecuteExpired(t)  BY <2>9, Counters DEF ExecuteExpired
  <2> QED  BY <1>2, <2>1, <2>2, <2>3, <2>4, <2>5, <2>6, <2>7, <2>8, <2>9
           DEF Task
<1>3. ASSUME NEW t \in Threads, RunTask(t) PROVE TypeOK'
  BY <1>0, <1>3, SMTT(30) DEF RunTask, TypeOK, counters, Goto
<1>4. ASSUME NEW t \in Threads, NEW r \in Requests, AcceptAsync(t, r)
      PROVE  TypeOK'
  BY <1>0, <1>4 DEF AcceptAsync, TypeOK, counters, Goto, CallTrySchedule
<1>5. ASSUME NEW t \in Threads, NEW r \in Requests, RejectAsync(t, r)
      PROVE  TypeOK'
  BY <1>0, <1>5 DEF RejectAsync, TypeOK, counters, local
<1>6. ASSUME NEW t \in Threads, NEW r \in Requests, OnRequestFinished(t, r)
      PROVE  TypeOK'
  BY <1>0, <1>6, Counters
  DEF OnRequestFinished, TypeOK, counters, Goto, CallTrySchedule
<1>7. ASSUME NEW t \in Threads, NEW l \in NewLimits,
             SetExecutionLimitRequests(t, l)
      PROVE  TypeOK'
  BY <1>0, <1>7, PoolAssumption
  DEF SetExecutionLimitRequests, TypeOK, counters, Goto, CallTrySchedule
<1>8. ASSUME NEW t \in Threads, LimitVisible(t) PROVE TypeOK'
  BY <1>0, <1>8 DEF LimitVisible, TypeOK, counters, local
<1>9. ASSUME NEW r \in Requests, Expire(r) PROVE TypeOK'
  BY <1>0, <1>9 DEF Expire, TypeOK, counters, local
<1>10. ASSUME NEW t \in Threads, PublishIndex(t) PROVE TypeOK'
  BY <1>0, <1>10 DEF PublishIndex, TypeOK, shared, Goto, CallTrySchedule
<1>11. CASE Idle \/ UNCHANGED vars
  BY <1>11 DEF Idle, TypeOK, vars, shared, local
<1> QED  BY <1>1, <1>2, <1>3, <1>4, <1>5, <1>6, <1>7, <1>8, <1>9, <1>10, <1>11
         DEF Next

(* Both counters stay 32 bit values and every thread and request is in one *)
(* of its places, whatever the threads do.                                 *)
THEOREM TypeCorrect == Spec => []TypeOK
  BY TypeInit, TypeStep, PTL DEF Spec

-----------------------------------------------------------------------------
(* Requests and hands                                                      *)

(* No request is in the pile or in a hand at first.                         *)
LEMMA HandInit == Init => PileIsQueued /\ HandsHold /\ IndexIsEnqueue
  BY DEF Init, PileIsQueued, HandsHold, IndexIsEnqueue, RequestsAt, ThreadsAt

(* Only an enqueue ever publishes an index.                                 *)
LEMMA IndexStep ==
  ASSUME TypeOK, IndexIsEnqueue, [Next]_vars
  PROVE  IndexIsEnqueue'
<1> USE DEF TypeOK, IndexIsEnqueue, ThreadsAt
<1>1. ASSUME NEW t \in Threads,
             \A u \in Threads \ {t} : pc'[u] = pc[u] /\ caller'[u] = caller[u],
             pc'[t] = "index" => caller'[t] = "onEnqueued"
      PROVE  IndexIsEnqueue'
  BY <1>1
<1>2. ASSUME NEW t \in Threads,
             TrySchedule(t) \/ Task(t) \/ RunTask(t) \/ PublishIndex(t)
      PROVE  IndexIsEnqueue'
  BY <1>1, <1>2
  DEF Task, DequeueTake, DequeueKeep, DequeueDiscard, ProcessExpiredRequest,
      Rearm, DequeueEmpty, ExecuteEmpty, ExecuteRequest, ExecuteExpired,
      RunTask, PublishIndex, Goto, CallTrySchedule, EndIteration,
      TrySchedule, Load,
      ReadLimit, SwapTicket, SwapPending, GiveUp, SwapFails, AfterSuccess
<1>3. ASSUME NEW t \in Threads, NEW r \in Requests,
             \/ AcceptAsync(t, r)
             \/ RejectAsync(t, r)
             \/ OnRequestFinished(t, r)
      PROVE  IndexIsEnqueue'
  BY <1>1, <1>3 DEF AcceptAsync, RejectAsync, OnRequestFinished, Goto,
                    CallTrySchedule, local
<1>4. ASSUME NEW t \in Threads, NEW l \in NewLimits,
             SetExecutionLimitRequests(t, l)
      PROVE  IndexIsEnqueue'
  BY <1>1, <1>4 DEF SetExecutionLimitRequests, Goto, CallTrySchedule
<1>5. CASE UNCHANGED <<pc, caller>>
  BY <1>5
<1> QED  BY <1>2, <1>3, <1>4, <1>5
         DEF Next, LimitVisible, Expire, Idle, vars, local

(* Every step keeps the pile and the hands in agreement with the stages.    *)
LEMMA HandStep ==
  ASSUME TypeOK, PileIsQueued, HandsHold, [Next]_vars
  PROVE  PileIsQueued' /\ HandsHold'
<1> USE DEF TypeOK, PileIsQueued, HandsHold, RequestsAt, ThreadsAt, counters,
            shared, local, Goto, CallTrySchedule, EndIteration
<1>1. ASSUME NEW t \in Threads, TrySchedule(t)
      PROVE  PileIsQueued' /\ HandsHold'
  <2>1. UNCHANGED <<pile, stage, hand>>
    BY <1>1 DEF TrySchedule, Load, ReadLimit, SwapTicket, SwapPending, GiveUp,
                SwapFails
  <2>2. /\ \A u \in Threads \ {t} : pc'[u] = pc[u]
        /\ pc'[t] \notin {"claim", "arm", "execute"}
    BY <1>1 DEF TrySchedule, Load, ReadLimit, SwapTicket, SwapPending, GiveUp,
                SwapFails, AfterSuccess
  <2> QED  BY <2>1, <2>2
<1>2. ASSUME NEW t \in Threads, Task(t)
      PROVE  PileIsQueued' /\ HandsHold'
  <2>1. ASSUME NEW r \in Requests, DequeueTake(t, r)
        PROVE  PileIsQueued' /\ HandsHold'
    BY <2>1 DEF DequeueTake
  <2>2. CASE DequeueKeep(t)            BY <2>2, SMTT(30) DEF DequeueKeep
  <2>3. CASE DequeueDiscard(t)         BY <2>3 DEF DequeueDiscard
  <2>4. CASE ProcessExpiredRequest(t)  BY <2>4 DEF ProcessExpiredRequest
  <2>5. CASE Rearm(t)                  BY <2>5, SMTT(30) DEF Rearm
  <2>6. CASE DequeueEmpty(t)           BY <2>6 DEF DequeueEmpty
  <2>7. CASE ExecuteEmpty(t)           BY <2>7 DEF ExecuteEmpty
  <2>8. CASE ExecuteRequest(t)         BY <2>8 DEF ExecuteRequest
  <2>9. CASE ExecuteExpired(t)         BY <2>9 DEF ExecuteExpired
  <2> QED  BY <1>2, <2>1, <2>2, <2>3, <2>4, <2>5, <2>6, <2>7, <2>8, <2>9
           DEF Task
<1>3. ASSUME NEW t \in Threads, RunTask(t)
      PROVE  PileIsQueued' /\ HandsHold'
  BY <1>3 DEF RunTask
<1>4. ASSUME NEW t \in Threads, NEW r \in Requests,
             \/ AcceptAsync(t, r)
             \/ RejectAsync(t, r)
             \/ OnRequestFinished(t, r)
      PROVE  PileIsQueued' /\ HandsHold'
  <2>1. CASE AcceptAsync(t, r)
    <3>1. /\ stage[r] = "new" /\ stage' = [stage EXCEPT ![r] = "queued"]
          /\ pile' = pile \union {r}
          /\ hand' = hand
      BY <2>1 DEF AcceptAsync
    <3>2. /\ pc[t] = "idle" /\ pc'[t] \in {"load", "index"}
          /\ \A u \in Threads \ {t} : pc'[u] = pc[u]
      BY <2>1 DEF AcceptAsync
    <3>3. PileIsQueued'
      BY <3>1
    <3>4. ThreadsAt({"claim", "arm", "execute"})'
            = ThreadsAt({"claim", "arm", "execute"})
      BY <3>2
    <3>5. \A u \in ThreadsAt({"claim", "arm", "execute"}) :
            hand[u] \in Requests /\ stage'[hand[u]] = "dequeued"
      BY <3>1
    <3>6. HandsHold'
      BY <3>1, <3>4, <3>5
    <3> QED  BY <3>3, <3>6
  <2>2. CASE RejectAsync(t, r)        BY <2>2 DEF RejectAsync
  <2>3. CASE OnRequestFinished(t, r)  BY <2>3 DEF OnRequestFinished
  <2> QED  BY <1>4, <2>1, <2>2, <2>3
<1>5. ASSUME NEW t \in Threads, NEW l \in NewLimits,
             SetExecutionLimitRequests(t, l)
      PROVE  PileIsQueued' /\ HandsHold'
  BY <1>5 DEF SetExecutionLimitRequests
<1>6. ASSUME NEW t \in Threads, PublishIndex(t)
      PROVE  PileIsQueued' /\ HandsHold'
  BY <1>6 DEF PublishIndex
<1>7. ASSUME UNCHANGED <<pile, stage, pc, hand>>
      PROVE  PileIsQueued' /\ HandsHold'
  BY <1>7
<1> QED  BY <1>1, <1>2, <1>3, <1>4, <1>5, <1>6, <1>7
         DEF Next, LimitVisible, Expire, Idle, vars

-----------------------------------------------------------------------------
(* Limits                                                                  *)

(* No thread has read a limit above the largest one at first ...            *)
LEMMA LimitInit == Init => LimitsBounded
  BY PoolAssumption, SMTT(30) DEF Init, LimitsBounded

(* ... and every step keeps it so.                                          *)
LEMMA LimitStep ==
  ASSUME TypeOK, LimitsBounded, [Next]_vars
  PROVE  LimitsBounded' /\ maxLimit' >= maxLimit
<1> USE DEF TypeOK, LimitsBounded
<1>1. ASSUME NEW t \in Threads, TrySchedule(t)
      PROVE  LimitsBounded' /\ maxLimit' >= maxLimit
  BY <1>1, SMTT(30)
  DEF TrySchedule, Load, ReadLimit, SwapTicket, SwapPending, GiveUp,
              SwapFails, EndIteration, shared
<1>2. ASSUME NEW t \in Threads, NEW l \in NewLimits,
             SetExecutionLimitRequests(t, l)
      PROVE  LimitsBounded' /\ maxLimit' >= maxLimit
  BY <1>2, PoolAssumption, SMTT(30) DEF SetExecutionLimitRequests
<1>3. ASSUME NEW t \in Threads, LimitVisible(t)
      PROVE  LimitsBounded' /\ maxLimit' >= maxLimit
  BY <1>3, SMTT(30) DEF LimitVisible, local
<1>4. ASSUME UNCHANGED <<executionLimit, stored, maxLimit, limit>>
      PROVE  LimitsBounded' /\ maxLimit' >= maxLimit
  BY <1>4, SMTT(30)
<1> QED  BY <1>1, <1>2, <1>3, <1>4
         DEF Next, Task, DequeueTake, DequeueKeep, DequeueDiscard,
             ProcessExpiredRequest, Rearm, DequeueEmpty, ExecuteEmpty,
             ExecuteRequest, ExecuteExpired, RunTask, AcceptAsync,
             RejectAsync, PublishIndex, OnRequestFinished, Expire, Idle, vars,
             shared, local

-----------------------------------------------------------------------------
(* Tickets                                                                 *)

(* What a thread and a request contribute to the two sums.                 *)
Holds(step) ==
  Ind(step \in {"dequeue", "claim", "drive", "expire", "arm", "empty",
                "execute"})
Owes(step, who) ==
  Ind(step \in {"index", "load", "limit", "swap"} /\ who = "onEnqueued")
    + Ind(step \in {"dequeue", "drive", "expire", "empty"})
    - Ind(step \in {"expire"})
Runs(place) == Ind(place \in {"executing"})
Queues(place) == Ind(place \in {"queued"})

(* What a thread or a request at each step weighs in the counters.          *)
LEMMA Weights ==
  /\ \A step \in {"idle", "index", "load", "limit", "swap"} : Holds(step) = 0
  /\ \A step \in {"dequeue", "claim", "drive", "expire", "arm", "empty",
                  "execute"} : Holds(step) = 1
  /\ \A who : \A step \in {"idle", "claim", "expire", "arm", "execute"} :
       Owes(step, who) = 0
  /\ \A who : \A step \in {"dequeue", "drive", "empty"} : Owes(step, who) = 1
  /\ \A step \in {"index", "load", "limit", "swap"} :
       Owes(step, "onEnqueued") = 1
  /\ \A who : \A step \in {"index", "load", "limit", "swap"} :
       who # "onEnqueued" => Owes(step, who) = 0
  /\ \A place \in Stages \ {"executing"} : Runs(place) = 0
  /\ Runs("executing") = 1
  /\ \A place \in Stages \ {"queued"} : Queues(place) = 0
  /\ Queues("queued") = 1
<1> USE DEF Holds, Owes, Runs, Queues, Ind, Stages
<1>1. /\ \A step \in {"idle", "index", "load", "limit", "swap"} :
           Holds(step) = 0
      /\ \A step \in {"dequeue", "claim", "drive", "expire", "arm", "empty",
                      "execute"} : Holds(step) = 1
  OBVIOUS
<1>2. /\ \A who : \A step \in {"idle", "claim", "expire", "arm", "execute"} :
           Owes(step, who) = 0
      /\ \A who : \A step \in {"dequeue", "drive", "empty"} :
           Owes(step, who) = 1
  BY SMTT(30)
<1>3. /\ \A step \in {"index", "load", "limit", "swap"} :
           Owes(step, "onEnqueued") = 1
      /\ \A who : \A step \in {"index", "load", "limit", "swap"} :
           who # "onEnqueued" => Owes(step, who) = 0
  BY SMTT(30)
<1>4. /\ \A place \in Stages \ {"executing"} : Runs(place) = 0
      /\ Runs("executing") = 1
      /\ \A place \in Stages \ {"queued"} : Queues(place) = 0
      /\ Queues("queued") = 1
  OBVIOUS
<1> HIDE DEF Holds, Owes, Runs, Queues, Ind, Stages
<1> QED  BY <1>1, <1>2, <1>3, <1>4

(* The sums are numbers, and change with the place of the one thread t and *)
(* the one request r that a step moves.                                    *)
LEMMA Sums ==
  ASSUME TypeOK, TypeOK', PileIsQueued, PileIsQueued',
         NEW t \in Threads, NEW r \in Requests,
         \A u \in Threads \ {t} : pc'[u] = pc[u] /\ caller'[u] = caller[u],
         \A q \in Requests \ {r} : stage'[q] = stage[q]
  PROVE  /\ Tickets \in Nat /\ Tickets' \in Nat
         /\ Waiting \in Int /\ Waiting' \in Int
         /\ Tickets' = Tickets + (tasks' - tasks)
              + (Holds(pc'[t]) - Holds(pc[t]))
              + (Runs(stage'[r]) - Runs(stage[r]))
         /\ Waiting' = Waiting - (tasks' - tasks)
              - (Owes(pc'[t], caller'[t]) - Owes(pc[t], caller[t]))
              + (Queues(stage'[r]) - Queues(stage[r]))
<1>0. \A b : Ind(b) \in Int
  BY SMTT(30) DEF Ind
<1>1. tasks \in Nat /\ tasks' \in Nat
  BY DEF TypeOK
<1>2. /\ Cardinality(TicketHolders) \in Nat
      /\ Cardinality(TicketHolders)' \in Nat
      /\ Cardinality(TicketHolders)' = Cardinality(TicketHolders)
           + Holds(pc'[t]) - Holds(pc[t])
  BY ThreadCounts DEF TicketHolders, Holds
<1>3. /\ Cardinality(Dequeuers) \in Nat
      /\ Cardinality(Dequeuers)' \in Nat
      /\ Cardinality(Dequeuers)' = Cardinality(Dequeuers)
           + Ind(pc'[t] \in {"dequeue", "drive", "expire", "empty"})
           - Ind(pc[t] \in {"dequeue", "drive", "expire", "empty"})
  BY ThreadCounts DEF Dequeuers
<1>4. /\ Cardinality(ThreadsAt({"expire"})) \in Nat
      /\ Cardinality(ThreadsAt({"expire"}))' \in Nat
      /\ Cardinality(ThreadsAt({"expire"}))'
           = Cardinality(ThreadsAt({"expire"}))
               + Ind(pc'[t] \in {"expire"}) - Ind(pc[t] \in {"expire"})
  BY ThreadCounts
<1>5. /\ Cardinality(Enqueuers) \in Nat
      /\ Cardinality(Enqueuers)' \in Nat
      /\ Cardinality(Enqueuers)' = Cardinality(Enqueuers)
           + Ind(pc'[t] \in {"index", "load", "limit", "swap"}
                   /\ caller'[t] = "onEnqueued")
           - Ind(pc[t] \in {"index", "load", "limit", "swap"}
                   /\ caller[t] = "onEnqueued")
  BY ThreadCounts
<1>6. /\ Cardinality(RequestsAt({"executing"})) \in Nat
      /\ Cardinality(RequestsAt({"executing"}))' \in Nat
      /\ Cardinality(RequestsAt({"executing"}))'
           = Cardinality(RequestsAt({"executing"}))
               + Runs(stage'[r]) - Runs(stage[r])
  BY RequestCounts DEF Runs
<1>7. /\ Cardinality(pile) \in Nat
      /\ Cardinality(pile)' \in Nat
      /\ Cardinality(pile)' = Cardinality(pile)
           + Queues(stage'[r]) - Queues(stage[r])
  BY RequestCounts DEF Queues, PileIsQueued
<1>8. /\ Tickets \in Nat /\ Tickets' \in Nat
      /\ Waiting \in Int /\ Waiting' \in Int
  BY <1>1, <1>2, <1>3, <1>4, <1>5, <1>6, <1>7, SMTT(30) DEF Tickets, Waiting
<1>9. Tickets' = Tickets + (tasks' - tasks) + (Holds(pc'[t]) - Holds(pc[t]))
                   + (Runs(stage'[r]) - Runs(stage[r]))
  BY <1>0, <1>1, <1>2, <1>6, SMTT(30) DEF Tickets, Holds, Runs
<1>10. Waiting' = Waiting - (tasks' - tasks)
         - (Owes(pc'[t], caller'[t]) - Owes(pc[t], caller[t]))
         + (Queues(stage'[r]) - Queues(stage[r]))
  BY <1>0, <1>1, <1>3, <1>4, <1>5, <1>7, SMTT(30) DEF Waiting, Owes, Queues
<1> QED  BY <1>8, <1>9, <1>10

(* A step that moves one thread, and at most one request, changes the sums *)
(* by what the two contribute in their new places.                         *)
Shift(dTickets, dWaiting) ==
  /\ Tickets \in Nat /\ Tickets' \in Nat
  /\ Waiting \in Int /\ Waiting' \in Int
  /\ Tickets' = Tickets + dTickets
  /\ Waiting' = Waiting + dWaiting

Others(t) ==
  \A u \in Threads \ {t} : pc'[u] = pc[u] /\ caller'[u] = caller[u]
-----------------------------------------------------------------------------
(* The effect of a step on a counter and on the sum it stands for: both    *)
(* stay, both go up or both go down.  An execution ticket is given out     *)
(* only below a limit some thread has read.                                *)
Moves(c, cNext, n, nNext) ==
  \/ cNext = c /\ nNext = n
  \/ cNext = Inc(c) /\ nNext = n + 1
  \/ cNext = Dec(c) /\ nNext = n - 1

Effect ==
  /\ Tickets \in Nat /\ Tickets' \in Nat
  /\ Waiting \in Int /\ Waiting' \in Int
  /\ Moves(requestInExecution, requestInExecution', Tickets, Tickets')
  /\ Moves(pendingDequeCalls, pendingDequeCalls', Waiting, Waiting')
  /\ Tickets' = Tickets + 1 =>
       \E t \in Threads : requestInExecution < limit[t]

(* Every step moves each counter as much as the set it counts.              *)
LEMMA Effects ==
  ASSUME TypeOK, TypeOK', PileIsQueued, PileIsQueued', HandsHold,
         IndexIsEnqueue, [Next]_vars
  PROVE  Effect
<1>0. PICK some \in Requests : TRUE
  BY PoolAssumption
<1>1. ASSUME NEW t \in Threads, TrySchedule(t)
      PROVE  Effect
  <2>0. /\ Others(t)
        /\ stage' = stage /\ stage[some] \in Stages
        /\ caller'[t] = caller[t]
    BY <1>0, <1>1
    DEF TypeOK, TrySchedule, Load, ReadLimit, SwapTicket, SwapPending, GiveUp,
        SwapFails, EndIteration, Goto, Others, shared
  <2>1. ASSUME pc[t] \in {"load", "limit", "swap"},
               pc'[t] \in {"load", "limit", "swap"},
               UNCHANGED <<counters, tasks>>
        PROVE  Effect
    <3>1. tasks \in Nat
      BY DEF TypeOK
    <3>2. Owes(pc[t], caller[t]) = Owes(pc'[t], caller'[t])
      <4>1. CASE caller[t] = "onEnqueued"  BY <2>0, <2>1, <4>1, Weights
      <4>2. CASE caller[t] # "onEnqueued"  BY <2>0, <2>1, <4>2, Weights
      <4> QED  BY <4>1, <4>2
    <3>3. Owes(pc[t], caller[t]) \in Int
      BY SMTT(30) DEF Owes, Ind
    <3>4. Shift(0, 0)
      BY <1>0, <2>0, <2>1, <3>1, <3>2, <3>3, Weights, Sums, SMTT(30)
      DEF Others, Shift, Stages
    <3> QED  BY <2>1, <3>4, SMTT(30) DEF Effect, Moves, Shift, counters
  <2>2. CASE Load(t) \/ ReadLimit(t) \/ SwapFails(t)
    BY <2>1, <2>2
    DEF Load, ReadLimit, SwapFails, EndIteration, Goto, shared, counters,
        TypeOK
  <2>3. CASE SwapTicket(t)
    <3>1. /\ pc[t] = "swap" /\ pc'[t] = AfterSuccess(t)
          /\ tasks' = tasks + 1 /\ tasks \in Nat
          /\ requestInExecution \in 0..Word - 1
          /\ pendingDequeCalls \in 0..Word - 1
          /\ seen[t][1] = requestInExecution /\ seen[t][2] = pendingDequeCalls
      BY <2>3, SMTT(30) DEF SwapTicket, EndIteration, Goto, counters, TypeOK
    <3>2. /\ requestInExecution' = Inc(requestInExecution)
          /\ requestInExecution < limit[t]
          /\ pendingDequeCalls' = IF caller[t] = "onEnqueued"
               THEN pendingDequeCalls ELSE Dec(pendingDequeCalls)
      BY <2>3, <3>1, Counters DEF SwapTicket, GetsTicket, PendingSeen
    <3>3. CASE caller[t] = "onEnqueued"
      <4>1. pc'[t] = "idle"
        BY <3>1, <3>3 DEF AfterSuccess
      <4>2. Shift(1, 0)
        BY <1>0, <2>0, <3>1, <3>3, <4>1, Weights, Sums, SMTT(30)
        DEF Others, Shift, Stages
      <4> QED  BY <3>2, <3>3, <4>2, SMTT(30) DEF Effect, Moves, Shift
    <3>4. CASE caller[t] # "onEnqueued"
      <4>1. pc'[t] \in {"idle", "load"}
        BY <3>1 DEF AfterSuccess
      <4>2. Shift(1, -1)
        BY <1>0, <2>0, <3>1, <3>4, <4>1, Weights, Sums, SMTT(30)
        DEF Others, Shift, Stages
      <4> QED  BY <3>2, <3>4, <4>2 DEF Effect, Moves, Shift
    <3> QED  BY <3>3, <3>4
  <2>4. CASE SwapPending(t)
    <3>1. /\ pc[t] = "swap" /\ pc'[t] = "idle"
          /\ tasks' = tasks /\ tasks \in Nat
          /\ caller[t] = "onEnqueued"
          /\ seen[t][2] = pendingDequeCalls
          /\ requestInExecution' = requestInExecution
      BY <2>4, SMTT(30) DEF SwapPending, EndIteration, Goto, counters, TypeOK
    <3>2. pendingDequeCalls' = Inc(pendingDequeCalls)
      BY <2>4, <3>1 DEF SwapPending, PendingSeen
    <3>3. Shift(0, 1)
      BY <1>0, <2>0, <3>1, Weights, Sums, SMTT(30) DEF Others, Shift, Stages
    <3> QED  BY <3>1, <3>2, <3>3, SMTT(30) DEF Effect, Moves, Shift
  <2>5. CASE GiveUp(t)
    <3>1. /\ pc[t] = "swap" /\ pc'[t] = "idle"
          /\ tasks' = tasks /\ tasks \in Nat
          /\ caller[t] # "onEnqueued"
          /\ UNCHANGED counters
      BY <2>5 DEF GiveUp, EndIteration, Goto, shared, counters, TypeOK
    <3>2. Shift(0, 0)
      BY <1>0, <2>0, <3>1, Weights, Sums, SMTT(30) DEF Others, Shift, Stages
    <3> QED  BY <3>1, <3>2, SMTT(30) DEF Effect, Moves, Shift, counters
  <2> QED  BY <1>1, <2>2, <2>3, <2>4, <2>5 DEF TrySchedule
<1>2. ASSUME NEW t \in Threads, Task(t)
      PROVE  Effect
  <2>1. ASSUME NEW r \in Requests, DequeueTake(t, r) PROVE Effect
    <3>1. /\ pc[t] \in {"dequeue", "drive"} /\ pc'[t] \in {"claim", "execute"}
          /\ Others(t)
          /\ tasks' = tasks /\ tasks \in Nat
          /\ stage[r] = "queued" /\ stage'[r] = "dequeued"
          /\ \A q \in Requests \ {r} : stage'[q] = stage[q]
          /\ UNCHANGED counters
      BY <2>1
      DEF DequeueTake, TypeOK, PileIsQueued, RequestsAt, Goto, Others,
          counters, shared
    <3>2. /\ Holds(pc[t]) = 1 /\ Holds(pc'[t]) = 1
          /\ Owes(pc[t], caller[t]) = 1
          /\ Owes(pc'[t], caller'[t]) = 0
          /\ Runs(stage[r]) = 0 /\ Runs(stage'[r]) = 0
          /\ Queues(stage[r]) = 1 /\ Queues(stage'[r]) = 0
      BY <3>1, Weights DEF Stages
    <3>3. Shift(0, 0)
      BY <3>1, <3>2, Sums, SMTT(30) DEF Others, Shift
    <3> QED  BY <3>1, <3>3, SMTT(30) DEF Effect, Moves, Shift, counters
  <2>2. CASE DequeueKeep(t)
    <3>1. /\ pc[t] = "claim" /\ pc'[t] = "arm"
          /\ Others(t)
          /\ tasks' = tasks /\ tasks \in Nat
          /\ stage' = stage /\ stage[some] \in Stages
          /\ UNCHANGED counters
      BY <1>0, <2>2 DEF DequeueKeep, TypeOK, Goto, Others, counters, shared
    <3>2. Shift(0, 0)
      BY <1>0, <3>1, Weights, Sums, SMTT(30) DEF Others, Shift, Stages
    <3> QED  BY <3>1, <3>2, SMTT(30) DEF Effect, Moves, Shift, counters
  <2>3. CASE DequeueDiscard(t)
    <3>1. /\ pc[t] = "claim" /\ pc'[t] = "expire"
          /\ hand[t] \in Requests
          /\ Others(t)
          /\ tasks' = tasks /\ tasks \in Nat
          /\ stage[hand[t]] = "dequeued" /\ stage'[hand[t]] = "expired"
          /\ \A q \in Requests \ {hand[t]} : stage'[q] = stage[q]
          /\ UNCHANGED counters
      BY <2>3
      DEF DequeueDiscard, TypeOK, HandsHold, ThreadsAt, Goto, Others,
          counters, shared
    <3>2. /\ Holds(pc[t]) = 1 /\ Holds(pc'[t]) = 1
          /\ Owes(pc[t], caller[t]) = 0
          /\ Owes(pc'[t], caller'[t]) = 0
          /\ Runs(stage[hand[t]]) = 0 /\ Runs(stage'[hand[t]]) = 0
          /\ Queues(stage[hand[t]]) = 0 /\ Queues(stage'[hand[t]]) = 0
      BY <3>1, Weights DEF Stages
    <3>3. Shift(0, 0)
      BY <3>1, <3>2, Sums, SMTT(30) DEF Others, Shift
    <3> QED  BY <3>1, <3>3, SMTT(30) DEF Effect, Moves, Shift, counters
  <2>4. CASE ProcessExpiredRequest(t)
    <3>1. /\ pc[t] = "expire" /\ pc'[t] = "drive"
          /\ Others(t)
          /\ tasks' = tasks /\ tasks \in Nat
          /\ stage' = stage /\ stage[some] \in Stages
          /\ requestInExecution' = requestInExecution
          /\ pendingDequeCalls' = Dec(pendingDequeCalls)
      BY <1>0, <2>4
      DEF ProcessExpiredRequest, TypeOK, Goto, Others, counters, shared
    <3>2. Shift(0, -1)
      BY <1>0, <3>1, Weights, Sums, SMTT(30) DEF Others, Shift, Stages
    <3> QED  BY <3>1, <3>2, SMTT(30) DEF Effect, Moves, Shift, counters
  <2>5. CASE Rearm(t)
    <3>1. /\ pc[t] = "arm" /\ pc'[t] = "execute"
          /\ Others(t)
          /\ tasks' = tasks /\ tasks \in Nat
          /\ stage' = stage /\ stage[some] \in Stages
          /\ UNCHANGED counters
      BY <1>0, <2>5 DEF Rearm, TypeOK, Goto, Others, counters, shared
    <3>2. Shift(0, 0)
      BY <1>0, <3>1, Weights, Sums, SMTT(30) DEF Others, Shift, Stages
    <3> QED  BY <3>1, <3>2, SMTT(30) DEF Effect, Moves, Shift, counters
  <2>6. CASE DequeueEmpty(t)
    <3>1. /\ pc[t] \in {"dequeue", "drive"} /\ pc'[t] = "empty"
          /\ Others(t)
          /\ tasks' = tasks /\ tasks \in Nat
          /\ stage' = stage /\ stage[some] \in Stages
          /\ UNCHANGED counters
      BY <1>0, <2>6 DEF DequeueEmpty, TypeOK, Goto, Others, counters, shared
    <3>2. Shift(0, 0)
      BY <1>0, <3>1, Weights, Sums, SMTT(30) DEF Others, Shift, Stages
    <3> QED  BY <3>1, <3>2, SMTT(30) DEF Effect, Moves, Shift, counters
  <2>7. CASE ExecuteEmpty(t)
    <3>1. /\ pc[t] = "empty" /\ pc'[t] = "load"
          /\ caller'[t] = "onExecuteFinish"
          /\ Others(t)
          /\ tasks' = tasks /\ tasks \in Nat
          /\ stage' = stage /\ stage[some] \in Stages
          /\ requestInExecution' = Dec(requestInExecution)
          /\ pendingDequeCalls' = Inc(pendingDequeCalls)
      BY <1>0, <2>7
      DEF ExecuteEmpty, CallTrySchedule, TypeOK, Goto, Others, counters,
          shared
    <3>2. Shift(-1, 1)
      BY <1>0, <3>1, Weights, Sums, SMTT(30) DEF Others, Shift, Stages
    <3> QED  BY <3>1, <3>2, SMTT(30) DEF Effect, Moves, Shift, counters
  <2>8. CASE ExecuteRequest(t)
    <3>1. /\ pc[t] = "execute" /\ pc'[t] = "idle"
          /\ hand[t] \in Requests
          /\ Others(t)
          /\ tasks' = tasks /\ tasks \in Nat
          /\ stage[hand[t]] = "dequeued" /\ stage'[hand[t]] = "executing"
          /\ \A q \in Requests \ {hand[t]} : stage'[q] = stage[q]
          /\ UNCHANGED counters
      BY <2>8
      DEF ExecuteRequest, TypeOK, HandsHold, ThreadsAt, Goto, Others,
          counters, shared
    <3>2. /\ Holds(pc[t]) = 1 /\ Holds(pc'[t]) = 0
          /\ Owes(pc[t], caller[t]) = 0
          /\ Owes(pc'[t], caller'[t]) = 0
          /\ Runs(stage[hand[t]]) = 0 /\ Runs(stage'[hand[t]]) = 1
          /\ Queues(stage[hand[t]]) = 0 /\ Queues(stage'[hand[t]]) = 0
      BY <3>1, Weights DEF Stages
    <3>3. Shift(0, 0)
      BY <3>1, <3>2, Sums, SMTT(30) DEF Others, Shift
    <3> QED  BY <3>1, <3>3, SMTT(30) DEF Effect, Moves, Shift, counters
  <2>9. CASE ExecuteExpired(t)
    <3>1. /\ pc[t] = "execute" /\ pc'[t] = "load"
          /\ caller'[t] = "onExecuteFinish"
          /\ hand[t] \in Requests
          /\ Others(t)
          /\ tasks' = tasks /\ tasks \in Nat
          /\ stage[hand[t]] = "dequeued" /\ stage'[hand[t]] = "expired"
          /\ \A q \in Requests \ {hand[t]} : stage'[q] = stage[q]
          /\ requestInExecution' = Dec(requestInExecution)
          /\ pendingDequeCalls' = pendingDequeCalls
      BY <2>9
      DEF ExecuteExpired, CallTrySchedule, TypeOK, HandsHold, ThreadsAt,
          Goto, Others, counters, shared
    <3>2. /\ Holds(pc[t]) = 1 /\ Holds(pc'[t]) = 0
          /\ Owes(pc[t], caller[t]) = 0
          /\ Owes(pc'[t], caller'[t]) = 0
          /\ Runs(stage[hand[t]]) = 0 /\ Runs(stage'[hand[t]]) = 0
          /\ Queues(stage[hand[t]]) = 0 /\ Queues(stage'[hand[t]]) = 0
      BY <3>1, Weights DEF Stages
    <3>3. Shift(-1, 0)
      BY <3>1, <3>2, Sums, SMTT(30) DEF Others, Shift
    <3> QED  BY <3>1, <3>3, SMTT(30) DEF Effect, Moves, Shift, counters
  <2> QED  BY <1>2, <2>1, <2>2, <2>3, <2>4, <2>5, <2>6, <2>7, <2>8, <2>9
           DEF Task
<1>3. ASSUME NEW t \in Threads, RunTask(t) PROVE Effect
  <2>1. /\ pc[t] = "idle" /\ pc'[t] = "dequeue"
        /\ Others(t)
        /\ tasks \in Nat /\ tasks' = tasks - 1
        /\ stage' = stage /\ stage[some] \in Stages
        /\ UNCHANGED counters
    BY <1>0, <1>3 DEF RunTask, TypeOK, Goto, Others, counters, shared
  <2>2. Shift(0, 0)
    BY <1>0, <2>1, Weights, Sums, SMTT(30) DEF Others, Shift, Stages
  <2> QED  BY <2>1, <2>2, SMTT(30) DEF Effect, Moves, Shift, counters
<1>4. ASSUME NEW t \in Threads, NEW r \in Requests, AcceptAsync(t, r)
      PROVE  Effect
  <2>1. /\ pc[t] = "idle" /\ pc'[t] \in {"index", "load"}
        /\ caller'[t] = "onEnqueued"
        /\ Others(t)
        /\ tasks' = tasks /\ tasks \in Nat
        /\ stage[r] = "new" /\ stage'[r] = "queued"
        /\ \A q \in Requests \ {r} : stage'[q] = stage[q]
        /\ UNCHANGED counters
    BY <1>4
    DEF AcceptAsync, CallTrySchedule, TypeOK, Goto, Others, counters, shared
  <2>2. /\ Holds(pc[t]) = 0 /\ Holds(pc'[t]) = 0
        /\ Owes(pc[t], caller[t]) = 0
        /\ Owes(pc'[t], caller'[t]) = 1
        /\ Runs(stage[r]) = 0 /\ Runs(stage'[r]) = 0
        /\ Queues(stage[r]) = 0 /\ Queues(stage'[r]) = 1
    BY <2>1, Weights DEF Stages
  <2>3. Shift(0, 0)
    BY <2>1, <2>2, Sums, SMTT(30) DEF Others, Shift
  <2> QED  BY <2>1, <2>3, SMTT(30) DEF Effect, Moves, Shift, counters
<1>5. ASSUME NEW t \in Threads, NEW r \in Requests, RejectAsync(t, r)
      PROVE  Effect
  <2>1. /\ pc[t] = "idle" /\ pc'[t] = "idle"
        /\ Others(t)
        /\ tasks' = tasks /\ tasks \in Nat
        /\ stage[r] = "new" /\ stage'[r] = "rejected"
        /\ \A q \in Requests \ {r} : stage'[q] = stage[q]
        /\ UNCHANGED counters
    BY <1>5 DEF RejectAsync, local, TypeOK, Goto, Others, counters, shared
  <2>2. /\ Holds(pc[t]) = 0 /\ Holds(pc'[t]) = 0
        /\ Owes(pc[t], caller[t]) = 0
        /\ Owes(pc'[t], caller'[t]) = 0
        /\ Runs(stage[r]) = 0 /\ Runs(stage'[r]) = 0
        /\ Queues(stage[r]) = 0 /\ Queues(stage'[r]) = 0
    BY <2>1, Weights DEF Stages
  <2>3. Shift(0, 0)
    BY <2>1, <2>2, Sums, SMTT(30) DEF Others, Shift
  <2> QED  BY <2>1, <2>3, SMTT(30) DEF Effect, Moves, Shift, counters
<1>6. ASSUME NEW t \in Threads, NEW r \in Requests, OnRequestFinished(t, r)
      PROVE  Effect
  <2>1. /\ pc[t] = "idle" /\ pc'[t] = "load"
        /\ caller'[t] = "onExecuteFinish"
        /\ Others(t)
        /\ tasks' = tasks /\ tasks \in Nat
        /\ stage[r] = "executing" /\ stage'[r] = "done"
        /\ \A q \in Requests \ {r} : stage'[q] = stage[q]
        /\ requestInExecution' = Dec(requestInExecution)
        /\ pendingDequeCalls' = pendingDequeCalls
    BY <1>6
    DEF OnRequestFinished, CallTrySchedule, TypeOK, Goto, Others, counters,
        shared
  <2>2. /\ Holds(pc[t]) = 0 /\ Holds(pc'[t]) = 0
        /\ Owes(pc[t], caller[t]) = 0
        /\ Owes(pc'[t], caller'[t]) = 0
        /\ Runs(stage[r]) = 1 /\ Runs(stage'[r]) = 0
        /\ Queues(stage[r]) = 0 /\ Queues(stage'[r]) = 0
    BY <2>1, Weights DEF Stages
  <2>3. Shift(-1, 0)
    BY <2>1, <2>2, Sums, SMTT(30) DEF Others, Shift
  <2> QED  BY <2>1, <2>3, SMTT(30) DEF Effect, Moves, Shift, counters
<1>7. ASSUME NEW t \in Threads, NEW l \in NewLimits,
             SetExecutionLimitRequests(t, l)
      PROVE  Effect
  <2>1. /\ pc[t] = "idle" /\ pc'[t] = "load"
        /\ caller'[t] = "setExecutionLimit"
        /\ Others(t)
        /\ tasks' = tasks /\ tasks \in Nat
        /\ stage' = stage /\ stage[some] \in Stages
        /\ UNCHANGED counters
    BY <1>0, <1>7
    DEF SetExecutionLimitRequests, CallTrySchedule, TypeOK, Goto, Others,
        counters, shared
  <2>2. Shift(0, 0)
    BY <1>0, <2>1, Weights, Sums, SMTT(30) DEF Others, Shift, Stages
  <2> QED  BY <2>1, <2>2, SMTT(30) DEF Effect, Moves, Shift, counters
<1>8. ASSUME NEW t \in Threads, PublishIndex(t) PROVE Effect
  <2>1. /\ pc[t] = "index" /\ pc'[t] = "load"
        /\ caller[t] = "onEnqueued" /\ caller'[t] = "onEnqueued"
        /\ Others(t)
        /\ tasks' = tasks /\ tasks \in Nat
        /\ stage' = stage /\ stage[some] \in Stages
        /\ UNCHANGED counters
    BY <1>0, <1>8
    DEF PublishIndex, CallTrySchedule, IndexIsEnqueue, ThreadsAt, TypeOK,
        Goto, Others, counters, shared
  <2>2. Shift(0, 0)
    BY <1>0, <2>1, Weights, Sums, SMTT(30) DEF Others, Shift, Stages
  <2> QED  BY <2>1, <2>2, SMTT(30) DEF Effect, Moves, Shift, counters
<1>9. CASE UNCHANGED <<counters, tasks, pile, stage, pc, caller>>
  <2>1. PICK t \in Threads : TRUE
    BY PoolAssumption
  <2>2. /\ Tickets \in Nat /\ Tickets' \in Nat
        /\ Waiting \in Int /\ Waiting' \in Int
    BY <1>0, <1>9, <2>1, Sums
  <2>3. Tickets' = Tickets /\ Waiting' = Waiting
    BY <1>9 DEF Tickets, Waiting, TicketHolders, Dequeuers, Enqueuers,
                ThreadsAt, RequestsAt
  <2> QED  BY <1>9, <2>2, <2>3, SMTT(30) DEF counters, Effect, Moves
<1> QED  BY <1>1, <1>2, <1>3, <1>4, <1>5, <1>6, <1>7, <1>8, <1>9
         DEF Next, LimitVisible, Expire, Idle, vars, shared, local, counters

(* No ticket is out at first.                                               *)
LEMMA TicketInit ==
  ASSUME Init
  PROVE  ExecutionTickets /\ DequeueTickets /\ ExactTickets
<1>1. /\ TicketHolders = {} /\ Dequeuers = {} /\ Enqueuers = {} /\ pile = {}
      /\ ThreadsAt({"expire"}) = {} /\ RequestsAt({"executing"}) = {}
  BY DEF Init, TicketHolders, Dequeuers, Enqueuers, ThreadsAt, RequestsAt
<1>2. Word \in Nat \ {0} /\ 0 % Word = 0
  BY PoolAssumption, FS_CardinalityType, SMTT(30)
<1>3. Tickets = 0 /\ Waiting = 0
  BY <1>1, FS_EmptySet, SMTT(30) DEF Init, Tickets, Waiting
<1> QED  BY <1>2, <1>3, PoolAssumption, SMTT(30)
         DEF Init, ExecutionTickets, DequeueTickets, ExactTickets

(* Equality modulo the word survives such a move.                           *)
LEMMA MovesMod ==
  ASSUME NEW c \in 0..Word - 1, NEW cNext \in 0..Word - 1,
         NEW n \in Int, NEW nNext \in Int,
         Moves(c, cNext, n, nNext), (c - n) % Word = 0
  PROVE  (cNext - nNext) % Word = 0
<1>1. Word \in Nat
  BY PoolAssumption
<1>2. \/ cNext - nNext = c - n
      \/ cNext - nNext = c - n + Word
      \/ cNext - nNext = c - n - Word
  BY <1>1, Counters, SMTT(30) DEF Moves
<1>3. c - n \in Int /\ cNext - nNext \in Int
  BY <1>1, SMTT(30)
<1> QED  BY <1>2, <1>3, ShiftMod

(* Every step conserves the tickets.                                        *)
LEMMA TicketStep ==
  ASSUME TypeOK, TypeOK', LimitsBounded, maxLimit' >= maxLimit, Effect,
         ExecutionTickets, DequeueTickets, ExactTickets
  PROVE  ExecutionTickets' /\ DequeueTickets' /\ ExactTickets'
<1>1. /\ requestInExecution \in 0..Word - 1
      /\ requestInExecution' \in 0..Word - 1
      /\ pendingDequeCalls \in 0..Word - 1
      /\ pendingDequeCalls' \in 0..Word - 1
      /\ maxLimit \in Nat /\ maxLimit' \in Nat
      /\ Word \in Nat
      /\ Tickets \in Nat /\ Tickets' \in Nat
      /\ Waiting \in Int /\ Waiting' \in Int
  BY PoolAssumption DEF TypeOK, Effect
<1>3. ExecutionTickets'
  <2>1. Moves(requestInExecution, requestInExecution', Tickets, Tickets')
    BY DEF Effect
  <2>2. (requestInExecution - Tickets) % Word = 0
    BY DEF ExecutionTickets
  <2>3. Tickets \in Int /\ Tickets' \in Int
    BY <1>1, SMTT(30)
  <2>4. (requestInExecution' - Tickets') % Word = 0
    BY <1>1, <2>1, <2>2, <2>3, MovesMod
  <2> QED  BY <2>4 DEF ExecutionTickets
<1>4. DequeueTickets'
  BY <1>1, MovesMod DEF Effect, DequeueTickets
<1>5. ExactTickets'
  <2> SUFFICES ASSUME maxLimit' < Word
               PROVE  requestInExecution' = Tickets'
                        /\ requestInExecution' <= maxLimit'
    BY DEF ExactTickets
  <2>1. maxLimit < Word /\ requestInExecution = Tickets
          /\ requestInExecution <= maxLimit
    BY <1>1, SMTT(30) DEF ExactTickets
  <2>2. CASE /\ requestInExecution' = requestInExecution
             /\ Tickets' = Tickets
    BY <1>1, <2>1, <2>2, SMTT(30)
  <2>3. CASE /\ requestInExecution' = Inc(requestInExecution)
             /\ Tickets' = Tickets + 1
    <3>1. PICK t \in Threads : requestInExecution < limit[t]
      BY <2>3 DEF Effect
    <3>2. limit[t] \in Nat /\ limit[t] <= maxLimit
      BY DEF TypeOK, LimitsBounded
    <3>3. requestInExecution' = requestInExecution + 1
      BY <1>1, <2>1, <2>3, <3>1, <3>2, Counters, SMTT(30)
    <3> QED  BY <1>1, <2>1, <2>3, <3>1, <3>2, <3>3, SMTT(30)
  <2>4. CASE /\ requestInExecution' = Dec(requestInExecution)
             /\ Tickets' = Tickets - 1
    <3>1. requestInExecution' = requestInExecution - 1
      BY <1>1, <2>1, <2>4, Counters, SMTT(30)
    <3> QED  BY <1>1, <2>1, <2>4, <3>1, SMTT(30)
  <2> QED  BY <2>2, <2>3, <2>4 DEF Effect, Moves
<1> QED  BY <1>3, <1>4, <1>5

-----------------------------------------------------------------------------
(* The theorems                                                            *)

(* The inductive invariant: types, the request in each thread's hands, the *)
(* limits that trySchedule may have read, and both counters as sums of the *)
(* tickets that tasks, threads and requests hold.                          *)
THEOREM Invariance == Spec => []IInv
<1>1. Init => IInv
  BY TypeInit, HandInit, LimitInit, TicketInit DEF IInv
<1>2. IInv /\ [Next]_vars => IInv'
  BY TypeStep, HandStep, IndexStep, LimitStep, Effects, TicketStep DEF IInv
<1> QED  BY <1>1, <1>2, PTL DEF Spec

(* Every successful trySchedule is matched by exactly one onExecuteFinish: *)
(* requestInExecution is the number of tickets in circulation, modulo      *)
(* 2^32, for any number of threads, requests and changes of the limit.     *)
THEOREM ExecutionTicketsConserved == Spec => []ExecutionTickets
<1>1. IInv => ExecutionTickets
  BY DEF IInv
<1> QED  BY <1>1, Invariance, PTL

(* pendingDequeCalls is the number of counted requests that no dequeue is  *)
(* on its way to, modulo 2^32, also when expired requests are discarded by *)
(* the pile and given back through processExpiredRequest.                  *)
THEOREM DequeueTicketsConserved == Spec => []DequeueTickets
<1>1. IInv => DequeueTickets
  BY DEF IInv
<1> QED  BY <1>1, Invariance, PTL

(* However trySchedule and setExecutionLimitRequests interleave, and       *)
(* however late a new limit becomes visible, the requests executing at a   *)
(* time never exceed the highest limit that was set.                       *)
THEOREM LimitRespected == Spec => []ExecutionLimitRespected
<1>1. IInv => ExecutionLimitRespected
  <2> SUFFICES ASSUME IInv PROVE ExecutionLimitRespected
    OBVIOUS
  <2>1. RequestsAt({"executing"}) \subseteq Requests
          /\ TicketHolders \subseteq Threads
    BY DEF RequestsAt, TicketHolders, ThreadsAt
  <2>2. /\ Cardinality(RequestsAt({"executing"})) \in Nat
        /\ Cardinality(RequestsAt({"executing"})) <= Cardinality(Requests)
        /\ Cardinality(TicketHolders) \in Nat
        /\ Cardinality(Requests) \in Nat
        /\ Cardinality(Threads) \in Nat
    BY <2>1, PoolAssumption, FS_Subset, FS_CardinalityType
  <2>3. CASE maxLimit < Word
    BY <2>2, <2>3, SMTT(30)
    DEF IInv, TypeOK, ExactTickets, Tickets, ExecutionLimitRespected
  <2>4. CASE maxLimit >= Word
    BY <2>2, <2>4, PoolAssumption, SMTT(30)
    DEF IInv, TypeOK, ExecutionLimitRespected
  <2> QED  BY <2>3, <2>4, PoolAssumption, SMTT(30) DEF IInv, TypeOK
<1> QED  BY <1>1, Invariance, PTL

-----------------------------------------------------------------------------
(* No request is stranded while the limit stays what it was                *)

(* The threads in trySchedule for an enqueue: each counts its request, or  *)
(* schedules a task.                                                       *)
Counting ==
  {t \in Threads : /\ pc[t] \in {"load", "limit", "swap"}
                   /\ caller[t] = "onEnqueued"}

(* The threads in trySchedule for a request that has finished, unless they *)
(* have seen that there is nothing to schedule: each schedules a task, or  *)
(* finds the counters changed and tries again.                             *)
Finishing ==
  {t \in Threads : /\ caller[t] # "onEnqueued"
                   /\ \/ pc[t] = "load"
                      \/ /\ pc[t] \in {"limit", "swap"}
                         /\ seen[t][2] # 0 /\ seen[t][1] < InitialLimit}

OneLimit ==
  /\ executionLimit = InitialLimit /\ maxLimit = InitialLimit
  /\ \A t \in Threads :
       /\ stored[t] = NoLimit
       /\ caller[t] # "setExecutionLimit"
       /\ pc[t] = "swap" => limit[t] = InitialLimit

(* Either there is a finishing thread for every request that waits, or     *)
(* there is a thread for every ticket that is still to be had.             *)
Served ==
  \/ Waiting <= Cardinality(Finishing)
  \/ /\ InitialLimit < Word
     /\ InitialLimit - requestInExecution
          <= Cardinality(Counting) + Cardinality(Finishing)

-----------------------------------------------------------------------------
(* The word has room for three values, and a multiple of it below it is    *)
(* not positive.                                                           *)
LEMMA WordFacts ==
  /\ Word \in Nat /\ Word >= 3
  /\ \A x \in 0..Word - 1 : Inc(x) # x /\ Dec(x) # x /\ Inc(x) # Dec(x)
  /\ \A w \in Int : (0 - w) % Word = 0 /\ w < Word => w <= 0
<1>1. /\ Cardinality(Requests) \in Nat /\ Cardinality(Threads) \in Nat
      /\ Cardinality(Requests) # 0 /\ Cardinality(Threads) # 0
  BY PoolAssumption, FS_CardinalityType, FS_EmptySet
<1>2. Word \in Nat /\ Word >= 3
  BY <1>1, PoolAssumption, SMTT(30)
<1>3. \A x \in 0..Word - 1 : Inc(x) # x /\ Dec(x) # x /\ Inc(x) # Dec(x)
  BY <1>2, SMTT(30) DEF Inc, Dec
<1>4. ASSUME NEW w \in Int, (0 - w) % Word = 0, w < Word  PROVE w <= 0
  <2> DEFINE q == (0 - w) \div Word
  <2>1. q \in Int /\ 0 - w = Word * q
    BY <1>2, <1>4, SMTT(30)
  <2> HIDE DEF q
  <2>2. CASE q >= 0
    <3>1. Word * q >= 0
      BY <1>2, <2>1, <2>2, SMTT(30)
    <3> QED  BY <2>1, <3>1, SMTT(30)
  <2>3. CASE q < 0
    <3>1. Word * q <= 0 - Word
      BY <1>2, <2>1, <2>3, SMTT(30)
    <3> QED  BY <1>2, <1>4, <2>1, <3>1, SMTT(30)
  <2> QED  BY <2>1, <2>2, <2>3, SMTT(30)
<1> QED  BY <1>2, <1>3, <1>4

(* The number of requests that wait moves with the counter.                *)
LEMMA WaitingMoves ==
  ASSUME TypeOK, Effect
  PROVE  /\ Waiting \in Int /\ Waiting' \in Int
         /\ pendingDequeCalls' = pendingDequeCalls => Waiting' = Waiting
         /\ pendingDequeCalls' = Inc(pendingDequeCalls)
              => Waiting' = Waiting + 1
         /\ pendingDequeCalls' = Dec(pendingDequeCalls)
              => Waiting' = Waiting - 1
<1>1. pendingDequeCalls \in 0..Word - 1
  BY DEF TypeOK
<1> QED  BY <1>1, WordFacts DEF Effect, Moves

(* If the limit fits the counter, requestInExecution never wraps.          *)
LEMMA ExecutionMoves ==
  ASSUME IInv, IInv', Effect, maxLimit < Word, maxLimit' = maxLimit
  PROVE  /\ requestInExecution' = Inc(requestInExecution)
              => requestInExecution' = requestInExecution + 1
         /\ requestInExecution' = Dec(requestInExecution)
              => requestInExecution' = requestInExecution - 1
<1>1. requestInExecution \in 0..Word - 1
  BY DEF IInv, TypeOK
<1>2. requestInExecution = Tickets /\ requestInExecution' = Tickets'
  BY DEF IInv, ExactTickets
<1> QED  BY <1>1, <1>2, WordFacts DEF Effect, Moves

(* Fewer requests wait than the word can count, after a step too.          *)
LEMMA WaitingBounded ==
  ASSUME TypeOK'
  PROVE  Waiting' \in Int /\ Waiting' < Word
<1>1. /\ pile' \subseteq Requests /\ ThreadsAt({"expire"})' \subseteq Threads
      /\ Enqueuers' \subseteq Threads /\ Dequeuers' \subseteq Threads
  BY DEF TypeOK, ThreadsAt, Enqueuers, Dequeuers
<1>2. /\ Cardinality(pile') \in Nat
      /\ Cardinality(pile') <= Cardinality(Requests)
      /\ Cardinality(ThreadsAt({"expire"})') \in Nat
      /\ Cardinality(ThreadsAt({"expire"})') <= Cardinality(Threads)
      /\ Cardinality(Enqueuers') \in Nat /\ Cardinality(Dequeuers') \in Nat
      /\ Cardinality(Requests) \in Nat /\ Cardinality(Threads) \in Nat
  BY <1>1, PoolAssumption, FS_Subset, FS_CardinalityType
<1>3. tasks' \in Nat /\ Word \in Nat
        /\ Word > Cardinality(Requests) + Cardinality(Threads)
  BY PoolAssumption DEF TypeOK
<1> QED  BY <1>2, <1>3, SMTT(30) DEF Waiting

(* What the step of a thread does to the number of those that try.         *)
LEMMA TryCounts ==
  ASSUME NEW t \in Threads, Others(t),
         \A u \in Threads \ {t} : seen'[u] = seen[u]
  PROVE  /\ Cardinality(Counting) \in Nat /\ Cardinality(Counting') \in Nat
         /\ Cardinality(Finishing) \in Nat /\ Cardinality(Finishing') \in Nat
         /\ Cardinality(Counting') = Cardinality(Counting)
              + Ind(t \in Counting') - Ind(t \in Counting)
         /\ Cardinality(Finishing') = Cardinality(Finishing)
              + Ind(t \in Finishing') - Ind(t \in Finishing)
<1>1. IsFiniteSet(Threads)
  BY PoolAssumption
<1>2. /\ Counting \in SUBSET Threads /\ Counting' \in SUBSET Threads
      /\ Counting \ {t} = Counting' \ {t}
  BY DEF Counting, Others
<1>3. /\ Finishing \in SUBSET Threads /\ Finishing' \in SUBSET Threads
      /\ Finishing \ {t} = Finishing' \ {t}
  BY DEF Finishing, Others
<1> QED  BY <1>1, <1>2, <1>3, CountMove, SMTT(30)

(* What a step may do to the requests that wait, the tickets that are left *)
(* and the threads that try.                                               *)
Keeps(dWaiting, dExecution, dCounting, dFinishing) ==
  /\ Waiting' <= Waiting + dWaiting
  /\ InitialLimit < Word
       => requestInExecution' = requestInExecution + dExecution
  /\ Cardinality(Counting') = Cardinality(Counting) + dCounting
  /\ Cardinality(Finishing') = Cardinality(Finishing) + dFinishing

(* A thread that stops trying takes a request, or a ticket, with it.       *)
LEMMA ServedMove ==
  ASSUME TypeOK, TypeOK', Served, Waiting \in Int, Waiting' \in Int,
         Cardinality(Counting) \in Nat, Cardinality(Counting') \in Nat,
         Cardinality(Finishing) \in Nat, Cardinality(Finishing') \in Nat,
         \/ Keeps(0, 0, 0, 0)
         \/ Keeps(0, 0, 1, 0)
         \/ Keeps(0, 1, -1, 0)
         \/ Keeps(-1, 1, 0, -1)
         \/ Keeps(1, -1, 0, 1)
  PROVE  Served'
<1>1. /\ requestInExecution \in Int /\ requestInExecution' \in Int
      /\ InitialLimit \in Nat /\ Word \in Nat
  BY PoolAssumption, SMTT(30) DEF TypeOK
<1>2. CASE Waiting <= Cardinality(Finishing)
  <2>1. Waiting' <= Cardinality(Finishing')
    BY <1>2, SMTT(30) DEF Keeps
  <2> QED  BY <2>1 DEF Served
<1>3. CASE /\ InitialLimit < Word
           /\ InitialLimit - requestInExecution
                <= Cardinality(Counting) + Cardinality(Finishing)
  <2>1. InitialLimit - requestInExecution'
          <= Cardinality(Counting') + Cardinality(Finishing')
    BY <1>1, <1>3, SMTT(30) DEF Keeps
  <2> QED  BY <1>3, <2>1 DEF Served
<1> QED  BY <1>2, <1>3 DEF Served

(* Nobody need try when nothing waits or no ticket is left.                *)
LEMMA ServedRest ==
  ASSUME IInv', Cardinality(Counting') \in Nat,
         Cardinality(Finishing') \in Nat,
         pendingDequeCalls' = 0 \/ requestInExecution' >= InitialLimit
  PROVE  Served'
<1>1. /\ requestInExecution' \in 0..Word - 1 /\ TypeOK'
      /\ InitialLimit \in Nat /\ Word \in Nat
  BY PoolAssumption DEF IInv, TypeOK
<1>2. CASE pendingDequeCalls' = 0
  <2>1. (0 - Waiting') % Word = 0
    BY <1>2 DEF IInv, DequeueTickets
  <2>2. Waiting' \in Int /\ Waiting' <= 0
    BY <1>1, <2>1, WordFacts, WaitingBounded
  <2>3. Waiting' <= Cardinality(Finishing')
    BY <2>2, SMTT(30)
  <2> QED  BY <2>3 DEF Served
<1>3. CASE requestInExecution' >= InitialLimit
  <2>1. InitialLimit < Word
    BY <1>1, <1>3, SMTT(30)
  <2>2. InitialLimit - requestInExecution'
          <= Cardinality(Counting') + Cardinality(Finishing')
    BY <1>1, <1>3, SMTT(30)
  <2> QED  BY <2>1, <2>2 DEF Served
<1> QED  BY <1>2, <1>3

(* The steps of trySchedule.                                               *)
LEMMA ServedTry ==
  ASSUME IInv, IInv', Effect, OneLimit, OneLimit', Served,
         NEW t \in Threads, TrySchedule(t)
  PROVE  Served'
<1>0. /\ TypeOK /\ TypeOK'
      /\ Waiting \in Int /\ Waiting' \in Int
      /\ pendingDequeCalls \in 0..Word - 1 /\ InitialLimit \in Nat
  BY PoolAssumption DEF IInv, TypeOK, Effect
<1>1. /\ Others(t) /\ \A u \in Threads \ {t} : seen'[u] = seen[u]
      /\ pc[t] \in {"load", "limit", "swap"} /\ caller'[t] = caller[t]
      /\ caller[t] # "setExecutionLimit"
  BY <1>0
  DEF TrySchedule, Load, ReadLimit, SwapTicket, SwapPending, GiveUp,
      SwapFails, EndIteration, Goto, Others, TypeOK, OneLimit
<1>2. /\ Cardinality(Counting) \in Nat /\ Cardinality(Counting') \in Nat
      /\ Cardinality(Finishing) \in Nat /\ Cardinality(Finishing') \in Nat
      /\ Cardinality(Counting') = Cardinality(Counting)
           + Ind(t \in Counting') - Ind(t \in Counting)
      /\ Cardinality(Finishing') = Cardinality(Finishing)
           + Ind(t \in Finishing') - Ind(t \in Finishing)
  BY <1>1, TryCounts
<1>3. ASSUME UNCHANGED counters,
             t \in Counting' <=> t \in Counting,
             t \in Finishing' <=> t \in Finishing
      PROVE  Served'
  <2>1. Waiting' = Waiting /\ requestInExecution' = requestInExecution
    BY <1>0, <1>3, WaitingMoves DEF counters
  <2>2. /\ Cardinality(Counting') = Cardinality(Counting)
        /\ Cardinality(Finishing') = Cardinality(Finishing)
    BY <1>2, <1>3, SMTT(30) DEF Ind
  <2>3. requestInExecution \in Int
    BY <1>0, SMTT(30) DEF TypeOK
  <2>4. Keeps(0, 0, 0, 0)
    BY <1>0, <1>2, <2>1, <2>2, <2>3, SMTT(30) DEF Keeps
  <2> QED  BY <1>0, <1>2, <2>4, ServedMove
<1>4. CASE Load(t)
  <2>1. /\ pc[t] = "load" /\ pc'[t] = "limit" /\ UNCHANGED counters
        /\ seen'[t] = <<requestInExecution, pendingDequeCalls>>
    BY <1>0, <1>4 DEF Load, Goto, TypeOK, shared, counters
  <2>2. t \in Counting' <=> t \in Counting
    BY <1>1, <2>1 DEF Counting
  <2>3. CASE caller[t] = "onEnqueued"
    BY <1>1, <1>3, <2>1, <2>2, <2>3 DEF Finishing
  <2>4. CASE /\ caller[t] # "onEnqueued"
             /\ pendingDequeCalls # 0 /\ requestInExecution < InitialLimit
    <3>1. t \in Finishing /\ t \in Finishing'
      BY <1>1, <2>1, <2>4, SMTT(30) DEF Finishing
    <3> QED  BY <1>3, <2>1, <2>2, <3>1
  <2>5. CASE pendingDequeCalls = 0 \/ ~(requestInExecution < InitialLimit)
    <3>1. \/ pendingDequeCalls' = 0
          \/ requestInExecution' >= InitialLimit
      BY <1>0, <2>1, <2>5, SMTT(30) DEF TypeOK, counters
    <3> QED  BY <1>2, <3>1, ServedRest
  <2> QED  BY <2>3, <2>4, <2>5
<1>5. CASE ReadLimit(t)
  <2>1. /\ pc[t] = "limit" /\ pc'[t] = "swap" /\ UNCHANGED <<counters, seen>>
    BY <1>0, <1>5 DEF ReadLimit, Goto, TypeOK, shared, counters
  <2> QED  BY <1>1, <1>3, <2>1 DEF Counting, Finishing
<1>6. CASE SwapTicket(t)
  <2>1. /\ pc[t] = "swap" /\ pc'[t] = "idle" /\ limit[t] = InitialLimit
        /\ seen[t] = <<requestInExecution, pendingDequeCalls>>
        /\ PendingSeen(t) # 0 /\ seen[t][1] < limit[t]
        /\ requestInExecution' = Inc(requestInExecution)
        /\ pendingDequeCalls' = Dec(PendingSeen(t))
    BY <1>0, <1>1, <1>6, SMTT(30)
    DEF SwapTicket, AfterSuccess, EndIteration, Goto, TypeOK, counters,
        OneLimit, GetsTicket
  <2>2. InitialLimit < Word => requestInExecution' = requestInExecution + 1
    BY <2>1, ExecutionMoves DEF OneLimit
  <2>3. t \notin Counting' /\ t \notin Finishing'
    BY <2>1 DEF Counting, Finishing
  <2>4. CASE caller[t] = "onEnqueued"
    <3>1. pendingDequeCalls' = pendingDequeCalls
      BY <1>0, <2>1, <2>4, Counters, SMTT(30) DEF PendingSeen
    <3>2. t \in Counting /\ t \notin Finishing
      BY <2>1, <2>4 DEF Counting, Finishing
    <3>3. Waiting' = Waiting
      BY <1>0, <3>1, WaitingMoves
    <3>4. Keeps(0, 1, -1, 0)
      BY <1>0, <1>2, <2>2, <2>3, <3>2, <3>3, SMTT(30) DEF Keeps, Ind
    <3> QED  BY <1>0, <1>2, <3>4, ServedMove
  <2>5. CASE caller[t] # "onEnqueued"
    <3>1. /\ pendingDequeCalls' = Dec(pendingDequeCalls)
          /\ pendingDequeCalls # 0
      BY <2>1, <2>5, SMTT(30) DEF PendingSeen
    <3>2. t \notin Counting /\ t \in Finishing
      BY <2>1, <2>5, <3>1, SMTT(30) DEF Counting, Finishing
    <3>3. Waiting' = Waiting - 1
      BY <1>0, <3>1, WaitingMoves
    <3>4. Keeps(-1, 1, 0, -1)
      BY <1>0, <1>2, <2>2, <2>3, <3>2, <3>3, SMTT(30) DEF Keeps, Ind
    <3> QED  BY <1>0, <1>2, <3>4, ServedMove
  <2> QED  BY <2>4, <2>5
<1>7. CASE SwapPending(t)
  <2>1. /\ ~GetsTicket(t) /\ limit[t] = InitialLimit
        /\ seen[t] = <<requestInExecution, pendingDequeCalls>>
        /\ pendingDequeCalls' = PendingSeen(t)
        /\ requestInExecution' = requestInExecution
    BY <1>7 DEF SwapPending, OneLimit, counters
  <2>2. pendingDequeCalls' = 0 \/ ~(requestInExecution < InitialLimit)
    BY <2>1, SMTT(30) DEF GetsTicket
  <2>3. pendingDequeCalls' = 0 \/ requestInExecution' >= InitialLimit
    BY <1>0, <2>1, <2>2, SMTT(30) DEF TypeOK
  <2> QED  BY <1>2, <2>3, ServedRest
<1>8. CASE GiveUp(t)
  <2>1. /\ pc[t] = "swap" /\ pc'[t] = "idle" /\ limit[t] = InitialLimit
        /\ ~GetsTicket(t) /\ caller[t] # "onEnqueued" /\ UNCHANGED counters
    BY <1>0, <1>8
    DEF GiveUp, EndIteration, Goto, TypeOK, OneLimit, shared, counters
  <2>2. seen[t][2] = 0 \/ ~(seen[t][1] < InitialLimit)
    BY <2>1 DEF GetsTicket, PendingSeen
  <2>3. t \notin Finishing /\ t \notin Finishing'
    BY <2>1, <2>2 DEF Finishing
  <2> QED  BY <1>1, <1>3, <2>1, <2>3 DEF Counting
<1>9. CASE SwapFails(t)
  <2>1. /\ pc[t] = "swap" /\ pc'[t] = "load" /\ limit[t] = InitialLimit
        /\ GetsTicket(t) \/ caller[t] = "onEnqueued"
        /\ UNCHANGED counters
    BY <1>0, <1>9
    DEF SwapFails, EndIteration, Goto, TypeOK, OneLimit, shared, counters
  <2>2. t \in Counting' <=> t \in Counting
    BY <1>1, <2>1 DEF Counting
  <2>3. CASE caller[t] = "onEnqueued"
    BY <1>1, <1>3, <2>1, <2>2, <2>3 DEF Finishing
  <2>4. CASE caller[t] # "onEnqueued"
    <3>1. seen[t][2] # 0 /\ seen[t][1] < InitialLimit
      BY <2>1, <2>4 DEF GetsTicket, PendingSeen
    <3>2. t \in Finishing /\ t \in Finishing'
      BY <1>1, <2>1, <2>4, <3>1 DEF Finishing
    <3> QED  BY <1>3, <2>1, <2>2, <3>2
  <2> QED  BY <2>3, <2>4
<1> QED  BY <1>4, <1>5, <1>6, <1>7, <1>8, <1>9 DEF TrySchedule

(* The steps of a thread outside trySchedule, which may call it.           *)
LEMMA ServedWork ==
  ASSUME IInv, IInv', Effect, OneLimit, OneLimit', Served,
         NEW t \in Threads, Others(t), seen' = seen,
         pc[t] \notin {"load", "limit", "swap"},
         \/ /\ UNCHANGED counters
            /\ \/ pc'[t] \notin {"load", "limit", "swap"}
               \/ pc'[t] = "load" /\ caller'[t] = "onEnqueued"
         \/ /\ requestInExecution' = requestInExecution
            /\ pendingDequeCalls' = Dec(pendingDequeCalls)
            /\ pc'[t] \notin {"load", "limit", "swap"}
         \/ /\ requestInExecution' = Dec(requestInExecution)
            /\ \/ pendingDequeCalls' = pendingDequeCalls
               \/ pendingDequeCalls' = Inc(pendingDequeCalls)
            /\ pc'[t] = "load" /\ caller'[t] # "onEnqueued"
  PROVE  Served'
<1>0. /\ TypeOK /\ TypeOK'
      /\ Waiting \in Int /\ Waiting' \in Int
      /\ requestInExecution \in Int
  BY SMTT(30) DEF IInv, TypeOK, Effect
<1>2. /\ Cardinality(Counting) \in Nat /\ Cardinality(Counting') \in Nat
      /\ Cardinality(Finishing) \in Nat /\ Cardinality(Finishing') \in Nat
      /\ Cardinality(Counting') = Cardinality(Counting)
           + Ind(t \in Counting') - Ind(t \in Counting)
      /\ Cardinality(Finishing') = Cardinality(Finishing)
           + Ind(t \in Finishing') - Ind(t \in Finishing)
  BY TryCounts
<1>3. t \notin Counting /\ t \notin Finishing
  BY DEF Counting, Finishing
<1>4. CASE UNCHANGED counters
  <2>1. Waiting' = Waiting /\ requestInExecution' = requestInExecution
    BY <1>0, <1>4, WaitingMoves DEF counters
  <2>2. \/ pc'[t] \notin {"load", "limit", "swap"}
        \/ pc'[t] = "load" /\ caller'[t] = "onEnqueued"
        \/ requestInExecution' = Dec(requestInExecution)
    OBVIOUS
  <2>3. requestInExecution' # Dec(requestInExecution)
    BY <1>0, <2>1, WordFacts DEF TypeOK
  <2>4. t \notin Finishing'
    BY <2>2, <2>3 DEF Finishing
  <2>5. Keeps(0, 0, 0, 0) \/ Keeps(0, 0, 1, 0)
    BY <1>0, <1>2, <1>3, <2>1, <2>4, SMTT(30) DEF Keeps, Ind
  <2> QED  BY <1>0, <1>2, <2>5, ServedMove
<1>5. CASE /\ requestInExecution' = requestInExecution
           /\ pendingDequeCalls' = Dec(pendingDequeCalls)
           /\ pc'[t] \notin {"load", "limit", "swap"}
  <2>1. Waiting' = Waiting - 1
    BY <1>0, <1>5, WaitingMoves
  <2>2. t \notin Counting' /\ t \notin Finishing'
    BY <1>5 DEF Counting, Finishing
  <2>3. Keeps(0, 0, 0, 0)
    BY <1>0, <1>2, <1>3, <1>5, <2>1, <2>2, SMTT(30) DEF Keeps, Ind
  <2> QED  BY <1>0, <1>2, <2>3, ServedMove
<1>6. CASE /\ requestInExecution' = Dec(requestInExecution)
           /\ \/ pendingDequeCalls' = pendingDequeCalls
              \/ pendingDequeCalls' = Inc(pendingDequeCalls)
           /\ pc'[t] = "load" /\ caller'[t] # "onEnqueued"
  <2>0. Waiting' = Waiting \/ Waiting' = Waiting + 1
    BY <1>0, <1>6, WaitingMoves
  <2>1. Waiting' <= Waiting + 1
    BY <1>0, <2>0, SMTT(30)
  <2>2. InitialLimit < Word => requestInExecution' = requestInExecution - 1
    BY <1>6, ExecutionMoves DEF OneLimit
  <2>3. t \notin Counting' /\ t \in Finishing'
    BY <1>6 DEF Counting, Finishing
  <2>4. Keeps(1, -1, 0, 1)
    BY <1>0, <1>2, <1>3, <2>1, <2>2, <2>3, SMTT(30) DEF Keeps, Ind
  <2> QED  BY <1>0, <1>2, <2>4, ServedMove
<1> QED  BY <1>4, <1>5, <1>6

(* Every step leaves somebody who serves the requests that wait.           *)
LEMMA ServedStep ==
  ASSUME IInv, IInv', Effect, OneLimit, OneLimit', Served, NewLimits = {},
         [Next]_vars
  PROVE  Served'
<1>0. TypeOK
  BY DEF IInv
<1>1. ASSUME NEW t \in Threads, TrySchedule(t) PROVE Served'
  BY <1>1, ServedTry
<1> USE DEF TypeOK, Others, Goto, CallTrySchedule, counters, shared, local
<1>2. ASSUME NEW t \in Threads, Task(t) PROVE Served'
  <2>1. ASSUME NEW r \in Requests, DequeueTake(t, r) PROVE Served'
    <3>1. /\ Others(t) /\ seen' = seen /\ UNCHANGED counters
          /\ pc[t] \notin {"load", "limit", "swap"}
          /\ pc'[t] \notin {"load", "limit", "swap"}
      BY <1>0, <2>1 DEF DequeueTake
    <3> HIDE DEF Others, counters
    <3> QED  BY <3>1, ServedWork
  <2>2. CASE DequeueKeep(t) \/ DequeueDiscard(t) \/ Rearm(t)
               \/ DequeueEmpty(t) \/ ExecuteRequest(t)
    <3>1. /\ Others(t) /\ seen' = seen /\ UNCHANGED counters
          /\ pc[t] \notin {"load", "limit", "swap"}
          /\ pc'[t] \notin {"load", "limit", "swap"}
      BY <1>0, <2>2 DEF DequeueKeep, DequeueDiscard, Rearm, DequeueEmpty,
                        ExecuteRequest
    <3> HIDE DEF Others, counters
    <3> QED  BY <3>1, ServedWork
  <2>3. CASE ProcessExpiredRequest(t)
    <3>1. /\ Others(t) /\ seen' = seen
          /\ requestInExecution' = requestInExecution
          /\ pendingDequeCalls' = Dec(pendingDequeCalls)
          /\ pc[t] \notin {"load", "limit", "swap"}
          /\ pc'[t] \notin {"load", "limit", "swap"}
      BY <1>0, <2>3 DEF ProcessExpiredRequest
    <3> HIDE DEF Others, counters
    <3> QED  BY <3>1, ServedWork
  <2>4. CASE ExecuteEmpty(t) \/ ExecuteExpired(t)
    <3>1. /\ Others(t) /\ seen' = seen
          /\ requestInExecution' = Dec(requestInExecution)
          /\ \/ pendingDequeCalls' = pendingDequeCalls
             \/ pendingDequeCalls' = Inc(pendingDequeCalls)
          /\ pc[t] \notin {"load", "limit", "swap"}
          /\ pc'[t] = "load" /\ caller'[t] # "onEnqueued"
      BY <1>0, <2>4 DEF ExecuteEmpty, ExecuteExpired
    <3> HIDE DEF Others, counters
    <3> QED  BY <3>1, ServedWork
  <2> QED  BY <1>2, <2>1, <2>2, <2>3, <2>4 DEF Task
<1>3. ASSUME NEW t \in Threads, RunTask(t) PROVE Served'
  <2>1. /\ Others(t) /\ seen' = seen /\ UNCHANGED counters
        /\ pc[t] \notin {"load", "limit", "swap"}
        /\ pc'[t] \notin {"load", "limit", "swap"}
    BY <1>0, <1>3 DEF RunTask
  <2> HIDE DEF Others, counters
  <2> QED  BY <2>1, ServedWork
<1>4. ASSUME NEW t \in Threads, NEW r \in Requests,
             AcceptAsync(t, r) \/ RejectAsync(t, r)
      PROVE  Served'
  <2>1. /\ Others(t) /\ seen' = seen /\ UNCHANGED counters
        /\ pc[t] \notin {"load", "limit", "swap"}
        /\ \/ pc'[t] \notin {"load", "limit", "swap"}
           \/ pc'[t] = "load" /\ caller'[t] = "onEnqueued"
    BY <1>0, <1>4 DEF AcceptAsync, RejectAsync
  <2> HIDE DEF Others, counters
  <2> QED  BY <2>1, ServedWork
<1>5. ASSUME NEW t \in Threads, NEW r \in Requests, OnRequestFinished(t, r)
      PROVE  Served'
  <2>1. /\ Others(t) /\ seen' = seen
        /\ requestInExecution' = Dec(requestInExecution)
        /\ pendingDequeCalls' = pendingDequeCalls
        /\ pc[t] \notin {"load", "limit", "swap"}
        /\ pc'[t] = "load" /\ caller'[t] # "onEnqueued"
    BY <1>0, <1>5 DEF OnRequestFinished
  <2> HIDE DEF Others, counters
  <2> QED  BY <2>1, ServedWork
<1>6. ASSUME NEW t \in Threads, PublishIndex(t) PROVE Served'
  <2>1. /\ Others(t) /\ seen' = seen /\ UNCHANGED counters
        /\ pc[t] \notin {"load", "limit", "swap"}
        /\ pc'[t] = "load" /\ caller'[t] = "onEnqueued"
    BY <1>0, <1>6 DEF PublishIndex
  <2> HIDE DEF Others, counters
  <2> QED  BY <2>1, ServedWork
<1>7. CASE UNCHANGED <<counters, tasks, pile, pc, caller, seen>>
  <2>1. /\ Waiting' = Waiting /\ Finishing' = Finishing
        /\ Counting' = Counting /\ requestInExecution' = requestInExecution
    BY <1>7 DEF Waiting, Dequeuers, Enqueuers, ThreadsAt, Finishing, Counting
  <2> QED  BY <2>1 DEF Served
<1>8. ASSUME NEW t \in Threads, LimitVisible(t) PROVE Served'
  BY <1>8 DEF LimitVisible, OneLimit
<1> QED  BY <1>1, <1>2, <1>3, <1>4, <1>5, <1>6, <1>7, <1>8
         DEF Next, Expire, Idle, vars

(* Nobody sets a limit.                                                    *)
LEMMA OneLimitStep ==
  ASSUME TypeOK, OneLimit, NewLimits = {}, [Next]_vars
  PROVE  OneLimit'
<1> USE DEF TypeOK, OneLimit, Goto, CallTrySchedule, EndIteration, counters,
            shared, local
<1>1. ASSUME NEW t \in Threads, TrySchedule(t) PROVE OneLimit'
  <2>1. UNCHANGED <<executionLimit, maxLimit, stored, caller>>
    BY <1>1 DEF TrySchedule, Load, ReadLimit, SwapTicket, SwapPending, GiveUp,
                SwapFails
  <2>2. CASE ReadLimit(t)
    BY <2>1, <2>2 DEF ReadLimit
  <2>3. CASE ~ReadLimit(t)
    <3>1. /\ \A u \in Threads \ {t} : pc'[u] = pc[u] /\ limit'[u] = limit[u]
          /\ pc'[t] # "swap"
      BY <1>1, <2>3 DEF TrySchedule, Load, SwapTicket, SwapPending, GiveUp,
                        SwapFails, AfterSuccess
    <3> QED  BY <2>1, <3>1
  <2> QED  BY <2>2, <2>3
<1>2. ASSUME NEW t \in Threads,
             UNCHANGED <<executionLimit, maxLimit, stored, limit>>,
             \A u \in Threads \ {t} : pc'[u] = pc[u] /\ caller'[u] = caller[u],
             pc'[t] # "swap", caller'[t] # "setExecutionLimit"
      PROVE  OneLimit'
  BY <1>2
<1>3. ASSUME NEW t \in Threads, Task(t) \/ RunTask(t) \/ PublishIndex(t)
      PROVE  OneLimit'
  <2>1. UNCHANGED <<executionLimit, maxLimit, stored, limit>>
    BY <1>3 DEF Task, DequeueTake, DequeueKeep, DequeueDiscard,
                ProcessExpiredRequest, Rearm, DequeueEmpty, ExecuteEmpty,
                ExecuteRequest, ExecuteExpired, RunTask, PublishIndex
  <2>2. /\ \A u \in Threads \ {t} : pc'[u] = pc[u] /\ caller'[u] = caller[u]
        /\ pc'[t] # "swap" /\ caller'[t] # "setExecutionLimit"
    BY <1>3 DEF Task, DequeueTake, DequeueKeep, DequeueDiscard,
                ProcessExpiredRequest, Rearm, DequeueEmpty, ExecuteEmpty,
                ExecuteRequest, ExecuteExpired, RunTask, PublishIndex
  <2> QED  BY <1>2, <2>1, <2>2
<1>4. ASSUME NEW t \in Threads, NEW r \in Requests,
             \/ AcceptAsync(t, r)
             \/ RejectAsync(t, r)
             \/ OnRequestFinished(t, r)
      PROVE  OneLimit'
  <2>1. /\ UNCHANGED <<executionLimit, maxLimit, stored, limit>>
        /\ \A u \in Threads \ {t} : pc'[u] = pc[u] /\ caller'[u] = caller[u]
        /\ pc'[t] # "swap" /\ caller'[t] # "setExecutionLimit"
    BY <1>4 DEF AcceptAsync, RejectAsync, OnRequestFinished
  <2> QED  BY <1>2, <2>1
<1>5. CASE UNCHANGED <<executionLimit, maxLimit, stored, limit, pc, caller>>
  BY <1>5
<1>6. ASSUME NEW t \in Threads, LimitVisible(t) PROVE OneLimit'
  BY <1>6 DEF LimitVisible
<1> QED  BY <1>1, <1>3, <1>4, <1>5, <1>6 DEF Next, Expire, Idle, vars

(* As long as nobody changes the limit, every request that waits is served: *)
(* when no thread is in the controller and no task is scheduled, a request  *)
(* stays in the pile only because the limit is reached.                     *)
THEOREM NoRequestStranded ==
  ASSUME NewLimits = {}
  PROVE  Spec => []NoStrandedRequest
<1>1. Init => OneLimit /\ Served
  <2> SUFFICES ASSUME Init PROVE OneLimit /\ Served
    OBVIOUS
  <2>1. OneLimit
    BY DEF Init, OneLimit
  <2>2. /\ Dequeuers = {} /\ Enqueuers = {} /\ pile = {}
        /\ ThreadsAt({"expire"}) = {} /\ Finishing = {} /\ tasks = 0
    BY DEF Init, Dequeuers, Enqueuers, ThreadsAt, Finishing
  <2>3. Waiting <= Cardinality(Finishing)
    BY <2>2, FS_EmptySet, SMTT(30) DEF Waiting
  <2> QED  BY <2>1, <2>3 DEF Served
<1>2. IInv /\ IInv' /\ OneLimit /\ Served /\ [Next]_vars
        => OneLimit' /\ Served'
  BY Effects, OneLimitStep, ServedStep DEF IInv
<1>3. IInv /\ OneLimit /\ Served => NoStrandedRequest
  <2> SUFFICES ASSUME IInv, OneLimit, Served,
                      \A t \in Threads : pc[t] = "idle",
                      pile # {}, tasks = 0
               PROVE  requestInExecution >= executionLimit
    BY DEF NoStrandedRequest
  <2>1. /\ Dequeuers = {} /\ Enqueuers = {} /\ ThreadsAt({"expire"}) = {}
        /\ Finishing = {} /\ Counting = {}
    BY DEF Dequeuers, Enqueuers, ThreadsAt, Finishing, Counting
  <2>2. Cardinality(pile) \in Nat /\ Cardinality(pile) # 0
    BY PoolAssumption, FS_Subset, FS_CardinalityType, FS_EmptySet
    DEF IInv, TypeOK
  <2>3. Waiting = Cardinality(pile) /\ Cardinality(Finishing) = 0
          /\ Cardinality(Counting) = 0
    BY <2>1, <2>2, FS_EmptySet, SMTT(30) DEF Waiting
  <2>4. requestInExecution \in Nat /\ InitialLimit \in Nat
    BY PoolAssumption, SMTT(30) DEF IInv, TypeOK
  <2> QED  BY <2>2, <2>3, <2>4, SMTT(30) DEF Served, OneLimit
<1> QED  BY <1>1, <1>2, <1>3, Invariance, PTL DEF Spec

=============================================================================
