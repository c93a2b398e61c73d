------------------------- MODULE RoundRobinRequestPile -------------------------
(***************************************************************************)
(* RoundRobinRequestPile (thrift/lib/cpp2/server/RoundRobinRequestPile.cpp)*)
(* and SingleBucketRequestPileQueue.h: a request pile of several           *)
(* priorities, each with one or several buckets, used by any number of     *)
(* threads without a lock.                                                 *)
(*                                                                         *)
(* A priority with one bucket is an unbounded MPMC queue with a counter    *)
(* beside it.  A priority with several buckets has an MPSC notification    *)
(* queue for each (folly::AtomicNotificationQueue) and an MPMC queue of    *)
(* the buckets to serve next.  A bucket's index is enqueued by the push    *)
(* that finds the bucket armed, and by the dequeue that leaves something   *)
(* in it; whoever pops the index is the bucket's only consumer.            *)
(***************************************************************************)
EXTENDS Integers, Sequences, FiniteSets

CONSTANTS Requests,
          Threads,
          Shape,        \* number of buckets per priority, most urgent first
          Placement,    \* request -> <<priority, bucket>>, the pile selection
          MaxRequests,  \* limit of each bucket, 0 if unlimited
          Filtered,     \* requests the pre-enqueue filter refuses
          Delegate,     \* is a request expiration delegate set?
          None

Priorities == 1..Len(Shape)
Buckets == UNION {{p} \X (1..Shape[p]) : p \in Priorities}

(* Priorities with a retrieval index queue.                                *)
Multi(p) == Shape[p] > 1

ASSUME PileAssumption ==
  /\ IsFiniteSet(Threads)
  /\ Shape \in Seq(Nat \ {0}) /\ Shape # <<>>
  /\ Placement \in [Requests -> Buckets]
  /\ MaxRequests \in Nat
  /\ Filtered \subseteq Requests
  /\ Delegate \in BOOLEAN
  /\ None \notin Requests

VARIABLES
  queue,     \* bucket -> its requests
  armed,     \* bucket -> will the next push be told to notify?
  index,     \* priority -> buckets to serve, retrievalIndexQueues_
  count,     \* priority -> count_ of a single bucket queue
  fate,      \* request -> what became of it
  expired,   \* requests that are no longer active
  pc,        \* thread -> where it is
  cur,       \* thread -> the request in its hands
  place,     \* thread -> the bucket it works on, or the priority it looks at
  missed,    \* history: thread -> requests its dequeue cannot find any more
  overtaken  \* history: <<b, c>>: c was served since b's index was enqueued

piles == <<queue, armed, index, count, fate, expired>>
threads == <<pc, cur, place>>
vars == <<piles, threads, missed, overtaken>>

Init ==
  /\ queue = [b \in Buckets |-> <<>>]
  /\ armed = [b \in Buckets |-> TRUE]
  /\ index = [p \in Priorities |-> <<>>]
  /\ count = [p \in Priorities |-> 0]
  /\ fate = [r \in Requests |-> "new"]
  /\ expired = {}
  /\ pc = [t \in Threads |-> "out"]
  /\ cur = [t \in Threads |-> None]
  /\ place = [t \in Threads |-> <<1, 1>>]
  /\ missed = [t \in Threads |-> {}]
  /\ overtaken = {}

(* Thread t goes to a step with a request and a bucket; outside the pile   *)
(* it has neither.                                                         *)
Goto(t, step, r, b) ==
  /\ pc' = [pc EXCEPT ![t] = step]
  /\ cur' = [cur EXCEPT ![t] = r]
  /\ place' = [place EXCEPT ![t] = b]
Leave(t) == Goto(t, "out", None, <<1, 1>>)

Become(r, what) == fate' = [fate EXCEPT ![r] = what]

(* A request arrives while others are dequeuing.                           *)
Arrive(r) ==
  missed' = [u \in Threads |->
    IF pc[u] = "scan" THEN missed[u] \union {r} ELSE missed[u]]
Found(t) == missed' = [missed EXCEPT ![t] = {}]

\* mutant: the bucket that was just served goes to the front
EnqueueIndexFront(b) == index' = [index EXCEPT ![b[1]] = <<b>> \o @]
EnqueueIndex(b) == index' = [index EXCEPT ![b[1]] = Append(@, b)]

-----------------------------------------------------------------------------
(* enqueue                                                                 *)

(* The pre-enqueue filter, or a notification queue at its limit.           *)
Reject(t, r) ==
  /\ pc[t] = "out"
  /\ fate[r] = "new"
  /\ \/ r \in Filtered
     \/ /\ Multi(Placement[r][1])
        /\ MaxRequests # 0
        /\ Len(queue[Placement[r]]) >= MaxRequests
  /\ Become(r, "rejected")
  /\ UNCHANGED <<queue, armed, index, count, expired, threads, missed,
                 overtaken>>

\* mutant: every push publishes the bucket
TryPushPublishes(t, r) ==
  LET b == Placement[r] IN
  /\ pc[t] = "out"
  /\ fate[r] = "new"
  /\ r \notin Filtered
  /\ Multi(b[1])
  /\ MaxRequests = 0 \/ Len(queue[b]) < MaxRequests
  /\ queue' = [queue EXCEPT ![b] = Append(@, r)]
  /\ armed' = [armed EXCEPT ![b] = FALSE]
  /\ Become(r, "queued")
  /\ Arrive(r)
  /\ Goto(t, "index", None, b)
  /\ UNCHANGED <<index, count, expired, overtaken>>

(* push / tryPush of the notification queue: tells whether it was armed.   *)
TryPush(t, r) ==
  LET b == Placement[r] IN
  /\ pc[t] = "out"
  /\ fate[r] = "new"
  /\ r \notin Filtered
  /\ Multi(b[1])
  /\ MaxRequests = 0 \/ Len(queue[b]) < MaxRequests
  /\ queue' = [queue EXCEPT ![b] = Append(@, r)]
  /\ armed' = [armed EXCEPT ![b] = FALSE]
  /\ Become(r, "queued")
  /\ Arrive(r)
  /\ IF armed[b] THEN Goto(t, "index", None, b) ELSE UNCHANGED threads
  /\ UNCHANGED <<index, count, expired, overtaken>>

PublishIndex(t) ==
  /\ pc[t] = "index"
  /\ EnqueueIndex(place[t])
  /\ Leave(t)
  /\ UNCHANGED <<queue, armed, count, fate, expired, missed, overtaken>>

(* SingleBucketRequestPileQueue::enqueue: count first, ...                 *)
CountUp(t, r) ==
  LET p == Placement[r][1] IN
  /\ pc[t] = "out"
  /\ fate[r] = "new"
  /\ r \notin Filtered
  /\ ~Multi(p)
  /\ Become(r, "offered")
  /\ IF MaxRequests = 0
     THEN Goto(t, "insert", r, Placement[r]) /\ UNCHANGED count
     ELSE /\ count' = [count EXCEPT ![p] = @ + 1]
          /\ Goto(t, IF count[p] >= MaxRequests THEN "undo" ELSE "insert", r,
                  Placement[r])
  /\ UNCHANGED <<queue, armed, index, expired, missed, overtaken>>

(* ... then take the count back, ...                                       *)
CountBack(t) ==
  /\ pc[t] = "undo"
  /\ count' = [count EXCEPT ![place[t][1]] = @ - 1]
  /\ Become(cur[t], "rejected")
  /\ Leave(t)
  /\ UNCHANGED <<queue, armed, index, expired, missed, overtaken>>

(* ... or insert.                                                          *)
Insert(t) ==
  /\ pc[t] = "insert"
  /\ queue' = [queue EXCEPT ![place[t]] = Append(@, cur[t])]
  /\ Become(cur[t], "queued")
  /\ Arrive(cur[t])
  /\ Leave(t)
  /\ UNCHANGED <<armed, index, count, expired, overtaken>>

-----------------------------------------------------------------------------
(* dequeue                                                                 *)

Dequeue(t) ==
  /\ pc[t] = "out"
  /\ Goto(t, "scan", None, <<1, 1>>)
  /\ UNCHANGED <<piles, missed, overtaken>>

(* The requests in the pile at priority p.                                 *)
QueuedAt(p) == {r \in Requests : fate[r] = "queued" /\ Placement[r][1] = p}

\* mutant: only the most urgent priority is looked at
ScanFirstOnly(t) ==
  LET p == place[t][1] IN
  /\ pc[t] = "scan"
  /\ IF Multi(p) THEN index[p] = <<>> ELSE queue[<<p, 1>>] = <<>>
  /\ Leave(t)
  /\ Found(t)
  /\ UNCHANGED <<piles, overtaken>>

(* Nothing at this priority: look at the next, or return nothing.          *)
ScanNext(t) ==
  LET p == place[t][1] IN
  /\ pc[t] = "scan"
  /\ IF Multi(p) THEN index[p] = <<>> ELSE queue[<<p, 1>>] = <<>>
  /\ IF p < Len(Shape)
     THEN /\ Goto(t, "scan", None, <<p + 1, 1>>)
          /\ missed' = [missed EXCEPT ![t] = @ \union QueuedAt(p)]
     ELSE Leave(t) /\ Found(t)
  /\ UNCHANGED <<piles, overtaken>>

\* mutant: the slot of a dequeued request is not given back
TryDequeueKeepsSlot(t) ==
  LET b == place[t] IN
  /\ pc[t] = "scan"
  /\ ~Multi(b[1])
  /\ queue[b] # <<>>
  /\ queue' = [queue EXCEPT ![b] = Tail(@)]
  /\ Become(Head(queue[b]), "taken")
  /\ Found(t)
  /\ Leave(t)
  /\ UNCHANGED <<armed, index, count, expired, overtaken>>

(* tryDequeue of a single bucket queue: take, then count down.             *)
TryDequeue(t) ==
  LET b == place[t] IN
  /\ pc[t] = "scan"
  /\ ~Multi(b[1])
  /\ queue[b] # <<>>
  /\ queue' = [queue EXCEPT ![b] = Tail(@)]
  /\ Become(Head(queue[b]), "taken")
  /\ Found(t)
  /\ IF MaxRequests = 0 THEN Leave(t) ELSE Goto(t, "release", None, b)
  /\ UNCHANGED <<armed, index, count, expired, overtaken>>

CountDown(t) ==
  /\ pc[t] = "release"
  /\ count' = [count EXCEPT ![place[t][1]] = @ - 1]
  /\ Leave(t)
  /\ UNCHANGED <<queue, armed, index, fate, expired, missed, overtaken>>

(* Pop the index of the bucket to serve.                                   *)
TryDequeueIndex(t) ==
  LET p == place[t][1]
      b == Head(index[p])
      waiting == {c \in Buckets : \E i \in 2..Len(index[p]) : index[p][i] = c}
  IN
  /\ pc[t] = "scan"
  /\ Multi(p)
  /\ index[p] # <<>>
  /\ index' = [index EXCEPT ![p] = Tail(@)]
  /\ Goto(t, "drive", None, b)
  /\ Found(t)
  /\ overtaken' = {x \in overtaken : x[1] # b}
                    \union {<<c, b>> : c \in waiting}
  /\ UNCHANGED <<queue, armed, count, fate, expired>>

(* The consumer that drive() calls on the first request.                   *)
Discards(r) == Delegate /\ r \in expired

Consume(t) ==
  LET b == place[t] IN
  /\ pc[t] = "drive"
  /\ queue[b] # <<>>
  /\ ~Discards(Head(queue[b]))
  /\ queue' = [queue EXCEPT ![b] = Tail(@)]
  /\ Become(Head(queue[b]), "taken")
  /\ Goto(t, "arm", Head(queue[b]), b)
  /\ UNCHANGED <<armed, index, count, expired, missed, overtaken>>

Discard(t) ==
  LET b == place[t] IN
  /\ pc[t] = "drive"
  /\ queue[b] # <<>>
  /\ Discards(Head(queue[b]))
  /\ queue' = [queue EXCEPT ![b] = Tail(@)]
  /\ Become(Head(queue[b]), "expired")
  /\ Goto(t, "more", None, b)
  /\ UNCHANGED <<armed, index, count, expired, missed, overtaken>>

(* A discarded request does not count as read: drive() goes on.            *)
DriveOn(t) ==
  /\ pc[t] = "more"
  /\ Goto(t, IF queue[place[t]] = <<>> THEN "arm" ELSE "drive", None, place[t])
  /\ UNCHANGED <<piles, missed, overtaken>>

(* arm() succeeds on an empty queue only; else the index is enqueued.      *)
Arm(t) ==
  LET b == place[t] IN
  /\ pc[t] = "arm"
  /\ IF queue[b] = <<>>
     THEN Leave(t) /\ armed' = [armed EXCEPT ![b] = TRUE]
     ELSE Goto(t, "reindex", cur[t], b) /\ UNCHANGED armed
  /\ UNCHANGED <<queue, index, count, fate, expired, missed, overtaken>>

Reindex(t) ==
  /\ pc[t] = "reindex"
  /\ EnqueueIndex(place[t])
  /\ Leave(t)
  /\ UNCHANGED <<queue, armed, count, fate, expired, missed, overtaken>>

Expire(r) ==
  /\ fate[r] = "queued"
  /\ r \notin expired
  /\ expired' = expired \union {r}
  /\ UNCHANGED <<queue, armed, index, count, fate, threads, missed, overtaken>>

-----------------------------------------------------------------------------
Next ==
  \/ \E t \in Threads :
       \/ \E r \in Requests : Reject(t, r) \/ TryPush(t, r) \/ CountUp(t, r)
       \/ PublishIndex(t) \/ CountBack(t) \/ Insert(t)
       \/ Dequeue(t) \/ ScanNext(t) \/ TryDequeue(t) \/ CountDown(t)
       \/ TryDequeueIndex(t) \/ Consume(t) \/ Discard(t) \/ DriveOn(t)
       \/ Arm(t) \/ Reindex(t)
  \/ \E r \in Requests : Expire(r)

Spec == Init /\ [][Next]_vars

-----------------------------------------------------------------------------
(* Properties                                                              *)

(* Every thread is at one of the steps of the code, with a bucket of the   *)
(* pile, and count_, a size_t that is lowered without a test, never wraps. *)
TypeOK ==
  /\ queue \in [Buckets -> Seq(Requests)]
  /\ armed \in [Buckets -> BOOLEAN]
  /\ index \in [Priorities -> Seq(Buckets)]
  /\ count \in [Priorities -> Nat]
  /\ fate \in [Requests -> {"new", "offered", "queued", "rejected", "taken",
                            "expired"}]
  /\ expired \subseteq Requests
  /\ pc \in [Threads -> {"out", "index", "undo", "insert", "scan", "release",
                         "drive", "more", "arm", "reindex"}]
  /\ cur \in [Threads -> Requests \union {None}]
  /\ place \in [Threads -> Buckets]
  /\ missed \in [Threads -> SUBSET Requests]
  /\ overtaken \subseteq Buckets \X Buckets

(* Threads that answer for bucket b: they consume it or will publish it.   *)
Holders(b) == {t \in Threads :
  place[t] = b /\ pc[t] \in {"index", "drive", "more", "arm", "reindex"}}
Published(b) == {i \in DOMAIN index[b[1]] : index[b[1]][i] = b}

(* A bucket is armed, published once, or in the hands of one thread, and   *)
(* never two of these: drive() of its single-consumer queue is never run   *)
(* by two threads at a time, and no index is enqueued twice.  A bucket     *)
(* with requests in it is never left armed, where no dequeue would look    *)
(* for it, and every index in the queue leads to a request.                *)
OneConsumer ==
  /\ TypeOK
  /\ \A b \in Buckets : Multi(b[1]) =>
       /\ (IF armed[b] THEN 1 ELSE 0) + Cardinality(Published(b))
            + Cardinality(Holders(b)) = 1
       /\ queue[b] # <<>> => ~armed[b]
       /\ Published(b) # {} => queue[b] # <<>>

(* No bucket ever holds more than its limit, whoever races to enqueue, and *)
(* the slots of a single bucket queue are conserved: count_ is the number  *)
(* of requests in it, plus one for each thread between count_ and queue_,  *)
(* so that rejections and races never use up a slot for good.              *)
SlotsConserved ==
  MaxRequests # 0 =>
    /\ \A b \in Buckets : Len(queue[b]) <= MaxRequests
    /\ \A p \in Priorities : ~Multi(p) =>
         count[p] = Len(queue[<<p, 1>>])
           + Cardinality({t \in Threads :
               pc[t] \in {"insert", "undo", "release"} /\ place[t][1] = p})

(* Round robin: while a bucket's index waits in the queue, no other bucket *)
(* is served twice.                                                        *)
RoundRobin ==
  [][\A t \in Threads : TryDequeueIndex(t) =>
       LET p == place[t][1] IN
       \A i \in 2..Len(index[p]) :
         <<index[p][i], Head(index[p])>> \notin overtaken]_vars

(* What the concurrency controller may expect of a pile.  A bucket that is *)
(* being driven has lost its first request to the thread that drives it.   *)
At(t) ==
  CASE pc[t] \in {"out", "undo", "insert", "release"} -> "out"
    [] pc[t] = "index" -> "index"
    [] pc[t] = "scan" -> "dequeue"
    [] pc[t] = "drive" -> "claim"
    [] pc[t] = "more" -> "drive"
    [] pc[t] \in {"arm", "reindex"} -> IF cur[t] = None THEN "drive" ELSE "arm"

Claimed == {Head(queue[place[t]]) : t \in {u \in Threads : pc[u] = "drive"}}

Pile == INSTANCE RequestPile WITH
  fresh <- {r \in Requests : fate[r] \in {"new", "offered"}},
  pile <- {r \in Requests : fate[r] = "queued"} \ Claimed,
  at <- [t \in Threads |-> At(t)],
  missed <- missed

(* The pile with its buckets implements the abstract pile.                 *)
ImplementsRequestPile == Pile!Spec

=============================================================================
