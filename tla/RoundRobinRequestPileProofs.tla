---------------------- MODULE RoundRobinRequestPileProofs ----------------------
(***************************************************************************)
(* The theorems about RoundRobinRequestPile: one consumer for each bucket, *)
(* slots that are conserved, a round robin that serves no bucket twice     *)
(* while another waits, and the abstract pile.                             *)
(*                                                                         *)
(* First what each conjunct of the inductive invariant needs to be kept by *)
(* every step, and the steps of the pile as steps of the abstract pile;    *)
(* then the conjunct that counts threads, Slots; then the theorems.        *)
(***************************************************************************)
EXTENDS RoundRobinRequestPile, TLAPS

(* Most steps are first-order; the ones that need arithmetic or sequences  *)
(* cite SMT.                                                               *)
USE ZenonT(30)

HolderSteps == {"index", "drive", "more", "arm", "reindex"}
OfferSteps == {"insert", "undo"}

(* What a thread has in its hands.                                         *)
HandsOf(t) ==
  /\ pc[t] \in HolderSteps => Multi(place[t][1])
  /\ pc[t] \in OfferSteps \union {"release"} => ~Multi(place[t][1])
  /\ pc[t] \in {"undo", "release"} => MaxRequests # 0
  /\ pc[t] \in OfferSteps => /\ cur[t] \in Requests
                             /\ fate[cur[t]] = "offered"
                             /\ Placement[cur[t]] = place[t]
  /\ pc[t] = "scan" => place[t] = <<place[t][1], 1>>
  /\ pc[t] \in {"index", "drive", "reindex"} => queue[place[t]] # <<>>
  /\ pc[t] # "scan" => missed[t] = {}
Hands == \A t \in Threads : HandsOf(t)

(* No request is offered by two threads.                                   *)
OwnOffer ==
  \A t, u \in Threads : /\ pc[t] \in OfferSteps /\ pc[u] \in OfferSteps
                        /\ cur[t] = cur[u]
                        => t = u

(* The requests in the pile are in the queues of their buckets, once.      *)
Contents ==
  /\ \A b \in Buckets : \A i \in 1..Len(queue[b]) :
       /\ fate[queue[b][i]] = "queued" /\ Placement[queue[b][i]] = b
       /\ \A j \in 1..Len(queue[b]) : queue[b][i] = queue[b][j] => i = j
  /\ \A r \in Requests : fate[r] = "queued" =>
       \E i \in 1..Len(queue[Placement[r]]) : queue[Placement[r]][i] = r

(* A bucket is armed, published or held: one of these, and once.           *)
Holds(t, b) == place[t] = b /\ pc[t] \in HolderSteps
IsPublished(b) == \E i \in 1..Len(index[b[1]]) : index[b[1]][i] = b
IsHeld(b) == \E t \in Threads : Holds(t, b)
OwnerOf(b) ==
  /\ armed[b] \/ IsPublished(b) \/ IsHeld(b)
  /\ armed[b] => queue[b] = <<>> /\ ~IsPublished(b) /\ ~IsHeld(b)
  /\ IsPublished(b) => queue[b] # <<>> /\ ~IsHeld(b)
  /\ \A t, u \in Threads : Holds(t, b) /\ Holds(u, b) => t = u
IndexOf(p) ==
  \A i \in 1..Len(index[p]) :
    /\ index[p][i][1] = p /\ Multi(p)
    /\ \A j \in 1..Len(index[p]) : index[p][i] = index[p][j] => i = j
OneOwner == /\ \A b \in Buckets : Multi(b[1]) => OwnerOf(b)
            /\ \A p \in Priorities : IndexOf(p)

(* A bucket that was served since another one was published comes after    *)
(* it, if it is published again.                                           *)
InTurn ==
  \A x \in overtaken :
    /\ IsPublished(x[1])
    /\ \A i, j \in 1..Len(index[x[1][1]]) :
         index[x[1][1]][i] = x[1] /\ index[x[1][1]][j] = x[2] => i < j

(* What a dequeue has passed it counts as missed.                          *)
Passed ==
  \A t \in Threads : pc[t] = "scan" =>
    \A r \in Requests :
      fate[r] = "queued" /\ Placement[r][1] < place[t][1] => r \in missed[t]

(* The slots of a single bucket queue, and those about to be filled.       *)
InSlot(p) == {t \in Threads : pc[t] \in OfferSteps \union {"release"}
                                /\ place[t][1] = p}
Inserting(p) == {t \in Threads : pc[t] = "insert" /\ place[t][1] = p}
Slots ==
  MaxRequests # 0 =>
    /\ \A b \in Buckets : Multi(b[1]) => Len(queue[b]) <= MaxRequests
    /\ \A p \in Priorities : ~Multi(p) =>
         /\ count[p] = Len(queue[<<p, 1>>]) + Cardinality(InSlot(p))
         /\ Len(queue[<<p, 1>>]) + Cardinality(Inserting(p)) <= MaxRequests

IInv == TypeOK /\ Hands /\ OwnOffer /\ Contents /\ OneOwner /\ InTurn
          /\ Passed /\ Slots

-----------------------------------------------------------------------------
(* What the operations on sequences do.                                    *)
LEMMA AppendFacts ==
  ASSUME NEW S, NEW s \in Seq(S), NEW x \in S
  PROVE  /\ Append(s, x) \in Seq(S) /\ Append(s, x) # <<>>
         /\ Len(Append(s, x)) = Len(s) + 1 /\ Len(s) \in Nat
         /\ \A i \in 1..Len(s) : Append(s, x)[i] = s[i]
         /\ Append(s, x)[Len(s) + 1] = x
BY SMTT(30)

(* ... taking the first element away, ...                                   *)
LEMMA TailFacts ==
  ASSUME NEW S, NEW s \in Seq(S), s # <<>>
  PROVE  /\ Head(s) \in S /\ Head(s) = s[1] /\ Len(s) \in Nat \ {0}
         /\ Tail(s) \in Seq(S) /\ Len(Tail(s)) = Len(s) - 1
         /\ \A i \in 1..Len(s) - 1 : Tail(s)[i] = s[i + 1]
BY SMTT(30)

(* ... and having no element.                                               *)
LEMMA EmptyFacts ==
  ASSUME NEW S, NEW s \in Seq(S)
  PROVE  /\ Len(s) \in Nat /\ (s = <<>> <=> Len(s) = 0)
         /\ \A i \in 1..Len(s) : s[i] \in S
BY SMTT(30)

(* What a bucket is.                                                       *)
LEMMA BucketFacts ==
  /\ Len(Shape) \in Nat \ {0} /\ \A p \in Priorities : Shape[p] \in Nat \ {0}
  /\ \A b \in Buckets : b[1] \in Priorities /\ (~Multi(b[1]) => b = <<b[1], 1>>)
  /\ \A p \in Priorities : <<p, 1>> \in Buckets /\ <<p, 1>>[1] = p
  /\ <<1, 1>> \in Buckets /\ 1 \in Priorities
<1>1. Len(Shape) \in Nat \ {0} /\ \A p \in Priorities : Shape[p] \in Nat \ {0}
  BY PileAssumption, SMTT(30) DEF Priorities
<1>2. ASSUME NEW b \in Buckets
      PROVE  b[1] \in Priorities /\ (~Multi(b[1]) => b = <<b[1], 1>>)
  <2>1. PICK p \in Priorities : b \in {p} \X (1..Shape[p])
    BY DEF Buckets
  <2>2. b = <<b[1], b[2]>> /\ b[1] = p /\ b[2] \in 1..Shape[p]
    BY <2>1, SMTT(30)
  <2>3. ~Multi(p) => b[2] = 1
    BY <1>1, <2>2, SMTT(30) DEF Multi
  <2> QED  BY <2>2, <2>3
<1>3. ASSUME NEW p \in Priorities PROVE <<p, 1>> \in Buckets
  <2>1. <<p, 1>> \in {p} \X (1..Shape[p])
    BY <1>1, SMTT(30)
  <2> QED  BY <2>1 DEF Buckets
<1>4. 1 \in Priorities
  BY <1>1, SMTT(30) DEF Priorities
<1> QED  BY <1>1, <1>2, <1>3, <1>4

(* A thread moves, with what it has in its hands, and the others stay.     *)
Moved(t, step, r, b) ==
  /\ pc'[t] = step /\ cur'[t] = r /\ place'[t] = b
  /\ \A u \in Threads \ {t} :
       pc'[u] = pc[u] /\ cur'[u] = cur[u] /\ place'[u] = place[u]

(* Goto moves one thread.                                                   *)
LEMMA GotoMoves ==
  ASSUME TypeOK, NEW t \in Threads, NEW step, NEW r, NEW b, Goto(t, step, r, b)
  PROVE  Moved(t, step, r, b)
BY DEF TypeOK, Goto, Moved

-----------------------------------------------------------------------------
(* Types.                                                                  *)
Steps == {"out", "index", "undo", "insert", "scan", "release", "drive", "more",
          "arm", "reindex"}

(* Goto keeps the types.                                                    *)
LEMMA ThreadTypes ==
  ASSUME TypeOK, NEW t \in Threads, NEW step \in Steps,
         NEW r \in Requests \union {None}, NEW b \in Buckets,
         Goto(t, step, r, b)
  PROVE  /\ pc' \in [Threads -> Steps]
         /\ cur' \in [Threads -> Requests \union {None}]
         /\ place' \in [Threads -> Buckets]
BY DEF TypeOK, Goto, Steps

(* Leave is a move to outside the pile.                                     *)
LEMMA LeaveTypes ==
  ASSUME TypeOK, NEW t \in Threads, Leave(t)
  PROVE  /\ pc' \in [Threads -> Steps]
         /\ cur' \in [Threads -> Requests \union {None}]
         /\ place' \in [Threads -> Buckets]
         /\ Moved(t, "out", None, <<1, 1>>)
BY ThreadTypes, GotoMoves, BucketFacts DEF Leave, Steps

(* A push and a pop leave queues of requests.                               *)
LEMMA QueueTypes ==
  ASSUME TypeOK, NEW b \in Buckets, NEW r \in Requests
  PROVE  /\ [queue EXCEPT ![b] = Append(@, r)] \in [Buckets -> Seq(Requests)]
         /\ queue[b] # <<>> =>
              /\ [queue EXCEPT ![b] = Tail(@)] \in [Buckets -> Seq(Requests)]
              /\ Head(queue[b]) \in Requests
<1>1. queue[b] \in Seq(Requests)
  BY DEF TypeOK
<1>2. Append(queue[b], r) \in Seq(Requests)
  BY <1>1, AppendFacts
<1>3. queue[b] # <<>> => /\ Tail(queue[b]) \in Seq(Requests)
                         /\ Head(queue[b]) \in Requests
  BY <1>1, TailFacts
<1> QED  BY <1>2, <1>3 DEF TypeOK

(* The history of a dequeue is a set of requests.                           *)
LEMMA MissedTypes ==
  ASSUME TypeOK, NEW t \in Threads, NEW r \in Requests
  PROVE  /\ Arrive(r) => missed' \in [Threads -> SUBSET Requests]
         /\ Found(t) => missed' \in [Threads -> SUBSET Requests]
<1>1. ASSUME Arrive(r) PROVE missed' \in [Threads -> SUBSET Requests]
  BY <1>1 DEF Arrive, TypeOK
<1>2. ASSUME Found(t) PROVE missed' \in [Threads -> SUBSET Requests]
  BY <1>2 DEF Found, TypeOK
<1> QED  BY <1>1, <1>2

(* An index queue holds buckets.                                            *)
LEMMA IndexTypes ==
  ASSUME TypeOK, NEW b \in Buckets, EnqueueIndex(b)
  PROVE  index' \in [Priorities -> Seq(Buckets)]
<1>1. b[1] \in Priorities /\ index[b[1]] \in Seq(Buckets)
  BY BucketFacts DEF TypeOK
<1>2. Append(index[b[1]], b) \in Seq(Buckets)
  BY <1>1, AppendFacts
<1> QED  BY <1>1, <1>2 DEF EnqueueIndex, TypeOK

Fates == [Requests -> {"new", "offered", "queued", "rejected", "taken",
                      "expired"}]

(* A fate is one of the known ones.                                         *)
LEMMA FateTypes ==
  ASSUME TypeOK, NEW r, NEW what \in {"offered", "queued", "rejected", "taken",
                                     "expired"},
         Become(r, what)
  PROVE  fate' \in Fates
BY DEF TypeOK, Become, Fates

(* A thread that takes its count back, or gives it back, has been counted. *)
CountedOnce(t) ==
  pc[t] \in {"undo", "release"} =>
    place[t][1] \in Priorities /\ count[place[t][1]] - 1 \in Nat

(* Every step keeps the types.                                             *)
LEMMA TypeStep ==
  ASSUME IInv, [Next]_vars, \A t \in Threads : CountedOnce(t)
  PROVE  TypeOK'
<1> USE DEF IInv, piles, threads
<1>1. ASSUME NEW t \in Threads, NEW r \in Requests, Reject(t, r)
      PROVE  TypeOK'
  <2>1. fate' \in Fates
    BY <1>1, FateTypes DEF Reject
  <2> QED
    BY <1>1, <2>1 DEF Reject, TypeOK, Fates
<1>2. ASSUME NEW t \in Threads, NEW r \in Requests, TryPush(t, r)
      PROVE  TypeOK'
  <2>1. Placement[r] \in Buckets
    BY PileAssumption
  <2>2. /\ pc' \in [Threads -> Steps]
        /\ cur' \in [Threads -> Requests \union {None}]
        /\ place' \in [Threads -> Buckets]
    BY <1>2, <2>1, ThreadTypes DEF TryPush, Steps, TypeOK
  <2>3. /\ queue' \in [Buckets -> Seq(Requests)]
        /\ missed' \in [Threads -> SUBSET Requests]
    BY <1>2, <2>1, QueueTypes, MissedTypes DEF TryPush
  <2>4. armed' \in [Buckets -> BOOLEAN]
    BY <1>2, <2>1 DEF TryPush, TypeOK
  <2>5. fate' \in Fates
    BY <1>2, FateTypes DEF TryPush
  <2> QED
    BY <1>2, <2>2, <2>3, <2>4, <2>5 DEF TryPush, TypeOK, Steps, Fates
<1>3. ASSUME NEW t \in Threads, NEW r \in Requests, CountUp(t, r)
      PROVE  TypeOK'
  <2>1. Placement[r] \in Buckets /\ Placement[r][1] \in Priorities
    BY PileAssumption, BucketFacts
  <2>2. /\ pc' \in [Threads -> Steps]
        /\ cur' \in [Threads -> Requests \union {None}]
        /\ place' \in [Threads -> Buckets]
    BY <1>3, <2>1, ThreadTypes DEF CountUp, Steps
  <2>3. count' \in [Priorities -> Nat]
    <3>1. CASE MaxRequests = 0
      BY <1>3, <3>1 DEF CountUp, TypeOK
    <3>2. CASE MaxRequests # 0
      <4>1. count' = [count EXCEPT ![Placement[r][1]] = @ + 1]
        BY <1>3, <3>2 DEF CountUp
      <4> QED  BY <2>1, <4>1, SMTT(30) DEF TypeOK
    <3> QED  BY <3>1, <3>2
  <2>4. fate' \in Fates
    BY <1>3, FateTypes DEF CountUp
  <2> QED
    BY <1>3, <2>2, <2>3, <2>4 DEF CountUp, TypeOK, Steps, Fates
<1>4. ASSUME NEW t \in Threads, PublishIndex(t) \/ Reindex(t)
      PROVE  TypeOK'
  <2>1. /\ pc' \in [Threads -> Steps]
        /\ cur' \in [Threads -> Requests \union {None}]
        /\ place' \in [Threads -> Buckets]
    BY <1>4, LeaveTypes DEF PublishIndex, Reindex
  <2>2. index' \in [Priorities -> Seq(Buckets)]
    BY <1>4, IndexTypes DEF PublishIndex, Reindex, TypeOK
  <2> QED
    BY <1>4, <2>1, <2>2 DEF PublishIndex, Reindex, TypeOK, Steps, Fates
<1>5. ASSUME NEW t \in Threads, CountBack(t) \/ CountDown(t)
      PROVE  TypeOK'
  <2>1. /\ pc' \in [Threads -> Steps]
        /\ cur' \in [Threads -> Requests \union {None}]
        /\ place' \in [Threads -> Buckets]
    BY <1>5, LeaveTypes DEF CountBack, CountDown
  <2>2. count' \in [Priorities -> Nat]
    BY <1>5 DEF CountedOnce, CountBack, CountDown, TypeOK
  <2>3. fate' \in Fates
    <3>1. CASE CountBack(t)
      BY <3>1, FateTypes DEF CountBack
    <3>2. CASE CountDown(t)
      BY <3>2 DEF CountDown, TypeOK, Fates
    <3> QED  BY <1>5, <3>1, <3>2
  <2> QED
    BY <1>5, <2>1, <2>2, <2>3 DEF CountBack, CountDown, TypeOK, Steps, Fates
<1>6. ASSUME NEW t \in Threads, Insert(t)
      PROVE  TypeOK'
  <2>1. cur[t] \in Requests /\ place[t] \in Buckets
    BY <1>6 DEF Insert, Hands, HandsOf, OfferSteps, TypeOK
  <2>2. /\ pc' \in [Threads -> Steps]
        /\ cur' \in [Threads -> Requests \union {None}]
        /\ place' \in [Threads -> Buckets]
    BY <1>6, LeaveTypes DEF Insert
  <2>3. /\ queue' \in [Buckets -> Seq(Requests)]
        /\ missed' \in [Threads -> SUBSET Requests]
    BY <1>6, <2>1, QueueTypes, MissedTypes DEF Insert
  <2>4. fate' \in Fates
    BY <1>6, FateTypes DEF Insert
  <2> QED
    BY <1>6, <2>2, <2>3, <2>4 DEF Insert, TypeOK, Steps, Fates
<1>7. ASSUME NEW t \in Threads, Dequeue(t)
      PROVE  TypeOK'
  <2>1. /\ pc' \in [Threads -> Steps]
        /\ cur' \in [Threads -> Requests \union {None}]
        /\ place' \in [Threads -> Buckets]
    BY <1>7, ThreadTypes, BucketFacts DEF Dequeue, Steps
  <2> QED
    BY <1>7, <2>1 DEF Dequeue, TypeOK, Steps, Fates
<1>8. ASSUME NEW t \in Threads, ScanNext(t)
      PROVE  TypeOK'
  <2>1. place[t][1] \in Priorities /\ QueuedAt(place[t][1]) \subseteq Requests
    BY BucketFacts DEF TypeOK, QueuedAt
  <2>2. place[t][1] < Len(Shape) =>
          place[t][1] + 1 \in Priorities /\ <<place[t][1] + 1, 1>> \in Buckets
    BY <2>1, BucketFacts, SMTT(30) DEF Priorities
  <2>3. /\ pc' \in [Threads -> Steps]
        /\ cur' \in [Threads -> Requests \union {None}]
        /\ place' \in [Threads -> Buckets]
    BY <1>8, <2>2, ThreadTypes, LeaveTypes DEF ScanNext, Steps
  <2>4. missed' \in [Threads -> SUBSET Requests]
    <3>1. CASE place[t][1] < Len(Shape)
      <4>1. missed' = [missed EXCEPT ![t] = @ \union QueuedAt(place[t][1])]
        BY <1>8, <3>1 DEF ScanNext
      <4> QED  BY <2>1, <4>1 DEF TypeOK
    <3>2. CASE ~(place[t][1] < Len(Shape))
      BY <1>8, <3>2 DEF ScanNext, Found, TypeOK
    <3> QED  BY <3>1, <3>2
  <2> QED
    BY <1>8, <2>3, <2>4 DEF ScanNext, TypeOK, Steps, Fates
<1>9. ASSUME NEW t \in Threads, TryDequeue(t) \/ Consume(t) \/ Discard(t)
      PROVE  TypeOK'
  <2>1. place[t] \in Buckets /\ queue[place[t]] # <<>>
    BY <1>9 DEF TryDequeue, Consume, Discard, TypeOK
  <2>2. Head(queue[place[t]]) \in Requests
    BY <2>1, TailFacts DEF TypeOK
  <2>3. /\ pc' \in [Threads -> Steps]
        /\ cur' \in [Threads -> Requests \union {None}]
        /\ place' \in [Threads -> Buckets]
    BY <1>9, <2>1, <2>2, ThreadTypes, LeaveTypes
    DEF TryDequeue, Consume, Discard, Steps
  <2>4. queue' \in [Buckets -> Seq(Requests)]
    BY <1>9, <2>1, <2>2, QueueTypes DEF TryDequeue, Consume, Discard
  <2>5. missed' \in [Threads -> SUBSET Requests]
    BY <1>9 DEF TryDequeue, Consume, Discard, Found, TypeOK
  <2>6. fate' \in Fates
    BY <1>9, FateTypes DEF TryDequeue, Consume, Discard
  <2> QED
    BY <1>9, <2>3, <2>4, <2>5, <2>6
    DEF TryDequeue, Consume, Discard, TypeOK, Steps, Fates
<1>10. ASSUME NEW t \in Threads, TryDequeueIndex(t)
       PROVE  TypeOK'
  <2> DEFINE p == place[t][1]
             b == Head(index[p])
  <2>1. p \in Priorities /\ index[p] \in Seq(Buckets) /\ index[p] # <<>>
    BY <1>10, BucketFacts DEF TryDequeueIndex, TypeOK
  <2>2. b \in Buckets /\ Tail(index[p]) \in Seq(Buckets)
    BY <2>1, TailFacts
  <2>3. /\ pc' \in [Threads -> Steps]
        /\ cur' \in [Threads -> Requests \union {None}]
        /\ place' \in [Threads -> Buckets]
    BY <1>10, <2>2, ThreadTypes DEF TryDequeueIndex, Steps
  <2>4. index' \in [Priorities -> Seq(Buckets)]
    BY <1>10, <2>1, <2>2 DEF TryDequeueIndex, TypeOK
  <2>5. missed' \in [Threads -> SUBSET Requests]
    BY <1>10 DEF TryDequeueIndex, Found, TypeOK
  <2>6. overtaken' \subseteq Buckets \X Buckets
    BY <1>10, <2>2, SMTT(30) DEF TryDequeueIndex, TypeOK
  <2> QED
    BY <1>10, <2>3, <2>4, <2>5, <2>6 DEF TryDequeueIndex, TypeOK, Steps, Fates
<1>11. ASSUME NEW t \in Threads, DriveOn(t) \/ Arm(t)
       PROVE  TypeOK'
  <2>1. place[t] \in Buckets /\ cur[t] \in Requests \union {None}
    BY DEF TypeOK
  <2>2. /\ pc' \in [Threads -> Steps]
        /\ cur' \in [Threads -> Requests \union {None}]
        /\ place' \in [Threads -> Buckets]
    BY <1>11, <2>1, ThreadTypes, LeaveTypes DEF DriveOn, Arm, Steps
  <2>3. armed' \in [Buckets -> BOOLEAN]
    BY <1>11, <2>1 DEF DriveOn, Arm, TypeOK
  <2> QED
    BY <1>11, <2>2, <2>3 DEF DriveOn, Arm, TypeOK, Steps, Fates
<1>12. ASSUME NEW r \in Requests, Expire(r)
       PROVE  TypeOK'
  BY <1>12 DEF Expire, TypeOK
<1>13. CASE UNCHANGED vars
  BY <1>13 DEF vars, TypeOK
<1> QED
  BY <1>1, <1>2, <1>3, <1>4, <1>5, <1>6, <1>7, <1>8, <1>9, <1>10, <1>11,
     <1>12, <1>13 DEF Next

-----------------------------------------------------------------------------
(* The effects of the operations, point by point.                          *)
Pushed(b, r) ==
  /\ queue'[b] = Append(queue[b], r)
  /\ \A c \in Buckets \ {b} : queue'[c] = queue[c]
Popped(b) ==
  /\ queue[b] # <<>> /\ queue'[b] = Tail(queue[b])
  /\ \A c \in Buckets \ {b} : queue'[c] = queue[c]
Turned(r, what) ==
  /\ fate'[r] = what
  /\ \A q \in Requests \ {r} : fate'[q] = fate[q]

(* A push changes one queue, ...                                            *)
LEMMA PushEffect ==
  ASSUME TypeOK, NEW b \in Buckets, NEW r,
         queue' = [queue EXCEPT ![b] = Append(@, r)]
  PROVE  Pushed(b, r)
BY DEF TypeOK, Pushed

(* ... so does a pop, ...                                                   *)
LEMMA PopEffect ==
  ASSUME TypeOK, NEW b \in Buckets, queue[b] # <<>>,
         queue' = [queue EXCEPT ![b] = Tail(@)]
  PROVE  Popped(b)
BY DEF TypeOK, Popped

(* ... and the fate of one request changes.                                 *)
LEMMA FateEffect ==
  ASSUME TypeOK, NEW r \in Requests, NEW what, Become(r, what)
  PROVE  Turned(r, what)
BY DEF TypeOK, Become, Turned

(* The effect of each action on the queues, on the fates and on the        *)
(* threads.                                                                *)
LEMMA RejectEffect ==
  ASSUME TypeOK, NEW t \in Threads, NEW r \in Requests, Reject(t, r)
  PROVE  fate[r] = "new" /\ Turned(r, "rejected")
BY FateEffect DEF Reject

(* A push on a notification queue: the bucket is not armed any more.        *)
LEMMA TryPushEffect ==
  ASSUME TypeOK, NEW t \in Threads, NEW r \in Requests, TryPush(t, r)
  PROVE  /\ Placement[r] \in Buckets /\ fate[r] = "new"
         /\ Pushed(Placement[r], r) /\ Turned(r, "queued")
         /\ armed[Placement[r]] => Moved(t, "index", None, Placement[r])
         /\ ~armed[Placement[r]] => threads' = threads
         /\ \A c \in Buckets :
              armed'[c] = IF c = Placement[r] THEN FALSE ELSE armed[c]
<1>1. Placement[r] \in Buckets
  BY PileAssumption
<1>2. \A c \in Buckets :
        armed'[c] = IF c = Placement[r] THEN FALSE ELSE armed[c]
  BY <1>1 DEF TryPush, TypeOK
<1> QED  BY <1>1, <1>2, PushEffect, FateEffect, GotoMoves DEF TryPush

(* The count comes before the queue: the request is offered.                *)
LEMMA CountUpEffect ==
  ASSUME TypeOK, NEW t \in Threads, NEW r \in Requests, CountUp(t, r)
  PROVE  /\ Placement[r] \in Buckets /\ Placement[r][1] \in Priorities
         /\ fate[r] = "new" /\ Turned(r, "offered")
         /\ \/ Moved(t, "insert", r, Placement[r])
            \/ MaxRequests # 0 /\ Moved(t, "undo", r, Placement[r])
<1>1. Placement[r] \in Buckets /\ Placement[r][1] \in Priorities
  BY PileAssumption, BucketFacts
<1>2. CASE MaxRequests = 0
  BY <1>1, <1>2, FateEffect, GotoMoves DEF CountUp
<1>3. CASE MaxRequests # 0 /\ count[Placement[r][1]] >= MaxRequests
  BY <1>1, <1>3, FateEffect, GotoMoves DEF CountUp
<1>4. CASE MaxRequests # 0 /\ ~(count[Placement[r][1]] >= MaxRequests)
  BY <1>1, <1>4, FateEffect, GotoMoves DEF CountUp
<1> QED  BY <1>2, <1>3, <1>4

(* The thread that offers a request inserts or withdraws it.                *)
LEMMA OfferedEffect ==
  ASSUME TypeOK, Hands, NEW t \in Threads, CountBack(t) \/ Insert(t)
  PROVE  /\ place[t] \in Buckets /\ cur[t] \in Requests
         /\ ~Multi(place[t][1]) /\ Placement[cur[t]] = place[t]
         /\ fate[cur[t]] = "offered" /\ Moved(t, "out", None, <<1, 1>>)
         /\ CountBack(t) => Turned(cur[t], "rejected")
         /\ Insert(t) => Pushed(place[t], cur[t]) /\ Turned(cur[t], "queued")
<1>1. pc[t] \in OfferSteps /\ Moved(t, "out", None, <<1, 1>>)
  BY LeaveTypes DEF CountBack, Insert, OfferSteps
<1>2. /\ place[t] \in Buckets /\ cur[t] \in Requests
      /\ ~Multi(place[t][1]) /\ Placement[cur[t]] = place[t]
      /\ fate[cur[t]] = "offered"
  BY <1>1 DEF TypeOK, Hands, HandsOf
<1>3. CountBack(t) => Turned(cur[t], "rejected")
  BY <1>2, FateEffect DEF CountBack
<1>4. Insert(t) => Pushed(place[t], cur[t]) /\ Turned(cur[t], "queued")
  BY <1>2, FateEffect, PushEffect DEF Insert
<1> QED  BY <1>1, <1>2, <1>3, <1>4

(* A request is taken from the front of its bucket.                         *)
LEMMA TakeEffect ==
  ASSUME TypeOK, Contents, NEW t \in Threads,
         TryDequeue(t) \/ Consume(t) \/ Discard(t)
  PROVE  /\ place[t] \in Buckets /\ Popped(place[t])
         /\ Head(queue[place[t]]) \in Requests
         /\ fate[Head(queue[place[t]])] = "queued"
         /\ Placement[Head(queue[place[t]])] = place[t]
         /\ \/ Turned(Head(queue[place[t]]), "taken")
            \/ Turned(Head(queue[place[t]]), "expired")
         /\ TryDequeue(t) => \/ Moved(t, "out", None, <<1, 1>>)
                             \/ /\ MaxRequests # 0
                                /\ Moved(t, "release", None, place[t])
         /\ Consume(t) => Moved(t, "arm", Head(queue[place[t]]), place[t])
         /\ Discard(t) => Moved(t, "more", None, place[t])
<1> DEFINE b == place[t]
<1>1. b \in Buckets /\ queue[b] # <<>> /\ queue[b] \in Seq(Requests)
  BY DEF TryDequeue, Consume, Discard, TypeOK
<1>2. Popped(b)
  BY <1>1, PopEffect DEF TryDequeue, Consume, Discard
<1>3. Head(queue[b]) \in Requests /\ Head(queue[b]) = queue[b][1]
        /\ 1 \in 1..Len(queue[b])
  BY <1>1, TailFacts, SMTT(30)
<1>4. fate[Head(queue[b])] = "queued" /\ Placement[Head(queue[b])] = b
  BY <1>1, <1>3, SMTT(30) DEF Contents
<1>5. \/ Turned(Head(queue[b]), "taken")
      \/ Turned(Head(queue[b]), "expired")
  BY <1>3, FateEffect DEF TryDequeue, Consume, Discard
<1>6. TryDequeue(t) => \/ Moved(t, "out", None, <<1, 1>>)
                       \/ MaxRequests # 0 /\ Moved(t, "release", None, b)
  BY LeaveTypes, GotoMoves DEF TryDequeue
<1>7. Consume(t) => Moved(t, "arm", Head(queue[b]), b)
  BY GotoMoves DEF Consume
<1>8. Discard(t) => Moved(t, "more", None, b)
  BY GotoMoves DEF Discard
<1> QED  BY <1>1, <1>2, <1>3, <1>4, <1>5, <1>6, <1>7, <1>8

(* The effect of the other actions on the threads.                         *)
LEMMA MoveEffect ==
  ASSUME TypeOK, NEW t \in Threads
  PROVE  /\ PublishIndex(t) \/ Reindex(t) \/ CountDown(t)
              => Moved(t, "out", None, <<1, 1>>)
         /\ Dequeue(t) => Moved(t, "scan", None, <<1, 1>>)
         /\ ScanNext(t) => \/ Moved(t, "out", None, <<1, 1>>)
                           \/ Moved(t, "scan", None, <<place[t][1] + 1, 1>>)
         /\ TryDequeueIndex(t) =>
              Moved(t, "drive", None, Head(index[place[t][1]]))
         /\ DriveOn(t) => \/ Moved(t, "arm", None, place[t])
                          \/ /\ queue[place[t]] # <<>>
                             /\ Moved(t, "drive", None, place[t])
         /\ Arm(t) => IF queue[place[t]] = <<>>
                      THEN Moved(t, "out", None, <<1, 1>>)
                      ELSE Moved(t, "reindex", cur[t], place[t])
<1>1. PublishIndex(t) \/ Reindex(t) \/ CountDown(t)
        => Moved(t, "out", None, <<1, 1>>)
  BY LeaveTypes DEF PublishIndex, Reindex, CountDown
<1>2. Dequeue(t) => Moved(t, "scan", None, <<1, 1>>)
  BY GotoMoves DEF Dequeue
<1>3. ScanNext(t) => \/ Moved(t, "out", None, <<1, 1>>)
                     \/ Moved(t, "scan", None, <<place[t][1] + 1, 1>>)
  BY GotoMoves, LeaveTypes DEF ScanNext
<1>4. TryDequeueIndex(t) => Moved(t, "drive", None, Head(index[place[t][1]]))
  BY GotoMoves DEF TryDequeueIndex
<1>5. ASSUME DriveOn(t)
      PROVE  \/ Moved(t, "arm", None, place[t])
             \/ queue[place[t]] # <<>> /\ Moved(t, "drive", None, place[t])
  <2>1. CASE queue[place[t]] = <<>>
    BY <1>5, <2>1, GotoMoves DEF DriveOn
  <2>2. CASE queue[place[t]] # <<>>
    BY <1>5, <2>2, GotoMoves DEF DriveOn
  <2> QED  BY <2>1, <2>2
<1>6. Arm(t) => IF queue[place[t]] = <<>>
                THEN Moved(t, "out", None, <<1, 1>>)
                ELSE Moved(t, "reindex", cur[t], place[t])
  BY GotoMoves, LeaveTypes DEF Arm
<1> QED  BY <1>1, <1>2, <1>3, <1>4, <1>5, <1>6

-----------------------------------------------------------------------------
(* The requests in the pile and the queues agree.                          *)

(* Nothing enters or leaves the pile.                                      *)
LEMMA ContentsFrame ==
  ASSUME TypeOK, Contents, queue' = queue,
         \A r \in Requests : fate'[r] = "queued" <=> fate[r] = "queued"
  PROVE  Contents'
<1>1. \A b \in Buckets : \A i \in 1..Len(queue[b]) : queue[b][i] \in Requests
  BY EmptyFacts DEF TypeOK
<1> QED  BY <1>1, SMTT(30) DEF Contents

(* A request that is not in the pile is pushed.                            *)
LEMMA ContentsPush ==
  ASSUME TypeOK, Contents, NEW r \in Requests, Placement[r] \in Buckets,
         fate[r] # "queued", Pushed(Placement[r], r), Turned(r, "queued")
  PROVE  Contents'
<1> DEFINE b == Placement[r]
           n == Len(queue[b])
<1>1. /\ n \in Nat /\ Len(queue'[b]) = n + 1 /\ queue'[b][n + 1] = r
      /\ \A i \in 1..n : queue'[b][i] = queue[b][i]
  BY AppendFacts, SMTT(30) DEF Pushed, TypeOK
<1>2. \A c \in Buckets : \A i \in 1..Len(queue[c]) :
        queue[c][i] \in Requests /\ queue[c][i] # r
  <2>1. \A c \in Buckets : \A i \in 1..Len(queue[c]) : queue[c][i] \in Requests
    BY EmptyFacts DEF TypeOK
  <2>2. \A c \in Buckets : \A i \in 1..Len(queue[c]) :
          fate[queue[c][i]] = "queued"
    BY DEF Contents
  <2> QED  BY <2>1, <2>2
<1>3. ASSUME NEW c \in Buckets, NEW i \in 1..Len(queue'[c])
      PROVE  /\ fate'[queue'[c][i]] = "queued" /\ Placement[queue'[c][i]] = c
             /\ \A j \in 1..Len(queue'[c]) :
                  queue'[c][i] = queue'[c][j] => i = j
  <2>1. CASE c # b
    <3>1. queue'[c] = queue[c]
      BY <2>1 DEF Pushed
    <3> QED  BY <1>2, <3>1, SMTT(30) DEF Contents, Turned
  <2>2. CASE c = b /\ i \in 1..n
    <3>1. queue'[c][i] = queue[b][i] /\ queue[b][i] \in Requests \ {r}
      BY <1>1, <1>2, <2>2
    <3>2. fate'[queue'[c][i]] = "queued" /\ Placement[queue'[c][i]] = c
      BY <2>2, <3>1, SMTT(30) DEF Contents, Turned
    <3>3. ASSUME NEW j \in 1..Len(queue'[c]), queue'[c][i] = queue'[c][j]
          PROVE  i = j
      <4>1. j \in 1..n
        BY <1>1, <2>2, <3>1, <3>3, SMTT(30)
      <4> QED  BY <1>1, <2>2, <3>1, <3>3, <4>1, SMTT(30) DEF Contents
    <3> QED  BY <3>2, <3>3
  <2>3. CASE c = b /\ i = n + 1
    BY <1>1, <1>2, <2>3, SMTT(30) DEF Turned
  <2> QED  BY <1>1, <2>1, <2>2, <2>3, SMTT(30)
<1>4. ASSUME NEW q \in Requests, fate'[q] = "queued"
      PROVE  \E i \in 1..Len(queue'[Placement[q]]) :
               queue'[Placement[q]][i] = q
  <2>1. CASE q = r
    BY <1>1, <2>1, SMTT(30)
  <2>2. CASE q # r
    <3>1. fate[q] = "queued" /\ Placement[q] \in Buckets
      BY <1>4, <2>2, PileAssumption DEF Turned
    <3>2. PICK i \in 1..Len(queue[Placement[q]]) : queue[Placement[q]][i] = q
      BY <3>1 DEF Contents
    <3>3. CASE Placement[q] = b
      BY <1>1, <3>2, <3>3, SMTT(30)
    <3>4. CASE Placement[q] # b
      BY <3>1, <3>2, <3>4 DEF Pushed
    <3> QED  BY <3>3, <3>4
  <2> QED  BY <2>1, <2>2
<1> QED  BY <1>3, <1>4 DEF Contents

(* The first request of a bucket leaves.                                   *)
LEMMA ContentsPop ==
  ASSUME TypeOK, Contents, NEW b \in Buckets, Popped(b),
         \/ Turned(Head(queue[b]), "taken")
         \/ Turned(Head(queue[b]), "expired")
  PROVE  Contents'
<1> DEFINE n == Len(queue[b])
           h == Head(queue[b])
<1>1. /\ n \in Nat \ {0} /\ Len(queue'[b]) = n - 1 /\ h = queue[b][1]
      /\ h \in Requests /\ \A i \in 1..n - 1 : queue'[b][i] = queue[b][i + 1]
  BY TailFacts, SMTT(30) DEF Popped, TypeOK
<1>2. \A c \in Buckets : \A i \in 1..Len(queue[c]) : queue[c][i] \in Requests
  BY EmptyFacts DEF TypeOK
<1>3. fate'[h] # "queued" /\ \A q \in Requests \ {h} : fate'[q] = fate[q]
  BY DEF Turned
<1>4. Placement[h] = b /\ 1 \in 1..n
  BY <1>1, SMTT(30) DEF Contents
<1>5. ASSUME NEW c \in Buckets, NEW i \in 1..Len(queue'[c])
      PROVE  /\ fate'[queue'[c][i]] = "queued" /\ Placement[queue'[c][i]] = c
             /\ \A j \in 1..Len(queue'[c]) :
                  queue'[c][i] = queue'[c][j] => i = j
  <2>1. CASE c # b
    <3>1. queue'[c] = queue[c]
      BY <2>1 DEF Popped
    <3>2. /\ queue[c][i] \in Requests /\ fate[queue[c][i]] = "queued"
          /\ Placement[queue[c][i]] = c
      BY <1>2, <3>1 DEF Contents
    <3>3. queue[c][i] # h
      BY <1>4, <2>1, <3>2
    <3>4. fate'[queue[c][i]] = "queued"
      BY <1>3, <3>2, <3>3
    <3> QED  BY <3>1, <3>2, <3>4, SMTT(30) DEF Contents
  <2>2. CASE c = b
    <3>1. i \in 1..n - 1 /\ i + 1 \in 1..n /\ queue'[b][i] = queue[b][i + 1]
      BY <1>1, <2>2, SMTT(30)
    <3>2. /\ fate[queue[b][i + 1]] = "queued" /\ Placement[queue[b][i + 1]] = b
          /\ \A j \in 1..n : queue[b][i + 1] = queue[b][j] => i + 1 = j
      BY <3>1 DEF Contents
    <3>3. queue[b][i + 1] \in Requests \ {h}
      BY <1>1, <1>2, <1>4, <3>1, <3>2, SMTT(30)
    <3>4. ASSUME NEW j \in 1..Len(queue'[b]), queue'[b][i] = queue'[b][j]
          PROVE  i = j
      BY <1>1, <3>1, <3>2, <3>4, SMTT(30)
    <3> QED  BY <1>3, <2>2, <3>1, <3>2, <3>3, <3>4
  <2> QED  BY <2>1, <2>2
<1>6. ASSUME NEW q \in Requests, fate'[q] = "queued"
      PROVE  \E i \in 1..Len(queue'[Placement[q]]) :
               queue'[Placement[q]][i] = q
  <2>1. q # h /\ fate[q] = "queued" /\ Placement[q] \in Buckets
    BY <1>3, <1>6, PileAssumption
  <2>2. PICK i \in 1..Len(queue[Placement[q]]) : queue[Placement[q]][i] = q
    BY <2>1 DEF Contents
  <2>3. CASE Placement[q] = b
    <3>1. i # 1 /\ i - 1 \in 1..n - 1 /\ queue'[b][i - 1] = queue[b][i]
      BY <1>1, <2>1, <2>2, <2>3, SMTT(30)
    <3> QED  BY <1>1, <2>2, <2>3, <3>1
  <2>4. CASE Placement[q] # b
    BY <2>1, <2>2, <2>4 DEF Popped
  <2> QED  BY <2>3, <2>4
<1> QED  BY <1>5, <1>6 DEF Contents

(* Every step keeps them so.                                               *)
LEMMA ContentsStep ==
  ASSUME IInv, [Next]_vars
  PROVE  Contents'
<1>0. TypeOK /\ Hands /\ Contents
  BY DEF IInv
<1>1. ASSUME NEW t \in Threads, NEW r \in Requests, Reject(t, r)
      PROVE  Contents'
  BY <1>0, <1>1, RejectEffect, ContentsFrame DEF Reject, Turned
<1>2. ASSUME NEW t \in Threads, NEW r \in Requests, TryPush(t, r)
      PROVE  Contents'
  BY <1>0, <1>2, TryPushEffect, ContentsPush
<1>3. ASSUME NEW t \in Threads, NEW r \in Requests, CountUp(t, r)
      PROVE  Contents'
  BY <1>0, <1>3, CountUpEffect, ContentsFrame DEF CountUp, Turned
<1>4. ASSUME NEW t \in Threads, CountBack(t)
      PROVE  Contents'
  BY <1>0, <1>4, OfferedEffect, ContentsFrame DEF CountBack, Turned
<1>5. ASSUME NEW t \in Threads, Insert(t)
      PROVE  Contents'
  BY <1>0, <1>5, OfferedEffect, ContentsPush
<1>6. ASSUME NEW t \in Threads, TryDequeue(t) \/ Consume(t) \/ Discard(t)
      PROVE  Contents'
  BY <1>0, <1>6, TakeEffect, ContentsPop
<1>7. ASSUME NEW t \in Threads,
             \/ PublishIndex(t) \/ Dequeue(t) \/ ScanNext(t) \/ CountDown(t)
             \/ TryDequeueIndex(t) \/ DriveOn(t) \/ Arm(t) \/ Reindex(t)
      PROVE  Contents'
  <2>1. queue' = queue /\ fate' = fate
    BY <1>7 DEF PublishIndex, Dequeue, ScanNext, CountDown, TryDequeueIndex,
                DriveOn, Arm, Reindex, piles
  <2> QED  BY <1>0, <2>1, ContentsFrame
<1>8. ASSUME NEW r \in Requests, Expire(r)
      PROVE  Contents'
  BY <1>0, <1>8, ContentsFrame DEF Expire
<1>9. CASE UNCHANGED vars
  BY <1>0, <1>9, ContentsFrame DEF vars, piles
<1> QED
  BY <1>1, <1>2, <1>3, <1>4, <1>5, <1>6, <1>7, <1>8, <1>9 DEF Next

-----------------------------------------------------------------------------
(* What the threads have in their hands.                                   *)

(* A thread that does not move keeps what it has, if no one spoils it.     *)
LEMMA HandsStay ==
  ASSUME NEW u \in Threads, HandsOf(u),
         pc'[u] = pc[u], cur'[u] = cur[u], place'[u] = place[u],
         pc[u] \in OfferSteps => fate'[cur[u]] = "offered",
         pc[u] \in {"index", "drive", "reindex"} => queue'[place[u]] # <<>>,
         pc[u] # "scan" => missed'[u] = {}
  PROVE  HandsOf(u)'
BY DEF HandsOf

(* What a dequeue has missed is forgotten when it ends.                    *)
LEMMA MissedEffect ==
  ASSUME TypeOK, Hands, NEW t \in Threads
  PROVE  /\ Found(t) => /\ missed'[t] = {}
                        /\ \A u \in Threads \ {t} : missed'[u] = missed[u]
         /\ \A r : Arrive(r) => \A u \in Threads :
              pc[u] # "scan" => missed'[u] = {}
         /\ ScanNext(t) => \A u \in Threads \ {t} : missed'[u] = missed[u]
<1>1. ASSUME Found(t)
      PROVE  missed'[t] = {} /\ \A u \in Threads \ {t} : missed'[u] = missed[u]
  BY <1>1 DEF Found, TypeOK
<1>2. ASSUME NEW r, Arrive(r), NEW u \in Threads, pc[u] # "scan"
      PROVE  missed'[u] = {}
  BY <1>2 DEF Arrive, Hands, HandsOf
<1>3. ASSUME ScanNext(t), NEW u \in Threads \ {t}
      PROVE  missed'[u] = missed[u]
  <2>1. \/ missed' = [missed EXCEPT ![t] = @ \union QueuedAt(place[t][1])]
        \/ missed' = [missed EXCEPT ![t] = {}]
    BY <1>3 DEF ScanNext, Found
  <2> QED  BY <1>3, <2>1 DEF TypeOK
<1> QED  BY <1>1, <1>2, <1>3

(* A push leaves no queue empty, a pop no other queue.                     *)
LEMMA NonEmpty ==
  ASSUME TypeOK
  PROVE  /\ \A b \in Buckets, r \in Requests : Pushed(b, r) =>
              /\ queue'[b] # <<>>
              /\ \A c \in Buckets : queue[c] # <<>> => queue'[c] # <<>>
         /\ \A b \in Buckets : Popped(b) =>
              \A c \in Buckets \ {b} : queue[c] # <<>> => queue'[c] # <<>>
<1>1. ASSUME NEW b \in Buckets, NEW r \in Requests, Pushed(b, r)
      PROVE  /\ queue'[b] # <<>>
             /\ \A c \in Buckets : queue[c] # <<>> => queue'[c] # <<>>
  <2>1. queue[b] \in Seq(Requests) /\ queue'[b] = Append(queue[b], r)
    BY <1>1 DEF Pushed, TypeOK
  <2>2. queue'[b] # <<>>
    BY <2>1, AppendFacts, SMTT(30)
  <2> QED  BY <1>1, <2>2 DEF Pushed
<1> QED  BY <1>1 DEF Popped

(* Enqueueing keeps hold of what the threads have.                         *)
LEMMA HandsEnqueue ==
  ASSUME IInv, NEW t \in Threads
  PROVE  /\ \A r \in Requests :
              Reject(t, r) \/ TryPush(t, r) \/ CountUp(t, r) => Hands'
         /\ CountBack(t) \/ Insert(t) => Hands'
<1>0. TypeOK /\ Hands /\ OwnOffer
  BY DEF IInv
<1>1. ASSUME NEW r \in Requests, Reject(t, r), NEW u \in Threads
      PROVE  HandsOf(u)'
  <2>1. /\ pc' = pc /\ cur' = cur /\ place' = place /\ missed' = missed
        /\ queue' = queue /\ fate[r] = "new"
    BY <1>1 DEF Reject, threads
  <2>2. \A q \in Requests : fate[q] = "offered" => fate'[q] = "offered"
    BY <1>0, <1>1, <2>1, RejectEffect DEF Turned
  <2> QED  BY <1>0, <2>1, <2>2 DEF Hands, HandsOf
<1>2. ASSUME NEW r \in Requests, TryPush(t, r), NEW u \in Threads
      PROVE  HandsOf(u)'
  <2>1. /\ Placement[r] \in Buckets /\ fate[r] = "new"
        /\ Pushed(Placement[r], r) /\ Turned(r, "queued")
        /\ armed[Placement[r]] => Moved(t, "index", None, Placement[r])
        /\ ~armed[Placement[r]] => threads' = threads
        /\ Multi(Placement[r][1]) /\ Arrive(r) /\ pc[t] = "out"
    BY <1>0, <1>2, TryPushEffect DEF TryPush
  <2>2. \A q \in Requests : fate[q] = "offered" => fate'[q] = "offered"
    BY <2>1 DEF Turned
  <2>3. /\ queue'[Placement[r]] # <<>>
        /\ \A c \in Buckets : queue[c] # <<>> => queue'[c] # <<>>
    BY <1>0, <2>1, NonEmpty
  <2>4. pc[u] # "scan" => missed'[u] = {}
    BY <1>0, <2>1, MissedEffect
  <2>5. CASE u # t \/ ~armed[Placement[r]]
    <3>1. pc'[u] = pc[u] /\ cur'[u] = cur[u] /\ place'[u] = place[u]
      BY <2>1, <2>5 DEF Moved, threads
    <3>2. HandsOf(u) /\ place[u] \in Buckets
      BY <1>0 DEF Hands, TypeOK
    <3>3. pc[u] \in OfferSteps => fate'[cur[u]] = "offered"
      BY <2>2, <3>2 DEF HandsOf
    <3>4. pc[u] \in {"index", "drive", "reindex"} => queue'[place[u]] # <<>>
      BY <2>3, <3>2 DEF HandsOf
    <3> QED  BY <2>4, <3>1, <3>2, <3>3, <3>4, HandsStay
  <2>6. CASE u = t /\ armed[Placement[r]]
    <3>1. pc'[u] = "index" /\ place'[u] = Placement[r] /\ missed'[u] = {}
      BY <2>1, <2>4, <2>6 DEF Moved
    <3> QED  BY <2>1, <2>3, <3>1 DEF HandsOf, OfferSteps
  <2> QED  BY <2>5, <2>6
<1>3. ASSUME NEW r \in Requests, CountUp(t, r), NEW u \in Threads
      PROVE  HandsOf(u)'
  <2>1. /\ queue' = queue /\ missed' = missed /\ pc[t] = "out"
        /\ ~Multi(Placement[r][1]) /\ fate[r] = "new" /\ Turned(r, "offered")
        /\ \/ Moved(t, "insert", r, Placement[r])
           \/ MaxRequests # 0 /\ Moved(t, "undo", r, Placement[r])
    BY <1>0, <1>3, CountUpEffect DEF CountUp
  <2>2. \A q \in Requests : fate[q] = "offered" => fate'[q] = "offered"
    BY <2>1 DEF Turned
  <2>3. HandsOf(u) /\ HandsOf(t)
    BY <1>0 DEF Hands
  <2>4. CASE u # t
    <3>1. pc'[u] = pc[u] /\ cur'[u] = cur[u] /\ place'[u] = place[u]
      BY <2>1, <2>4 DEF Moved
    <3> QED  BY <2>1, <2>2, <2>3, <3>1 DEF HandsOf
  <2>5. CASE u = t
    <3>1. /\ pc'[u] \in OfferSteps /\ (pc'[u] = "undo" => MaxRequests # 0)
          /\ cur'[u] = r /\ place'[u] = Placement[r] /\ missed'[u] = {}
          /\ fate'[r] = "offered"
      BY <2>1, <2>3, <2>5 DEF Moved, OfferSteps, HandsOf, Turned
    <3> QED  BY <2>1, <3>1 DEF HandsOf, OfferSteps, HolderSteps
  <2> QED  BY <2>4, <2>5
<1>4. ASSUME CountBack(t) \/ Insert(t), NEW u \in Threads
      PROVE  HandsOf(u)'
  <2>1. /\ place[t] \in Buckets /\ cur[t] \in Requests
        /\ Moved(t, "out", None, <<1, 1>>) /\ pc[t] \in OfferSteps
        /\ Turned(cur[t], "rejected") \/ Turned(cur[t], "queued")
    BY <1>0, <1>4, OfferedEffect DEF CountBack, Insert, OfferSteps
  <2>2. \A c \in Buckets : queue[c] # <<>> => queue'[c] # <<>>
    <3>1. CASE CountBack(t)
      BY <3>1 DEF CountBack
    <3>2. CASE Insert(t)
      BY <1>0, <2>1, <3>2, OfferedEffect, NonEmpty
    <3> QED  BY <1>4, <3>1, <3>2
  <2>3. pc[u] # "scan" => missed'[u] = {}
    <3>1. CASE CountBack(t)
      BY <1>0, <3>1 DEF CountBack, Hands, HandsOf
    <3>2. CASE Insert(t)
      BY <1>0, <3>2, MissedEffect DEF Insert
    <3> QED  BY <1>4, <3>1, <3>2
  <2>4. HandsOf(u) /\ place[u] \in Buckets
    BY <1>0 DEF Hands, TypeOK
  <2>5. CASE u # t
    <3>1. pc'[u] = pc[u] /\ cur'[u] = cur[u] /\ place'[u] = place[u]
      BY <2>1, <2>5 DEF Moved
    <3>2. pc[u] \in OfferSteps => cur[u] \in Requests \ {cur[t]}
      BY <1>0, <2>1, <2>4, <2>5 DEF OwnOffer, HandsOf
    <3>3. pc[u] \in OfferSteps => fate'[cur[u]] = "offered"
      BY <2>1, <2>4, <3>2 DEF HandsOf, Turned
    <3>4. pc[u] \in {"index", "drive", "reindex"} => queue'[place[u]] # <<>>
      BY <2>2, <2>4 DEF HandsOf
    <3> QED  BY <2>3, <2>4, <3>1, <3>3, <3>4, HandsStay
  <2>6. CASE u = t
    <3>1. pc'[u] = "out" /\ missed'[u] = {}
      BY <2>1, <2>3, <2>6 DEF Moved, OfferSteps
    <3> QED  BY <3>1 DEF HandsOf, OfferSteps, HolderSteps
  <2> QED  BY <2>5, <2>6
<1> QED  BY <1>1, <1>2, <1>3, <1>4 DEF Hands

(* The head of an index queue is a published bucket of that priority.      *)
LEMMA IndexHead ==
  ASSUME IInv, NEW p \in Priorities, index[p] # <<>>
  PROVE  /\ index[p] \in Seq(Buckets) /\ Head(index[p]) \in Buckets
         /\ Head(index[p]) = index[p][1] /\ Len(index[p]) \in Nat \ {0}
         /\ Head(index[p])[1] = p /\ Multi(p) /\ IsPublished(Head(index[p]))
         /\ queue[Head(index[p])] # <<>>
<1>1. index[p] \in Seq(Buckets) /\ OneOwner
  BY DEF IInv, TypeOK
<1>2. /\ Head(index[p]) \in Buckets /\ Head(index[p]) = index[p][1]
      /\ Len(index[p]) \in Nat \ {0}
  BY <1>1, TailFacts
<1>3. 1 \in 1..Len(index[p])
  BY <1>2, SMTT(30)
<1>4. Head(index[p])[1] = p /\ Multi(p)
  BY <1>1, <1>2, <1>3 DEF OneOwner, IndexOf
<1>5. IsPublished(Head(index[p]))
  BY <1>2, <1>3, <1>4 DEF IsPublished
<1> QED  BY <1>1, <1>2, <1>4, <1>5 DEF OneOwner, OwnerOf

(* Only the thread that holds a bucket pops from it.                       *)
LEMMA PopAlone ==
  ASSUME IInv, NEW t \in Threads, NEW u \in Threads \ {t},
         TryDequeue(t) \/ Consume(t) \/ Discard(t), pc[u] \in HolderSteps
  PROVE  place[u] # place[t]
<1>1. Hands /\ OneOwner /\ place[t] \in Buckets
  BY DEF IInv, TypeOK
<1>2. Multi(place[u][1])
  BY <1>1 DEF Hands, HandsOf
<1>3. CASE TryDequeue(t)
  BY <1>2, <1>3 DEF TryDequeue
<1>4. CASE Consume(t) \/ Discard(t)
  <2>1. Holds(t, place[t])
    BY <1>4 DEF Holds, HolderSteps, Consume, Discard
  <2>2. Multi(place[t][1])
    BY <1>1, <2>1 DEF Hands, HandsOf, Holds
  <2> QED  BY <1>1, <2>1, <2>2 DEF OneOwner, OwnerOf, Holds
<1> QED  BY <1>3, <1>4

(* Dequeueing keeps hold of what the threads have.                         *)
LEMMA HandsDequeue ==
  ASSUME IInv, NEW t \in Threads,
         \/ PublishIndex(t) \/ Dequeue(t) \/ ScanNext(t) \/ TryDequeue(t)
         \/ CountDown(t) \/ TryDequeueIndex(t) \/ Consume(t) \/ Discard(t)
         \/ DriveOn(t) \/ Arm(t) \/ Reindex(t)
  PROVE  Hands'
<1>0. TypeOK /\ Hands /\ Contents /\ OneOwner
  BY DEF IInv
<1>1. ASSUME PublishIndex(t) \/ Reindex(t) \/ CountDown(t), NEW u \in Threads
      PROVE  HandsOf(u)'
  <2>1. /\ queue' = queue /\ fate' = fate /\ missed' = missed
        /\ Moved(t, "out", None, <<1, 1>>) /\ pc[t] # "scan"
    BY <1>0, <1>1, MoveEffect DEF PublishIndex, Reindex, CountDown
  <2> QED  BY <1>0, <2>1 DEF Hands, HandsOf, Moved, OfferSteps, HolderSteps
<1>2. ASSUME Dequeue(t), NEW u \in Threads
      PROVE  HandsOf(u)'
  <2>1. /\ queue' = queue /\ fate' = fate /\ missed' = missed
        /\ Moved(t, "scan", None, <<1, 1>>)
    BY <1>0, <1>2, MoveEffect DEF Dequeue, piles
  <2>2. HandsOf(u)
    BY <1>0 DEF Hands
  <2>3. CASE u = t
    BY <2>1, <2>3, SMTT(30) DEF HandsOf, Moved, OfferSteps, HolderSteps
  <2>4. CASE u # t
    BY <2>1, <2>2, <2>4 DEF HandsOf, Moved
  <2> QED  BY <2>3, <2>4
<1>3. ASSUME ScanNext(t), NEW u \in Threads
      PROVE  HandsOf(u)'
  <2>1. /\ queue' = queue /\ fate' = fate /\ HandsOf(u)
        /\ \A v \in Threads \ {t} : missed'[v] = missed[v]
    BY <1>0, <1>3, MissedEffect DEF ScanNext, piles, Hands
  <2>2. CASE place[t][1] < Len(Shape)
    <3>1. Moved(t, "scan", None, <<place[t][1] + 1, 1>>)
      BY <1>0, <1>3, <2>2, GotoMoves DEF ScanNext
    <3>2. CASE u = t
      BY <2>1, <3>1, <3>2, SMTT(30) DEF HandsOf, Moved, OfferSteps, HolderSteps
    <3>3. CASE u # t
      BY <2>1, <3>1, <3>3 DEF HandsOf, Moved
    <3> QED  BY <3>2, <3>3
  <2>3. CASE ~(place[t][1] < Len(Shape))
    <3>1. Moved(t, "out", None, <<1, 1>>) /\ missed'[t] = {}
      BY <1>0, <1>3, <2>3, LeaveTypes, MissedEffect DEF ScanNext
    <3> QED  BY <2>1, <3>1 DEF HandsOf, Moved, OfferSteps, HolderSteps
  <2> QED  BY <2>2, <2>3
<1>4. ASSUME TryDequeue(t) \/ Consume(t) \/ Discard(t), NEW u \in Threads
      PROVE  HandsOf(u)'
  <2> DEFINE b == place[t]
  <2>1. /\ b \in Buckets /\ Popped(b)
        /\ Head(queue[b]) \in Requests /\ fate[Head(queue[b])] = "queued"
        /\ \/ Turned(Head(queue[b]), "taken")
           \/ Turned(Head(queue[b]), "expired")
    BY <1>0, <1>4, TakeEffect
  <2>2. \A q \in Requests : fate[q] = "offered" => fate'[q] = "offered"
    BY <2>1 DEF Turned
  <2>3. \A c \in Buckets \ {b} : queue[c] # <<>> => queue'[c] # <<>>
    BY <1>0, <2>1, NonEmpty
  <2>4. HandsOf(t) /\ HandsOf(u) /\ place[u] \in Buckets
    BY <1>0 DEF Hands, TypeOK
  <2>5. missed'[t] = {} /\ \A v \in Threads \ {t} : missed'[v] = missed[v]
    <3>1. CASE TryDequeue(t)
      BY <1>0, <3>1, MissedEffect DEF TryDequeue
    <3>2. CASE Consume(t) \/ Discard(t)
      BY <2>4, <3>2 DEF Consume, Discard, HandsOf
    <3> QED  BY <1>4, <3>1, <3>2
  <2>6. CASE u # t
    <3>1. pc'[u] = pc[u] /\ cur'[u] = cur[u] /\ place'[u] = place[u]
      BY <1>0, <1>4, <2>6, TakeEffect DEF Moved
    <3>2. pc[u] \in OfferSteps => fate'[cur[u]] = "offered"
      BY <2>2, <2>4 DEF HandsOf
    <3>3. pc[u] \in {"index", "drive", "reindex"} => queue'[place[u]] # <<>>
      BY <1>4, <2>3, <2>4, <2>6, PopAlone DEF HandsOf, HolderSteps
    <3>4. pc[u] # "scan" => missed'[u] = {}
      BY <2>4, <2>5, <2>6 DEF HandsOf
    <3> QED  BY <2>4, <3>1, <3>2, <3>3, <3>4, HandsStay
  <2>7. CASE u = t
    <3>1. CASE TryDequeue(t)
      <4>1. /\ ~Multi(b[1])
            /\ \/ pc'[t] = "out"
               \/ MaxRequests # 0 /\ pc'[t] = "release" /\ place'[t] = b
        BY <1>0, <3>1, TakeEffect DEF TryDequeue, Moved
      <4> QED  BY <2>5, <2>7, <4>1 DEF HandsOf, OfferSteps, HolderSteps
    <3>2. CASE Consume(t) \/ Discard(t)
      <4>1. Multi(b[1])
        BY <2>4, <3>2 DEF HandsOf, HolderSteps, Consume, Discard
      <4>2. pc'[t] \in {"arm", "more"} /\ place'[t] = b
        BY <1>0, <3>2, TakeEffect DEF Moved
      <4> QED  BY <2>5, <2>7, <4>1, <4>2 DEF HandsOf, OfferSteps
    <3> QED  BY <1>4, <3>1, <3>2
  <2> QED  BY <2>6, <2>7
<1>5. ASSUME TryDequeueIndex(t), NEW u \in Threads
      PROVE  HandsOf(u)'
  <2> DEFINE b == Head(index[place[t][1]])
  <2>1. /\ queue' = queue /\ fate' = fate /\ HandsOf(u)
        /\ missed'[t] = {} /\ \A v \in Threads \ {t} : missed'[v] = missed[v]
        /\ Moved(t, "drive", None, b)
    BY <1>0, <1>5, MissedEffect, MoveEffect DEF TryDequeueIndex, Hands
  <2>2. place[t][1] \in Priorities /\ index[place[t][1]] # <<>>
    BY <1>0, <1>5, BucketFacts DEF TryDequeueIndex, TypeOK
  <2>3. Multi(b[1]) /\ queue[b] # <<>>
    BY <2>2, IndexHead
  <2>4. CASE u # t
    BY <2>1, <2>4 DEF HandsOf, Moved
  <2>5. CASE u = t
    BY <2>1, <2>3, <2>5 DEF HandsOf, Moved, OfferSteps
  <2> QED  BY <2>4, <2>5
<1>6. ASSUME DriveOn(t) \/ Arm(t), NEW u \in Threads
      PROVE  HandsOf(u)'
  <2>1. /\ queue' = queue /\ fate' = fate /\ missed' = missed
        /\ HandsOf(u) /\ HandsOf(t) /\ pc[t] \in {"more", "arm"}
    BY <1>0, <1>6 DEF DriveOn, Arm, piles, Hands
  <2>2. \/ Moved(t, "arm", None, place[t])
        \/ /\ queue[place[t]] # <<>>
           /\ \/ Moved(t, "drive", None, place[t])
              \/ Moved(t, "reindex", cur[t], place[t])
        \/ Moved(t, "out", None, <<1, 1>>)
    BY <1>0, <1>6, MoveEffect
  <2>3. CASE u # t
    BY <2>1, <2>2, <2>3 DEF HandsOf, Moved
  <2>4. CASE u = t
    <3>1. /\ pc'[t] \in {"arm", "drive", "reindex", "out"} /\ missed'[t] = {}
          /\ pc'[t] # "out" => place'[t] = place[t]
          /\ pc'[t] \in {"drive", "reindex"} => queue[place[t]] # <<>>
      BY <2>1, <2>2 DEF Moved, HandsOf
    <3>2. Multi(place[t][1])
      BY <2>1 DEF HandsOf, HolderSteps
    <3> QED  BY <2>1, <2>4, <3>1, <3>2 DEF HandsOf, OfferSteps, HolderSteps
  <2> QED  BY <2>3, <2>4
<1> QED  BY <1>1, <1>2, <1>3, <1>4, <1>5, <1>6 DEF Hands

(* No two threads come to offer the same request.                          *)
LEMMA OwnOfferStep ==
  ASSUME IInv, [Next]_vars
  PROVE  OwnOffer'
<1>0. TypeOK /\ Hands /\ Contents /\ OwnOffer
  BY DEF IInv
<1>1. ASSUME NEW t \in Threads, NEW r \in Requests, CountUp(t, r)
      PROVE  OwnOffer'
  <2>1. /\ fate[r] = "new" /\ cur'[t] = r
        /\ \A u \in Threads \ {t} : pc'[u] = pc[u] /\ cur'[u] = cur[u]
    BY <1>0, <1>1, CountUpEffect, SMTT(30) DEF Moved
  <2>2. \A u \in Threads \ {t} : pc[u] \in OfferSteps => cur[u] # r
    BY <1>0, <2>1 DEF Hands, HandsOf
  <2> QED  BY <1>0, <2>1, <2>2 DEF OwnOffer
<1>2. ASSUME \A u \in Threads : pc'[u] \in OfferSteps =>
                                  pc[u] \in OfferSteps /\ cur'[u] = cur[u]
      PROVE  OwnOffer'
  BY <1>0, <1>2 DEF OwnOffer
<1>3. ASSUME NEW t \in Threads, NEW r \in Requests,
             Reject(t, r) \/ TryPush(t, r)
      PROVE  OwnOffer'
  <2>1. CASE Reject(t, r)
    BY <1>2, <2>1 DEF Reject, threads
  <2>2. CASE TryPush(t, r)
    BY <1>0, <1>2, <2>2, TryPushEffect DEF threads, Moved, OfferSteps
  <2> QED  BY <1>3, <2>1, <2>2
<1>4. ASSUME NEW t \in Threads, CountBack(t) \/ Insert(t)
      PROVE  OwnOffer'
  BY <1>0, <1>2, <1>4, OfferedEffect DEF Moved, OfferSteps
<1>5. ASSUME NEW t \in Threads, TryDequeue(t) \/ Consume(t) \/ Discard(t)
      PROVE  OwnOffer'
  BY <1>0, <1>2, <1>5, TakeEffect DEF Moved, OfferSteps
<1>6. ASSUME NEW t \in Threads,
             \/ PublishIndex(t) \/ Dequeue(t) \/ ScanNext(t) \/ CountDown(t)
             \/ TryDequeueIndex(t) \/ DriveOn(t) \/ Arm(t) \/ Reindex(t)
      PROVE  OwnOffer'
  BY <1>0, <1>2, <1>6, MoveEffect DEF Moved, OfferSteps
<1>7. ASSUME NEW r \in Requests, Expire(r)
      PROVE  OwnOffer'
  BY <1>2, <1>7 DEF Expire, threads
<1>8. CASE UNCHANGED vars
  BY <1>2, <1>8 DEF vars, threads
<1> QED
  BY <1>1, <1>3, <1>4, <1>5, <1>6, <1>7, <1>8 DEF Next

-----------------------------------------------------------------------------
(* The owners of the buckets.                                              *)

(* Who holds a bucket when a thread has moved.                             *)
LEMMA HoldsEffect ==
  ASSUME NEW t \in Threads, NEW step, NEW r, NEW b, Moved(t, step, r, b)
  PROVE  /\ \A u \in Threads \ {t}, c \in Buckets : Holds(u, c)' <=> Holds(u, c)
         /\ \A c \in Buckets : Holds(t, c)' <=> step \in HolderSteps /\ b = c
BY DEF Moved, Holds

(* The buckets that are published when an index was enqueued ...           *)
LEMMA Enqueued ==
  ASSUME TypeOK, NEW b \in Buckets, EnqueueIndex(b)
  PROVE  /\ \A c \in Buckets : IsPublished(c)' <=> IsPublished(c) \/ c = b
         /\ /\ \A p \in Priorities : IndexOf(p)
            /\ Multi(b[1]) /\ ~IsPublished(b)
            => \A p \in Priorities : IndexOf(p)'
         /\ \A p \in Priorities : Len(index'[p]) >= Len(index[p])
              /\ \A i \in 1..Len(index[p]) : index'[p][i] = index[p][i]
         /\ Len(index'[b[1]]) = Len(index[b[1]]) + 1
         /\ index'[b[1]][Len(index[b[1]]) + 1] = b
<1> DEFINE p == b[1]
           n == Len(index[p])
<1>1. p \in Priorities /\ index[p] \in Seq(Buckets)
  BY BucketFacts DEF TypeOK
<1>2. /\ index'[p] = Append(index[p], b)
      /\ \A q \in Priorities \ {p} : index'[q] = index[q]
  BY <1>1 DEF EnqueueIndex, TypeOK
<1>3. /\ n \in Nat /\ Len(index'[p]) = n + 1 /\ index'[p][n + 1] = b
      /\ \A i \in 1..n : index'[p][i] = index[p][i]
  BY <1>1, <1>2, AppendFacts, SMTT(30)
<1>4. \A q \in Priorities : Len(index[q]) \in Nat
  BY EmptyFacts DEF TypeOK
<1>5. ASSUME NEW c \in Buckets
      PROVE  IsPublished(c)' <=> IsPublished(c) \/ c = b
  <2>1. c[1] \in Priorities
    BY BucketFacts
  <2>2. CASE c[1] # p
    <3>1. index'[c[1]] = index[c[1]] /\ c # b
      BY <1>2, <2>1, <2>2
    <3> QED  BY <3>1 DEF IsPublished
  <2>3. CASE c[1] = p
    <3>1. IsPublished(c) <=> \E i \in 1..n : index[p][i] = c
      BY <2>3 DEF IsPublished
    <3>2. IsPublished(c)' <=> \E i \in 1..n + 1 : index'[p][i] = c
      BY <1>3, <2>3 DEF IsPublished
    <3>3. ASSUME NEW i \in 1..n + 1, index'[p][i] = c
          PROVE  (i \in 1..n /\ index[p][i] = c) \/ c = b
      <4>1. CASE i \in 1..n
        BY <1>3, <3>3, <4>1
      <4>2. CASE i = n + 1
        BY <1>3, <3>3, <4>2
      <4> QED  BY <1>3, <4>1, <4>2, SMTT(30)
    <3>4. ASSUME NEW i \in 1..n, index[p][i] = c
          PROVE  i \in 1..n + 1 /\ index'[p][i] = c
      BY <1>3, <3>4, SMTT(30)
    <3>5. n + 1 \in 1..n + 1 /\ index'[p][n + 1] = b
      BY <1>3, SMTT(30)
    <3> QED  BY <3>1, <3>2, <3>3, <3>4, <3>5
  <2> QED  BY <2>2, <2>3
<1>6. ASSUME \A q \in Priorities : IndexOf(q), Multi(p), ~IsPublished(b),
             NEW q \in Priorities
      PROVE  IndexOf(q)'
  <2>1. CASE q # p
    <3>1. index'[q] = index[q]
      BY <1>2, <2>1
    <3> QED  BY <1>6, <3>1 DEF IndexOf
  <2>2. CASE q = p
    <3>1. \A i \in 1..n : index[p][i] # b
      BY <1>6 DEF IsPublished
    <3>2. ASSUME NEW i \in 1..n + 1
          PROVE  index'[p][i][1] = p
                 /\ \A j \in 1..n + 1 : index'[p][i] = index'[p][j] => i = j
      <4>1. CASE i \in 1..n
        <5>1. index'[p][i] = index[p][i] /\ index[p][i] # b
          BY <1>3, <3>1, <4>1
        <5>2. /\ index[p][i][1] = p
              /\ \A j \in 1..n : index[p][i] = index[p][j] => i = j
          BY <1>1, <1>6, <4>1 DEF IndexOf
        <5>3. ASSUME NEW j \in 1..n + 1, index'[p][i] = index'[p][j]
              PROVE  i = j
          <6>1. j # n + 1
            BY <1>3, <5>1, <5>3
          <6>2. j \in 1..n
            BY <1>3, <6>1, SMTT(30)
          <6> QED  BY <1>3, <5>1, <5>2, <5>3, <6>2
        <5> QED  BY <5>1, <5>2, <5>3
      <4>2. CASE i = n + 1
        <5>1. index'[p][i] = b
          BY <1>3, <4>2
        <5>2. ASSUME NEW j \in 1..n + 1, b = index'[p][j]
              PROVE  i = j
          <6>1. j \notin 1..n
            BY <1>3, <3>1, <5>2
          <6> QED  BY <1>3, <4>2, <6>1, SMTT(30)
        <5> QED  BY <5>1, <5>2
      <4> QED  BY <1>3, <4>1, <4>2, SMTT(30)
    <3> QED  BY <1>3, <1>6, <2>2, <3>2 DEF IndexOf
  <2> QED  BY <2>1, <2>2
<1>7. ASSUME NEW q \in Priorities
      PROVE  Len(index'[q]) >= Len(index[q])
             /\ \A i \in 1..Len(index[q]) : index'[q][i] = index[q][i]
  <2>1. CASE q = p
    BY <1>3, <2>1, SMTT(30)
  <2>2. CASE q # p
    BY <1>2, <1>4, <2>2, SMTT(30)
  <2> QED  BY <2>1, <2>2
<1> QED  BY <1>3, <1>5, <1>6, <1>7

(* ... and when one was popped.                                            *)
LEMMA Dequeued ==
  ASSUME IInv, NEW t \in Threads, TryDequeueIndex(t)
  PROVE  LET p == place[t][1] IN
         /\ p \in Priorities /\ index[p] # <<>>
         /\ \A q \in Priorities \ {p} : index'[q] = index[q]
         /\ Len(index[p]) \in Nat \ {0} /\ Len(index'[p]) = Len(index[p]) - 1
         /\ \A i \in 1..Len(index[p]) - 1 : index'[p][i] = index[p][i + 1]
         /\ \A c \in Buckets : IsPublished(c)' <=>
              IsPublished(c) /\ c # Head(index[p])
         /\ \A q \in Priorities : IndexOf(q)'
<1> DEFINE p == place[t][1]
           n == Len(index[p])
           b == Head(index[p])
<1>1. TypeOK /\ \A q \in Priorities : IndexOf(q)
  BY DEF IInv, OneOwner
<1>2. p \in Priorities /\ index[p] \in Seq(Buckets) /\ index[p] # <<>>
  BY <1>1, BucketFacts DEF TryDequeueIndex, TypeOK
<1>3. /\ index'[p] = Tail(index[p])
      /\ \A q \in Priorities \ {p} : index'[q] = index[q]
  BY <1>1, <1>2 DEF TryDequeueIndex, TypeOK
<1>4. /\ n \in Nat \ {0} /\ Len(index'[p]) = n - 1 /\ b = index[p][1]
      /\ \A i \in 1..n - 1 : index'[p][i] = index[p][i + 1]
  BY <1>2, <1>3, TailFacts, SMTT(30)
<1>5. b[1] = p
  BY <1>2, IndexHead
<1>6. \A i, j \in 1..n : index[p][i] = index[p][j] => i = j
  BY <1>1, <1>2 DEF IndexOf
<1>7. ASSUME NEW c \in Buckets
      PROVE  IsPublished(c)' <=> IsPublished(c) /\ c # b
  <2>1. c[1] \in Priorities
    BY BucketFacts
  <2>2. CASE c[1] # p
    <3>1. index'[c[1]] = index[c[1]] /\ c # b
      BY <1>3, <1>5, <2>1, <2>2
    <3> QED  BY <3>1 DEF IsPublished
  <2>3. CASE c[1] = p
    <3>1. IsPublished(c) <=> \E i \in 1..n : index[p][i] = c
      BY <2>3 DEF IsPublished
    <3>2. IsPublished(c)' <=> \E i \in 1..n - 1 : index'[p][i] = c
      BY <1>4, <2>3 DEF IsPublished
    <3>3. ASSUME NEW i \in 1..n - 1, index'[p][i] = c
          PROVE  i + 1 \in 1..n /\ index[p][i + 1] = c /\ c # b
      BY <1>4, <1>6, <3>3, SMTT(30)
    <3>4. ASSUME NEW i \in 1..n, index[p][i] = c, c # b
          PROVE  i - 1 \in 1..n - 1 /\ index'[p][i - 1] = c
      BY <1>4, <3>4, SMTT(30)
    <3> QED  BY <3>1, <3>2, <3>3, <3>4
  <2> QED  BY <2>2, <2>3
<1>8. ASSUME NEW q \in Priorities
      PROVE  IndexOf(q)'
  <2>1. CASE q # p
    <3>1. index'[q] = index[q]
      BY <1>3, <2>1
    <3> QED  BY <1>1, <3>1 DEF IndexOf
  <2>2. CASE q = p
    <3>1. \A i \in 1..n : index[p][i][1] = p /\ Multi(p)
      BY <1>1, <1>2 DEF IndexOf
    <3>2. ASSUME NEW i \in 1..n - 1
          PROVE  /\ index'[p][i][1] = p /\ Multi(p)
                 /\ \A j \in 1..n - 1 : index'[p][i] = index'[p][j] => i = j
      <4>1. i + 1 \in 1..n /\ index'[p][i] = index[p][i + 1]
        BY <1>4, SMTT(30)
      <4>2. index'[p][i][1] = p /\ Multi(p)
        BY <3>1, <4>1, SMTT(30)
      <4>3. ASSUME NEW j \in 1..n - 1, index'[p][i] = index'[p][j]
            PROVE  i = j
        <5>1. j + 1 \in 1..n /\ index'[p][j] = index[p][j + 1]
          BY <1>4, SMTT(30)
        <5> QED  BY <1>4, <1>6, <4>1, <4>3, <5>1, SMTT(30)
      <4> QED  BY <4>2, <4>3
    <3> QED  BY <1>4, <2>2, <3>2 DEF IndexOf
  <2> QED  BY <2>1, <2>2
<1> QED  BY <1>2, <1>3, <1>4, <1>7, <1>8

(* Nothing moves between the owners.                                       *)
LEMMA OwnerFrame ==
  ASSUME OneOwner, armed' = armed, index' = index,
         \A u \in Threads, c \in Buckets : Holds(u, c)' <=> Holds(u, c),
         \A c \in Buckets :
           Multi(c[1]) => (queue'[c] = <<>> <=> queue[c] = <<>>)
  PROVE  OneOwner'
<1>1. \A c \in Buckets : /\ IsPublished(c)' <=> IsPublished(c)
                         /\ IsHeld(c)' <=> IsHeld(c)
  BY DEF IsPublished, IsHeld
<1>2. ASSUME NEW c \in Buckets, Multi(c[1]) PROVE OwnerOf(c)'
  <2>1. OwnerOf(c)
    BY <1>2 DEF OneOwner
  <2>2. armed'[c] <=> armed[c]
    OBVIOUS
  <2> QED  BY <1>1, <1>2, <2>1, <2>2 DEF OwnerOf
<1>3. ASSUME NEW p \in Priorities PROVE IndexOf(p)'
  BY DEF OneOwner, IndexOf
<1> QED  BY <1>2, <1>3 DEF OneOwner

(* A push: the thread that finds the bucket armed becomes its owner.       *)
LEMMA OwnerTryPush ==
  ASSUME IInv, NEW t \in Threads, NEW r \in Requests, TryPush(t, r)
  PROVE  OneOwner'
<1> DEFINE b == Placement[r]
<1>0. TypeOK /\ Hands /\ OneOwner
  BY DEF IInv
<1>1. /\ b \in Buckets /\ Pushed(b, r) /\ Multi(b[1]) /\ pc[t] = "out"
      /\ index' = index /\ (armed[b] => Moved(t, "index", None, b))
      /\ ~armed[b] => threads' = threads
  BY <1>0, TryPushEffect DEF TryPush
<1>2. ~armed'[b] /\ \A c \in Buckets \ {b} : armed'[c] <=> armed[c]
  BY <1>0, TryPushEffect
<1>3. queue'[b] # <<>> /\ \A c \in Buckets \ {b} : queue'[c] = queue[c]
  BY <1>0, <1>1, NonEmpty DEF Pushed
<1>4. /\ \A u \in Threads \ {t}, c \in Buckets : Holds(u, c)' <=> Holds(u, c)
      /\ \A c \in Buckets : Holds(t, c)' <=> armed[b] /\ c = b
      /\ \A c \in Buckets : ~Holds(t, c)
  <2>1. \A c \in Buckets : ~Holds(t, c)
    BY <1>1 DEF Holds, HolderSteps
  <2>2. CASE armed[b]
    <3>1. Moved(t, "index", None, b) /\ "index" \in HolderSteps
      BY <1>1, <2>2 DEF HolderSteps
    <3> QED  BY <2>1, <2>2, <3>1, HoldsEffect
  <2>3. CASE ~armed[b]
    BY <1>1, <2>1, <2>3 DEF Holds, threads
  <2> QED  BY <2>1, <2>2, <2>3
<1>5. \A c \in Buckets : IsPublished(c)' <=> IsPublished(c)
  BY <1>1 DEF IsPublished
<1>6. ASSUME NEW c \in Buckets, Multi(c[1]) PROVE OwnerOf(c)'
  <2>1. OwnerOf(c)
    BY <1>0, <1>6 DEF OneOwner
  <2>2. CASE c = b /\ armed[b]
    <3>1. ~IsPublished(b) /\ ~IsHeld(b)
      BY <2>1, <2>2 DEF OwnerOf
    <3>2. \A u \in Threads : Holds(u, b)' <=> u = t
      BY <1>1, <1>4, <2>2, <3>1 DEF IsHeld
    <3> QED  BY <1>1, <1>2, <1>3, <1>5, <2>2, <3>1, <3>2 DEF OwnerOf, IsHeld
  <2>3. CASE c = b /\ ~armed[b]
    <3>1. \A u \in Threads : Holds(u, c)' <=> Holds(u, c)
      BY <1>1, <1>4, <2>3
    <3> QED  BY <1>2, <1>3, <1>5, <2>1, <2>3, <3>1 DEF OwnerOf, IsHeld
  <2>4. CASE c # b
    <3>1. \A u \in Threads : Holds(u, c)' <=> Holds(u, c)
      BY <1>4, <2>4
    <3>2. queue'[c] = queue[c] /\ (armed'[c] <=> armed[c])
      BY <1>2, <1>3, <2>4
    <3> QED  BY <1>5, <2>1, <3>1, <3>2 DEF OwnerOf, IsHeld
  <2> QED  BY <2>2, <2>3, <2>4
<1>7. ASSUME NEW p \in Priorities PROVE IndexOf(p)'
  BY <1>0, <1>1 DEF OneOwner, IndexOf
<1> QED  BY <1>6, <1>7 DEF OneOwner

(* The owner publishes the bucket.                                         *)
LEMMA OwnerPublish ==
  ASSUME IInv, NEW t \in Threads, PublishIndex(t) \/ Reindex(t)
  PROVE  OneOwner' /\ ~IsPublished(place[t]) /\ Multi(place[t][1])
<1> DEFINE b == place[t]
<1>0. TypeOK /\ Hands /\ OneOwner /\ b \in Buckets
  BY DEF IInv, TypeOK
<1>1. /\ queue' = queue /\ armed' = armed /\ EnqueueIndex(b)
      /\ Moved(t, "out", None, <<1, 1>>)
  BY <1>0, MoveEffect DEF PublishIndex, Reindex
<1>2. Holds(t, b) /\ Multi(b[1]) /\ queue[b] # <<>>
  BY <1>0 DEF PublishIndex, Reindex, Holds, HolderSteps, Hands, HandsOf
<1>3. OwnerOf(b) /\ IsHeld(b)
  BY <1>0, <1>2 DEF OneOwner, IsHeld
<1>4. ~armed[b] /\ ~IsPublished(b) /\ \A u \in Threads : Holds(u, b) => u = t
  BY <1>2, <1>3 DEF OwnerOf
<1>5. /\ \A c \in Buckets : IsPublished(c)' <=> IsPublished(c) \/ c = b
      /\ \A p \in Priorities : IndexOf(p)'
  BY <1>0, <1>1, <1>2, <1>4, Enqueued DEF OneOwner
<1>6. /\ \A u \in Threads \ {t}, c \in Buckets : Holds(u, c)' <=> Holds(u, c)
      /\ \A c \in Buckets : ~Holds(t, c)'
  BY <1>1, HoldsEffect, SMTT(30) DEF HolderSteps
<1>7. ASSUME NEW c \in Buckets, Multi(c[1]) PROVE OwnerOf(c)'
  <2>1. CASE c = b
    <3>1. \A u \in Threads : ~Holds(u, c)'
      BY <1>4, <1>6, <2>1
    <3> QED  BY <1>1, <1>2, <1>4, <1>5, <2>1, <3>1 DEF OwnerOf, IsHeld
  <2>2. CASE c # b
    <3>1. OwnerOf(c) /\ ~Holds(t, c)
      BY <1>0, <1>7, <2>2 DEF OneOwner, Holds
    <3>2. \A u \in Threads : Holds(u, c)' <=> Holds(u, c)
      BY <1>6, <3>1
    <3>3. IsPublished(c)' <=> IsPublished(c)
      BY <1>5, <2>2
    <3> QED  BY <1>1, <3>1, <3>2, <3>3 DEF OwnerOf, IsHeld
  <2> QED  BY <2>1, <2>2
<1> QED  BY <1>2, <1>4, <1>5, <1>7 DEF OneOwner

(* Whoever pops the index becomes the owner.                               *)
LEMMA OwnerPop ==
  ASSUME IInv, NEW t \in Threads, TryDequeueIndex(t)
  PROVE  OneOwner'
<1> DEFINE b == Head(index[place[t][1]])
<1>0. TypeOK /\ OneOwner
  BY DEF IInv
<1>1. /\ queue' = queue /\ armed' = armed /\ pc[t] = "scan"
      /\ Moved(t, "drive", None, b)
  BY <1>0, MoveEffect DEF TryDequeueIndex
<1>2. /\ place[t][1] \in Priorities /\ index[place[t][1]] # <<>>
      /\ \A c \in Buckets : IsPublished(c)' <=> IsPublished(c) /\ c # b
      /\ \A q \in Priorities : IndexOf(q)'
  BY Dequeued
<1>3. b \in Buckets /\ IsPublished(b) /\ Multi(b[1])
  BY <1>2, IndexHead
<1>4. OwnerOf(b)
  BY <1>0, <1>3 DEF OneOwner
<1>5. ~armed[b] /\ ~IsHeld(b)
  BY <1>3, <1>4 DEF OwnerOf
<1>6. /\ \A u \in Threads \ {t}, c \in Buckets : Holds(u, c)' <=> Holds(u, c)
      /\ \A c \in Buckets : Holds(t, c)' <=> b = c
      /\ \A c \in Buckets : ~Holds(t, c)
  BY <1>1, HoldsEffect, SMTT(30) DEF Holds, HolderSteps
<1>7. ASSUME NEW c \in Buckets, Multi(c[1]) PROVE OwnerOf(c)'
  <2>1. CASE c = b
    <3>1. \A u \in Threads : Holds(u, c)' <=> u = t
      BY <1>5, <1>6, <2>1 DEF IsHeld
    <3> QED  BY <1>1, <1>2, <1>5, <2>1, <3>1 DEF OwnerOf, IsHeld
  <2>2. CASE c # b
    <3>1. \A u \in Threads : Holds(u, c)' <=> Holds(u, c)
      BY <1>6, <2>2
    <3>2. OwnerOf(c) /\ (IsPublished(c)' <=> IsPublished(c))
      BY <1>0, <1>2, <1>7, <2>2 DEF OneOwner
    <3> QED  BY <1>1, <3>1, <3>2 DEF OwnerOf, IsHeld
  <2> QED  BY <2>1, <2>2
<1> QED  BY <1>2, <1>7 DEF OneOwner

(* The owner takes from the bucket, looks at it again or arms it.          *)
LEMMA OwnerDrive ==
  ASSUME IInv, NEW t \in Threads,
         Consume(t) \/ Discard(t) \/ DriveOn(t) \/ Arm(t)
  PROVE  OneOwner'
<1>0. TypeOK /\ Hands /\ Contents /\ OneOwner /\ place[t] \in Buckets
  BY DEF IInv, TypeOK
<1>1. Holds(t, place[t]) /\ Multi(place[t][1])
  BY <1>0 DEF Consume, Discard, DriveOn, Arm, Holds, HolderSteps, Hands, HandsOf
<1>2. OwnerOf(place[t]) /\ IsHeld(place[t])
  BY <1>0, <1>1 DEF OneOwner, IsHeld
<1>3. /\ ~armed[place[t]] /\ ~IsPublished(place[t])
      /\ \A u \in Threads : Holds(u, place[t]) => u = t
  BY <1>1, <1>2 DEF OwnerOf
<1>4. index' = index
  BY DEF Consume, Discard, DriveOn, Arm, piles
<1>5. \A c \in Buckets : IsPublished(c)' <=> IsPublished(c)
  BY <1>4 DEF IsPublished
<1>6. \A p \in Priorities : IndexOf(p)'
  BY <1>0, <1>4, SMTT(30) DEF OneOwner, IndexOf
<1>7. \A c \in Buckets \ {place[t]} : queue'[c] = queue[c]
  <2>1. CASE Consume(t) \/ Discard(t)
    BY <1>0, <2>1, TakeEffect DEF Popped
  <2>2. CASE DriveOn(t) \/ Arm(t)
    BY <2>2 DEF DriveOn, Arm, piles
  <2> QED  BY <2>1, <2>2
<1>8. CASE Arm(t) /\ queue[place[t]] = <<>>
  <2>1. /\ Moved(t, "out", None, <<1, 1>>) /\ queue' = queue
        /\ armed' = [armed EXCEPT ![place[t]] = TRUE]
    BY <1>0, <1>8, MoveEffect DEF Arm
  <2>2. /\ \A c \in Buckets \ {place[t]} : armed'[c] <=> armed[c]
        /\ armed'[place[t]]
    BY <1>0, <2>1 DEF TypeOK
  <2>3. /\ \A u \in Threads \ {t}, c \in Buckets : Holds(u, c)' <=> Holds(u, c)
        /\ \A c \in Buckets : ~Holds(t, c)'
    BY <2>1, HoldsEffect, SMTT(30) DEF HolderSteps
  <2>4. ASSUME NEW c \in Buckets, Multi(c[1]) PROVE OwnerOf(c)'
    <3>1. CASE c = place[t]
      <4>1. \A u \in Threads : ~Holds(u, c)'
        BY <1>3, <2>3, <3>1
      <4> QED  BY <1>3, <1>5, <1>8, <2>1, <2>2, <3>1, <4>1 DEF OwnerOf, IsHeld
    <3>2. CASE c # place[t]
      <4>1. OwnerOf(c) /\ ~Holds(t, c)
        BY <1>0, <2>4, <3>2 DEF OneOwner, Holds
      <4>2. \A u \in Threads : Holds(u, c)' <=> Holds(u, c)
        BY <2>3, <4>1
      <4>3. armed'[c] <=> armed[c]
        BY <2>2, <3>2
      <4> QED  BY <1>5, <2>1, <4>1, <4>2, <4>3 DEF OwnerOf, IsHeld
    <3> QED  BY <3>1, <3>2
  <2> QED  BY <1>6, <2>4 DEF OneOwner
<1>9. CASE \/ Consume(t) \/ Discard(t) \/ DriveOn(t)
           \/ Arm(t) /\ queue[place[t]] # <<>>
  <2>1. /\ armed' = armed
        /\ \E r : \E step \in HolderSteps : Moved(t, step, r, place[t])
    <3>1. CASE Consume(t) \/ Discard(t)
      BY <1>0, <3>1, TakeEffect DEF HolderSteps, Consume, Discard
    <3>2. CASE DriveOn(t)
      BY <1>0, <3>2, MoveEffect DEF HolderSteps, DriveOn, piles
    <3>3. CASE Arm(t) /\ queue[place[t]] # <<>>
      BY <1>0, <3>3, MoveEffect DEF HolderSteps, Arm
    <3> QED  BY <1>9, <3>1, <3>2, <3>3
  <2>2. \A u \in Threads, c \in Buckets : Holds(u, c)' <=> Holds(u, c)
    <3>1. \A u \in Threads \ {t}, c \in Buckets : Holds(u, c)' <=> Holds(u, c)
      BY <2>1, HoldsEffect
    <3>2. \A c \in Buckets : Holds(t, c)' <=> place[t] = c
      BY <2>1, HoldsEffect
    <3>3. \A c \in Buckets : Holds(t, c) <=> place[t] = c
      BY <1>1 DEF Holds
    <3> QED  BY <3>1, <3>2, <3>3
  <2>3. ASSUME NEW c \in Buckets, Multi(c[1]) PROVE OwnerOf(c)'
    <3>1. OwnerOf(c) /\ (armed'[c] <=> armed[c])
      BY <1>0, <2>1, <2>3 DEF OneOwner
    <3>2. CASE c = place[t]
      BY <1>3, <1>5, <2>2, <3>1, <3>2 DEF OwnerOf, IsHeld
    <3>3. CASE c # place[t]
      BY <1>5, <1>7, <2>2, <3>1, <3>3 DEF OwnerOf, IsHeld
    <3> QED  BY <3>2, <3>3
  <2> QED  BY <1>6, <2>3 DEF OneOwner
<1> QED  BY <1>8, <1>9

(* Every step keeps one owner for each bucket.                             *)
LEMMA OneOwnerStep ==
  ASSUME IInv, [Next]_vars
  PROVE  OneOwner'
<1>0. TypeOK /\ Hands /\ Contents /\ OneOwner
  BY DEF IInv
<1>1. ASSUME NEW t \in Threads, NEW r \in Requests, Reject(t, r)
      PROVE  OneOwner'
  BY <1>0, <1>1, OwnerFrame DEF Reject, threads, Holds
<1>2. ASSUME NEW t \in Threads, NEW r \in Requests, CountUp(t, r)
      PROVE  OneOwner'
  <2>1. /\ armed' = armed /\ index' = index /\ queue' = queue /\ pc[t] = "out"
        /\ \E step \in OfferSteps : Moved(t, step, r, Placement[r])
    BY <1>0, <1>2, CountUpEffect DEF CountUp, OfferSteps
  <2>2. \A u \in Threads, c \in Buckets : Holds(u, c)' <=> Holds(u, c)
    BY <2>1 DEF Moved, Holds, OfferSteps, HolderSteps
  <2> QED  BY <1>0, <2>1, <2>2, OwnerFrame
<1>3. ASSUME NEW t \in Threads, CountBack(t) \/ Insert(t)
      PROVE  OneOwner'
  <2>1. /\ armed' = armed /\ index' = index /\ pc[t] \in OfferSteps
        /\ Moved(t, "out", None, <<1, 1>>) /\ ~Multi(place[t][1])
    BY <1>0, <1>3, OfferedEffect DEF CountBack, Insert, OfferSteps
  <2>2. \A u \in Threads, c \in Buckets : Holds(u, c)' <=> Holds(u, c)
    BY <2>1 DEF Moved, Holds, OfferSteps, HolderSteps
  <2>3. \A c \in Buckets : Multi(c[1]) => queue'[c] = queue[c]
    <3>1. CASE CountBack(t)
      BY <3>1 DEF CountBack
    <3>2. CASE Insert(t)
      BY <1>0, <2>1, <3>2, OfferedEffect DEF Pushed
    <3> QED  BY <1>3, <3>1, <3>2
  <2> QED  BY <1>0, <2>1, <2>2, <2>3, OwnerFrame
<1>4. ASSUME NEW t \in Threads, Dequeue(t) \/ ScanNext(t) \/ CountDown(t)
      PROVE  OneOwner'
  <2>1. /\ armed' = armed /\ index' = index /\ queue' = queue
        /\ pc[t] \notin HolderSteps
    BY <1>4 DEF Dequeue, ScanNext, CountDown, piles, HolderSteps
  <2>2. \A u \in Threads, c \in Buckets : Holds(u, c)' <=> Holds(u, c)
    BY <1>0, <1>4, <2>1, MoveEffect DEF Moved, Holds, HolderSteps
  <2> QED  BY <1>0, <2>1, <2>2, OwnerFrame
<1>5. ASSUME NEW t \in Threads, TryDequeue(t)
      PROVE  OneOwner'
  <2>1. /\ armed' = armed /\ index' = index /\ pc[t] = "scan"
        /\ ~Multi(place[t][1])
    BY <1>5 DEF TryDequeue
  <2>2. \A u \in Threads, c \in Buckets : Holds(u, c)' <=> Holds(u, c)
    <3>1. \E step \in {"out", "release"}, b \in Buckets :
            Moved(t, step, None, b)
      BY <1>0, <1>5, TakeEffect, BucketFacts
    <3>2. "out" \notin HolderSteps /\ "release" \notin HolderSteps
          /\ pc[t] \notin HolderSteps
      BY <2>1 DEF HolderSteps
    <3> QED  BY <3>1, <3>2, HoldsEffect, SMTT(30) DEF Holds
  <2>3. \A c \in Buckets : Multi(c[1]) => queue'[c] = queue[c]
    BY <1>0, <1>5, <2>1, TakeEffect DEF Popped
  <2> QED  BY <1>0, <2>1, <2>2, <2>3, OwnerFrame
<1>6. ASSUME NEW r \in Requests, Expire(r)
      PROVE  OneOwner'
  BY <1>0, <1>6, OwnerFrame DEF Expire, threads, Holds
<1>7. CASE UNCHANGED vars
  BY <1>0, <1>7, OwnerFrame DEF vars, piles, threads, Holds
<1> QED
  BY <1>1, <1>2, <1>3, <1>4, <1>5, <1>6, <1>7, OwnerTryPush, OwnerPublish,
     OwnerPop, OwnerDrive DEF Next

-----------------------------------------------------------------------------
(* The buckets are served in turn.                                         *)

(* An index is enqueued behind the others.                                 *)
LEMMA InTurnEnqueue ==
  ASSUME TypeOK, InTurn, NEW b \in Buckets, EnqueueIndex(b),
         ~IsPublished(b), overtaken' = overtaken
  PROVE  InTurn'
<1> DEFINE n == Len(index[b[1]])
<1>1. /\ \A c \in Buckets : IsPublished(c)' <=> IsPublished(c) \/ c = b
      /\ \A p \in Priorities : Len(index'[p]) >= Len(index[p])
           /\ \A i \in 1..Len(index[p]) : index'[p][i] = index[p][i]
      /\ Len(index'[b[1]]) = n + 1 /\ index'[b[1]][n + 1] = b
  BY Enqueued
<1>2. b[1] \in Priorities /\ n \in Nat
  BY BucketFacts, EmptyFacts DEF TypeOK
<1>3. \A p \in Priorities \ {b[1]} : index'[p] = index[p]
  BY <1>2 DEF EnqueueIndex, TypeOK
<1>4. ASSUME NEW x \in overtaken
      PROVE  /\ IsPublished(x[1])'
             /\ \A i, j \in 1..Len(index'[x[1][1]]) :
                  /\ index'[x[1][1]][i] = x[1] /\ index'[x[1][1]][j] = x[2]
                  => i < j
  <2> DEFINE p == x[1][1]
  <2>1. x[1] \in Buckets /\ p \in Priorities
    BY BucketFacts DEF TypeOK
  <2>2. /\ IsPublished(x[1])
        /\ \A i, j \in 1..Len(index[p]) :
             index[p][i] = x[1] /\ index[p][j] = x[2] => i < j
    BY DEF InTurn
  <2>3. IsPublished(x[1])' /\ x[1] # b
    BY <1>1, <2>1, <2>2
  <2>4. CASE p # b[1]
    <3>1. index'[p] = index[p]
      BY <1>3, <2>1, <2>4
    <3> QED  BY <2>2, <2>3, <3>1
  <2>5. CASE p = b[1]
    <3>1. ASSUME NEW i \in 1..n + 1, NEW j \in 1..n + 1,
                 index'[p][i] = x[1], index'[p][j] = x[2]
          PROVE  i < j
      <4>1. i # n + 1
        BY <1>1, <2>3, <2>5, <3>1
      <4>2. i \in 1..n /\ index[p][i] = x[1]
        <5>1. i \in 1..n
          BY <1>2, <4>1, SMTT(30)
        <5> QED  BY <1>1, <2>1, <2>5, <3>1, <5>1
      <4>3. CASE j = n + 1
        BY <1>2, <4>2, <4>3, SMTT(30)
      <4>4. CASE j # n + 1
        <5>1. j \in 1..n
          BY <1>2, <4>4, SMTT(30)
        <5>2. index[p][j] = x[2]
          BY <1>1, <2>1, <2>5, <3>1, <5>1
        <5> QED  BY <2>2, <2>5, <4>2, <5>1, <5>2
      <4> QED  BY <4>3, <4>4
    <3> QED  BY <1>1, <2>3, <2>5, <3>1
  <2> QED  BY <2>4, <2>5
<1> QED  BY <1>4 DEF InTurn

(* An index is popped: the buckets that still wait have seen one served.   *)
LEMMA InTurnPop ==
  ASSUME IInv, NEW t \in Threads, TryDequeueIndex(t)
  PROVE  InTurn'
<1> DEFINE p == place[t][1]
           n == Len(index[p])
           b == Head(index[p])
<1>0. InTurn /\ TypeOK /\ OneOwner
  BY DEF IInv
<1>1. /\ p \in Priorities /\ index[p] # <<>>
      /\ \A q \in Priorities \ {p} : index'[q] = index[q]
      /\ n \in Nat \ {0} /\ Len(index'[p]) = n - 1
      /\ \A i \in 1..n - 1 : index'[p][i] = index[p][i + 1]
      /\ \A c \in Buckets : IsPublished(c)' <=> IsPublished(c) /\ c # b
  BY Dequeued
<1>2. index[p] \in Seq(Buckets) /\ b = index[p][1] /\ b \in Buckets
  BY <1>1, IndexHead
<1>3. \A i \in 1..n : /\ index[p][i] \in Buckets /\ index[p][i][1] = p
                      /\ \A j \in 1..n : index[p][i] = index[p][j] => i = j
  BY <1>0, <1>1, <1>2, EmptyFacts DEF OneOwner, IndexOf
<1>4. ASSUME NEW x \in overtaken, x[1] # b
      PROVE  /\ IsPublished(x[1])'
             /\ \A i, j \in 1..Len(index'[x[1][1]]) :
                  /\ index'[x[1][1]][i] = x[1] /\ index'[x[1][1]][j] = x[2]
                  => i < j
  <2>1. x[1] \in Buckets /\ x[1][1] \in Priorities
    BY <1>0, BucketFacts DEF TypeOK
  <2>2. /\ IsPublished(x[1])
        /\ \A i, j \in 1..Len(index[x[1][1]]) :
             index[x[1][1]][i] = x[1] /\ index[x[1][1]][j] = x[2] => i < j
    BY <1>0 DEF InTurn
  <2>3. IsPublished(x[1])'
    BY <1>1, <1>4, <2>1, <2>2
  <2>4. CASE x[1][1] # p
    <3>1. index'[x[1][1]] = index[x[1][1]]
      BY <1>1, <2>1, <2>4
    <3> QED  BY <2>2, <2>3, <3>1
  <2>5. CASE x[1][1] = p
    <3>1. ASSUME NEW i \in 1..n - 1, NEW j \in 1..n - 1,
                 index'[p][i] = x[1], index'[p][j] = x[2]
          PROVE  i < j
      <4>1. /\ i + 1 \in 1..n /\ j + 1 \in 1..n
            /\ index[p][i + 1] = x[1] /\ index[p][j + 1] = x[2]
        BY <1>1, <3>1, SMTT(30)
      <4>2. i + 1 < j + 1
        BY <2>2, <2>5, <4>1
      <4> QED  BY <4>2, SMTT(30)
    <3> QED  BY <1>1, <2>3, <2>5, <3>1
  <2> QED  BY <2>4, <2>5
<1>5. ASSUME NEW c \in Buckets, NEW k \in 2..n, index[p][k] = c
      PROVE  /\ IsPublished(c)' /\ c[1] = p
             /\ \A i, j \in 1..Len(index'[p]) :
                  index'[p][i] = c /\ index'[p][j] = b => i < j
  <2>1. c[1] = p /\ k \in 1..n /\ 1 \in 1..n /\ c # b
    BY <1>1, <1>2, <1>3, <1>5, SMTT(30)
  <2>2. IsPublished(c)
    BY <1>5, <2>1 DEF IsPublished
  <2>3. IsPublished(c)'
    BY <1>1, <2>1, <2>2
  <2>4. ASSUME NEW j \in 1..n - 1 PROVE index'[p][j] # b
    <3>1. j + 1 \in 1..n /\ index'[p][j] = index[p][j + 1] /\ j + 1 # 1
      BY <1>1, SMTT(30)
    <3> QED  BY <1>2, <1>3, <2>1, <3>1
  <2> QED  BY <1>1, <2>1, <2>3, <2>4
<1>6. ASSUME NEW x \in overtaken'
      PROVE  \/ x \in overtaken /\ x[1] # b
             \/ \E c \in Buckets : \E k \in 2..n :
                  index[p][k] = c /\ x[1] = c /\ x[2] = b
  BY SMTT(30) DEF TryDequeueIndex
<1>7. ASSUME NEW x \in overtaken'
      PROVE  /\ IsPublished(x[1])'
             /\ \A i, j \in 1..Len(index'[x[1][1]]) :
                  /\ index'[x[1][1]][i] = x[1] /\ index'[x[1][1]][j] = x[2]
                  => i < j
  <2>1. CASE x \in overtaken /\ x[1] # b
    BY <1>4, <2>1
  <2>2. CASE \E c \in Buckets : \E k \in 2..n :
               index[p][k] = c /\ x[1] = c /\ x[2] = b
    <3>1. PICK c \in Buckets : \E k \in 2..n :
                 index[p][k] = c /\ x[1] = c /\ x[2] = b
      BY <2>2
    <3>2. x[1] = c /\ x[2] = b
      BY <3>1
    <3>3. /\ IsPublished(c)' /\ c[1] = p
          /\ \A i, j \in 1..Len(index'[p]) :
               index'[p][i] = c /\ index'[p][j] = b => i < j
      BY <1>5, <3>1
    <3> QED  BY <3>2, <3>3
  <2> QED  BY <1>6, <2>1, <2>2
<1> QED  BY <1>7 DEF InTurn

(* Every step serves the buckets in turn.                                  *)
LEMMA InTurnStep ==
  ASSUME IInv, [Next]_vars
  PROVE  InTurn'
<1>0. TypeOK /\ InTurn
  BY DEF IInv
<1>1. ASSUME index' = index, overtaken' = overtaken PROVE InTurn'
  BY <1>0, <1>1 DEF InTurn, IsPublished
<1>2. ASSUME NEW t \in Threads, PublishIndex(t) \/ Reindex(t) PROVE InTurn'
  <2>1. place[t] \in Buckets /\ EnqueueIndex(place[t]) /\ overtaken' = overtaken
    BY <1>0, <1>2 DEF TypeOK, PublishIndex, Reindex
  <2> QED  BY <1>0, <1>2, <2>1, InTurnEnqueue, OwnerPublish
<1>3. ASSUME NEW t \in Threads, NEW r \in Requests,
             Reject(t, r) \/ TryPush(t, r) \/ CountUp(t, r)
      PROVE  InTurn'
  BY <1>1, <1>3 DEF Reject, TryPush, CountUp
<1>4. ASSUME NEW t \in Threads,
             \/ CountBack(t) \/ Insert(t) \/ Dequeue(t) \/ ScanNext(t)
             \/ TryDequeue(t) \/ CountDown(t) \/ Consume(t) \/ Discard(t)
             \/ DriveOn(t) \/ Arm(t)
      PROVE  InTurn'
  BY <1>1, <1>4 DEF CountBack, Insert, Dequeue, ScanNext, TryDequeue, CountDown,
                    Consume, Discard, DriveOn, Arm, piles
<1>5. ASSUME NEW r \in Requests, Expire(r) PROVE InTurn'
  BY <1>1, <1>5 DEF Expire
<1>6. CASE UNCHANGED vars
  BY <1>1, <1>6 DEF vars, piles
<1> QED
  BY <1>2, <1>3, <1>4, <1>5, <1>6, InTurnPop DEF Next

-----------------------------------------------------------------------------
(* What a dequeue has passed.                                              *)

(* A dequeue that does not move has missed all the more.                   *)
LEMMA PassedStay ==
  ASSUME Passed,
         \A u \in Threads : pc'[u] = "scan" =>
           /\ pc[u] = "scan" /\ place'[u] = place[u]
           /\ missed[u] \subseteq missed'[u]
           /\ \A r \in Requests : fate'[r] = "queued" =>
                fate[r] = "queued" \/ r \in missed'[u]
  PROVE  Passed'
BY DEF Passed

(* Every step keeps what was passed among what was missed.                 *)
LEMMA PassedStep ==
  ASSUME IInv, [Next]_vars
  PROVE  Passed'
<1>0. TypeOK /\ Hands /\ Contents /\ Passed
  BY DEF IInv
<1>1. ASSUME NEW t \in Threads, NEW r \in Requests, Reject(t, r) PROVE Passed'
  BY <1>0, <1>1, RejectEffect, PassedStay DEF Reject, threads, Turned
<1>2. ASSUME NEW t \in Threads, NEW r \in Requests, TryPush(t, r) PROVE Passed'
  <2>1. /\ Turned(r, "queued") /\ Arrive(r)
        /\ threads' = threads \/ Moved(t, "index", None, Placement[r])
    BY <1>0, <1>2, TryPushEffect DEF TryPush
  <2>2. \A u \in Threads : pc'[u] = "scan" =>
          pc[u] = "scan" /\ place'[u] = place[u]
    BY <2>1 DEF Moved, threads
  <2>3. \A u \in Threads : pc[u] = "scan" =>
          missed[u] \subseteq missed'[u] /\ r \in missed'[u]
    BY <2>1 DEF Arrive
  <2>4. \A q \in Requests : fate'[q] = "queued" => fate[q] = "queued" \/ q = r
    BY <2>1 DEF Turned
  <2> QED  BY <1>0, <2>2, <2>3, <2>4, PassedStay
<1>3. ASSUME NEW t \in Threads, NEW r \in Requests, CountUp(t, r) PROVE Passed'
  <2>1. missed' = missed
    BY <1>3 DEF CountUp
  <2>2. \A q \in Requests : fate'[q] = "queued" => fate[q] = "queued"
    BY <1>0, <1>3, CountUpEffect DEF Turned
  <2>3. \A u \in Threads : pc'[u] = "scan" =>
          pc[u] = "scan" /\ place'[u] = place[u]
    BY <1>0, <1>3, CountUpEffect DEF Moved
  <2> QED  BY <1>0, <2>1, <2>2, <2>3, PassedStay
<1>4. ASSUME NEW t \in Threads, CountBack(t) \/ Insert(t) PROVE Passed'
  <2>1. \A u \in Threads : pc'[u] = "scan" =>
          pc[u] = "scan" /\ place'[u] = place[u]
    BY <1>0, <1>4, OfferedEffect DEF Moved
  <2>2. CASE CountBack(t)
    <3>1. missed' = missed
      BY <2>2 DEF CountBack
    <3>2. \A q \in Requests : fate'[q] = "queued" => fate[q] = "queued"
      BY <1>0, <2>2, OfferedEffect DEF Turned
    <3> QED  BY <1>0, <2>1, <3>1, <3>2, PassedStay
  <2>3. CASE Insert(t)
    <3>1. \A u \in Threads : pc[u] = "scan" =>
            missed[u] \subseteq missed'[u] /\ cur[t] \in missed'[u]
      BY <2>3 DEF Insert, Arrive
    <3>2. \A q \in Requests :
            fate'[q] = "queued" => fate[q] = "queued" \/ q = cur[t]
      BY <1>0, <2>3, OfferedEffect DEF Turned
    <3> QED  BY <1>0, <2>1, <3>1, <3>2, PassedStay
  <2> QED  BY <1>4, <2>2, <2>3
<1>5. ASSUME NEW t \in Threads, TryDequeue(t) \/ Consume(t) \/ Discard(t)
      PROVE  Passed'
  <2>1. \A q \in Requests : fate'[q] = "queued" => fate[q] = "queued"
    BY <1>0, <1>5, TakeEffect DEF Turned
  <2>2. \A u \in Threads : pc'[u] = "scan" =>
          u # t /\ pc[u] = "scan" /\ place'[u] = place[u]
    BY <1>0, <1>5, TakeEffect DEF Moved
  <2>3. \A u \in Threads \ {t} : missed'[u] = missed[u]
    <3>1. CASE TryDequeue(t)
      BY <1>0, <3>1, MissedEffect DEF TryDequeue
    <3>2. CASE Consume(t) \/ Discard(t)
      BY <3>2 DEF Consume, Discard
    <3> QED  BY <1>5, <3>1, <3>2
  <2> QED  BY <1>0, <2>1, <2>2, <2>3, PassedStay
<1>6. ASSUME NEW t \in Threads,
             \/ PublishIndex(t) \/ CountDown(t) \/ TryDequeueIndex(t)
             \/ DriveOn(t) \/ Arm(t) \/ Reindex(t)
      PROVE  Passed'
  <2>1. fate' = fate
    BY <1>6 DEF PublishIndex, CountDown, TryDequeueIndex, DriveOn, Arm, Reindex,
                piles
  <2>2. \A u \in Threads : pc'[u] = "scan" =>
          u # t /\ pc[u] = "scan" /\ place'[u] = place[u]
    BY <1>0, <1>6, MoveEffect DEF Moved
  <2>3. \A u \in Threads \ {t} : missed'[u] = missed[u]
    <3>1. CASE TryDequeueIndex(t)
      BY <1>0, <3>1, MissedEffect DEF TryDequeueIndex
    <3>2. CASE ~TryDequeueIndex(t)
      BY <1>6, <3>2 DEF PublishIndex, CountDown, DriveOn, Arm, Reindex
    <3> QED  BY <3>1, <3>2
  <2> QED  BY <1>0, <2>1, <2>2, <2>3, PassedStay
<1>7. ASSUME NEW t \in Threads, Dequeue(t) PROVE Passed'
  <2>1. fate' = fate /\ missed' = missed /\ Moved(t, "scan", None, <<1, 1>>)
    BY <1>0, <1>7, MoveEffect DEF Dequeue, piles
  <2>2. \A r \in Requests : ~(Placement[r][1] < 1)
    BY PileAssumption, BucketFacts, SMTT(30) DEF Priorities
  <2>3. place'[t][1] = 1
    BY <2>1, SMTT(30) DEF Moved
  <2> QED  BY <1>0, <2>1, <2>2, <2>3 DEF Passed, Moved
<1>8. ASSUME NEW t \in Threads, ScanNext(t) PROVE Passed'
  <2>1. fate' = fate /\ \A u \in Threads \ {t} : missed'[u] = missed[u]
    BY <1>0, <1>8, MissedEffect DEF ScanNext, piles
  <2>2. CASE place[t][1] < Len(Shape)
    <3> DEFINE p == place[t][1]
    <3>1. /\ Moved(t, "scan", None, <<p + 1, 1>>) /\ pc[t] = "scan"
          /\ missed' = [missed EXCEPT ![t] = @ \union QueuedAt(p)]
      BY <1>0, <1>8, <2>2, GotoMoves DEF ScanNext
    <3>2. missed'[t] = missed[t] \union QueuedAt(p)
      BY <1>0, <3>1 DEF TypeOK
    <3>3. ASSUME NEW r \in Requests, fate[r] = "queued", Placement[r][1] < p + 1
          PROVE  r \in missed'[t]
      <4>1. Placement[r][1] \in Int /\ p \in Int
        BY <1>0, PileAssumption, BucketFacts, SMTT(30) DEF Priorities, TypeOK
      <4>2. CASE Placement[r][1] < p
        BY <1>0, <3>1, <3>2, <3>3, <4>2 DEF Passed
      <4>3. CASE Placement[r][1] = p
        BY <3>2, <3>3, <4>3 DEF QueuedAt
      <4> QED  BY <3>3, <4>1, <4>2, <4>3, SMTT(30)
    <3>4. place'[t][1] = p + 1
      BY <3>1, SMTT(30) DEF Moved
    <3>5. ASSUME NEW u \in Threads, pc'[u] = "scan", NEW r \in Requests,
                 fate'[r] = "queued", Placement[r][1] < place'[u][1]
          PROVE  r \in missed'[u]
      <4>1. CASE u = t
        BY <2>1, <3>3, <3>4, <3>5, <4>1
      <4>2. CASE u # t
        BY <1>0, <2>1, <3>1, <3>5, <4>2 DEF Passed, Moved
      <4> QED  BY <4>1, <4>2
    <3> QED  BY <3>5 DEF Passed
  <2>3. CASE ~(place[t][1] < Len(Shape))
    <3>1. Moved(t, "out", None, <<1, 1>>)
      BY <1>0, <1>8, <2>3, LeaveTypes DEF ScanNext
    <3> QED  BY <1>0, <2>1, <3>1, PassedStay DEF Moved
  <2> QED  BY <2>2, <2>3
<1>9. ASSUME NEW r \in Requests, Expire(r) PROVE Passed'
  BY <1>0, <1>9, PassedStay DEF Expire, threads
<1>10. CASE UNCHANGED vars
  BY <1>0, <1>10, PassedStay DEF vars, piles, threads
<1> QED
  BY <1>1, <1>2, <1>3, <1>4, <1>5, <1>6, <1>7, <1>8, <1>9, <1>10 DEF Next

-----------------------------------------------------------------------------
(* Every step is a step of the abstract pile.                              *)

(* The abstract state.                                                     *)
Fresh == {r \in Requests : fate[r] \in {"new", "offered"}}
InPile == {r \in Requests : fate[r] = "queued"} \ Claimed
AtMap == [t \in Threads |-> At(t)]

AtOf(step, r) ==
  CASE step \in {"out", "undo", "insert", "release"} -> "out"
    [] step = "index" -> "index"
    [] step = "scan" -> "dequeue"
    [] step = "drive" -> "claim"
    [] step = "more" -> "drive"
    [] step \in {"arm", "reindex"} -> IF r = None THEN "drive" ELSE "arm"

(* Where a thread is, by its step and the request in its hands.            *)
LEMMA AtIs ==
  ASSUME NEW t
  PROVE  At(t) = AtOf(pc[t], cur[t]) /\ At(t)' = AtOf(pc'[t], cur'[t])
BY DEF At, AtOf

(* The value for each step.                                                *)
LEMMA AtValues ==
  ASSUME NEW r
  PROVE  /\ \A step \in {"out", "undo", "insert", "release"} :
              AtOf(step, r) = "out"
         /\ AtOf("index", r) = "index" /\ AtOf("scan", r) = "dequeue"
         /\ AtOf("drive", r) = "claim" /\ AtOf("more", r) = "drive"
         /\ r = None => AtOf("arm", r) = "drive" /\ AtOf("reindex", r) = "drive"
         /\ r # None => AtOf("arm", r) = "arm" /\ AtOf("reindex", r) = "arm"
BY DEF AtOf

(* A thread that moves moves in the abstract pile, and alone.              *)
LEMMA AtMoves ==
  ASSUME NEW t \in Threads, NEW step, NEW r, NEW b, Moved(t, step, r, b)
  PROVE  AtMap' = [AtMap EXCEPT ![t] = AtOf(step, r)]
<1>1. \A u \in Threads : At(u)' = IF u = t THEN AtOf(step, r) ELSE At(u)
  BY AtIs DEF Moved
<1>2. AtMap' = [u \in Threads |-> At(u)']
  BY DEF AtMap
<1> QED  BY <1>1, <1>2 DEF AtMap

(* The threads that dequeue are those that scan.                           *)
LEMMA AtScan ==
  ASSUME TypeOK, NEW u \in Threads
  PROVE  AtMap[u] = "dequeue" <=> pc[u] = "scan"
<1>1. pc[u] \in Steps /\ AtMap[u] = AtOf(pc[u], cur[u])
  BY AtIs DEF TypeOK, Steps, AtMap
<1>2. pc[u] = "scan" => AtMap[u] = "dequeue"
  BY <1>1, AtValues
<1>3. ASSUME pc[u] # "scan" PROVE AtMap[u] # "dequeue"
  BY <1>1, <1>3, AtValues, SMTT(30) DEF Steps
<1> QED  BY <1>2, <1>3

-----------------------------------------------------------------------------
(* A change of the abstract state that is a step of the abstract pile: a   *)
(* request is rejected, ...                                                *)
LEMMA MapReject ==
  ASSUME NEW t \in Threads, NEW r \in Requests, AtMap[t] = "out",
         r \in Fresh, Fresh' = Fresh \ {r}, InPile' = InPile,
         AtMap' = AtMap, missed' = missed
  PROVE  Pile!Next
<1>1. Pile!Reject(t, r)
  BY DEF Pile!Reject, Fresh, InPile, AtMap
<1> QED  BY <1>1 DEF Pile!Next

(* ... pushed, ...                                                         *)
LEMMA MapPush ==
  ASSUME NEW t \in Threads, NEW r \in Requests, AtMap[t] = "out",
         r \in Fresh, Fresh' = Fresh \ {r}, InPile' = InPile \union {r},
         NEW place1 \in {"out", "index"}, AtMap' = [AtMap EXCEPT ![t] = place1],
         missed' = [u \in Threads |->
           IF AtMap[u] = "dequeue" THEN missed[u] \union {r} ELSE missed[u]]
  PROVE  Pile!Next
<1>1. Pile!Push(t, r)
  BY DEF Pile!Push, Pile!Goto, Fresh, InPile, AtMap
<1> QED  BY <1>1 DEF Pile!Next

(* ... found by a dequeue, ...                                             *)
LEMMA MapTake ==
  ASSUME NEW t \in Threads, NEW r \in Requests, r \in InPile,
         Fresh' = Fresh, InPile' = InPile \ {r},
         missed' = [missed EXCEPT ![t] = {}],
         \/ AtMap[t] = "dequeue" /\ AtMap' = [AtMap EXCEPT ![t] = "out"]
         \/ /\ AtMap[t] \in {"dequeue", "drive"}
            /\ AtMap' = [AtMap EXCEPT ![t] = "claim"]
  PROVE  Pile!Next
<1>1. CASE AtMap[t] = "dequeue" /\ AtMap' = [AtMap EXCEPT ![t] = "out"]
  <2>1. Pile!Take(t, r)
    BY <1>1 DEF Pile!Take, Pile!Goto, Fresh, InPile, AtMap
  <2> QED  BY <2>1 DEF Pile!Next
<1>2. CASE /\ AtMap[t] \in {"dequeue", "drive"}
           /\ AtMap' = [AtMap EXCEPT ![t] = "claim"]
  <2>1. Pile!Claim(t, r)
    BY <1>2 DEF Pile!Claim, Pile!Goto, Fresh, InPile, AtMap
  <2> QED  BY <2>1 DEF Pile!Next
<1> QED  BY <1>1, <1>2

(* ... a thread goes on with what it has, ...                              *)
LEMMA MapMove ==
  ASSUME NEW t \in Threads, Fresh' = Fresh, InPile' = InPile, missed' = missed,
         \/ AtMap[t] = "index" /\ AtMap' = [AtMap EXCEPT ![t] = "out"]
         \/ AtMap[t] = "out" /\ AtMap' = [AtMap EXCEPT ![t] = "dequeue"]
         \/ AtMap[t] = "claim" /\ AtMap' = [AtMap EXCEPT ![t] = "arm"]
         \/ AtMap[t] = "claim" /\ AtMap' = [AtMap EXCEPT ![t] = "drive"]
         \/ AtMap[t] = "arm" /\ AtMap' = [AtMap EXCEPT ![t] = "out"]
  PROVE  Pile!Next
<1>1. \/ Pile!Publish(t) \/ Pile!Begin(t) \/ Pile!Keep(t) \/ Pile!Discard(t)
      \/ Pile!Rearm(t)
  BY DEF Pile!Publish, Pile!Begin, Pile!Keep, Pile!Discard, Pile!Rearm,
         Pile!Goto, Fresh, InPile, AtMap
<1> QED  BY <1>1 DEF Pile!Next

(* ... passes what it cannot find, or comes back with nothing.             *)
BusyBut(t) ==
  \E u \in Threads \ {t} : AtMap[u] \in {"index", "claim", "drive", "arm"}

(* A dequeue passes what a busy thread hides.                               *)
LEMMA MapPass ==
  ASSUME NEW t \in Threads, AtMap[t] = "dequeue", BusyBut(t),
         NEW hidden \in SUBSET Requests,
         missed' = [missed EXCEPT ![t] = @ \union hidden],
         Fresh' = Fresh, InPile' = InPile, AtMap' = AtMap
  PROVE  Pile!Next
<1>1. Pile!Pass(t, hidden)
  BY DEF Pile!Pass, Pile!Busy, BusyBut, Fresh, InPile, AtMap
<1> QED  BY <1>1 DEF Pile!Next

(* A dequeue comes back with nothing.                                       *)
LEMMA MapEmpty ==
  ASSUME NEW t \in Threads,
         \/ AtMap[t] = "dequeue" /\ (InPile \subseteq missed[t] \/ BusyBut(t))
         \/ AtMap[t] = "drive",
         missed' = [missed EXCEPT ![t] = {}],
         Fresh' = Fresh, InPile' = InPile, AtMap' = [AtMap EXCEPT ![t] = "out"]
  PROVE  Pile!Next
<1>1. Pile!Empty(t)
  BY DEF Pile!Empty, Pile!Busy, Pile!Goto, BusyBut, Fresh, InPile, AtMap
<1> QED  BY <1>1 DEF Pile!Next

(* Nothing of the abstract pile changes.                                    *)
LEMMA MapStutter ==
  ASSUME Fresh' = Fresh, InPile' = InPile, AtMap' = AtMap, missed' = missed
  PROVE  UNCHANGED Pile!vars
BY DEF Pile!vars, Fresh, InPile, AtMap

-----------------------------------------------------------------------------
(* The requests that are claimed by the threads that drive a bucket.       *)
Drives(t) == pc[t] = "drive"
FirstOf(t) == Head(queue[place[t]])

(* They are in the pile, in the buckets of these threads.                  *)
LEMMA ClaimedFacts ==
  ASSUME IInv
  PROVE  /\ Claimed = {FirstOf(t) : t \in {u \in Threads : Drives(u)}}
         /\ \A t \in Threads : Drives(t) =>
              /\ place[t] \in Buckets /\ Multi(place[t][1])
              /\ Holds(t, place[t]) /\ queue[place[t]] # <<>>
              /\ FirstOf(t) \in Requests /\ fate[FirstOf(t)] = "queued"
              /\ Placement[FirstOf(t)] = place[t]
         /\ \A r \in Claimed : r \in Requests /\ fate[r] = "queued"
<1>0. TypeOK /\ Hands /\ Contents
  BY DEF IInv
<1>1. Claimed = {FirstOf(t) : t \in {u \in Threads : Drives(u)}}
  BY DEF Claimed, FirstOf, Drives
<1>2. ASSUME NEW t \in Threads, Drives(t)
      PROVE  /\ place[t] \in Buckets /\ Multi(place[t][1])
             /\ Holds(t, place[t]) /\ queue[place[t]] # <<>>
             /\ FirstOf(t) \in Requests /\ fate[FirstOf(t)] = "queued"
             /\ Placement[FirstOf(t)] = place[t]
  <2>1. /\ place[t] \in Buckets /\ Multi(place[t][1])
        /\ Holds(t, place[t]) /\ queue[place[t]] # <<>>
    BY <1>0, <1>2 DEF Drives, Hands, HandsOf, Holds, HolderSteps, TypeOK
  <2>2. /\ FirstOf(t) \in Requests /\ FirstOf(t) = queue[place[t]][1]
        /\ Len(queue[place[t]]) \in Nat \ {0}
    BY <1>0, <2>1, TailFacts DEF FirstOf, TypeOK
  <2>3. 1 \in 1..Len(queue[place[t]])
    BY <2>2, SMTT(30)
  <2> QED  BY <1>0, <2>1, <2>2, <2>3, SMTT(30) DEF Contents
<1> QED  BY <1>1, <1>2

(* No one new drives, and the first requests of the buckets stay.          *)
LEMMA ClaimedStay ==
  ASSUME \A u \in Threads : Drives(u)' <=> Drives(u),
         \A u \in Threads : Drives(u) => FirstOf(u)' = FirstOf(u)
  PROVE  Claimed' = Claimed
<1>1. /\ Claimed = {FirstOf(t) : t \in {u \in Threads : Drives(u)}}
      /\ Claimed' = {FirstOf(t)' : t \in {u \in Threads : Drives(u)'}}
  BY DEF Claimed, FirstOf, Drives
<1>2. {u \in Threads : Drives(u)'} = {u \in Threads : Drives(u)}
  OBVIOUS
<1> QED  BY <1>1, <1>2

(* Only the threads move, and none of them to or from driving.             *)
LEMMA ClaimedMove ==
  ASSUME queue' = queue, NEW t \in Threads, NEW step, NEW r, NEW b,
         Moved(t, step, r, b), pc[t] # "drive", step # "drive"
  PROVE  Claimed' = Claimed
<1>1. \A u \in Threads : Drives(u)' <=> Drives(u)
  BY DEF Drives, Moved
<1>2. \A u \in Threads : Drives(u) => FirstOf(u)' = FirstOf(u)
  BY DEF Drives, FirstOf, Moved
<1> QED  BY <1>1, <1>2, ClaimedStay

(* A thread comes to drive a bucket nobody else holds.                     *)
LEMMA ClaimedMore ==
  ASSUME IInv, queue' = queue, fate' = fate, NEW t \in Threads,
         NEW b \in Buckets, queue[b] # <<>>,
         Moved(t, "drive", None, b), pc[t] # "drive",
         \A u \in Threads \ {t} : ~Holds(u, b)
  PROVE  /\ Head(queue[b]) \in Requests /\ Head(queue[b]) \in InPile
         /\ InPile' = InPile \ {Head(queue[b])}
<1> DEFINE h == Head(queue[b])
<1>0. TypeOK /\ Contents
  BY DEF IInv
<1>1. h \in Requests /\ h = queue[b][1] /\ Len(queue[b]) \in Nat \ {0}
  BY <1>0, TailFacts DEF TypeOK
<1>2. 1 \in 1..Len(queue[b])
  BY <1>1, SMTT(30)
<1>3. fate[h] = "queued" /\ Placement[h] = b
  BY <1>0, <1>1, <1>2, SMTT(30) DEF Contents
<1>4. h \notin Claimed
  <2>1. ASSUME NEW u \in Threads, Drives(u) PROVE FirstOf(u) # h
    BY <1>3, <2>1, ClaimedFacts DEF Drives
  <2> QED  BY <2>1, ClaimedFacts, SMTT(30)
<1>5. Claimed' = {FirstOf(u)' : u \in {v \in Threads : Drives(v)'}}
  BY DEF Claimed, FirstOf, Drives
<1>6. /\ Drives(t)' /\ ~Drives(t) /\ FirstOf(t)' = h
      /\ \A u \in Threads \ {t} :
           (Drives(u)' <=> Drives(u)) /\ FirstOf(u)' = FirstOf(u)
  BY DEF Drives, FirstOf, Moved
<1>7. Claimed' = Claimed \union {h}
  BY <1>5, <1>6, ClaimedFacts, SMTT(30)
<1> QED  BY <1>1, <1>3, <1>4, <1>7 DEF InPile

-----------------------------------------------------------------------------
(* The steps of enqueue.                                                   *)
LEMMA MapOut ==
  ASSUME NEW t \in Threads, pc[t] \in {"out", "undo", "insert", "release"}
  PROVE  AtMap[t] = "out"
BY AtIs, AtValues, SMTT(30) DEF AtMap

(* A thread that stays where it is in the abstract pile.                   *)
LEMMA AtStays ==
  ASSUME NEW t \in Threads, NEW step, NEW r, NEW b, Moved(t, step, r, b),
         AtMap[t] = AtOf(step, r)
  PROVE  AtMap' = AtMap
<1>1. AtMap' = [AtMap EXCEPT ![t] = AtMap[t]]
  BY AtMoves
<1>2. AtMap = [u \in Threads |-> AtMap[u]]
  BY DEF AtMap
<1> QED  BY <1>1, <1>2

(* A request that was not in the pile is pushed by a thread.               *)
LEMMA PushMaps ==
  ASSUME IInv, NEW t \in Threads, NEW r \in Requests, r \in Fresh,
         pc[t] \in {"out", "insert"}, Placement[r] \in Buckets,
         Pushed(Placement[r], r), Turned(r, "queued"), Arrive(r),
         \/ pc' = pc /\ cur' = cur /\ place' = place
         \/ Moved(t, "out", None, <<1, 1>>)
         \/ Moved(t, "index", None, Placement[r])
  PROVE  Pile!Next
<1>0. TypeOK /\ fate[r] # "queued"
  BY DEF IInv, Fresh
<1>1. AtMap[t] = "out"
  BY MapOut
<1>2. Fresh' = Fresh \ {r}
  BY DEF Fresh, Turned
<1>3. Claimed' = Claimed
  <2>1. \A u \in Threads : /\ Drives(u)' <=> Drives(u)
                           /\ Drives(u) => place'[u] = place[u]
    BY DEF Drives, Moved
  <2>2. ASSUME NEW u \in Threads, Drives(u)
        PROVE  FirstOf(u)' = FirstOf(u)
    <3>1. /\ place[u] \in Buckets /\ queue[place[u]] # <<>>
          /\ queue[place[u]] \in Seq(Requests)
      BY <1>0, <2>2, ClaimedFacts DEF TypeOK
    <3>2. CASE place[u] = Placement[r]
      <4>1. queue'[place[u]] = Append(queue[place[u]], r)
        BY <3>2 DEF Pushed
      <4>2. Head(Append(queue[place[u]], r)) = Head(queue[place[u]])
        BY <3>1, SMTT(30)
      <4> QED  BY <2>1, <2>2, <4>1, <4>2 DEF FirstOf
    <3>3. CASE place[u] # Placement[r]
      <4>1. queue'[place[u]] = queue[place[u]]
        BY <3>1, <3>3 DEF Pushed
      <4> QED  BY <2>1, <2>2, <4>1 DEF FirstOf
    <3> QED  BY <3>2, <3>3
  <2> QED  BY <2>1, <2>2, ClaimedStay
<1>4. InPile' = InPile \union {r}
  <2>1. r \notin Claimed
    BY <1>0, ClaimedFacts
  <2> QED  BY <1>3, <2>1 DEF InPile, Turned
<1>5. missed' = [u \in Threads |->
        IF AtMap[u] = "dequeue" THEN missed[u] \union {r} ELSE missed[u]]
  BY <1>0, AtScan DEF Arrive
<1>6. \E p \in {"out", "index"} : AtMap' = [AtMap EXCEPT ![t] = p]
  <2>1. CASE pc' = pc /\ cur' = cur /\ place' = place
    <3>1. AtMap' = AtMap
      BY <2>1, AtIs DEF AtMap
    <3> QED  BY <1>1, <3>1 DEF AtMap
  <2>2. CASE Moved(t, "out", None, <<1, 1>>)
    BY <2>2, AtMoves, AtValues, SMTT(30)
  <2>3. CASE Moved(t, "index", None, Placement[r])
    BY <2>3, AtMoves, AtValues, SMTT(30)
  <2> QED  BY <2>1, <2>2, <2>3
<1> QED  BY <1>1, <1>2, <1>4, <1>5, <1>6, MapPush

(* Every step of enqueue is a step of the abstract pile, or none.           *)
LEMMA EnqueueMaps ==
  ASSUME IInv, NEW t \in Threads
  PROVE  /\ \A r \in Requests :
              Reject(t, r) \/ TryPush(t, r) \/ CountUp(t, r)
              => Pile!Next \/ UNCHANGED Pile!vars
         /\ CountBack(t) \/ Insert(t) \/ PublishIndex(t) => Pile!Next
<1>0. TypeOK /\ Hands /\ OneOwner
  BY DEF IInv
<1>1. ASSUME NEW r \in Requests, Reject(t, r) PROVE Pile!Next
  <2>1. /\ fate[r] = "new" /\ Turned(r, "rejected") /\ pc[t] = "out"
        /\ pc' = pc /\ cur' = cur /\ place' = place /\ queue' = queue
        /\ missed' = missed
    BY <1>0, <1>1, RejectEffect DEF Reject, threads
  <2>2. Claimed' = Claimed /\ AtMap' = AtMap /\ AtMap[t] = "out"
    BY <2>1, ClaimedStay, AtIs, MapOut DEF Drives, FirstOf, AtMap
  <2>3. r \in Fresh /\ Fresh' = Fresh \ {r}
    BY <2>1 DEF Fresh, Turned
  <2>4. InPile' = InPile
    BY <2>1, <2>2 DEF InPile, Turned
  <2> QED  BY <2>1, <2>2, <2>3, <2>4, MapReject
<1>2. ASSUME NEW r \in Requests, TryPush(t, r) PROVE Pile!Next
  <2>1. /\ Placement[r] \in Buckets /\ fate[r] = "new" /\ pc[t] = "out"
        /\ Pushed(Placement[r], r) /\ Turned(r, "queued") /\ Arrive(r)
        /\ \/ pc' = pc /\ cur' = cur /\ place' = place
           \/ Moved(t, "index", None, Placement[r])
    BY <1>0, <1>2, TryPushEffect DEF TryPush, threads
  <2>2. r \in Fresh
    BY <2>1 DEF Fresh
  <2> QED  BY <2>1, <2>2, PushMaps
<1>3. ASSUME NEW r \in Requests, CountUp(t, r) PROVE UNCHANGED Pile!vars
  <2>1. /\ fate[r] = "new" /\ Turned(r, "offered") /\ pc[t] = "out"
        /\ queue' = queue /\ missed' = missed
    BY <1>0, <1>3, CountUpEffect DEF CountUp
  <2>2. PICK step \in {"insert", "undo"} : Moved(t, step, r, Placement[r])
    BY <1>0, <1>3, CountUpEffect
  <2>3. Claimed' = Claimed
    BY <2>1, <2>2, ClaimedMove
  <2>4. AtMap' = AtMap
    BY <2>1, <2>2, MapOut, AtValues, AtStays, SMTT(30)
  <2>5. Fresh' = Fresh /\ InPile' = InPile
    BY <2>1, <2>3 DEF Fresh, InPile, Turned
  <2> QED  BY <2>1, <2>4, <2>5, MapStutter
<1>4. ASSUME CountBack(t) PROVE Pile!Next
  <2>1. /\ cur[t] \in Requests /\ fate[cur[t]] = "offered"
        /\ Moved(t, "out", None, <<1, 1>>) /\ Turned(cur[t], "rejected")
        /\ pc[t] = "undo" /\ queue' = queue /\ missed' = missed
    BY <1>0, <1>4, OfferedEffect DEF CountBack
  <2>2. Claimed' = Claimed
    BY <2>1, ClaimedMove
  <2>3. AtMap[t] = "out" /\ AtMap' = AtMap
    BY <2>1, MapOut, AtValues, AtStays, SMTT(30)
  <2>4. cur[t] \in Fresh /\ Fresh' = Fresh \ {cur[t]} /\ InPile' = InPile
    BY <2>1, <2>2 DEF Fresh, InPile, Turned
  <2> QED  BY <2>1, <2>3, <2>4, MapReject
<1>5. ASSUME Insert(t) PROVE Pile!Next
  <2>1. /\ cur[t] \in Requests /\ fate[cur[t]] = "offered"
        /\ place[t] \in Buckets /\ Placement[cur[t]] = place[t]
        /\ Moved(t, "out", None, <<1, 1>>) /\ Pushed(place[t], cur[t])
        /\ Turned(cur[t], "queued") /\ pc[t] = "insert" /\ Arrive(cur[t])
    BY <1>0, <1>5, OfferedEffect DEF Insert
  <2>2. cur[t] \in Fresh
    BY <2>1 DEF Fresh
  <2> QED  BY <2>1, <2>2, PushMaps
<1>6. ASSUME PublishIndex(t) PROVE Pile!Next
  <2>1. /\ Moved(t, "out", None, <<1, 1>>) /\ queue' = queue /\ fate' = fate
        /\ missed' = missed /\ pc[t] = "index"
    BY <1>0, <1>6, MoveEffect DEF PublishIndex
  <2>2. Claimed' = Claimed
    BY <2>1, ClaimedMove
  <2>3. AtMap[t] = "index" /\ AtMap' = [AtMap EXCEPT ![t] = "out"]
    BY <2>1, AtIs, AtValues, AtMoves, SMTT(30) DEF AtMap
  <2>4. Fresh' = Fresh /\ InPile' = InPile
    BY <2>1, <2>2 DEF Fresh, InPile
  <2> QED  BY <2>1, <2>3, <2>4, MapMove
<1> QED  BY <1>1, <1>2, <1>3, <1>4, <1>5, <1>6

-----------------------------------------------------------------------------
(* The steps of dequeue.                                                   *)

(* Where nothing is found at a priority that has requests, another thread  *)
(* is busy with them.                                                      *)
LEMMA NothingFound ==
  ASSUME IInv, NEW t \in Threads, ScanNext(t), NEW r \in QueuedAt(place[t][1])
  PROVE  BusyBut(t)
<1> DEFINE p == place[t][1]
           b == Placement[r]
<1>0. TypeOK /\ Contents /\ OneOwner
  BY DEF IInv
<1>1. r \in Requests /\ fate[r] = "queued" /\ b[1] = p /\ b \in Buckets
  BY PileAssumption DEF QueuedAt
<1>2. queue[b] # <<>>
  <2>1. PICK i \in 1..Len(queue[b]) : queue[b][i] = r
    BY <1>0, <1>1 DEF Contents
  <2>2. Len(queue[b]) # 0
    BY <2>1, SMTT(30)
  <2> QED  BY <1>0, <1>1, <2>2, EmptyFacts, SMTT(30) DEF TypeOK
<1>3. /\ pc[t] = "scan" /\ (Multi(p) => index[p] = <<>>)
      /\ ~Multi(p) => queue[<<p, 1>>] = <<>>
  BY DEF ScanNext
<1>4. Multi(p)
  BY <1>1, <1>2, <1>3, BucketFacts
<1>5. ~IsPublished(b)
  BY <1>1, <1>3, <1>4, SMTT(30) DEF IsPublished
<1>6. IsHeld(b)
  BY <1>0, <1>1, <1>2, <1>4, <1>5 DEF OneOwner, OwnerOf
<1>7. PICK u \in Threads : pc[u] \in HolderSteps
  BY <1>6 DEF IsHeld, Holds
<1>8. u # t
  BY <1>3, <1>7 DEF HolderSteps
<1>9. AtMap[u] = AtOf(pc[u], cur[u])
  BY AtIs DEF AtMap
<1>10. AtOf(pc[u], cur[u]) \in {"index", "claim", "drive", "arm"}
  BY <1>7, AtValues, SMTT(30) DEF HolderSteps
<1> QED  BY <1>8, <1>9, <1>10 DEF BusyBut

(* A dequeue begins, passes a priority or comes back with nothing.          *)
LEMMA ScanMaps ==
  ASSUME IInv, NEW t \in Threads, Dequeue(t) \/ ScanNext(t)
  PROVE  Pile!Next \/ UNCHANGED Pile!vars
<1>0. TypeOK /\ Passed
  BY DEF IInv
<1>1. queue' = queue /\ fate' = fate /\ pc[t] \in {"out", "scan"}
  BY DEF Dequeue, ScanNext, piles
<1>2. CASE Dequeue(t)
  <2>1. Moved(t, "scan", None, <<1, 1>>) /\ missed' = missed /\ pc[t] = "out"
    BY <1>0, <1>2, MoveEffect DEF Dequeue
  <2>2. Claimed' = Claimed
    BY <1>1, <2>1, ClaimedMove
  <2>3. AtMap[t] = "out" /\ AtMap' = [AtMap EXCEPT ![t] = "dequeue"]
    BY <2>1, MapOut, AtMoves, AtValues, SMTT(30)
  <2>4. Fresh' = Fresh /\ InPile' = InPile
    BY <1>1, <2>2 DEF Fresh, InPile
  <2> QED  BY <2>1, <2>3, <2>4, MapMove
<1>3. CASE ScanNext(t) /\ place[t][1] < Len(Shape)
  <2> DEFINE p == place[t][1]
  <2>1. /\ Moved(t, "scan", None, <<p + 1, 1>>) /\ pc[t] = "scan"
        /\ missed' = [missed EXCEPT ![t] = @ \union QueuedAt(p)]
    BY <1>0, <1>3, GotoMoves DEF ScanNext
  <2>2. Claimed' = Claimed
    BY <1>1, <2>1, ClaimedMove
  <2>3. AtMap[t] = "dequeue" /\ AtMap' = AtMap
    BY <1>0, <2>1, AtScan, AtStays, AtValues, SMTT(30)
  <2>4. Fresh' = Fresh /\ InPile' = InPile
    BY <1>1, <2>2 DEF Fresh, InPile
  <2>5. CASE QueuedAt(p) = {}
    <3>1. missed' = missed
      BY <1>0, <2>1, <2>5 DEF TypeOK
    <3> QED  BY <2>3, <2>4, <3>1, MapStutter
  <2>6. CASE QueuedAt(p) # {}
    <3>1. BusyBut(t) /\ QueuedAt(p) \in SUBSET Requests
      BY <1>3, <2>6, NothingFound DEF QueuedAt
    <3> QED  BY <2>1, <2>3, <2>4, <3>1, MapPass
  <2> QED  BY <2>5, <2>6
<1>4. CASE ScanNext(t) /\ ~(place[t][1] < Len(Shape))
  <2> DEFINE p == place[t][1]
  <2>1. /\ Moved(t, "out", None, <<1, 1>>) /\ pc[t] = "scan"
        /\ missed' = [missed EXCEPT ![t] = {}]
    BY <1>0, <1>4, LeaveTypes DEF ScanNext, Found
  <2>2. Claimed' = Claimed
    BY <1>1, <2>1, ClaimedMove
  <2>3. AtMap[t] = "dequeue" /\ AtMap' = [AtMap EXCEPT ![t] = "out"]
    BY <1>0, <2>1, AtScan, AtMoves, AtValues, SMTT(30)
  <2>4. Fresh' = Fresh /\ InPile' = InPile
    BY <1>1, <2>2 DEF Fresh, InPile
  <2>5. ASSUME ~BusyBut(t), NEW r \in InPile PROVE r \in missed[t]
    <3>1. r \in Requests /\ fate[r] = "queued"
      BY DEF InPile
    <3>2. Placement[r][1] \in Priorities /\ p \in Priorities
      BY <1>0, <3>1, PileAssumption, BucketFacts DEF TypeOK
    <3>3. Placement[r][1] # p
      BY <1>4, <2>5, <3>1, NothingFound DEF QueuedAt
    <3>4. Placement[r][1] < p
      BY <1>4, <3>2, <3>3, BucketFacts, SMTT(30) DEF Priorities
    <3> QED  BY <1>0, <2>1, <3>1, <3>4 DEF Passed
  <2> QED  BY <2>1, <2>3, <2>4, <2>5, MapEmpty
<1> QED  BY <1>2, <1>3, <1>4

(* A request is taken from a single bucket, or from the bucket a thread    *)
(* drives, where it was claimed before.                                    *)
LEMMA TakeMaps ==
  ASSUME IInv, NEW t \in Threads, TryDequeue(t) \/ Consume(t) \/ Discard(t)
  PROVE  Pile!Next
<1> DEFINE b == place[t]
           h == Head(queue[b])
<1>0. TypeOK /\ Contents
  BY DEF IInv
<1>1. /\ b \in Buckets /\ Popped(b) /\ h \in Requests /\ fate[h] = "queued"
      /\ Placement[h] = b /\ (Turned(h, "taken") \/ Turned(h, "expired"))
  BY <1>0, TakeEffect
<1>2. Fresh' = Fresh
  BY <1>1 DEF Fresh, Turned
<1>3. ASSUME NEW u \in Threads \ {t}, Drives(u)
      PROVE  /\ place[u] # b /\ queue'[place[u]] = queue[place[u]]
             /\ FirstOf(u) # h
  <2>1. place[u] # b
    BY <1>3, PopAlone DEF Drives, HolderSteps
  <2> QED  BY <1>1, <1>3, <2>1, ClaimedFacts DEF Popped
<1>4. Claimed' = {FirstOf(u)' : u \in {v \in Threads : Drives(v)'}}
  BY DEF Claimed, FirstOf, Drives
<1>5. CASE TryDequeue(t)
  <2>1. /\ pc[t] = "scan" /\ missed' = [missed EXCEPT ![t] = {}]
        /\ \/ Moved(t, "out", None, <<1, 1>>)
           \/ Moved(t, "release", None, b)
    BY <1>0, <1>5, TakeEffect DEF TryDequeue, Found
  <2>2. AtMap[t] = "dequeue" /\ AtMap' = [AtMap EXCEPT ![t] = "out"]
    BY <1>0, <2>1, AtScan, AtMoves, AtValues, SMTT(30)
  <2>3. /\ \A u \in Threads : Drives(u)' <=> Drives(u)
        /\ \A u \in Threads : Drives(u) => u # t /\ place'[u] = place[u]
    BY <2>1 DEF Drives, Moved
  <2>4. Claimed' = Claimed
    BY <1>3, <2>3, ClaimedStay DEF FirstOf
  <2>5. h \notin Claimed
    BY <1>3, <2>3, ClaimedFacts, SMTT(30)
  <2>6. h \in InPile /\ InPile' = InPile \ {h}
    BY <1>1, <2>4, <2>5 DEF InPile, Turned
  <2> QED  BY <1>1, <1>2, <2>1, <2>2, <2>6, MapTake
<1>6. CASE Consume(t) \/ Discard(t)
  <2>1. /\ pc[t] = "drive" /\ missed' = missed
        /\ Moved(t, "arm", h, b) \/ Moved(t, "more", None, b)
    BY <1>0, <1>6, TakeEffect DEF Consume, Discard
  <2>2. h # None
    BY <1>1, PileAssumption
  <2>3. /\ AtMap[t] = "claim"
        /\ \/ AtMap' = [AtMap EXCEPT ![t] = "arm"]
           \/ AtMap' = [AtMap EXCEPT ![t] = "drive"]
    <3>1. AtMap[t] = "claim"
      BY <2>1, AtIs, AtValues, SMTT(30) DEF AtMap
    <3>2. CASE Moved(t, "arm", h, b)
      BY <2>2, <3>1, <3>2, AtMoves, AtValues, SMTT(30)
    <3>3. CASE Moved(t, "more", None, b)
      BY <3>1, <3>3, AtMoves, AtValues, SMTT(30)
    <3> QED  BY <2>1, <3>2, <3>3
  <2>4. /\ Drives(t) /\ ~Drives(t)' /\ FirstOf(t) = h
        /\ \A u \in Threads \ {t} :
             (Drives(u)' <=> Drives(u)) /\ place'[u] = place[u]
    BY <2>1 DEF Drives, FirstOf, Moved
  <2>5. \A u \in Threads \ {t} :
          Drives(u) => FirstOf(u)' = FirstOf(u) /\ FirstOf(u) # h
    BY <1>3, <2>4 DEF FirstOf
  <2>6. Claimed' = Claimed \ {h} /\ h \in Claimed
    BY <1>4, <2>4, <2>5, ClaimedFacts, SMTT(30)
  <2>7. InPile' = InPile
    BY <1>1, <2>6 DEF InPile, Turned
  <2> QED  BY <1>2, <2>1, <2>3, <2>7, MapMove
<1> QED  BY <1>5, <1>6

(* A thread comes to drive a bucket, goes on with it, or leaves it.        *)
LEMMA DriveMaps ==
  ASSUME IInv, NEW t \in Threads,
         \/ TryDequeueIndex(t) \/ DriveOn(t) \/ Arm(t) \/ Reindex(t)
         \/ CountDown(t)
  PROVE  Pile!Next \/ UNCHANGED Pile!vars
<1>0. TypeOK /\ Hands /\ OneOwner
  BY DEF IInv
<1>1. queue' = queue /\ fate' = fate /\ Fresh' = Fresh
  BY DEF TryDequeueIndex, DriveOn, Arm, Reindex, CountDown, piles, Fresh
<1>2. pc[t] # "scan" => missed = [missed EXCEPT ![t] = {}]
  BY <1>0 DEF Hands, HandsOf, TypeOK
<1>3. CASE TryDequeueIndex(t)
  <2> DEFINE p == place[t][1]
             b == Head(index[p])
  <2>1. /\ pc[t] = "scan" /\ missed' = [missed EXCEPT ![t] = {}]
        /\ Moved(t, "drive", None, b)
    BY <1>0, <1>3, MoveEffect DEF TryDequeueIndex, Found
  <2>2. p \in Priorities /\ index[p] # <<>>
    BY <1>3, Dequeued
  <2>3. b \in Buckets /\ Multi(b[1]) /\ IsPublished(b) /\ queue[b] # <<>>
    BY <2>2, IndexHead
  <2>4. \A u \in Threads : ~Holds(u, b)
    BY <1>0, <2>3 DEF OneOwner, OwnerOf, IsHeld
  <2>5. /\ Head(queue[b]) \in Requests /\ Head(queue[b]) \in InPile
        /\ InPile' = InPile \ {Head(queue[b])}
    BY <1>1, <2>1, <2>3, <2>4, ClaimedMore
  <2>6. AtMap[t] = "dequeue" /\ AtMap' = [AtMap EXCEPT ![t] = "claim"]
    BY <1>0, <2>1, AtScan, AtMoves, AtValues, SMTT(30)
  <2> QED  BY <1>1, <2>1, <2>5, <2>6, MapTake
<1>4. CASE DriveOn(t)
  <2>1. pc[t] = "more" /\ missed' = missed /\ place[t] \in Buckets
    BY <1>0, <1>4 DEF DriveOn, TypeOK
  <2>2. AtMap[t] = "drive"
    BY <2>1, AtIs, AtValues, SMTT(30) DEF AtMap
  <2>3. CASE Moved(t, "arm", None, place[t])
    <3>1. AtMap' = AtMap
      BY <2>2, <2>3, AtStays, AtValues, SMTT(30)
    <3>2. InPile' = InPile
      BY <1>1, <2>1, <2>3, ClaimedMove DEF InPile
    <3> QED  BY <1>1, <2>1, <3>1, <3>2, MapStutter
  <2>4. CASE queue[place[t]] # <<>> /\ Moved(t, "drive", None, place[t])
    <3>1. Holds(t, place[t]) /\ Multi(place[t][1])
      BY <1>0, <2>1 DEF Holds, HolderSteps, Hands, HandsOf
    <3>2. \A u \in Threads \ {t} : ~Holds(u, place[t])
      BY <1>0, <2>1, <3>1 DEF OneOwner, OwnerOf
    <3>3. /\ Head(queue[place[t]]) \in Requests
          /\ Head(queue[place[t]]) \in InPile
          /\ InPile' = InPile \ {Head(queue[place[t]])}
      BY <1>1, <2>1, <2>4, <3>2, ClaimedMore
    <3>4. AtMap' = [AtMap EXCEPT ![t] = "claim"]
      BY <2>4, AtMoves, AtValues, SMTT(30)
    <3>5. missed' = [missed EXCEPT ![t] = {}]
      BY <1>2, <2>1
    <3> QED  BY <1>1, <2>2, <3>3, <3>4, <3>5, MapTake
  <2> QED  BY <1>0, <1>4, <2>3, <2>4, MoveEffect
<1>5. CASE Arm(t) \/ Reindex(t)
  <2>1. pc[t] \in {"arm", "reindex"} /\ missed' = missed
    BY <1>5 DEF Arm, Reindex
  <2>2. AtMap[t] = AtOf(pc[t], cur[t])
    BY AtIs DEF AtMap
  <2>3. CASE Moved(t, "reindex", cur[t], place[t])
    <3>1. AtMap' = AtMap
      <4>1. CASE cur[t] = None
        BY <2>1, <2>2, <2>3, <4>1, AtStays, AtValues, SMTT(30)
      <4>2. CASE cur[t] # None
        BY <2>1, <2>2, <2>3, <4>2, AtStays, AtValues, SMTT(30)
      <4> QED  BY <4>1, <4>2
    <3>2. InPile' = InPile
      BY <1>1, <2>1, <2>3, ClaimedMove DEF InPile
    <3> QED  BY <1>1, <2>1, <3>1, <3>2, MapStutter
  <2>4. CASE Moved(t, "out", None, <<1, 1>>)
    <3>1. InPile' = InPile
      BY <1>1, <2>1, <2>4, ClaimedMove DEF InPile
    <3>2. AtMap' = [AtMap EXCEPT ![t] = "out"]
      BY <2>4, AtMoves, AtValues, SMTT(30)
    <3>3. CASE cur[t] = None
      <4>1. AtMap[t] = "drive"
        BY <2>1, <2>2, <3>3, AtValues
      <4>2. missed' = [missed EXCEPT ![t] = {}]
        BY <1>2, <2>1
      <4> QED  BY <1>1, <3>1, <3>2, <4>1, <4>2, MapEmpty
    <3>4. CASE cur[t] # None
      <4>1. AtMap[t] = "arm"
        BY <2>1, <2>2, <3>4, AtValues
      <4> QED  BY <1>1, <2>1, <3>1, <3>2, <4>1, MapMove
    <3> QED  BY <3>3, <3>4
  <2> QED  BY <1>0, <1>5, <2>3, <2>4, MoveEffect
<1>6. CASE CountDown(t)
  <2>1. Moved(t, "out", None, <<1, 1>>) /\ pc[t] = "release" /\ missed' = missed
    BY <1>0, <1>6, MoveEffect DEF CountDown
  <2>2. AtMap' = AtMap
    BY <2>1, MapOut, AtStays, AtValues, SMTT(30)
  <2>3. InPile' = InPile
    BY <1>1, <2>1, ClaimedMove DEF InPile
  <2> QED  BY <1>1, <2>1, <2>2, <2>3, MapStutter
<1> QED  BY <1>3, <1>4, <1>5, <1>6

-----------------------------------------------------------------------------
(* A new pile is a new abstract pile.                                      *)
LEMMA InitMaps == Init => Pile!Init
<1> SUFFICES ASSUME Init PROVE Pile!Init
  OBVIOUS
<1>1. Fresh = Requests /\ InPile = {}
  BY DEF Init, Fresh, InPile
<1>2. AtMap = [t \in Threads |-> "out"]
  BY MapOut DEF Init, AtMap
<1> QED  BY <1>1, <1>2 DEF Pile!Init, Fresh, InPile, AtMap, Init

(* Every step is a step of the abstract pile, or changes nothing of it.    *)
LEMMA NextMaps == IInv /\ [Next]_vars => [Pile!Next]_Pile!vars
<1> SUFFICES ASSUME IInv, [Next]_vars PROVE Pile!Next \/ UNCHANGED Pile!vars
  OBVIOUS
<1>1. ASSUME pc' = pc, cur' = cur, place' = place, queue' = queue,
             fate' = fate, missed' = missed
      PROVE  UNCHANGED Pile!vars
  <2>1. AtMap' = AtMap /\ Fresh' = Fresh /\ InPile' = InPile
    BY <1>1, SMTT(30) DEF AtMap, At, Fresh, InPile, Claimed
  <2> QED  BY <1>1, <2>1, MapStutter
<1>2. ASSUME NEW r \in Requests, Expire(r) PROVE UNCHANGED Pile!vars
  BY <1>1, <1>2 DEF Expire, threads
<1>3. CASE UNCHANGED vars
  BY <1>1, <1>3 DEF vars, piles, threads
<1> QED
  BY <1>2, <1>3, EnqueueMaps, ScanMaps, TakeMaps, DriveMaps DEF Next

-----------------------------------------------------------------------------
(* Facts about finite sets, which only the slots need.                     *)
INSTANCE FiniteSetTheorems

(* The slots of the buckets.                                               *)

(* The sets of threads between count_ and queue_.                          *)
LEMMA SlotSets ==
  ASSUME NEW p
  PROVE  /\ IsFiniteSet(InSlot(p)) /\ IsFiniteSet(Inserting(p))
         /\ Cardinality(InSlot(p)) \in Nat /\ Cardinality(Inserting(p)) \in Nat
         /\ Cardinality(Inserting(p)) <= Cardinality(InSlot(p))
<1>1. /\ InSlot(p) \subseteq Threads /\ Inserting(p) \subseteq InSlot(p)
      /\ IsFiniteSet(Threads)
  BY PileAssumption DEF InSlot, Inserting, OfferSteps
<1>2. IsFiniteSet(InSlot(p)) /\ IsFiniteSet(Inserting(p))
  BY <1>1, FS_Subset
<1> QED  BY <1>1, <1>2, FS_Subset, FS_CardinalityType

(* These sets when a thread has moved.                                      *)
LEMMA SlotMoves ==
  ASSUME NEW t \in Threads, NEW step, NEW r, NEW b, Moved(t, step, r, b), NEW p
  PROVE  /\ step \in OfferSteps \union {"release"} /\ b[1] = p =>
              InSlot(p)' = InSlot(p) \union {t}
         /\ ~(step \in OfferSteps \union {"release"} /\ b[1] = p) =>
              InSlot(p)' = InSlot(p) \ {t}
         /\ step = "insert" /\ b[1] = p =>
              Inserting(p)' = Inserting(p) \union {t}
         /\ ~(step = "insert" /\ b[1] = p) =>
              Inserting(p)' = Inserting(p) \ {t}
BY SMTT(30) DEF Moved, InSlot, Inserting

(* A set grows or shrinks by one thread.                                   *)
LEMMA OneMore ==
  ASSUME NEW S, IsFiniteSet(S), NEW t
  PROVE  /\ t \notin S => /\ Cardinality(S \union {t}) = Cardinality(S) + 1
                          /\ S \ {t} = S
         /\ t \in S => Cardinality(S \ {t}) = Cardinality(S) - 1
BY FS_AddElement, FS_RemoveElement

SlotsOf(p) ==
  /\ count[p] = Len(queue[<<p, 1>>]) + Cardinality(InSlot(p))
  /\ Len(queue[<<p, 1>>]) + Cardinality(Inserting(p)) <= MaxRequests

(* Single buckets keep their slots, when these hold for each of them.      *)
LEMMA SlotsSplit ==
  /\ Slots <=> (MaxRequests # 0 =>
       /\ \A b \in Buckets : Multi(b[1]) => Len(queue[b]) <= MaxRequests
       /\ \A p \in Priorities : ~Multi(p) => SlotsOf(p))
  /\ Slots' <=> (MaxRequests # 0 =>
       /\ \A b \in Buckets : Multi(b[1]) => Len(queue'[b]) <= MaxRequests
       /\ \A p \in Priorities : ~Multi(p) => SlotsOf(p)')
BY DEF Slots, SlotsOf

(* No slot is filled or given back.                                        *)
LEMMA SlotsStay ==
  ASSUME NEW p, SlotsOf(p), count'[p] = count[p],
         queue'[<<p, 1>>] = queue[<<p, 1>>],
         InSlot(p)' = InSlot(p), Inserting(p)' = Inserting(p)
  PROVE  SlotsOf(p)'
BY DEF SlotsOf

(* A thread moves outside the single buckets.                              *)
LEMMA SlotsMove ==
  ASSUME Slots, NEW t \in Threads, NEW step, NEW r, NEW b,
         pc[t] \notin OfferSteps \union {"release"},
         step \notin OfferSteps \union {"release"},
         Moved(t, step, r, b), count' = count, queue' = queue
  PROVE  Slots'
<1>1. ASSUME NEW p
      PROVE  InSlot(p)' = InSlot(p) /\ Inserting(p)' = Inserting(p)
  <2>1. t \notin InSlot(p) /\ t \notin Inserting(p)
    BY DEF InSlot, Inserting, OfferSteps
  <2>2. step # "insert"
    BY DEF OfferSteps
  <2> QED  BY <2>1, <2>2, SlotMoves, SMTT(30)
<1> QED  BY <1>1, SlotsStay, SlotsSplit

(* A thread is counted for a single bucket.                                *)
LEMMA SlotsCountUp ==
  ASSUME IInv, NEW t \in Threads, NEW r \in Requests, CountUp(t, r)
  PROVE  Slots'
<1> DEFINE p == Placement[r][1]
<1>0. TypeOK /\ Slots
  BY DEF IInv
<1>1. SUFFICES ASSUME MaxRequests # 0
               PROVE  /\ \A b \in Buckets : Multi(b[1]) =>
                           Len(queue'[b]) <= MaxRequests
                      /\ \A q \in Priorities : ~Multi(q) => SlotsOf(q)'
  BY SlotsSplit
<1>2. /\ queue' = queue /\ ~Multi(p) /\ pc[t] = "out" /\ p \in Priorities
      /\ count' = [count EXCEPT ![p] = @ + 1]
  BY <1>0, <1>1, CountUpEffect DEF CountUp
<1>3. /\ count'[p] = count[p] + 1 /\ count[p] \in Nat
      /\ \A q \in Priorities \ {p} : count'[q] = count[q]
  BY <1>0, <1>2 DEF TypeOK
<1>4. \/ Moved(t, "undo", r, Placement[r]) /\ count[p] >= MaxRequests
      \/ Moved(t, "insert", r, Placement[r]) /\ ~(count[p] >= MaxRequests)
  BY <1>0, <1>1, GotoMoves DEF CountUp
<1>5. \A q : t \notin InSlot(q) /\ t \notin Inserting(q)
  BY <1>2 DEF InSlot, Inserting, OfferSteps
<1>6. ASSUME NEW q \in Priorities, ~Multi(q) PROVE SlotsOf(q)'
  <2>1. SlotsOf(q)
    BY <1>0, <1>1, <1>6, SlotsSplit
  <2>2. CASE q # p
    <3>1. InSlot(q)' = InSlot(q) /\ Inserting(q)' = Inserting(q)
      BY <1>4, <1>5, <2>2, SlotMoves, SMTT(30)
    <3> QED  BY <1>2, <1>3, <2>1, <2>2, <3>1, SlotsStay
  <2>3. CASE q = p
    <3>1. Len(queue[<<q, 1>>]) \in Nat
      BY <1>0, <1>6, BucketFacts, EmptyFacts, SMTT(30) DEF TypeOK
    <3>2. InSlot(q)' = InSlot(q) \union {t}
      BY <1>4, <2>3, SlotMoves DEF OfferSteps
    <3>3. Cardinality(InSlot(q)') = Cardinality(InSlot(q)) + 1
      BY <1>5, <3>2, SlotSets, OneMore
    <3>4. CASE Moved(t, "undo", r, Placement[r])
      <4>1. Inserting(q)' = Inserting(q)
        BY <1>5, <3>4, SlotMoves, SMTT(30)
      <4> QED
        BY <1>2, <1>3, <2>1, <2>3, <3>1, <3>3, <4>1, SlotSets, SMTT(30)
        DEF SlotsOf
    <3>5. CASE /\ Moved(t, "insert", r, Placement[r])
               /\ ~(count[p] >= MaxRequests)
      <4>1. Inserting(q)' = Inserting(q) \union {t}
        BY <2>3, <3>5, SlotMoves
      <4>2. Cardinality(Inserting(q)') = Cardinality(Inserting(q)) + 1
        BY <1>5, <4>1, SlotSets, OneMore
      <4>3. MaxRequests \in Nat
        BY PileAssumption
      <4>4. /\ Cardinality(InSlot(q)) \in Nat
            /\ Cardinality(Inserting(q)) \in Nat
            /\ Cardinality(Inserting(q)) <= Cardinality(InSlot(q))
        BY SlotSets
      <4>5. count[q] = Len(queue[<<q, 1>>]) + Cardinality(InSlot(q))
        BY <2>1 DEF SlotsOf
      <4>6. /\ count'[q] = Len(queue[<<q, 1>>]) + Cardinality(InSlot(q)')
            /\ Len(queue[<<q, 1>>]) + Cardinality(Inserting(q)') <= MaxRequests
        BY <1>3, <2>3, <3>1, <3>3, <3>5, <4>2, <4>3, <4>4, <4>5, SMTT(30)
      <4> QED  BY <1>2, <4>6 DEF SlotsOf
    <3> QED  BY <1>4, <3>4, <3>5
  <2> QED  BY <2>2, <2>3
<1> QED  BY <1>0, <1>1, <1>2, <1>6, SlotsSplit

(* A counted thread gives its count back, or inserts.                      *)
LEMMA SlotsLeave ==
  ASSUME IInv, NEW t \in Threads, CountBack(t) \/ CountDown(t) \/ Insert(t)
  PROVE  Slots'
<1> DEFINE p == place[t][1]
<1>0. TypeOK /\ Hands /\ Slots
  BY DEF IInv
<1>1. SUFFICES ASSUME MaxRequests # 0
               PROVE  /\ \A b \in Buckets : Multi(b[1]) =>
                           Len(queue'[b]) <= MaxRequests
                      /\ \A q \in Priorities : ~Multi(q) => SlotsOf(q)'
  BY SlotsSplit
<1>2. /\ place[t] \in Buckets /\ p \in Priorities /\ ~Multi(p)
      /\ place[t] = <<p, 1>>
      /\ pc[t] \in OfferSteps \union {"release"}
  <2>1. pc[t] \in OfferSteps \union {"release"} /\ place[t] \in Buckets
    BY <1>0 DEF CountBack, CountDown, Insert, OfferSteps, TypeOK
  <2>2. ~Multi(p)
    BY <1>0, <2>1 DEF Hands, HandsOf
  <2> QED  BY <2>1, <2>2, BucketFacts
<1>3. Moved(t, "out", None, <<1, 1>>)
  BY <1>0, OfferedEffect, MoveEffect
<1>4. \A q : InSlot(q)' = InSlot(q) \ {t} /\ Inserting(q)' = Inserting(q) \ {t}
  BY <1>3, SlotMoves, SMTT(30) DEF OfferSteps
<1>5. /\ t \in InSlot(p) /\ (t \in Inserting(p) <=> pc[t] = "insert")
      /\ \A q : q # p => t \notin InSlot(q) /\ t \notin Inserting(q)
  BY <1>2 DEF InSlot, Inserting
<1>6. \A b \in Buckets : b # place[t] => queue'[b] = queue[b]
  <2>1. CASE Insert(t)
    BY <1>0, <2>1, OfferedEffect DEF Pushed
  <2>2. CASE CountBack(t) \/ CountDown(t)
    BY <2>2 DEF CountBack, CountDown
  <2> QED  BY <2>1, <2>2
<1>7. \A q \in Priorities \ {p} : count'[q] = count[q]
  BY <1>0 DEF CountBack, CountDown, Insert, TypeOK
<1>8. ASSUME NEW q \in Priorities, ~Multi(q) PROVE SlotsOf(q)'
  <2>1. SlotsOf(q) /\ <<q, 1>> \in Buckets
    BY <1>0, <1>1, <1>8, SlotsSplit, BucketFacts
  <2>2. CASE q # p
    <3>1. InSlot(q)' = InSlot(q) /\ Inserting(q)' = Inserting(q)
      BY <1>4, <1>5, <2>2
    <3>2. queue'[<<q, 1>>] = queue[<<q, 1>>]
      BY <1>2, <1>6, <2>1, <2>2, SMTT(30)
    <3> QED  BY <1>7, <2>1, <2>2, <3>1, <3>2, SlotsStay
  <2>3. CASE q = p
    <3>1. Len(queue[<<q, 1>>]) \in Nat /\ MaxRequests \in Nat
      BY <1>0, <2>1, EmptyFacts, PileAssumption DEF TypeOK
    <3>2. Cardinality(InSlot(q)') = Cardinality(InSlot(q)) - 1
      BY <1>4, <1>5, <2>3, SlotSets, OneMore
    <3>3. CASE Insert(t)
      <4>1. Cardinality(Inserting(q)') = Cardinality(Inserting(q)) - 1
        BY <1>4, <1>5, <2>3, <3>3, SlotSets, OneMore DEF Insert
      <4>2. Pushed(place[t], cur[t]) /\ cur[t] \in Requests /\ count' = count
        BY <1>0, <3>3, OfferedEffect DEF Insert
      <4>3. queue'[<<q, 1>>] = Append(queue[<<q, 1>>], cur[t])
        BY <1>2, <2>3, <4>2 DEF Pushed
      <4>4. Len(queue'[<<q, 1>>]) = Len(queue[<<q, 1>>]) + 1
        BY <1>0, <2>1, <4>2, <4>3, AppendFacts, SMTT(30) DEF TypeOK
      <4> QED
        BY <2>1, <3>1, <3>2, <4>1, <4>2, <4>4, SlotSets, SMTT(30)
        DEF SlotsOf
    <3>4. CASE CountBack(t) \/ CountDown(t)
      <4>1. /\ queue' = queue /\ pc[t] # "insert"
            /\ count' = [count EXCEPT ![p] = @ - 1]
        BY <3>4 DEF CountBack, CountDown
      <4>2. Inserting(q)' = Inserting(q)
        BY <1>4, <1>5, <2>3, <4>1
      <4>3. count'[q] = count[q] - 1
        BY <1>0, <1>2, <2>3, <4>1 DEF TypeOK
      <4> QED
        BY <2>1, <3>1, <3>2, <4>1, <4>2, <4>3, SlotSets, SMTT(30)
        DEF SlotsOf
    <3> QED  BY <3>3, <3>4
  <2> QED  BY <2>2, <2>3
<1>9. ASSUME NEW b \in Buckets, Multi(b[1]) PROVE Len(queue'[b]) <= MaxRequests
  BY <1>0, <1>1, <1>2, <1>6, <1>9, SlotsSplit
<1> QED  BY <1>8, <1>9

(* A request is taken: the thread keeps its slot of a single bucket.       *)
LEMMA SlotsTake ==
  ASSUME IInv, NEW t \in Threads, TryDequeue(t) \/ Consume(t) \/ Discard(t)
  PROVE  Slots'
<1> DEFINE p == place[t][1]
           b == place[t]
<1>0. TypeOK /\ Hands /\ Contents /\ Slots
  BY DEF IInv
<1>1. SUFFICES ASSUME MaxRequests # 0
               PROVE  /\ \A c \in Buckets : Multi(c[1]) =>
                           Len(queue'[c]) <= MaxRequests
                      /\ \A q \in Priorities : ~Multi(q) => SlotsOf(q)'
  BY SlotsSplit
<1>2. /\ b \in Buckets /\ Popped(b) /\ count' = count
      /\ pc[t] \notin OfferSteps \union {"release"}
  BY <1>0, TakeEffect DEF TryDequeue, Consume, Discard, OfferSteps
<1>3. /\ Len(queue'[b]) = Len(queue[b]) - 1 /\ Len(queue[b]) \in Nat
      /\ \A c \in Buckets \ {b} : queue'[c] = queue[c]
  BY <1>0, <1>2, TailFacts DEF Popped, TypeOK
<1>4. MaxRequests \in Nat
  BY PileAssumption
<1>5. ASSUME NEW c \in Buckets, Multi(c[1]) PROVE Len(queue'[c]) <= MaxRequests
  <2>1. Len(queue[c]) <= MaxRequests
    BY <1>0, <1>1, <1>5, SlotsSplit
  <2> QED  BY <1>3, <1>4, <2>1, SMTT(30)
<1>6. \A q : t \notin InSlot(q) /\ t \notin Inserting(q)
  BY <1>2 DEF InSlot, Inserting, OfferSteps
<1>7. ASSUME NEW q \in Priorities, ~Multi(q) PROVE SlotsOf(q)'
  <2>1. SlotsOf(q) /\ <<q, 1>> \in Buckets /\ <<q, 1>>[1] = q
    BY <1>0, <1>1, <1>7, SlotsSplit, BucketFacts
  <2>2. CASE Consume(t) \/ Discard(t)
    <3>1. Multi(p)
      BY <1>0, <2>2 DEF Consume, Discard, Hands, HandsOf, HolderSteps
    <3>2. queue'[<<q, 1>>] = queue[<<q, 1>>]
      BY <1>3, <1>7, <2>1, <3>1
    <3>3. InSlot(q)' = InSlot(q) /\ Inserting(q)' = Inserting(q)
      <4>1. PICK step, r : Moved(t, step, r, b) /\ step \in {"arm", "more"}
        BY <1>0, <2>2, TakeEffect
      <4>2. step \notin OfferSteps \union {"release"} /\ step # "insert"
        BY <4>1 DEF OfferSteps
      <4> QED  BY <1>6, <4>1, <4>2, SlotMoves, SMTT(30)
    <3> QED  BY <1>2, <2>1, <3>2, <3>3, SlotsStay
  <2>3. CASE TryDequeue(t)
    <3>1. ~Multi(p) /\ b = <<p, 1>> /\ Moved(t, "release", None, b)
      BY <1>0, <1>1, <1>2, <2>3, BucketFacts, GotoMoves DEF TryDequeue
    <3>2. Inserting(q)' = Inserting(q)
      BY <1>6, <3>1, SlotMoves, SMTT(30)
    <3>3. CASE q # p
      <4>1. InSlot(q)' = InSlot(q)
        BY <1>6, <3>1, <3>3, SlotMoves, SMTT(30)
      <4>2. queue'[<<q, 1>>] = queue[<<q, 1>>]
        BY <1>3, <2>1, <3>3
      <4> QED  BY <1>2, <2>1, <3>2, <4>1, <4>2, SlotsStay
    <3>4. CASE q = p
      <4>1. InSlot(q)' = InSlot(q) \union {t}
        BY <3>1, <3>4, SlotMoves
      <4>2. Cardinality(InSlot(q)') = Cardinality(InSlot(q)) + 1
        BY <1>6, <4>1, SlotSets, OneMore
      <4>3. /\ Len(queue'[<<q, 1>>]) = Len(queue[<<q, 1>>]) - 1
            /\ Len(queue[<<q, 1>>]) \in Nat
        BY <1>3, <3>1, <3>4
      <4> QED
        BY <1>2, <1>4, <2>1, <3>2, <4>2, <4>3, SlotSets, SMTT(30) DEF SlotsOf
    <3> QED  BY <3>3, <3>4
  <2> QED  BY <2>2, <2>3
<1> QED  BY <1>5, <1>7

(* Every step conserves the slots.                                         *)
LEMMA SlotsStep ==
  ASSUME IInv, [Next]_vars
  PROVE  Slots'
<1>0. TypeOK /\ Hands /\ Slots
  BY DEF IInv
<1>1. ASSUME queue' = queue, count' = count, pc' = pc, place' = place
      PROVE  Slots'
  BY <1>0, <1>1 DEF Slots, InSlot, Inserting
<1>2. ASSUME NEW t \in Threads, NEW r \in Requests, Reject(t, r) PROVE Slots'
  BY <1>1, <1>2 DEF Reject, threads
<1>3. ASSUME NEW t \in Threads, NEW r \in Requests, TryPush(t, r) PROVE Slots'
  <2> DEFINE b == Placement[r]
  <2>1. /\ b \in Buckets /\ Pushed(b, r) /\ Multi(b[1]) /\ pc[t] = "out"
        /\ count' = count /\ (MaxRequests = 0 \/ Len(queue[b]) < MaxRequests)
        /\ threads' = threads \/ Moved(t, "index", None, b)
    BY <1>0, <1>3, TryPushEffect DEF TryPush
  <2>2. /\ Len(queue'[b]) = Len(queue[b]) + 1 /\ Len(queue[b]) \in Nat
        /\ \A c \in Buckets \ {b} : queue'[c] = queue[c]
    BY <1>0, <2>1, AppendFacts, SMTT(30) DEF Pushed, TypeOK
  <2>3. ASSUME NEW q
        PROVE  InSlot(q)' = InSlot(q) /\ Inserting(q)' = Inserting(q)
    BY <2>1 DEF threads, Moved, InSlot, Inserting, OfferSteps
  <2>4. MaxRequests \in Nat
    BY PileAssumption
  <2>5. ASSUME MaxRequests # 0, NEW c \in Buckets, Multi(c[1])
        PROVE  Len(queue'[c]) <= MaxRequests
    <3>1. CASE c = b
      BY <2>1, <2>2, <2>4, <2>5, <3>1, SMTT(30)
    <3>2. CASE c # b
      BY <1>0, <2>2, <2>5, <3>2, SlotsSplit
    <3> QED  BY <3>1, <3>2
  <2>6. ASSUME MaxRequests # 0, NEW q \in Priorities, ~Multi(q)
        PROVE  SlotsOf(q)'
    <3>1. SlotsOf(q) /\ <<q, 1>> \in Buckets /\ <<q, 1>>[1] = q
      BY <1>0, <2>6, SlotsSplit, BucketFacts
    <3>2. queue'[<<q, 1>>] = queue[<<q, 1>>]
      BY <2>1, <2>2, <2>6, <3>1
    <3> QED  BY <2>1, <2>3, <3>1, <3>2, SlotsStay
  <2> QED  BY <2>5, <2>6, SlotsSplit
<1>4. ASSUME NEW t \in Threads,
             \/ PublishIndex(t) \/ Dequeue(t) \/ ScanNext(t)
             \/ TryDequeueIndex(t) \/ DriveOn(t) \/ Arm(t) \/ Reindex(t)
      PROVE  Slots'
  <2>1. /\ count' = count /\ queue' = queue
        /\ pc[t] \notin OfferSteps \union {"release"}
    BY <1>4 DEF PublishIndex, Dequeue, ScanNext, TryDequeueIndex, DriveOn, Arm,
                Reindex, piles, OfferSteps
  <2>2. PICK step, r, b : /\ Moved(t, step, r, b)
                          /\ step \in {"out", "scan", "drive", "arm", "reindex"}
    BY <1>0, <1>4, MoveEffect
  <2>3. step \notin OfferSteps \union {"release"}
    BY <2>2 DEF OfferSteps
  <2> QED  BY <1>0, <2>1, <2>2, <2>3, SlotsMove
<1>5. ASSUME NEW r \in Requests, Expire(r) PROVE Slots'
  BY <1>1, <1>5 DEF Expire, threads
<1>6. CASE UNCHANGED vars
  BY <1>1, <1>6 DEF vars, piles, threads
<1> QED
  BY <1>2, <1>3, <1>4, <1>5, <1>6, SlotsCountUp, SlotsLeave, SlotsTake DEF Next

-----------------------------------------------------------------------------
(* The inductive invariant holds, and what follows from it.                *)
LEMMA InitIInv == Init => IInv
<1> SUFFICES ASSUME Init PROVE IInv
  OBVIOUS
<1> USE DEF Init
<1>1. TypeOK
  BY BucketFacts, PileAssumption, SMTT(30) DEF TypeOK
<1>2. Hands /\ OwnOffer /\ Passed /\ InTurn
  BY DEF Hands, HandsOf, OwnOffer, Passed, InTurn, OfferSteps, HolderSteps
<1>3. Contents
  BY EmptyFacts, SMTT(30) DEF Contents
<1>4. OneOwner
  <2>1. \A p \in Priorities : index[p] = <<>> /\ Len(index[p]) = 0
    OBVIOUS
  <2>2. \A b \in Buckets : ~IsPublished(b) /\ ~IsHeld(b) /\ armed[b]
    BY <2>1, BucketFacts, SMTT(30) DEF IsPublished, IsHeld, Holds, HolderSteps
  <2> QED  BY <2>1, <2>2, SMTT(30) DEF OneOwner, OwnerOf, IndexOf, IsHeld
<1>5. Slots
  <2>1. \A p : InSlot(p) = {} /\ Inserting(p) = {}
    BY DEF InSlot, Inserting, OfferSteps
  <2>2. \A b \in Buckets : Len(queue[b]) = 0
    OBVIOUS
  <2>3. \A p \in Priorities : <<p, 1>> \in Buckets /\ count[p] = 0
    BY BucketFacts
  <2>4. MaxRequests \in Nat /\ Cardinality({}) = 0
    BY PileAssumption, FS_EmptySet
  <2>5. \A p \in Priorities : SlotsOf(p)
    <3> SUFFICES ASSUME NEW p \in Priorities PROVE SlotsOf(p)
      OBVIOUS
    <3>1. /\ Cardinality(InSlot(p)) = 0 /\ Cardinality(Inserting(p)) = 0
          /\ Len(queue[<<p, 1>>]) = 0 /\ count[p] = 0
      BY <2>1, <2>2, <2>3, <2>4
    <3> HIDE DEF Init
    <3> QED  BY <2>4, <3>1, SMTT(30) DEF SlotsOf
  <2> QED  BY <2>2, <2>4, <2>5, SlotsSplit, SMTT(30)
<1> QED  BY <1>1, <1>2, <1>3, <1>4, <1>5 DEF IInv

(* Every step keeps hold of what the threads have.                          *)
LEMMA HandsStep ==
  ASSUME IInv, [Next]_vars
  PROVE  Hands'
<1>1. Hands
  BY DEF IInv
<1>2. ASSUME NEW r \in Requests, Expire(r) PROVE Hands'
  BY <1>1, <1>2 DEF Expire, threads, Hands, HandsOf
<1>3. CASE UNCHANGED vars
  BY <1>1, <1>3 DEF vars, piles, threads, Hands, HandsOf
<1> QED  BY <1>2, <1>3, HandsEnqueue, HandsDequeue DEF Next

(* A thread that takes its count back, or gives it back, has been counted. *)
LEMMA CountPositive ==
  ASSUME TypeOK, Hands, Slots, NEW t \in Threads
  PROVE  CountedOnce(t)
<1> SUFFICES ASSUME pc[t] \in {"undo", "release"}
             PROVE  place[t][1] \in Priorities /\ count[place[t][1]] - 1 \in Nat
  BY DEF CountedOnce
<1> DEFINE p == place[t][1]
<1>1. place[t] \in Buckets /\ p \in Priorities /\ <<p, 1>> \in Buckets
  BY BucketFacts DEF TypeOK
<1>2. MaxRequests # 0 /\ ~Multi(p) /\ t \in InSlot(p)
  BY DEF Hands, HandsOf, InSlot, OfferSteps
<1>3. IsFiniteSet(InSlot(p))
  BY PileAssumption, FS_Subset DEF InSlot
<1>4. Cardinality(InSlot(p)) \in Nat \ {0}
  BY <1>2, <1>3, FS_EmptySet, FS_CardinalityType
<1>5. Len(queue[<<p, 1>>]) \in Nat
  BY <1>1, EmptyFacts DEF TypeOK
<1>6. count[p] = Len(queue[<<p, 1>>]) + Cardinality(InSlot(p))
  BY <1>1, <1>2 DEF Slots
<1> QED  BY <1>1, <1>4, <1>5, <1>6, SMTT(30)

(* The invariant is inductive ...                                           *)
LEMMA NextIInv == IInv /\ [Next]_vars => IInv'
BY TypeStep, CountPositive, HandsStep, OwnOfferStep, ContentsStep, OneOwnerStep,
   InTurnStep, PassedStep, SlotsStep DEF IInv

(* ... and so holds in every state.                                         *)
LEMMA AlwaysIInv == Spec => []IInv
BY InitIInv, NextIInv, PTL DEF Spec

(* A set with at most one element, counted.                                *)
LEMMA AtMostOne ==
  ASSUME NEW S, \A x, y \in S : x = y
  PROVE  Cardinality(S) = IF S = {} THEN 0 ELSE 1
<1>1. CASE S = {}
  BY <1>1, FS_EmptySet
<1>2. CASE S # {}
  <2>1. PICK x : S = {x}
    BY <1>2, SMTT(30)
  <2> QED  BY <2>1, FS_Singleton
<1> QED  BY <1>1, <1>2

(* One owner for each bucket is one consumer, counted.                      *)
LEMMA OwnersAsCounted == IInv => OneConsumer
<1> SUFFICES ASSUME IInv, NEW b \in Buckets, Multi(b[1])
             PROVE  /\ (IF armed[b] THEN 1 ELSE 0) + Cardinality(Published(b))
                         + Cardinality(Holders(b)) = 1
                    /\ queue[b] # <<>> => ~armed[b]
                    /\ Published(b) # {} => queue[b] # <<>>
  BY DEF IInv, OneConsumer
<1>1. b[1] \in Priorities /\ index[b[1]] \in Seq(Buckets)
  BY BucketFacts DEF IInv, TypeOK
<1>2. OwnerOf(b) /\ IndexOf(b[1])
  BY <1>1 DEF IInv, OneOwner
<1>3. Published(b) # {} <=> IsPublished(b)
  BY <1>1, SMTT(30) DEF Published, IsPublished
<1>4. Holders(b) # {} <=> IsHeld(b)
  BY DEF Holders, IsHeld, Holds, HolderSteps
<1>5. \A i, j \in Published(b) : i = j
  BY <1>1, <1>2, SMTT(30) DEF Published, IndexOf
<1>6. \A t, u \in Holders(b) : t = u
  <2>1. \A t \in Holders(b) : t \in Threads /\ Holds(t, b)
    BY DEF Holders, Holds, HolderSteps
  <2> QED  BY <1>2, <2>1 DEF OwnerOf
<1>7. /\ Cardinality(Published(b)) = IF Published(b) = {} THEN 0 ELSE 1
      /\ Cardinality(Holders(b)) = IF Holders(b) = {} THEN 0 ELSE 1
  BY <1>5, <1>6, AtMostOne
<1>8. CASE armed[b]
  <2>1. Published(b) = {} /\ Holders(b) = {}
    BY <1>2, <1>3, <1>4, <1>8 DEF OwnerOf
  <2> QED  BY <1>2, <1>7, <1>8, <2>1, SMTT(30) DEF OwnerOf
<1>9. CASE ~armed[b] /\ IsPublished(b)
  <2>1. Published(b) # {} /\ Holders(b) = {} /\ queue[b] # <<>>
    BY <1>2, <1>3, <1>4, <1>9 DEF OwnerOf
  <2> QED  BY <1>7, <1>9, <2>1, SMTT(30)
<1>10. CASE ~armed[b] /\ ~IsPublished(b)
  <2>1. Published(b) = {} /\ Holders(b) # {}
    BY <1>2, <1>3, <1>4, <1>10 DEF OwnerOf
  <2> QED  BY <1>7, <1>10, <2>1, SMTT(30)
<1> QED  BY <1>8, <1>9, <1>10

(* Every bucket with an index queue is armed, published once or in the     *)
(* hands of one thread: its single-consumer queue never has two consumers, *)
(* and no request waits in a bucket no one will look for.                  *)
THEOREM BucketHasOneConsumer == Spec => []OneConsumer
BY AlwaysIInv, OwnersAsCounted, PTL

(* The slots as the property counts them.                                   *)
LEMMA SlotsAsCounted == IInv => SlotsConserved
<1> SUFFICES ASSUME IInv, MaxRequests # 0
             PROVE  SlotsConserved
  BY DEF SlotsConserved
<1>0. Slots /\ TypeOK /\ MaxRequests \in Nat
  BY PileAssumption DEF IInv
<1>1. ASSUME NEW b \in Buckets PROVE Len(queue[b]) <= MaxRequests
  <2>1. CASE Multi(b[1])
    BY <1>0, <2>1 DEF Slots
  <2>2. CASE ~Multi(b[1])
    <3>1. b[1] \in Priorities /\ b = <<b[1], 1>> /\ Len(queue[b]) \in Nat
      BY <1>0, <2>2, BucketFacts, EmptyFacts DEF TypeOK
    <3>2. Len(queue[b]) + Cardinality(Inserting(b[1])) <= MaxRequests
      BY <1>0, <2>2, <3>1 DEF Slots
    <3>3. Cardinality(Inserting(b[1])) \in Nat
      BY SlotSets
    <3> QED  BY <1>0, <3>1, <3>2, <3>3, SMTT(30)
  <2> QED  BY <2>1, <2>2
<1>2. ASSUME NEW p \in Priorities, ~Multi(p)
      PROVE  count[p] = Len(queue[<<p, 1>>])
               + Cardinality({t \in Threads :
                   pc[t] \in {"insert", "undo", "release"} /\ place[t][1] = p})
  <2>1. InSlot(p) = {t \in Threads :
          pc[t] \in {"insert", "undo", "release"} /\ place[t][1] = p}
    BY DEF InSlot, OfferSteps
  <2>2. count[p] = Len(queue[<<p, 1>>]) + Cardinality(InSlot(p))
    BY <1>0, <1>2 DEF Slots
  <2> QED  BY <2>1, <2>2
<1> QED  BY <1>1, <1>2 DEF SlotsConserved

(* No bucket holds more than its limit, and count_ of a single bucket      *)
(* queue is its requests and the threads between count_ and queue_.        *)
THEOREM SlotsAlwaysConserved == Spec => []SlotsConserved
BY AlwaysIInv, SlotsAsCounted, PTL

(* The bucket at the head of an index queue was not served since any other *)
(* bucket of the queue was enqueued.                                       *)
LEMMA HeadNotServed ==
  ASSUME IInv, NEW p \in Priorities, NEW i \in 2..Len(index[p])
  PROVE  <<index[p][i], Head(index[p])>> \notin overtaken
<1> DEFINE x == <<index[p][i], Head(index[p])>>
<1>1. SUFFICES ASSUME x \in overtaken PROVE FALSE
  OBVIOUS
<1>2. index[p] \in Seq(Buckets) /\ OneOwner /\ InTurn
  BY DEF IInv, TypeOK
<1>3. Len(index[p]) \in Nat /\ (index[p] = <<>> <=> Len(index[p]) = 0)
  BY <1>2, EmptyFacts
<1>4. i \in 1..Len(index[p]) /\ 1 \in 1..Len(index[p]) /\ index[p] # <<>>
  BY <1>3, SMTT(30)
<1>5. Head(index[p]) = index[p][1] /\ index[p][i][1] = p
  BY <1>2, <1>4, IndexHead DEF OneOwner, IndexOf
<1>6. x[1] = index[p][i] /\ x[2] = index[p][1] /\ x[1][1] = p
  BY <1>5
<1>7. \A k, j \in 1..Len(index[p]) :
        index[p][k] = x[1] /\ index[p][j] = x[2] => k < j
  BY <1>1, <1>2, <1>6 DEF InTurn
<1> QED  BY <1>4, <1>6, <1>7, SMTT(30)

(* Whatever is enqueued meanwhile, no bucket is served twice while another *)
(* one of its priority waits in the index queue.                           *)
THEOREM ServedInTurn == Spec => RoundRobin
<1>1. IInv /\ [Next]_vars =>
        [\A t \in Threads : TryDequeueIndex(t) =>
           LET p == place[t][1] IN
           \A i \in 2..Len(index[p]) :
             <<index[p][i], Head(index[p])>> \notin overtaken]_vars
  <2> SUFFICES ASSUME IInv, NEW t \in Threads, TryDequeueIndex(t),
                      NEW i \in 2..Len(index[place[t][1]])
               PROVE  <<index[place[t][1]][i], Head(index[place[t][1]])>>
                        \notin overtaken
    OBVIOUS
  <2>1. place[t][1] \in Priorities
    BY BucketFacts DEF IInv, TypeOK
  <2> QED  BY <2>1, HeadNotServed
<1> QED  BY <1>1, AlwaysIInv, PTL DEF Spec, RoundRobin

(* The round robin pile, with its racing threads, keeps the promise the    *)
(* concurrency controller relies on: every accepted request is handed out  *)
(* or discarded once, and a dequeue comes back empty-handed only if each   *)
(* request came too late or was in a bucket another thread was busy with.  *)
THEOREM PileKeepsItsPromise == Spec => ImplementsRequestPile
BY InitMaps, NextMaps, AlwaysIInv, PTL
   DEF Spec, ImplementsRequestPile, Pile!Spec

================================================================================
