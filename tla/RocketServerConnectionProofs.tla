--------------------- MODULE RocketServerConnectionProofs ---------------------
(***************************************************************************)
(* A connection completes every request once, after its last frame is      *)
(* written, is clean when it is closed, keeps its streams, sinks, timeouts *)
(* and counts in agreement and its streams paused as it should: for any    *)
(* number of requests, credits and read pauses, and any thresholds, as     *)
(* long as no stream or sink dies unanswered (Faulty has single and oneway *)
(* requests only).                                                         *)
(***************************************************************************)
EXTENDS RocketServerConnection, FiniteSetTheorems, TLAPS

USE ZenonT(30)

Frames == Ids \cup {Stream0}
WriteContexts == [frames : Seq(Frames), owed : SUBSET Ids]

(* The members have their types.                                           *)
Typed(d) ==
  /\ DOMAIN d = {"state", "code", "drained", "timer", "sock", "reading",
                 "active", "answered", "flow", "tokens", "timers", "finals",
                 "batch", "owed", "writes", "handles", "paused", "grants",
                 "ended", "reported", "leftover"}
  /\ d.state \in {"ALIVE", "DRAINING", "CLOSING", "CLOSED"}
  /\ d.drained \in BOOLEAN /\ d.timer \in BOOLEAN /\ d.paused \in BOOLEAN
  /\ d.sock \in {"open", "eof", "closed", "error"}
  /\ d.active \subseteq Ids /\ d.timers \subseteq Flows
  /\ d.flow \in [Flows -> {"none", "early", "cancelled", "ready", "final"}]
  /\ d.tokens \in [Flows -> 0..MaxTokens]
  /\ d.finals \in Int /\ d.handles \in 0..MaxHandles
  /\ d.batch \in Seq(Frames) /\ d.writes \in Seq(WriteContexts)
  /\ d.ended \in [Ids -> Int]
  /\ d.owed \subseteq Ids /\ d.reported \subseteq Ids

(* Where the requests that were read, a, are: those in flight have a frame *)
(* context and, if they are for a stream or a sink, a handler that is not  *)
(* ready or, once they are refused, none; those that have neither context  *)
(* nor handler are completed.                                              *)
Life(d, a) ==
  /\ d.active \subseteq a
  /\ \A s \in Flows :
       /\ d.flow[s] \in {"early", "cancelled"} => s \in d.active
       /\ s \in d.active => d.flow[s] \in {"none", "early", "cancelled"}
       /\ d.flow[s] # "none" => s \in a
  /\ \A x \in Ids :
       d.ended[x] = IF /\ x \in a \ d.active
                       /\ x \in Flows => d.flow[x] = "none"
                      THEN 1 ELSE 0

Finals(d) == {s \in Sinks : d.flow[s] = "final"}

(* The timeouts and the final responses agree with the handlers.           *)
HandlerOf(d, s) ==
  /\ s \in d.timers <=> /\ d.flow[s] = "ready"
                        /\ s \in Streams <=> d.tokens[s] = 0
  /\ s \in Streams => /\ d.flow[s] # "final"
                      /\ d.flow[s] = "early" => d.tokens[s] # 0

Handlers(d) ==
  /\ \A s \in Flows : HandlerOf(d, s)
  /\ d.finals = Cardinality(Finals(d))

(* The requests with a frame that the socket has.                          *)
Unwritten(ws) == UNION {Range(ws[i].frames) : i \in DOMAIN ws}

(* A request is owed by one write, and has no frame in a later one.        *)
InOrder(ws) ==
  \A i, j \in DOMAIN ws :
    i < j => ws[i].owed \cap (ws[j].owed \cup Range(ws[j].frames)) = {}

(* A request that is completed is owed by the batch or by a write, or is   *)
(* reported, and has no frame behind that.                                 *)
Writing(d) ==
  /\ d.batch = <<>> => d.owed = {}
  /\ \A x \in Ids :
       d.ended[x] = IF x \in d.owed \cup d.reported \cup Owed(d.writes)
                      THEN 1 ELSE 0
  /\ d.owed \cap d.reported = {}
  /\ (d.owed \cup d.reported) \cap Owed(d.writes) = {}
  /\ d.reported \cap (Range(d.batch) \cup Unwritten(d.writes)) = {}
  /\ Owed(d.writes) \cap Range(d.batch) = {}
  /\ InOrder(d.writes)

(* Nothing more can happen to a closed connection.                         *)
Quiet(d) ==
  /\ d.drained => ~d.timer
  /\ d.state = "CLOSED" =>
       /\ d.active = {} /\ d.finals = 0 /\ d.timers = {} /\ d.handles = 0
       /\ d.batch = <<>> /\ d.writes = <<>> /\ ~d.timer /\ Dead(d)
       /\ \A s \in Flows : d.flow[s] = "none"

Ready(d) == {s \in Streams : d.flow[s] = "ready"}

(* Streams are paused as the buffer of the socket requires, and know it.   *)
Pressure(d, t) ==
  d.sock = "open" =>
    /\ Threshold # 0 /\ Buffered(d) > Threshold => d.paused
    /\ d.paused => d.writes # <<>> /\ Buffered(d) >= Recovery
    /\ t = IF d.paused THEN Ready(d) ELSE {}

Good(d, a) ==
  Typed(d) /\ Life(d, a) /\ Handlers(d) /\ Writing(d) /\ Quiet(d)

IInv ==
  /\ arrived \subseteq Ids /\ IsFiniteSet(arrived)
  /\ told \subseteq Streams
  /\ Good(c, arrived)
  /\ Pressure(c, told)

-----------------------------------------------------------------------------
(* The batch and the queue of writes.                                      *)

(* What a sequence holds when it grows.                                    *)
LEMMA RangeFacts ==
  ASSUME NEW S, NEW s \in Seq(S), NEW x \in S
  PROVE  /\ Range(Append(s, x)) = Range(s) \cup {x}
         /\ Append(s, x) \in Seq(S) /\ Append(s, x) # <<>>
         /\ Range(<<>>) = {}
<1>1. /\ Append(s, x) \in Seq(S) /\ Len(s) \in Nat /\ DOMAIN s = 1..Len(s)
      /\ DOMAIN Append(s, x) = 1..(Len(s) + 1)
      /\ \A i \in 1..Len(s) : Append(s, x)[i] = s[i]
      /\ Append(s, x)[Len(s) + 1] = x
  BY SMTT(30)
<1>2. \A i \in 1..(Len(s) + 1) : i \in 1..Len(s) \/ i = Len(s) + 1
  BY <1>1, SMTT(30)
<1>3. Len(s) + 1 \in 1..(Len(s) + 1) /\ 1..Len(s) \subseteq 1..(Len(s) + 1)
  BY <1>1, SMTT(30)
<1>4. Range(Append(s, x)) = Range(s) \cup {x}
  BY <1>1, <1>2, <1>3 DEF Range
<1>5. Append(s, x) # <<>>
  BY <1>1, SMTT(30)
<1>6. Range(<<>>) = {}
  BY SMTT(30) DEF Range
<1> QED  BY <1>1, <1>4, <1>5, <1>6

(* What a part of a sequence holds.                                        *)
LEMMA RangeSub ==
  ASSUME NEW S, NEW s \in Seq(S), NEW m \in Nat, NEW n \in 0..Len(s)
  PROVE  /\ SubSeq(s, m + 1, n) \in Seq(S)
         /\ Range(SubSeq(s, m + 1, n)) \subseteq Range(s)
BY SMTT(30) DEF Range

(* What is owed, and what is not written yet, by a queue of writes.        *)
LEMMA InQueue ==
  ASSUME NEW ws, NEW x
  PROVE  /\ x \in Owed(ws) <=> \E i \in DOMAIN ws : x \in ws[i].owed
         /\ x \in Unwritten(ws) <=>
              \E i \in DOMAIN ws : x \in Range(ws[i].frames)
BY DEF Owed, Unwritten

(* The queue is empty.                                                     *)
LEMMA NoWrites == Owed(<<>>) = {} /\ Unwritten(<<>>) = {} /\ InOrder(<<>>)
BY SMTT(30) DEF Owed, Unwritten, InOrder

(* The oldest write leaves the queue.                                      *)
LEMMA OldestWrite ==
  ASSUME NEW ws \in Seq(WriteContexts), ws # <<>>, InOrder(ws)
  PROVE  /\ Tail(ws) \in Seq(WriteContexts) /\ Head(ws) \in WriteContexts
         /\ Owed(ws) = Head(ws).owed \cup Owed(Tail(ws))
         /\ Unwritten(Tail(ws)) \subseteq Unwritten(ws)
         /\ Head(ws).owed \cap (Owed(Tail(ws)) \cup Unwritten(Tail(ws))) = {}
         /\ InOrder(Tail(ws))
<1> DEFINE t == Tail(ws)
<1>1. /\ t \in Seq(WriteContexts) /\ Head(ws) \in WriteContexts
      /\ Head(ws) = ws[1] /\ Len(ws) \in Nat /\ Len(ws) >= 1
      /\ DOMAIN ws = 1..Len(ws) /\ DOMAIN t = 1..(Len(ws) - 1)
      /\ \A i \in 1..(Len(ws) - 1) : t[i] = ws[i + 1]
  BY SMTT(30)
<1> HIDE DEF t
<1>2. \A i \in DOMAIN t : i + 1 \in DOMAIN ws /\ t[i] = ws[i + 1] /\ 1 < i + 1
  BY <1>1, SMTT(30)
<1>3. \A i \in DOMAIN ws : i = 1 \/ (i - 1 \in DOMAIN t /\ t[i - 1] = ws[i])
  BY <1>1, SMTT(30)
<1>4. 1 \in DOMAIN ws
  BY <1>1, SMTT(30)
<1>5. Owed(ws) = Head(ws).owed \cup Owed(t)
  <2>1. ASSUME NEW x \in Owed(ws) PROVE x \in Head(ws).owed \cup Owed(t)
    <3>1. PICK i \in DOMAIN ws : x \in ws[i].owed
      BY InQueue
    <3> QED  BY <1>1, <1>3, <3>1, InQueue
  <2>2. ASSUME NEW x \in Owed(t) PROVE x \in Owed(ws)
    BY <1>2, InQueue
  <2>3. ASSUME NEW x \in Head(ws).owed PROVE x \in Owed(ws)
    BY <1>1, <1>4, InQueue
  <2> QED  BY <2>1, <2>2, <2>3
<1>6. Unwritten(t) \subseteq Unwritten(ws)
  BY <1>2, InQueue
<1>7. Head(ws).owed \cap (Owed(t) \cup Unwritten(t)) = {}
  <2> SUFFICES ASSUME NEW x \in Head(ws).owed
               PROVE  x \notin Owed(t) /\ x \notin Unwritten(t)
    OBVIOUS
  <2>1. \A i \in DOMAIN t : x \notin t[i].owed /\ x \notin Range(t[i].frames)
    BY <1>1, <1>2, <1>4 DEF InOrder
  <2> QED  BY <2>1, InQueue
<1>8. InOrder(t)
  <2> SUFFICES ASSUME NEW i \in DOMAIN t, NEW j \in DOMAIN t, i < j
               PROVE  t[i].owed \cap (t[j].owed \cup Range(t[j].frames)) = {}
    BY DEF InOrder
  <2>1. i + 1 < j + 1
    BY <1>1, SMTT(30)
  <2> QED  BY <1>2, <2>1 DEF InOrder
<1> QED  BY <1>1, <1>5, <1>6, <1>7, <1>8 DEF t

(* Writes are put behind others.                                           *)
LEMMA MoreWrites ==
  ASSUME NEW a \in Seq(WriteContexts), NEW b \in Seq(WriteContexts),
         InOrder(a), InOrder(b), Owed(a) \cap (Owed(b) \cup Unwritten(b)) = {}
  PROVE  /\ a \o b \in Seq(WriteContexts)
         /\ Owed(a \o b) = Owed(a) \cup Owed(b)
         /\ Unwritten(a \o b) = Unwritten(a) \cup Unwritten(b)
         /\ InOrder(a \o b)
<1> DEFINE w == a \o b
<1> DEFINE n == Len(a)
<1>1. /\ w \in Seq(WriteContexts) /\ n \in Nat /\ Len(b) \in Nat
      /\ DOMAIN a = 1..n /\ DOMAIN b = 1..Len(b) /\ DOMAIN w = 1..(n + Len(b))
      /\ \A i \in 1..n : w[i] = a[i]
      /\ \A i \in 1..Len(b) : w[n + i] = b[i]
  BY SMTT(30)
<1> HIDE DEF w, n
<1>2. \A i \in DOMAIN a : i \in DOMAIN w /\ w[i] = a[i]
  BY <1>1, SMTT(30)
<1>3. \A i \in DOMAIN b : n + i \in DOMAIN w /\ w[n + i] = b[i]
  BY <1>1, SMTT(30)
<1>4. ASSUME NEW i \in DOMAIN w
      PROVE  \/ i \in DOMAIN a /\ w[i] = a[i]
             \/ i - n \in DOMAIN b /\ w[i] = b[i - n] /\ i > n
  <2>1. CASE i <= n
    BY <1>1, <2>1, SMTT(30)
  <2>2. CASE i > n
    <3>1. i - n \in 1..Len(b) /\ n + (i - n) = i
      BY <1>1, <2>2, SMTT(30)
    <3> QED  BY <1>1, <2>2, <3>1
  <2>3. i <= n \/ i > n
    BY <1>1, SMTT(30)
  <2> QED  BY <2>1, <2>2, <2>3
<1>5. Owed(w) = Owed(a) \cup Owed(b)
  BY <1>2, <1>3, <1>4, InQueue, SMTT(30)
<1>6. Unwritten(w) = Unwritten(a) \cup Unwritten(b)
  BY <1>2, <1>3, <1>4, InQueue, SMTT(30)
<1>7. InOrder(w)
  <2> SUFFICES ASSUME NEW i \in DOMAIN w, NEW j \in DOMAIN w, i < j
               PROVE  w[i].owed \cap (w[j].owed \cup Range(w[j].frames)) = {}
    BY DEF InOrder
  <2>1. CASE j \in DOMAIN a /\ w[j] = a[j]
    <3>1. i \in DOMAIN a
      BY <1>1, <2>1, SMTT(30)
    <3> QED  BY <1>2, <2>1, <3>1 DEF InOrder
  <2>2. CASE j - n \in DOMAIN b /\ w[j] = b[j - n] /\ j > n
    <3>1. CASE i \in DOMAIN a /\ w[i] = a[i]
      <4>1. w[i].owed \subseteq Owed(a)
        BY <3>1, InQueue
      <4>2. w[j].owed \cup Range(w[j].frames)
              \subseteq Owed(b) \cup Unwritten(b)
        BY <2>2, InQueue
      <4> QED  BY <4>1, <4>2
    <3>2. CASE i - n \in DOMAIN b /\ w[i] = b[i - n]
      <4>1. i - n < j - n
        BY <1>1, SMTT(30)
      <4> QED  BY <2>2, <3>2, <4>1 DEF InOrder
    <3> QED  BY <1>4, <3>1, <3>2
  <2> QED  BY <1>4, <2>1, <2>2
<1> QED  BY <1>1, <1>5, <1>6, <1>7 DEF w

LastOwes(ws, x) == [ws EXCEPT ![Len(ws)].owed = @ \cup {x}]

(* The last write owes one more request.                                   *)
LEMMA OwedByLast ==
  ASSUME NEW ws \in Seq(WriteContexts), ws # <<>>, InOrder(ws),
         NEW x \in Ids, x \notin Owed(ws)
  PROVE  /\ LastOwes(ws, x) \in Seq(WriteContexts) /\ LastOwes(ws, x) # <<>>
         /\ Owed(LastOwes(ws, x)) = Owed(ws) \cup {x}
         /\ Unwritten(LastOwes(ws, x)) = Unwritten(ws)
         /\ InOrder(LastOwes(ws, x))
         /\ DOMAIN LastOwes(ws, x) = DOMAIN ws
         /\ \A i \in DOMAIN ws : LastOwes(ws, x)[i].frames = ws[i].frames
<1> DEFINE n == Len(ws)
<1> DEFINE v == LastOwes(ws, x)
<1>0. v = [ws EXCEPT ![Len(ws)].owed = @ \cup {x}]
  BY DEF LastOwes
<1> HIDE DEF v
<1>1. n \in Nat /\ n >= 1 /\ DOMAIN ws = 1..n /\ n \in DOMAIN ws
  BY SMTT(30)
<1>2. \A i \in DOMAIN ws : ws[i] \in WriteContexts
  BY <1>1, SMTT(30)
<1>3. /\ DOMAIN v = DOMAIN ws
      /\ \A i \in DOMAIN ws : i # n => v[i] = ws[i]
      /\ v[n] = [ws[n] EXCEPT !.owed = @ \cup {x}]
  BY <1>0, <1>1
<1>4. /\ v[n] \in WriteContexts /\ v[n].frames = ws[n].frames
      /\ v[n].owed = ws[n].owed \cup {x}
  <2> DEFINE w == ws[n]
  <2>1. w \in WriteContexts /\ v[n] = [w EXCEPT !.owed = @ \cup {x}]
    BY <1>1, <1>2, <1>3
  <2> HIDE DEF w
  <2> DEFINE o == w.owed \cup {x}
  <2>2. o \in SUBSET Ids /\ v[n] = [w EXCEPT !.owed = o]
    BY <2>1 DEF WriteContexts
  <2> HIDE DEF o
  <2>3. /\ v[n] \in WriteContexts /\ v[n].frames = w.frames
        /\ v[n].owed = o
    BY <1>0, <2>1, <2>2, SMTT(30) DEF WriteContexts
  <2> QED  BY <2>3 DEF w, o
<1>5. v \in Seq(WriteContexts) /\ v # <<>>
  BY <1>0, <1>1, <1>2, <1>3, <1>4, SMTT(30)
<1>6. \A i \in DOMAIN ws : v[i].frames = ws[i].frames
  BY <1>3, <1>4
<1>7. Owed(v) = Owed(ws) \cup {x}
  <2>1. \A i \in DOMAIN ws : ws[i].owed \subseteq v[i].owed
    BY <1>3, <1>4
  <2>2. \A i \in DOMAIN ws : v[i].owed \subseteq ws[i].owed \cup {x}
    BY <1>3, <1>4
  <2>3. \A y : y \in Owed(ws) => y \in Owed(v)
    BY <1>3, <2>1, InQueue, SMTT(30)
  <2>4. \A y : y \in Owed(v) => y \in Owed(ws) \/ y = x
    BY <1>3, <2>2, InQueue, SMTT(30)
  <2>5. x \in Owed(v)
    <3>1. n \in DOMAIN v
      BY <1>1, <1>3, SMTT(30)
    <3>2. x \in v[n].owed
      BY <1>4
    <3> HIDE DEF n
    <3> QED  BY <3>1, <3>2, InQueue
  <2> QED  BY <2>3, <2>4, <2>5
<1>8. Unwritten(v) = Unwritten(ws)
  <2>1. \A y : y \in Unwritten(v) <=> y \in Unwritten(ws)
    BY <1>3, <1>6, InQueue, SMTT(30)
  <2> QED  BY <2>1
<1>9. InOrder(v)
  <2> SUFFICES ASSUME NEW i \in DOMAIN v, NEW j \in DOMAIN v, i < j
               PROVE  v[i].owed \cap (v[j].owed \cup Range(v[j].frames)) = {}
    BY DEF InOrder
  <2>1. i # n
    BY <1>1, <1>3, SMTT(30)
  <2>2. v[i].owed = ws[i].owed /\ x \notin ws[i].owed
    BY <1>3, <2>1, InQueue
  <2>3. v[j].owed \subseteq ws[j].owed \cup {x} /\ v[j].frames = ws[j].frames
    BY <1>3, <1>4, <1>6
  <2>4. ws[i].owed \cap (ws[j].owed \cup Range(ws[j].frames)) = {}
    BY <1>3 DEF InOrder
  <2> QED  BY <2>2, <2>3, <2>4
<1> QED  BY <1>3, <1>5, <1>6, <1>7, <1>8, <1>9 DEF v

(* The numbers of frames and of writes are numbers.                        *)
LEMMA CountedFrames ==
  ASSUME NEW n \in Int, NEW P \in SUBSET (1..n)
  PROVE  Cardinality(P) \in Nat /\ (n \in Nat => Cardinality(P) <= n)
<1>1. IsFiniteSet(1..n) /\ Cardinality(1..n) = IF 1 > n THEN 0 ELSE n - 1 + 1
  BY FS_Interval, SMTT(30)
<1>2. /\ IsFiniteSet(P) /\ Cardinality(P) \in Nat
      /\ Cardinality(P) <= Cardinality(1..n)
  BY <1>1, FS_Subset, FS_CardinalityType
<1> QED  BY <1>1, <1>2, SMTT(30)

(* Flushed, the batch becomes writes, the last of which owes what the      *)
(* batch owed.                                                             *)
LEMMA BatchWrites ==
  ASSUME NEW d, Typed(d)
  PROVE  /\ Writes(d) \in Seq(WriteContexts) /\ Writes(d) # <<>>
         /\ Owed(Writes(d)) = d.owed
         /\ Unwritten(Writes(d)) \subseteq Range(d.batch)
         /\ InOrder(Writes(d))
<1> DEFINE b == d.batch
<1> DEFINE n == Len(b)
<1> DEFINE last == WriteOf(b, n)
<1> DEFINE end(k) == Cardinality({i \in 1..n : WriteOf(b, i) <= k})
<1> DEFINE part(k) == SubSeq(b, end(k - 1) + 1, end(k))
<1> DEFINE owes(k) == IF k = last THEN d.owed ELSE {}
<1> DEFINE ws == Writes(d)
<1>1. b \in Seq(Frames) /\ n \in Nat /\ d.owed \in SUBSET Ids
  BY SMTT(30) DEF Typed
<1>2. last \in Nat /\ last >= 1
  <2> DEFINE P == {j \in 1..(n - 1) : b[j] \in HasFds}
  <2>1. Cardinality(P) \in Nat
    BY <1>1, CountedFrames, SMTT(30)
  <2> QED  BY <2>1, SMTT(30) DEF WriteOf
<1>3. \A k : end(k) \in 0..n
  <2> TAKE k
  <2> DEFINE P == {i \in 1..n : WriteOf(b, i) <= k}
  <2>1. Cardinality(P) \in Nat /\ Cardinality(P) <= n
    BY <1>1, CountedFrames, SMTT(30)
  <2> QED  BY <1>1, <2>1, SMTT(30)
<1>4. ws = [k \in 1..last |-> [frames |-> part(k), owed |-> owes(k)]]
  BY DEF Writes
<1> HIDE DEF b, n, last, end, ws
<1>5. \A k : part(k) \in Seq(Frames) /\ Range(part(k)) \subseteq Range(b)
  <2> TAKE k
  <2>1. end(k - 1) \in Nat /\ end(k) \in 0..Len(b)
    BY <1>1, <1>3, SMTT(30) DEF n
  <2> QED  BY <1>1, <2>1, RangeSub
<1> HIDE DEF part
<1>6. \A k : owes(k) \in SUBSET Ids
  BY <1>1
<1>7. /\ DOMAIN ws = 1..last
      /\ \A k \in 1..last : /\ ws[k] = [frames |-> part(k), owed |-> owes(k)]
                             /\ ws[k].frames = part(k) /\ ws[k].owed = owes(k)
  BY <1>4, SMTT(30)
<1> HIDE DEF owes
<1>8. ws \in Seq(WriteContexts) /\ ws # <<>>
  <2>1. \A k \in 1..last :
          [frames |-> part(k), owed |-> owes(k)] \in WriteContexts
    BY <1>5, <1>6 DEF WriteContexts
  <2> QED  BY <1>2, <1>4, <2>1, SMTT(30)
<1>9. \A k \in 1..last : k # last => ws[k].owed = {}
  BY <1>7 DEF owes
<1>10. last \in 1..last /\ ws[last].owed = d.owed
  BY <1>2, <1>7, SMTT(30) DEF owes
<1>11. Owed(ws) = d.owed
  <2>1. \A x : x \in Owed(ws) <=> x \in d.owed
    BY <1>7, <1>9, <1>10, InQueue
  <2> QED  BY <2>1
<1>12. Unwritten(ws) \subseteq Range(b)
  BY <1>5, <1>7, InQueue
<1>13. InOrder(ws)
  <2> SUFFICES ASSUME NEW i \in DOMAIN ws, NEW j \in DOMAIN ws, i < j
               PROVE  ws[i].owed \cap (ws[j].owed \cup Range(ws[j].frames)) = {}
    BY DEF InOrder
  <2>1. i # last
    BY <1>2, <1>7, SMTT(30)
  <2> QED  BY <1>7, <1>9, <2>1
<1> QED  BY <1>8, <1>11, <1>12, <1>13 DEF ws, b

-----------------------------------------------------------------------------
(* The methods.                                                            *)

(* Whether requests are written depends on these members.                  *)
LEMMA SameWriting ==
  ASSUME NEW d, NEW e, Writing(d), e.batch = d.batch, e.owed = d.owed,
         e.writes = d.writes, e.reported = d.reported, e.ended = d.ended
  PROVE  Writing(e)
BY SMTT(30) DEF Writing

(* What writing, completing a request or the end of a context or of a      *)
(* handler leaves alone.                                                   *)
Kept(d, e) ==
  /\ e.state = d.state /\ e.drained = d.drained /\ e.timer = d.timer
  /\ e.sock = d.sock /\ e.finals = d.finals
  /\ e.handles = d.handles /\ e.paused = d.paused
  /\ Buffered(e) = Buffered(d) /\ (e.writes = <<>> <=> d.writes = <<>>)

Alike(d, e) ==
  /\ Kept(d, e) /\ e.active = d.active
  /\ e.flow = d.flow /\ e.timers = d.timers /\ e.tokens = d.tokens

(* A frame of a request that is not complete is written.                   *)
LEMMA EnqueueFacts ==
  ASSUME NEW d, Typed(d), Writing(d), NEW x \in Frames,
         x \in Ids => d.ended[x] = 0
  PROVE  /\ Typed(Enqueue(d, x)) /\ Writing(Enqueue(d, x))
         /\ Alike(d, Enqueue(d, x)) /\ Enqueue(d, x).ended = d.ended
<1> DEFINE e == Enqueue(d, x)
<1>1. Typed(e)
  BY SMTT(30) DEF Enqueue, Typed
<1>2. /\ e.batch = Append(d.batch, x) /\ e.owed = d.owed
      /\ e.writes = d.writes /\ e.reported = d.reported /\ e.ended = d.ended
      /\ e.state = d.state /\ e.drained = d.drained /\ e.timer = d.timer
      /\ e.sock = d.sock /\ e.active = d.active /\ e.flow = d.flow
      /\ e.tokens = d.tokens /\ e.timers = d.timers /\ e.finals = d.finals
      /\ e.handles = d.handles /\ e.paused = d.paused
  BY SMTT(30) DEF Enqueue, Typed
<1>3. /\ d.batch \in Seq(Frames)
      /\ d.owed \subseteq Ids /\ d.reported \subseteq Ids
  BY DEF Typed
<1> HIDE DEF e
<1>4. Range(e.batch) = Range(d.batch) \cup {x} /\ e.batch # <<>>
  <2> DEFINE b == d.batch
  <2>1. b \in Seq(Frames)
    BY <1>3
  <2> HIDE DEF b
  <2>2. Range(Append(b, x)) = Range(b) \cup {x} /\ Append(b, x) # <<>>
    BY <2>1, RangeFacts, SMTT(30)
  <2> QED  BY <1>2, <2>2 DEF b
<1>5. x \notin d.reported /\ x \notin Owed(d.writes)
  <2>1. CASE x \in Ids
    <3>1. d.ended[x] # 1
      BY <2>1, SMTT(30)
    <3> QED  BY <2>1, <3>1 DEF Writing
  <2>2. CASE x \notin Ids
    <3>1. Owed(d.writes) \subseteq Ids
      <4>1. \A i \in DOMAIN d.writes : d.writes[i] \in WriteContexts
        BY SMTT(30) DEF Typed
      <4>2. \A w \in WriteContexts : w.owed \subseteq Ids
        BY DEF WriteContexts
      <4> QED  BY <4>1, <4>2 DEF Owed
    <3> QED  BY <1>3, <2>2, <3>1
  <2> QED  BY <2>1, <2>2
<1>6. Writing(e)
  BY <1>2, <1>4, <1>5, SMTT(30) DEF Writing
<1> QED  BY <1>1, <1>2, <1>6 DEF Alike, Kept, e, Buffered

(* The size of the socket's buffer depends on the frames of the writes.    *)
LEMMA SameBuffered ==
  ASSUME NEW d, NEW e, DOMAIN e.writes = DOMAIN d.writes,
         \A i \in DOMAIN d.writes : e.writes[i].frames = d.writes[i].frames
  PROVE  Buffered(e) = Buffered(d)
<1> DEFINE part(v) == {{i} \X DOMAIN v.writes[i].frames : i \in DOMAIN v.writes}
<1>1. part(e) = part(d)
  OBVIOUS
<1> QED  BY <1>1 DEF Buffered

(* A request is completed.                                                 *)
LEMMA RequestCompleteFacts ==
  ASSUME NEW d, Typed(d), Writing(d), NEW x \in Ids, d.ended[x] = 0
  PROVE  /\ Typed(RequestComplete(d, x)) /\ Writing(RequestComplete(d, x))
         /\ Alike(d, RequestComplete(d, x))
         /\ RequestComplete(d, x).ended = [d.ended EXCEPT ![x] = 1]
<1> DEFINE e == RequestComplete(d, x)
<1>1. x \notin d.owed /\ x \notin d.reported /\ x \notin Owed(d.writes)
  <2>1. d.ended[x] # 1
    BY SMTT(30)
  <2> QED  BY <2>1 DEF Writing
<1>2. d.ended \in [Ids -> Int] /\ d.ended[x] + 1 = 1
  BY SMTT(30) DEF Typed
<1>3. CASE d.batch # <<>>
  <2>1. e = [d EXCEPT !.ended[x] = @ + 1, !.owed = @ \cup {x}]
    BY <1>3 DEF RequestComplete
  <2> HIDE DEF e
  <2>2. Typed(e)
    BY <2>1, SMTT(30) DEF Typed
  <2>3. /\ e.batch = d.batch /\ e.owed = d.owed \cup {x}
        /\ e.writes = d.writes /\ e.reported = d.reported
        /\ e.ended = [d.ended EXCEPT ![x] = 1]
        /\ e.state = d.state /\ e.drained = d.drained /\ e.timer = d.timer
        /\ e.sock = d.sock /\ e.active = d.active /\ e.flow = d.flow
        /\ e.tokens = d.tokens /\ e.timers = d.timers /\ e.finals = d.finals
        /\ e.handles = d.handles /\ e.paused = d.paused
    BY <1>2, <2>1, SMTT(30) DEF Typed
  <2>4. Writing(e)
    BY <1>1, <1>2, <1>3, <2>3, SMTT(30) DEF Writing
  <2>5. Buffered(e) = Buffered(d)
    BY <2>3, SMTT(30) DEF Buffered
  <2> QED  BY <2>2, <2>3, <2>4, <2>5 DEF Alike, Kept, e
<1>4. CASE d.batch = <<>> /\ d.writes # <<>>
  <2> DEFINE ws == d.writes
  <2> DEFINE v == LastOwes(ws, x)
  <2>1. e = [d EXCEPT !.ended[x] = @ + 1, !.writes = v]
    BY <1>4, SMTT(30) DEF RequestComplete, LastOwes, Typed
  <2>2. ws \in Seq(WriteContexts) /\ ws # <<>> /\ InOrder(ws)
        /\ x \notin Owed(ws)
    BY <1>1, <1>4 DEF Typed, Writing
  <2> HIDE DEF ws
  <2>3. /\ v \in Seq(WriteContexts) /\ v # <<>>
        /\ Owed(v) = Owed(ws) \cup {x} /\ Unwritten(v) = Unwritten(ws)
        /\ InOrder(v) /\ DOMAIN v = DOMAIN ws
        /\ \A i \in DOMAIN ws : v[i].frames = ws[i].frames
    BY <2>2, OwedByLast
  <2> HIDE DEF e, v
  <2>4. Typed(e)
    BY <2>1, <2>3, SMTT(30) DEF Typed
  <2>5. /\ e.batch = d.batch /\ e.owed = d.owed
        /\ e.writes = v /\ e.reported = d.reported
        /\ e.ended = [d.ended EXCEPT ![x] = 1]
        /\ e.state = d.state /\ e.drained = d.drained /\ e.timer = d.timer
        /\ e.sock = d.sock /\ e.active = d.active /\ e.flow = d.flow
        /\ e.tokens = d.tokens /\ e.timers = d.timers /\ e.finals = d.finals
        /\ e.handles = d.handles /\ e.paused = d.paused
    BY <1>2, <2>1, SMTT(30) DEF Typed
  <2>6. Range(d.batch) = {} /\ d.owed = {}
    BY <1>4, SMTT(30) DEF Range, Writing
  <2>7. Writing(e)
    BY <1>1, <1>2, <2>3, <2>5, <2>6, SMTT(30) DEF Writing, ws
  <2>8. Buffered(e) = Buffered(d)
    <3>1. DOMAIN e.writes = DOMAIN d.writes
      BY <2>3, <2>5 DEF ws
    <3>2. \A i \in DOMAIN d.writes : e.writes[i].frames = d.writes[i].frames
      BY <2>3, <2>5 DEF ws
    <3> QED  BY <3>1, <3>2, SameBuffered
  <2> QED  BY <1>4, <2>3, <2>4, <2>5, <2>7, <2>8 DEF Alike, Kept, e
<1>5. CASE d.batch = <<>> /\ d.writes = <<>>
  <2>1. e = [d EXCEPT !.ended[x] = @ + 1, !.reported = @ \cup {x}]
    BY <1>5 DEF RequestComplete
  <2> HIDE DEF e
  <2>2. Typed(e)
    BY <2>1, SMTT(30) DEF Typed
  <2>3. /\ e.batch = d.batch /\ e.owed = d.owed
        /\ e.writes = d.writes /\ e.reported = d.reported \cup {x}
        /\ e.ended = [d.ended EXCEPT ![x] = 1]
        /\ e.state = d.state /\ e.drained = d.drained /\ e.timer = d.timer
        /\ e.sock = d.sock /\ e.active = d.active /\ e.flow = d.flow
        /\ e.tokens = d.tokens /\ e.timers = d.timers /\ e.finals = d.finals
        /\ e.handles = d.handles /\ e.paused = d.paused
    BY <1>2, <2>1, SMTT(30) DEF Typed
  <2>4. Range(d.batch) = {} /\ Unwritten(d.writes) = {}
    BY <1>5, NoWrites, SMTT(30) DEF Range
  <2>5. Writing(e)
    BY <1>1, <1>2, <1>5, <2>3, <2>4, SMTT(30) DEF Writing
  <2>6. Buffered(e) = Buffered(d)
    BY <2>3, SMTT(30) DEF Buffered
  <2> QED  BY <2>2, <2>3, <2>5, <2>6 DEF Alike, Kept, e
<1> QED  BY <1>3, <1>4, <1>5

(* A handler is freed.                                                     *)
LEMMA FreeStreamFacts ==
  ASSUME NEW d, Typed(d), Writing(d), NEW s \in Flows, NEW mark \in BOOLEAN,
         d.flow[s] # "none", mark => d.ended[s] = 0
  PROVE  LET e == FreeStream(d, s, mark)
         IN  /\ Typed(e) /\ Writing(e) /\ Kept(d, e)
             /\ e.active = d.active /\ e.timers = d.timers \ {s}
             /\ e.flow = [d.flow EXCEPT ![s] = "none"]
             /\ e.tokens = [d.tokens EXCEPT ![s] = 0]
             /\ e.ended = IF mark THEN [d.ended EXCEPT ![s] = 1] ELSE d.ended
<1> DEFINE f == [d EXCEPT !.flow[s] = "none", !.timers = @ \ {s},
                          !.tokens[s] = 0]
<1>0. 0 \in 0..MaxTokens
  BY ConnectionAssumption, SMTT(30)
<1>1. Typed(f)
  BY <1>0, SMTT(30) DEF Typed
<1>2. /\ f.batch = d.batch /\ f.owed = d.owed /\ f.writes = d.writes
      /\ f.reported = d.reported /\ f.ended = d.ended
      /\ f.state = d.state /\ f.drained = d.drained /\ f.timer = d.timer
      /\ f.sock = d.sock /\ f.active = d.active
      /\ f.flow = [d.flow EXCEPT ![s] = "none"]
      /\ f.tokens = [d.tokens EXCEPT ![s] = 0] /\ f.timers = d.timers \ {s}
      /\ f.finals = d.finals /\ f.handles = d.handles /\ f.paused = d.paused
  BY SMTT(30) DEF Typed
<1>3. FreeStream(d, s, mark) = IF mark THEN RequestComplete(f, s) ELSE f
  <2>1. FreeStream(d, s, mark) = IF d.flow[s] # "none" /\ mark
                                   THEN RequestComplete(f, s) ELSE f
    BY SMTT(30) DEF FreeStream
  <2> QED  BY <2>1
<1> HIDE DEF f
<1>4. Writing(f)
  BY <1>2, SameWriting
<1>5. Buffered(f) = Buffered(d)
  BY <1>2, SMTT(30) DEF Buffered
<1>6. Kept(d, f)
  BY <1>2, <1>5 DEF Kept
<1>7. CASE ~mark
  <2>1. FreeStream(d, s, mark) = f
    BY <1>3, <1>7
  <2> QED  BY <1>1, <1>2, <1>4, <1>6, <1>7, <2>1
<1>8. CASE mark
  <2> DEFINE e == RequestComplete(f, s)
  <2>1. FreeStream(d, s, mark) = e
    BY <1>3, <1>8
  <2>2. s \in Ids /\ f.ended[s] = 0
    BY <1>2, <1>8 DEF Ids, Flows
  <2>3. /\ Typed(e) /\ Writing(e) /\ Alike(f, e)
        /\ e.ended = [f.ended EXCEPT ![s] = 1]
    BY <1>1, <1>4, <2>2, RequestCompleteFacts
  <2> HIDE DEF e
  <2>4. Kept(d, e) /\ e.active = d.active /\ e.flow = f.flow
        /\ e.timers = f.timers /\ e.tokens = f.tokens
    BY <1>2, <1>6, <2>3 DEF Alike, Kept
  <2> QED  BY <1>2, <1>8, <2>1, <2>3, <2>4
<1> QED  BY <1>7, <1>8

(* The context of a request dies.                                          *)
LEMMA EndContextFacts ==
  ASSUME NEW d, Typed(d), Writing(d), NEW x \in Ids, NEW mark \in BOOLEAN,
         mark => d.ended[x] = 0
  PROVE  LET e == EndContext(d, x, mark)
         IN  /\ Typed(e) /\ Writing(e) /\ Kept(d, e)
             /\ e.active = d.active \ {x} /\ e.timers = d.timers
             /\ e.flow = d.flow /\ e.tokens = d.tokens
             /\ e.ended = IF mark THEN [d.ended EXCEPT ![x] = 1] ELSE d.ended
<1> DEFINE f == IF mark THEN RequestComplete(d, x) ELSE d
<1>1. /\ Typed(f) /\ Writing(f) /\ Alike(d, f)
      /\ f.ended = IF mark THEN [d.ended EXCEPT ![x] = 1] ELSE d.ended
  <2>1. CASE mark
    BY <2>1, RequestCompleteFacts
  <2>2. CASE ~mark
    BY <2>2 DEF Alike, Kept
  <2> QED  BY <2>1, <2>2
<1> DEFINE e == [f EXCEPT !.active = @ \ {x}, !.answered = @ \ {x}]
<1>2. EndContext(d, x, mark) = e
  BY DEF EndContext
<1> HIDE DEF f
<1>3. Typed(e)
  BY <1>1, SMTT(30) DEF Typed
<1>4. /\ e.batch = f.batch /\ e.owed = f.owed /\ e.writes = f.writes
      /\ e.reported = f.reported /\ e.ended = f.ended
      /\ e.state = f.state /\ e.drained = f.drained /\ e.timer = f.timer
      /\ e.sock = f.sock /\ e.active = f.active \ {x} /\ e.flow = f.flow
      /\ e.tokens = f.tokens /\ e.timers = f.timers /\ e.finals = f.finals
      /\ e.handles = f.handles /\ e.paused = f.paused
  BY <1>1, SMTT(30) DEF Typed
<1> HIDE DEF e
<1>5. Writing(e)
  BY <1>1, <1>4, SameWriting
<1>6. Buffered(e) = Buffered(f)
  BY <1>4, SMTT(30) DEF Buffered
<1>7. Kept(d, e) /\ e.active = d.active \ {x} /\ e.timers = d.timers
      /\ e.flow = d.flow /\ e.tokens = d.tokens
  BY <1>1, <1>4, <1>6 DEF Alike, Kept
<1> QED  BY <1>1, <1>2, <1>3, <1>4, <1>5, <1>7

-----------------------------------------------------------------------------
(* The way to CLOSED.                                                      *)

SameLife(d, e) ==
  /\ e.active = d.active /\ e.flow = d.flow /\ e.timers = d.timers
  /\ e.tokens = d.tokens /\ e.finals = d.finals /\ e.ended = d.ended

(* The life of requests and handlers depends on these members.             *)
LEMMA LifeKept ==
  ASSUME NEW d, NEW e, NEW a, SameLife(d, e)
  PROVE  /\ Life(d, a) => Life(e, a)
         /\ Handlers(d) => Handlers(e)
<1>1. Life(d, a) => Life(e, a)
  BY DEF SameLife, Life
<1>2. Finals(e) = Finals(d)
  BY DEF SameLife, Finals
<1>3. \A s \in Flows : HandlerOf(d, s) => HandlerOf(e, s)
  BY DEF SameLife, HandlerOf
<1>4. Handlers(d) => Handlers(e)
  BY <1>2, <1>3 DEF SameLife, Handlers
<1> QED  BY <1>1, <1>4

(* A step that touches one handler.                                        *)
LEMMA OneHandler ==
  ASSUME NEW d, NEW e, NEW s \in Flows, Handlers(d),
         \A q \in Flows \ {s} : /\ e.flow[q] = d.flow[q]
                                /\ e.tokens[q] = d.tokens[q]
                                /\ q \in e.timers <=> q \in d.timers,
         HandlerOf(e, s), e.finals = Cardinality(Finals(e))
  PROVE  Handlers(e)
<1>1. \A q \in Flows : HandlerOf(d, q)
  BY DEF Handlers
<1>2. \A q \in Flows \ {s} : HandlerOf(e, q)
  BY <1>1 DEF HandlerOf
<1> QED  BY <1>2 DEF Handlers

(* What closing leaves alone as long as the socket is open.                *)
Follows(d, e) ==
  e.sock = "open" =>
    /\ d.sock = "open" /\ e.paused = d.paused /\ e.flow = d.flow
    /\ Buffered(e) = Buffered(d) /\ (e.writes = <<>> <=> d.writes = <<>>)

(* Closing keeps streams paused as they should be.                         *)
LEMMA PressureFollows ==
  ASSUME NEW d, NEW e, NEW t, Follows(d, e), Pressure(d, t)
  PROVE  Pressure(e, t)
BY DEF Follows, Pressure, Ready

(* DRAINING is over.                                                       *)
LEMMA DrainedFacts ==
  ASSUME NEW d, NEW a, Good(d, a)
  PROVE  Good(Drained(d), a) /\ Follows(d, Drained(d))
<1> DEFINE e == Drained(d)
<1>1. CASE ~(d.state = "DRAINING" /\ d.active = {} /\ d.finals = 0)
  <2>1. e = d
    BY <1>1 DEF Drained
  <2> QED  BY <2>1 DEF Follows
<1>2. CASE d.state = "DRAINING" /\ d.active = {} /\ d.finals = 0
  <2> DEFINE m == Enqueue(Enqueue(d, Stream0), Stream0)
  <2> DEFINE b == IF d.code THEN m ELSE d
  <2>1. Stream0 \in Frames /\ Stream0 \notin Ids
    BY ConnectionAssumption DEF Frames
  <2>2. /\ Typed(m) /\ Writing(m) /\ Alike(d, m) /\ m.ended = d.ended
    <3> DEFINE k == Enqueue(d, Stream0)
    <3>1. Typed(k) /\ Writing(k) /\ Alike(d, k) /\ k.ended = d.ended
      BY <2>1, EnqueueFacts DEF Good
    <3> HIDE DEF k
    <3>2. LET q == Enqueue(k, Stream0)
          IN  Typed(q) /\ Writing(q) /\ Alike(k, q) /\ q.ended = k.ended
      BY <2>1, <3>1, EnqueueFacts
    <3>3. Alike(d, Enqueue(k, Stream0))
      BY <3>1, <3>2 DEF Alike, Kept
    <3> QED  BY <3>1, <3>2, <3>3 DEF k
  <2>3. m.batch = d.batch \o <<Stream0, Stream0>>
    BY <2>1, SMTT(30) DEF Good, Typed, Enqueue
  <2>4. b.batch = IF d.code THEN d.batch \o <<Stream0, Stream0>> ELSE d.batch
    BY <2>3
  <2>5. Typed(b) /\ Writing(b) /\ Alike(d, b) /\ b.ended = d.ended
    BY <2>2 DEF Good, Alike, Kept
  <2> DEFINE n == b.batch
  <2>6. /\ e = [[d EXCEPT !.timer = ~d.drained] EXCEPT !.state = "CLOSING",
                                                      !.batch = n]
        /\ b.owed = d.owed /\ b.writes = d.writes
        /\ b.reported = d.reported
    <3>1. n = IF d.code THEN d.batch \o <<Stream0, Stream0>> ELSE d.batch
      BY <2>4
    <3>2. /\ b.owed = d.owed /\ b.writes = d.writes
          /\ b.reported = d.reported
      BY SMTT(30) DEF Good, Typed, Enqueue
    <3> HIDE DEF n, b
    <3> QED  BY <1>2, <3>1, <3>2, SMTT(30) DEF Drained, Activate, Good, Typed
  <2>7. n \in Seq(Frames)
    BY <2>5 DEF Typed
  <2> HIDE DEF e, b
  <2>15. Typed(e)
    <3> HIDE DEF n
    <3> QED  BY <2>6, <2>7, SMTT(30) DEF Typed, Good
  <2>8. /\ e.batch = b.batch /\ e.owed = b.owed /\ e.writes = b.writes
        /\ e.reported = b.reported /\ e.ended = b.ended
        /\ e.state = "CLOSING" /\ e.drained = b.drained
        /\ e.timer = ~d.drained /\ e.sock = b.sock
        /\ e.active = b.active /\ e.flow = b.flow
        /\ e.tokens = b.tokens /\ e.timers = b.timers
        /\ e.finals = b.finals /\ e.paused = b.paused
    <3>1. /\ e.batch = n /\ e.owed = d.owed /\ e.writes = d.writes
          /\ e.reported = d.reported /\ e.ended = d.ended
          /\ e.state = "CLOSING" /\ e.drained = d.drained
          /\ e.timer = ~d.drained /\ e.sock = d.sock
          /\ e.active = d.active /\ e.flow = d.flow
          /\ e.tokens = d.tokens /\ e.timers = d.timers
          /\ e.finals = d.finals /\ e.paused = d.paused
      <4> HIDE DEF n
      <4> QED  BY <2>6, SMTT(30) DEF Good, Typed
    <3> QED  BY <2>5, <2>6, <3>1 DEF Alike, Kept
  <2>9. Writing(e)
    BY <2>5, <2>8, SameWriting
  <2>10. SameLife(d, e)
    BY <2>5, <2>8 DEF SameLife, Alike, Kept
  <2>11. Life(e, a) /\ Handlers(e)
    BY <2>10, LifeKept DEF Good
  <2>12. Quiet(e)
    BY <2>5, <2>8 DEF Quiet, Alike, Kept
  <2>13. Buffered(e) = Buffered(b)
    BY <2>8, SMTT(30) DEF Buffered
  <2>14. Follows(d, e)
    BY <2>5, <2>8, <2>13 DEF Follows, Alike, Kept
  <2> QED  BY <2>9, <2>11, <2>12, <2>14, <2>15 DEF Good, e
<1> QED  BY <1>1, <1>2

(* The socket drainer is done.                                             *)
LEMMA DrainCompleteFacts ==
  ASSUME NEW d, NEW a, Good(d, a)
  PROVE  Good(DrainComplete(d), a) /\ Follows(d, DrainComplete(d))
<1> DEFINE e == DrainComplete(d)
<1>1. Typed(e)
  BY SMTT(30) DEF Good, Typed, DrainComplete
<1>2. /\ e.batch = d.batch /\ e.owed = d.owed /\ e.writes = d.writes
      /\ e.reported = d.reported /\ e.ended = d.ended
      /\ e.state = d.state /\ e.drained = TRUE /\ e.timer = FALSE
      /\ e.sock = d.sock /\ e.active = d.active /\ e.flow = d.flow
      /\ e.tokens = d.tokens /\ e.timers = d.timers /\ e.finals = d.finals
      /\ e.handles = d.handles /\ e.paused = d.paused
  BY SMTT(30) DEF Good, Typed, DrainComplete
<1> HIDE DEF e
<1>3. Writing(e)
  BY <1>2, SameWriting DEF Good
<1>4. SameLife(d, e)
  BY <1>2 DEF SameLife
<1>5. Life(e, a) /\ Handlers(e)
  BY <1>4, LifeKept DEF Good
<1>6. Quiet(e)
  BY <1>2 DEF Quiet, Good, Dead
<1>7. Buffered(e) = Buffered(d)
  BY <1>2, SMTT(30) DEF Buffered
<1>8. Follows(d, e)
  BY <1>2, <1>7 DEF Follows
<1> QED  BY <1>1, <1>3, <1>5, <1>6, <1>8 DEF Good, e

(* No sink waits for its final response when none is counted.              *)
LEMMA NoFinals ==
  ASSUME NEW d, NEW a, Good(d, a), IsFiniteSet(a), d.finals = 0
  PROVE  \A s \in Flows : d.flow[s] # "final"
<1>1. Finals(d) \subseteq a
  BY DEF Finals, Good, Life, Flows
<1>2. IsFiniteSet(Finals(d))
  BY <1>1, FS_Subset
<1>3. Finals(d) = {}
  BY <1>2, FS_EmptySet DEF Good, Handlers
<1>4. \A s \in Streams : d.flow[s] # "final"
  BY DEF Good, Handlers, HandlerOf, Flows
<1> QED  BY <1>3, <1>4 DEF Finals, Flows

(* The connection is destroyed.                                            *)
LEMMA ClosedFacts ==
  ASSUME NEW d, NEW a, NEW left, Good(d, a), IsFiniteSet(a),
         ~IsBusy(d), d.drained = TRUE
  PROVE  Good(Closed(d, left), a) /\ Closed(d, left).sock # "open"
<1> DEFINE e == Closed(d, left)
<1> DEFINE open == {s \in Flows : d.flow[s] # "none"}
<1>1. /\ d.active = {} /\ d.finals = 0 /\ d.batch = <<>> /\ d.writes = <<>>
      /\ d.handles = 0
  BY DEF IsBusy
<1> DEFINE n == [x \in Ids |-> IF x \in open THEN d.ended[x] + 1
                                             ELSE d.ended[x]]
<1> DEFINE r == d.reported \cup open
<1> DEFINE k == IF Dead(d) THEN d.sock ELSE "closed"
<1> DEFINE z == [s \in Flows |-> "none"]
<1>2. /\ n \in [Ids -> Int] /\ r \subseteq Ids
      /\ k \in {"closed", "error"} /\ z \in [Flows -> {"none"}]
  <2>1. n \in [Ids -> Int]
    BY SMTT(30) DEF Good, Typed
  <2> QED  BY <2>1 DEF Good, Typed, Ids, Flows, Dead
<1> DEFINE m == [d EXCEPT !.state = "CLOSED", !.flow = z, !.timers = {}]
<1>3. e = [m EXCEPT !.ended = n, !.reported = r, !.leftover = left, !.sock = k]
  BY SMTT(30) DEF Closed, Good, Typed
<1> HIDE DEF e, n, r, k, z
<1>10. /\ Typed(m)
       /\ m.batch = d.batch /\ m.owed = d.owed /\ m.writes = d.writes
       /\ m.state = "CLOSED" /\ m.drained = d.drained /\ m.timer = d.timer
       /\ m.active = d.active /\ m.flow = z
       /\ m.tokens = d.tokens /\ m.timers = {} /\ m.finals = d.finals
       /\ m.handles = d.handles /\ m.paused = d.paused
  BY <1>2, SMTT(30) DEF Good, Typed
<1> HIDE DEF m
<1>11. /\ e.batch = m.batch /\ e.owed = m.owed /\ e.writes = m.writes
       /\ e.reported = r /\ e.ended = n
       /\ e.state = m.state /\ e.drained = m.drained /\ e.timer = m.timer
       /\ e.sock = k /\ e.active = m.active /\ e.flow = m.flow
       /\ e.tokens = m.tokens /\ e.timers = m.timers /\ e.finals = m.finals
       /\ e.handles = m.handles /\ e.paused = m.paused
  BY <1>3, <1>10, SMTT(30) DEF Typed
<1>12. Typed(e)
  BY <1>2, <1>3, <1>10, SMTT(30) DEF Typed
<1>4. \A s \in open : s \in Ids /\ s \in a /\ d.ended[s] = 0
  BY <1>1 DEF Good, Life, Ids, Flows
<1>5. \A x \in Ids : e.ended[x] = IF x \in open THEN 1 ELSE d.ended[x]
  BY <1>4, <1>10, <1>11, SMTT(30) DEF n
<1>6. Life(e, a)
  <2>1. \A x \in Ids : e.ended[x] = IF x \in a THEN 1 ELSE 0
    <3> SUFFICES ASSUME NEW x \in Ids
                 PROVE  e.ended[x] = IF x \in a THEN 1 ELSE 0
      OBVIOUS
    <3>1. CASE x \in open
      BY <1>4, <1>5, <3>1
    <3>2. CASE x \notin open
      <4>1. x \in Flows => d.flow[x] = "none"
        BY <3>2
      <4>2. e.ended[x] = d.ended[x]
        BY <1>5, <3>2
      <4>3. d.ended[x] = IF x \in a THEN 1 ELSE 0
        BY <1>1, <4>1 DEF Good, Life
      <4> QED  BY <4>2, <4>3
    <3> QED  BY <3>1, <3>2
  <2>2. \A s \in Flows : e.flow[s] = "none"
    BY <1>2, <1>10, <1>11
  <2>3. e.active = {}
    BY <1>1, <1>10, <1>11
  <2> QED  BY <2>1, <2>2, <2>3 DEF Life
<1>7. Handlers(e)
  <2>1. \A s \in Flows : e.flow[s] = "none"
    BY <1>2, <1>10, <1>11
  <2>2. Finals(e) = {}
    BY <2>1 DEF Finals, Flows
  <2>3. \A s \in Flows : HandlerOf(e, s)
    BY <1>10, <1>11, <2>1 DEF HandlerOf
  <2>4. e.finals = Cardinality(Finals(e))
    BY <1>1, <1>10, <1>11, <2>2, FS_EmptySet
  <2> QED  BY <2>3, <2>4 DEF Handlers
<1>8. Writing(e)
  <2>1. Owed(d.writes) = {} /\ Unwritten(d.writes) = {} /\ d.owed = {}
        /\ Range(d.batch) = {} /\ InOrder(d.writes)
    BY <1>1, NoWrites, SMTT(30) DEF Good, Writing, Range
  <2>2. \A x \in Ids : d.ended[x] = IF x \in d.reported THEN 1 ELSE 0
    BY <2>1 DEF Good, Writing
  <2>3. \A x \in Ids : e.ended[x] = IF x \in e.reported THEN 1 ELSE 0
    BY <1>5, <1>10, <1>11, <2>2 DEF r
  <2> QED  BY <1>10, <1>11, <2>1, <2>3 DEF Writing
<1>9. Quiet(e) /\ e.sock # "open"
  BY <1>1, <1>2, <1>10, <1>11, SMTT(30) DEF Quiet, Good, Dead
<1> QED  BY <1>12, <1>6, <1>7, <1>8, <1>9 DEF Good, e

(* closeIfNeeded().                                                        *)
LEMMA CloseIfNeededFacts ==
  ASSUME NEW d, NEW a, Good(d, a), IsFiniteSet(a), CloseIfNeeded(d)
  PROVE  Good(c', a) /\ Follows(d, c')
<1> DEFINE e == Drained(d)
<1> DEFINE f == IF e.state = "CLOSING" /\ e.sock # "open"
                  THEN DrainComplete(e) ELSE e
<1>1. Good(e, a) /\ Follows(d, e)
  BY DrainedFacts
<1>2. IF f.state = "CLOSING" /\ ~IsBusy(f) /\ f.drained
        THEN \E left \in Leftovers(f) : c' = Closed(f, left)
        ELSE c' = f
  BY DEF CloseIfNeeded
<1> HIDE DEF e
<1>3. Good(f, a) /\ Follows(e, f)
  BY <1>1, DrainCompleteFacts DEF Follows
<1> HIDE DEF f
<1>4. Good(c', a) /\ Follows(f, c')
  <2>1. CASE c' = f
    BY <1>3, <2>1 DEF Follows
  <2>2. CASE ~IsBusy(f) /\ f.drained
             /\ \E left \in Leftovers(f) : c' = Closed(f, left)
    <3>1. PICK left \in Leftovers(f) : c' = Closed(f, left)
      BY <2>2
    <3>2. Good(Closed(f, left), a) /\ Closed(f, left).sock # "open"
      BY <1>3, <2>2, ClosedFacts DEF Good, Typed
    <3> QED  BY <3>1, <3>2 DEF Follows
  <2> QED  BY <1>2, <2>1, <2>2
<1> QED  BY <1>1, <1>3, <1>4 DEF Follows

(* close() up to its closeIfNeeded().                                      *)
LEMMA ClosingFacts ==
  ASSUME NEW d, NEW a, Good(d, a)
  PROVE  /\ Good(Closing(d), a) /\ Follows(d, Closing(d))
         /\ SameLife(d, Closing(d))
<1> DEFINE e == Closing(d)
<1>1. CASE d.state \in {"CLOSING", "CLOSED"}
  <2>1. e = d
    BY <1>1 DEF Closing
  <2> QED  BY <2>1 DEF Follows, SameLife
<1>2. CASE d.state \notin {"CLOSING", "CLOSED"}
  <2> DEFINE b == IF d.sock = "error" THEN d ELSE Enqueue(d, Stream0)
  <2>1. Stream0 \in Frames /\ Stream0 \notin Ids
    BY ConnectionAssumption DEF Frames
  <2>2. Typed(b) /\ Writing(b) /\ Alike(d, b) /\ b.ended = d.ended
    BY <2>1, EnqueueFacts DEF Good, Alike, Kept
  <2> DEFINE n == b.batch
  <2>3. /\ e = [[d EXCEPT !.timer = ~d.drained] EXCEPT !.state = "CLOSING",
                                                      !.batch = n]
        /\ b.owed = d.owed /\ b.writes = d.writes
        /\ b.reported = d.reported
    <3>1. n = IF d.sock = "error" THEN d.batch ELSE Append(d.batch, Stream0)
      BY SMTT(30) DEF Good, Typed, Enqueue
    <3>2. /\ b.owed = d.owed /\ b.writes = d.writes
          /\ b.reported = d.reported
      BY SMTT(30) DEF Good, Typed, Enqueue
    <3> HIDE DEF n, b
    <3> QED  BY <1>2, <3>1, <3>2, SMTT(30) DEF Closing, Activate, Good, Typed
  <2> HIDE DEF e, b
  <2>4. Typed(e)
    <3>1. n \in Seq(Frames)
      BY <2>2 DEF Typed
    <3> HIDE DEF n
    <3> QED  BY <2>3, <3>1, SMTT(30) DEF Typed, Good
  <2>5. /\ e.batch = b.batch /\ e.owed = b.owed /\ e.writes = b.writes
        /\ e.reported = b.reported /\ e.ended = b.ended
        /\ e.state = "CLOSING" /\ e.drained = b.drained
        /\ e.timer = ~d.drained /\ e.sock = b.sock
        /\ e.active = b.active /\ e.flow = b.flow
        /\ e.tokens = b.tokens /\ e.timers = b.timers
        /\ e.finals = b.finals /\ e.paused = b.paused
    <3>1. /\ e.batch = n /\ e.owed = d.owed /\ e.writes = d.writes
          /\ e.reported = d.reported /\ e.ended = d.ended
          /\ e.state = "CLOSING" /\ e.drained = d.drained
          /\ e.timer = ~d.drained /\ e.sock = d.sock
          /\ e.active = d.active /\ e.flow = d.flow
          /\ e.tokens = d.tokens /\ e.timers = d.timers
          /\ e.finals = d.finals /\ e.paused = d.paused
      <4> HIDE DEF n
      <4> QED  BY <2>3, SMTT(30) DEF Good, Typed
    <3> QED  BY <2>2, <2>3, <3>1 DEF Alike, Kept
  <2>6. Writing(e)
    BY <2>2, <2>5, SameWriting
  <2>7. SameLife(d, e)
    BY <2>2, <2>5 DEF SameLife, Alike, Kept
  <2>8. Life(e, a) /\ Handlers(e)
    BY <2>7, LifeKept DEF Good
  <2>9. Quiet(e)
    BY <2>2, <2>5 DEF Quiet, Alike, Kept
  <2>10. Buffered(e) = Buffered(b)
    BY <2>5, SMTT(30) DEF Buffered
  <2>11. Follows(d, e)
    BY <2>2, <2>5, <2>10 DEF Follows, Alike, Kept
  <2>12. Good(e, a)
    BY <2>4, <2>6, <2>8, <2>9 DEF Good
  <2> QED  BY <2>7, <2>11, <2>12 DEF e
<1> QED  BY <1>1, <1>2

(* close().                                                                *)
LEMMA CloseFacts ==
  ASSUME NEW d, NEW a, Good(d, a), IsFiniteSet(a), Close(d)
  PROVE  Good(c', a) /\ Follows(d, c')
<1> DEFINE e == Closing(d)
<1>1. Good(e, a) /\ Follows(d, e)
  BY ClosingFacts
<1>2. CloseIfNeeded(e)
  BY DEF Close
<1> HIDE DEF e
<1>3. Good(c', a) /\ Follows(e, c')
  BY <1>1, <1>2, CloseIfNeededFacts
<1> QED  BY <1>1, <1>3 DEF Follows

-----------------------------------------------------------------------------
(* The callbacks of requests, streams and sinks.                           *)

(* The kinds of requests.                                                  *)
LEMMA Kinds ==
  /\ Singles \cup Oneways \subseteq Ids /\ Flows \subseteq Ids
  /\ (Singles \cup Oneways) \cap Flows = {} /\ Streams \cap Sinks = {}
  /\ Streams \subseteq Flows /\ Sinks \subseteq Flows
BY ConnectionAssumption DEF Ids, Flows

(* A step that leaves the socket and its buffer alone keeps streams paused *)
(* as they should be, if it keeps the ones that know it up to date.        *)
LEMMA PressureKept ==
  ASSUME NEW d, NEW e, NEW t, NEW u, Pressure(d, t), Kept(d, e),
         t = (IF d.paused THEN Ready(d) ELSE {})
           => u = IF d.paused THEN Ready(e) ELSE {}
  PROVE  Pressure(e, u)
BY DEF Pressure, Kept

(* A request that is in flight or has a handler is not complete.           *)
LEMMA NotComplete ==
  ASSUME NEW d, NEW a, Good(d, a), NEW x \in Ids,
         x \in d.active \/ (x \in Flows /\ d.flow[x] # "none")
  PROVE  d.ended[x] = 0 /\ x \in a /\ d.state # "CLOSED"
BY DEF Good, Life, Quiet

(* A frame is written.                                                     *)
LEMMA EnqueueGood ==
  ASSUME NEW d, NEW a, Good(d, a), NEW x \in Frames,
         x \in Ids => d.ended[x] = 0, d.state # "CLOSED"
  PROVE  /\ Good(Enqueue(d, x), a) /\ Alike(d, Enqueue(d, x))
         /\ Enqueue(d, x).ended = d.ended
<1> DEFINE e == Enqueue(d, x)
<1>1. /\ Typed(e) /\ Writing(e) /\ Alike(d, e) /\ e.ended = d.ended
  BY EnqueueFacts DEF Good
<1> HIDE DEF e
<1>2. SameLife(d, e)
  BY <1>1 DEF SameLife, Alike, Kept
<1>3. Life(e, a) /\ Handlers(e)
  BY <1>2, LifeKept DEF Good
<1>4. Quiet(e)
  BY <1>1 DEF Quiet, Alike, Kept, Good
<1> QED  BY <1>1, <1>3, <1>4 DEF Good, e

(* The handler of a request that was answered is freed; only the number of *)
(* final responses may be wrong now.                                       *)
LEMMA FreedFlow ==
  ASSUME NEW d, NEW a, Good(d, a), NEW s \in Flows,
         d.flow[s] \in {"ready", "final"}
  PROVE  LET e == FreeStream(d, s, TRUE)
         IN  /\ Typed(e) /\ Life(e, a) /\ Writing(e) /\ Quiet(e) /\ Kept(d, e)
             /\ e.timers = d.timers \ {s}
             /\ \A q \in Flows : e.flow[q] = IF q = s THEN "none"
                                                      ELSE d.flow[q]
             /\ \A q \in Flows \ {s} : e.tokens[q] = d.tokens[q]
             /\ e.finals = Cardinality(Finals(e)) => Handlers(e)
<1> DEFINE e == FreeStream(d, s, TRUE)
<1>1. s \in Ids /\ d.flow[s] # "none"
  BY Kinds
<1>2. d.ended[s] = 0 /\ s \in a /\ d.state # "CLOSED" /\ s \notin d.active
  BY <1>1, NotComplete DEF Good, Life
<1>3. /\ Typed(e) /\ Writing(e) /\ Kept(d, e)
      /\ e.active = d.active /\ e.timers = d.timers \ {s}
      /\ e.flow = [d.flow EXCEPT ![s] = "none"]
      /\ e.tokens = [d.tokens EXCEPT ![s] = 0]
      /\ e.ended = [d.ended EXCEPT ![s] = 1]
  BY <1>1, <1>2, FreeStreamFacts DEF Good
<1> HIDE DEF e
<1>4. \A q \in Flows : e.flow[q] = IF q = s THEN "none" ELSE d.flow[q]
  BY <1>3 DEF Good, Typed
<1>5. \A x \in Ids : e.ended[x] = IF x = s THEN 1 ELSE d.ended[x]
  BY <1>3 DEF Good, Typed
<1>6. Life(e, a)
  BY <1>1, <1>2, <1>3, <1>4, <1>5, SMTT(30) DEF Good, Life
<1>7. Quiet(e)
  BY <1>2, <1>3 DEF Quiet, Kept, Good
<1>9. \A q \in Flows \ {s} : e.tokens[q] = d.tokens[q]
  BY <1>3 DEF Good, Typed
<1>8. e.finals = Cardinality(Finals(e)) => Handlers(e)
  <2>2. HandlerOf(e, s)
    BY <1>3, <1>4 DEF HandlerOf
  <2>3. Handlers(d)
    BY DEF Good
  <2> QED  BY <1>3, <1>4, <1>9, <2>2, <2>3, OneHandler
<1> QED  BY <1>3, <1>4, <1>6, <1>7, <1>8, <1>9 DEF e

(* The handler was ready, and is freed.                                    *)
LEMMA FreedReady ==
  ASSUME NEW d, NEW a, Good(d, a), NEW s \in Flows, d.flow[s] = "ready"
  PROVE  LET e == FreeStream(d, s, TRUE)
         IN  /\ Good(e, a) /\ Kept(d, e)
             /\ Ready(e) = Ready(d) \ {s}
<1> DEFINE e == FreeStream(d, s, TRUE)
<1>1. /\ Typed(e) /\ Life(e, a) /\ Writing(e) /\ Quiet(e) /\ Kept(d, e)
      /\ \A q \in Flows : e.flow[q] = IF q = s THEN "none" ELSE d.flow[q]
      /\ e.finals = Cardinality(Finals(e)) => Handlers(e)
  BY FreedFlow
<1> HIDE DEF e
<1>2. Finals(e) = Finals(d)
  BY <1>1, Kinds DEF Finals
<1>3. Handlers(e)
  BY <1>1, <1>2 DEF Good, Handlers, Kept
<1>4. Ready(e) = Ready(d) \ {s}
  BY <1>1, Kinds DEF Ready
<1> QED  BY <1>1, <1>3, <1>4 DEF Good, e

(* A request is read.                                                      *)
LEMMA RequestStep ==
  ASSUME IInv, NEW x \in Ids, Request(x)
  PROVE  IInv'
<1> DEFINE fl == [s \in Flows |-> IF s = x THEN "early" ELSE c.flow[s]]
<1> DEFINE tk == [s \in Flows |->
                    IF s = x /\ s \in Streams THEN 1 ELSE c.tokens[s]]
<1> DEFINE e == [c EXCEPT !.active = @ \cup {x}, !.flow = fl, !.tokens = tk]
<1>1. /\ arrived' = arrived \cup {x} /\ told' = told
      /\ x \notin arrived /\ c.state \in {"ALIVE", "DRAINING"}
  BY DEF Request, Readable
<1>2. c' = e
  BY SMTT(30) DEF Request, IInv, Good, Typed
<1>3. /\ fl \in [Flows -> {"none", "early", "cancelled", "ready", "final"}]
      /\ tk \in [Flows -> 0..MaxTokens]
      /\ \A s \in Flows : fl[s] = IF s = x THEN "early" ELSE c.flow[s]
      /\ \A s \in Flows : tk[s] = IF s = x /\ s \in Streams THEN 1
                                                            ELSE c.tokens[s]
  <2>1. 1 \in 0..MaxTokens
    BY ConnectionAssumption, SMTT(30)
  <2> QED  BY <2>1 DEF IInv, Good, Typed
<1> HIDE DEF fl, tk
<1>4. Typed(e)
  BY <1>3, SMTT(30) DEF IInv, Good, Typed
<1>5. /\ e.batch = c.batch /\ e.owed = c.owed /\ e.writes = c.writes
      /\ e.reported = c.reported /\ e.ended = c.ended
      /\ e.state = c.state /\ e.drained = c.drained /\ e.timer = c.timer
      /\ e.sock = c.sock /\ e.active = c.active \cup {x} /\ e.flow = fl
      /\ e.tokens = tk /\ e.timers = c.timers /\ e.finals = c.finals
      /\ e.handles = c.handles /\ e.paused = c.paused
  BY SMTT(30) DEF IInv, Good, Typed
<1> HIDE DEF e
<1>6. x \notin c.active /\ (x \in Flows => c.flow[x] = "none")
  BY <1>1 DEF IInv, Good, Life
<1>7. Life(e, arrived')
  <2>1. Life(c, arrived)
    BY DEF IInv, Good
  <2>2. e.active \subseteq arrived'
    BY <1>1, <1>5, <2>1 DEF Life
  <2>3. \A s \in Flows :
          /\ e.flow[s] \in {"early", "cancelled"} => s \in e.active
          /\ s \in e.active => e.flow[s] \in {"none", "early", "cancelled"}
          /\ e.flow[s] # "none" => s \in arrived'
    BY <1>1, <1>3, <1>5, <2>1 DEF Life
  <2>4. \A q \in Ids :
          e.ended[q] = IF /\ q \in arrived' \ e.active
                          /\ q \in Flows => e.flow[q] = "none"
                         THEN 1 ELSE 0
    <3> SUFFICES ASSUME NEW q \in Ids
                 PROVE  e.ended[q] = IF /\ q \in arrived' \ e.active
                                        /\ q \in Flows => e.flow[q] = "none"
                                       THEN 1 ELSE 0
      OBVIOUS
    <3>1. c.ended[q] = IF /\ q \in arrived \ c.active
                          /\ q \in Flows => c.flow[q] = "none"
                         THEN 1 ELSE 0
      BY <2>1 DEF Life
    <3>2. CASE q = x
      BY <1>1, <1>5, <3>1, <3>2
    <3>3. CASE q # x
      BY <1>1, <1>3, <1>5, <3>1, <3>3
    <3> QED  BY <3>2, <3>3
  <2> QED  BY <2>2, <2>3, <2>4 DEF Life
<1>8. Handlers(e)
  <2>1. Finals(e) = Finals(c)
    BY <1>3, <1>5, <1>6, Kinds DEF Finals
  <2>2. Handlers(c)
    BY DEF IInv, Good
  <2>3. e.finals = Cardinality(Finals(e))
    BY <1>5, <2>1, <2>2 DEF Handlers
  <2>4. CASE x \in Flows
    <3>1. \A q \in Flows \ {x} : /\ e.flow[q] = c.flow[q]
                                 /\ e.tokens[q] = c.tokens[q]
                                 /\ q \in e.timers <=> q \in c.timers
      BY <1>3, <1>5
    <3>2. x \notin c.timers
      BY <1>6, <2>2, <2>4 DEF Handlers, HandlerOf
    <3>3. e.flow[x] = "early" /\ (x \in Streams => e.tokens[x] # 0)
      BY <1>3, <1>5, <2>4, SMTT(30)
    <3>4. HandlerOf(e, x)
      BY <1>5, <3>2, <3>3 DEF HandlerOf
    <3> QED  BY <2>2, <2>3, <2>4, <3>1, <3>4, OneHandler
  <2>5. CASE x \notin Flows
    <3>1. \A q \in Flows : e.flow[q] = c.flow[q] /\ e.tokens[q] = c.tokens[q]
      BY <1>3, <1>5, <2>5
    <3>2. \A q \in Flows : HandlerOf(e, q)
      BY <1>5, <2>2, <3>1 DEF Handlers, HandlerOf
    <3> QED  BY <2>3, <3>2 DEF Handlers
  <2> QED  BY <2>4, <2>5
<1>9. Writing(e)
  BY <1>5, SameWriting DEF IInv, Good
<1>10. Quiet(e)
  BY <1>1, <1>5 DEF IInv, Good, Quiet
<1>11. Pressure(e, told)
  <2>1. Ready(e) = Ready(c)
    BY <1>3, <1>5, <1>6, Kinds DEF Ready
  <2>2. Buffered(e) = Buffered(c)
    BY <1>5, SMTT(30) DEF Buffered
  <2> QED  BY <1>5, <2>1, <2>2 DEF IInv, Pressure
<1>12. IsFiniteSet(arrived') /\ arrived' \subseteq Ids
  BY <1>1, FS_AddElement DEF IInv
<1> QED
  BY <1>1, <1>2, <1>4, <1>7, <1>8, <1>9, <1>10, <1>11, <1>12 DEF IInv, Good

(* The end of a callback: what is left is closed if it has to be.          *)
LEMMA EndOfCallback ==
  ASSUME IInv, NEW d, Good(d, arrived), CloseIfNeeded(d),
         arrived' = arrived, told' \subseteq Streams, Pressure(d, told')
  PROVE  IInv'
<1>1. Good(c', arrived) /\ Follows(d, c')
  BY CloseIfNeededFacts DEF IInv
<1>2. Pressure(c', told')
  BY <1>1, PressureFollows
<1> QED  BY <1>1, <1>2 DEF IInv

(* The context of a request dies that has no handler, and completes it.    *)
LEMMA EndedGood ==
  ASSUME NEW d, NEW a, Good(d, a), NEW x \in Ids, x \in d.active,
         x \in Flows => d.flow[x] = "none"
  PROVE  LET e == EndContext(d, x, TRUE)
         IN  Good(e, a) /\ Kept(d, e) /\ e.flow = d.flow
<1> DEFINE e == EndContext(d, x, TRUE)
<1>1. d.ended[x] = 0 /\ x \in a /\ d.state # "CLOSED"
  BY NotComplete
<1>2. /\ Typed(e) /\ Writing(e) /\ Kept(d, e)
      /\ e.active = d.active \ {x} /\ e.timers = d.timers
      /\ e.flow = d.flow /\ e.tokens = d.tokens
      /\ e.ended = [d.ended EXCEPT ![x] = 1]
  <2>1. d.ended[x] = 0 /\ Typed(d) /\ Writing(d)
    BY <1>1 DEF Good
  <2> QED  BY <2>1, EndContextFacts
<1> HIDE DEF e
<1>3. \A q \in Ids : e.ended[q] = IF q = x THEN 1 ELSE d.ended[q]
  BY <1>2 DEF Good, Typed
<1>4. Life(e, a)
  BY <1>1, <1>2, <1>3, SMTT(30) DEF Good, Life
<1>5. Handlers(e)
  <2>1. Finals(e) = Finals(d)
    BY <1>2 DEF Finals
  <2>2. \A q \in Flows : HandlerOf(e, q)
    BY <1>2 DEF Good, Handlers, HandlerOf
  <2> QED  BY <1>2, <2>1, <2>2 DEF Good, Handlers, Kept
<1>6. Quiet(e)
  BY <1>1, <1>2 DEF Quiet, Kept, Good
<1> QED  BY <1>2, <1>4, <1>5, <1>6 DEF Good, e

(* It is the end of a callback.                                            *)
LEMMA EndedStep ==
  ASSUME IInv, NEW d, Good(d, arrived), Pressure(d, told),
         NEW x \in Ids, x \in d.active, x \in Flows => d.flow[x] = "none",
         CloseIfNeeded(EndContext(d, x, TRUE)),
         arrived' = arrived, told' = told
  PROVE  IInv'
<1> DEFINE e == EndContext(d, x, TRUE)
<1>1. Good(e, arrived) /\ Kept(d, e) /\ e.flow = d.flow
  BY EndedGood
<1>2. CloseIfNeeded(e)
  OBVIOUS
<1> HIDE DEF e
<1>3. Ready(e) = Ready(d)
  BY <1>1 DEF Ready
<1>4. Pressure(e, told)
  BY <1>1, <1>3, PressureKept
<1> QED  BY <1>1, <1>2, <1>4, EndOfCallback DEF IInv

(* The request object of an answered request, or of a oneway one, dies.    *)
LEMMA DestroyRequestStep ==
  ASSUME IInv, NEW x \in Ids, DestroyRequest(x)
  PROVE  IInv'
<1>1. /\ x \in c.active /\ CloseIfNeeded(EndContext(c, x, TRUE))
      /\ arrived' = arrived /\ told' = told
      /\ x \in Flows => c.flow[x] = "none"
  BY Kinds DEF DestroyRequest, Answered
<1> QED  BY <1>1, EndedStep DEF IInv

(* A request dies unanswered.                                              *)
LEMMA RefuseUnansweredStep ==
  ASSUME IInv, Faulty \cap Flows = {}, NEW x \in Faulty, RefuseUnanswered(x)
  PROVE  IInv'
<1>1. PICK d \in {Closing(c), c} : CloseIfNeeded(EndContext(d, x, TRUE))
  BY DEF RefuseUnanswered
<1>2. /\ x \in c.active /\ x \in Ids /\ x \notin Flows
      /\ arrived' = arrived /\ told' = told
      /\ Good(c, arrived) /\ Pressure(c, told)
  BY DEF RefuseUnanswered, IInv, Good, Typed
<1>3. Good(d, arrived) /\ Pressure(d, told) /\ x \in d.active
  <2>1. /\ Good(Closing(c), arrived) /\ Follows(c, Closing(c))
        /\ SameLife(c, Closing(c))
    BY <1>2, ClosingFacts
  <2>2. Pressure(Closing(c), told) /\ x \in Closing(c).active
    BY <1>2, <2>1, PressureFollows DEF SameLife
  <2> QED  BY <1>2, <2>1, <2>2
<1> QED  BY <1>1, <1>2, <1>3, EndedStep

(* A request is refused as it is read.                                     *)
LEMMA RefuseFrameStep ==
  ASSUME IInv, NEW x \in Flows, RefuseFrame(x)
  PROVE  IInv'
<1> DEFINE A == arrived \cup {x}
<1> DEFINE b == [c EXCEPT !.active = @ \cup {x}]
<1> DEFINE d == Closing(b)
<1> DEFINE e == EndContext(d, x, TRUE)
<1>1. /\ arrived' = A /\ told' = told /\ CloseIfNeeded(e)
      /\ x \notin arrived /\ c.state \in {"ALIVE", "DRAINING"}
      /\ x \in Ids /\ Good(c, arrived) /\ Pressure(c, told)
  BY Kinds DEF RefuseFrame, Readable, IInv
<1>2. Typed(b)
  BY <1>1, SMTT(30) DEF Good, Typed
<1>3. /\ b.batch = c.batch /\ b.owed = c.owed /\ b.writes = c.writes
      /\ b.reported = c.reported /\ b.ended = c.ended
      /\ b.state = c.state /\ b.drained = c.drained /\ b.timer = c.timer
      /\ b.sock = c.sock /\ b.active = c.active \cup {x} /\ b.flow = c.flow
      /\ b.tokens = c.tokens /\ b.timers = c.timers /\ b.finals = c.finals
      /\ b.handles = c.handles /\ b.paused = c.paused
  BY <1>1, SMTT(30) DEF Good, Typed
<1> HIDE DEF b
<1>4. Life(c, arrived) /\ c.flow[x] = "none" /\ c.ended[x] = 0
  BY <1>1 DEF Good, Life
<1>5. Life(b, A)
  <2>1. ASSUME NEW q \in Ids
        PROVE  b.ended[q] = IF /\ q \in A \ b.active
                               /\ q \in Flows => b.flow[q] = "none"
                              THEN 1 ELSE 0
    <3>1. CASE q = x
      BY <1>3, <1>4, <3>1
    <3>2. CASE q # x
      BY <1>3, <1>4, <3>2 DEF Life
    <3> QED  BY <3>1, <3>2
  <2>2. b.active \subseteq A
    BY <1>3, <1>4 DEF Life
  <2>3. \A s \in Flows :
          /\ b.flow[s] \in {"early", "cancelled"} => s \in b.active
          /\ s \in b.active => b.flow[s] \in {"none", "early", "cancelled"}
          /\ b.flow[s] # "none" => s \in A
    BY <1>3, <1>4 DEF Life
  <2> QED  BY <2>1, <2>2, <2>3 DEF Life
<1>6. Handlers(b)
  <2>1. Finals(b) = Finals(c)
    BY <1>3 DEF Finals
  <2>2. \A q \in Flows : HandlerOf(b, q)
    BY <1>1, <1>3 DEF Good, Handlers, HandlerOf
  <2> QED  BY <1>1, <1>3, <2>1, <2>2 DEF Good, Handlers
<1>7. Writing(b)
  BY <1>1, <1>3, SameWriting DEF Good
<1>8. Quiet(b)
  BY <1>1, <1>3 DEF Good, Quiet
<1>9. Good(b, A)
  BY <1>2, <1>5, <1>6, <1>7, <1>8 DEF Good
<1>10. Pressure(b, told)
  <2>1. Buffered(b) = Buffered(c)
    BY <1>3, SMTT(30) DEF Buffered
  <2>2. Ready(b) = Ready(c)
    BY <1>3 DEF Ready
  <2> QED  BY <1>1, <1>3, <2>1, <2>2 DEF Pressure
<1>11. Good(d, A) /\ Follows(b, d) /\ SameLife(b, d)
  BY <1>9, ClosingFacts
<1> HIDE DEF d
<1>12. Pressure(d, told)
  BY <1>10, <1>11, PressureFollows
<1>13. x \in d.active /\ d.flow[x] = "none"
  BY <1>3, <1>4, <1>11 DEF SameLife
<1>14. Good(e, A) /\ Kept(d, e) /\ e.flow = d.flow
  BY <1>1, <1>11, <1>13, EndedGood
<1> HIDE DEF e
<1>15. Pressure(e, told)
  <2>1. Ready(e) = Ready(d)
    BY <1>14 DEF Ready
  <2> QED  BY <1>12, <1>14, <2>1, PressureKept
<1>16. IsFiniteSet(A) /\ A \subseteq Ids
  BY <1>1, FS_AddElement DEF IInv
<1> HIDE DEF A
<1>17. Good(c', A) /\ Follows(e, c')
  BY <1>1, <1>14, <1>16, CloseIfNeededFacts
<1>18. Pressure(c', told)
  BY <1>15, <1>17, PressureFollows
<1> QED  BY <1>1, <1>16, <1>17, <1>18 DEF IInv

(* onFirstResponse().                                                      *)
LEMMA FirstResponseStep ==
  ASSUME IInv, NEW s \in Flows, FirstResponse(s)
  PROVE  IInv'
<1>1. s \in Ids /\ s \in Frames
  BY Kinds DEF Frames
<1>2. Good(c, arrived) /\ s \in c.active /\ arrived' = arrived
  BY DEF IInv, FirstResponse
<1>3. c.ended[s] = 0 /\ s \in arrived /\ c.state # "CLOSED"
  BY <1>1, <1>2, NotComplete
<1>4. CASE /\ c.flow[s] = "cancelled" /\ told' = told
           /\ CloseIfNeeded(EndContext(FreeStream(c, s, TRUE), s, FALSE))
  <2> DEFINE d == FreeStream(c, s, TRUE)
  <2> DEFINE e == EndContext(d, s, FALSE)
  <2>1. /\ Typed(d) /\ Writing(d) /\ Kept(c, d)
        /\ d.active = c.active /\ d.timers = c.timers \ {s}
        /\ d.flow = [c.flow EXCEPT ![s] = "none"]
        /\ d.tokens = [c.tokens EXCEPT ![s] = 0]
        /\ d.ended = [c.ended EXCEPT ![s] = 1]
    BY <1>2, <1>3, <1>4, FreeStreamFacts DEF Good
  <2> HIDE DEF d
  <2>2. /\ Typed(e) /\ Writing(e) /\ Kept(d, e)
        /\ e.active = d.active \ {s} /\ e.timers = d.timers
        /\ e.flow = d.flow /\ e.tokens = d.tokens /\ e.ended = d.ended
    BY <1>1, <2>1, EndContextFacts
  <2>3. CloseIfNeeded(e)
    BY <1>4 DEF d
  <2> HIDE DEF e
  <2>4. /\ \A q \in Flows : e.flow[q] = IF q = s THEN "none" ELSE c.flow[q]
        /\ \A q \in Ids : e.ended[q] = IF q = s THEN 1 ELSE c.ended[q]
        /\ \A q \in Flows \ {s} : e.tokens[q] = c.tokens[q]
        /\ e.active = c.active \ {s} /\ e.timers = c.timers \ {s}
        /\ Kept(c, e)
    <3>1. Kept(c, e)
      BY <2>1, <2>2 DEF Kept
    <3>2. /\ c.flow \in [Flows -> {"none", "early", "cancelled", "ready",
                                   "final"}]
          /\ c.ended \in [Ids -> Int] /\ c.tokens \in [Flows -> 0..MaxTokens]
      BY <1>2 DEF Good, Typed
    <3> QED  BY <2>1, <2>2, <3>1, <3>2
  <2>5. Life(e, arrived)
    BY <1>1, <1>2, <1>3, <2>4, SMTT(30) DEF Good, Life
  <2>6. Finals(e) = Finals(c) /\ Ready(e) = Ready(c)
    BY <1>4, <2>4, Kinds DEF Finals, Ready
  <2>7. Handlers(e)
    <3>1. Handlers(c)
      BY <1>2 DEF Good
    <3>2. e.finals = c.finals
      BY <2>4 DEF Kept
    <3>3. HandlerOf(e, s)
      BY <2>4 DEF HandlerOf
    <3>4. e.finals = Cardinality(Finals(e))
      BY <2>6, <3>1, <3>2 DEF Handlers
    <3> QED  BY <2>4, <3>1, <3>2, <3>3, <3>4, OneHandler
  <2>8. Quiet(e)
    BY <1>2, <1>3, <2>4 DEF Quiet, Kept, Good
  <2>9. Pressure(e, told)
    BY <2>4, <2>6, PressureKept DEF IInv
  <2>10. Good(e, arrived)
    BY <2>2, <2>5, <2>7, <2>8 DEF Good
  <2> QED  BY <1>2, <1>4, <2>3, <2>9, <2>10, EndOfCallback DEF IInv
<1> DEFINE left == IF s \in Streams THEN c.tokens[s] - 1 ELSE 0
<1> DEFINE b == [c EXCEPT !.flow[s] = "ready", !.tokens[s] = left,
                          !.timers = IF s \in Streams /\ left = 0
                                       THEN @ \cup {s} ELSE @]
<1>5. CASE /\ c.flow[s] = "early" /\ told' = told \cup PauseIfPaused(s)
           /\ CloseIfNeeded(EndContext(Enqueue(b, s), s, FALSE))
  <2> DEFINE t == IF s \in Streams /\ left = 0
                    THEN c.timers \cup {s} ELSE c.timers
  <2>1. left \in 0..MaxTokens /\ t \subseteq Flows
    <3>1. c.tokens[s] \in 0..MaxTokens /\ MaxTokens \in Nat \ {0}
      BY <1>2, ConnectionAssumption DEF Good, Typed
    <3>2. s \in Streams => c.tokens[s] # 0
      BY <1>2, <1>5 DEF Good, Handlers, HandlerOf
    <3>3. left \in 0..MaxTokens
      BY <3>1, <3>2, SMTT(30)
    <3> QED  BY <1>2, <3>3 DEF Good, Typed
  <2>2. b = [c EXCEPT !.flow[s] = "ready", !.tokens[s] = left, !.timers = t]
    BY <1>2, SMTT(30) DEF Good, Typed
  <2>13. t = IF s \in Streams /\ left = 0 THEN c.timers \cup {s} ELSE c.timers
    OBVIOUS
  <2> DEFINE k == left
  <2> HIDE DEF b, t, k, left
  <2>3. Typed(b)
    BY <1>2, <2>1, <2>2, SMTT(30) DEF Good, Typed
  <2>4. /\ b.batch = c.batch /\ b.owed = c.owed /\ b.writes = c.writes
        /\ b.reported = c.reported /\ b.ended = c.ended
        /\ b.state = c.state /\ b.drained = c.drained /\ b.timer = c.timer
        /\ b.sock = c.sock /\ b.active = c.active /\ b.timers = t
        /\ b.flow = [c.flow EXCEPT ![s] = "ready"]
        /\ b.tokens = [c.tokens EXCEPT ![s] = left]
        /\ b.finals = c.finals
        /\ b.handles = c.handles /\ b.paused = c.paused
    BY <1>2, <2>2, SMTT(30) DEF Good, Typed
  <2>5. Writing(b) /\ Buffered(b) = Buffered(c)
    <3>1. Buffered(b) = Buffered(c)
      BY <2>4, SMTT(30) DEF Buffered
    <3> QED  BY <1>2, <2>4, <3>1, SameWriting DEF Good
  <2> DEFINE d == Enqueue(b, s)
  <2> DEFINE e == EndContext(d, s, FALSE)
  <2>6. /\ Typed(d) /\ Writing(d) /\ Alike(b, d) /\ d.ended = b.ended
    BY <1>1, <1>3, <2>3, <2>4, <2>5, EnqueueFacts
  <2> HIDE DEF d
  <2>7. /\ Typed(e) /\ Writing(e) /\ Kept(d, e)
        /\ e.active = d.active \ {s} /\ e.timers = d.timers
        /\ e.flow = d.flow /\ e.tokens = d.tokens /\ e.ended = d.ended
    BY <1>1, <2>6, EndContextFacts
  <2>8. CloseIfNeeded(e)
    BY <1>5 DEF d
  <2> HIDE DEF e
  <2>9. /\ \A q \in Flows : e.flow[q] = IF q = s THEN "ready" ELSE c.flow[q]
        /\ \A q \in Flows : e.tokens[q] = IF q = s THEN left ELSE c.tokens[q]
        /\ e.active = c.active \ {s} /\ e.timers = t /\ e.ended = c.ended
        /\ e.state = c.state /\ e.drained = c.drained /\ e.timer = c.timer
        /\ e.sock = c.sock /\ e.finals = c.finals
        /\ e.paused = c.paused /\ Buffered(e) = Buffered(c)
        /\ (e.writes = <<>> <=> c.writes = <<>>)
    <3>1. e.flow = b.flow /\ e.tokens = b.tokens
      BY <2>6, <2>7 DEF Alike, Kept
    <3>2. /\ c.flow \in [Flows -> {"none", "early", "cancelled", "ready",
                                   "final"}]
          /\ c.tokens \in [Flows -> 0..MaxTokens]
      BY <1>2 DEF Good, Typed
    <3>3. /\ \A q \in Flows : e.flow[q] = IF q = s THEN "ready" ELSE c.flow[q]
          /\ \A q \in Flows : e.tokens[q] = IF q = s THEN left
                                                     ELSE c.tokens[q]
      BY <2>4, <3>1, <3>2
    <3> QED  BY <2>4, <2>5, <2>6, <2>7, <3>3 DEF Alike, Kept
  <2>10. Life(e, arrived)
    BY <1>1, <1>2, <1>3, <1>5, <2>9, SMTT(30) DEF Good, Life
  <2>11. Handlers(e) /\ Ready(e) = Ready(c) \cup ({s} \cap Streams)
    <3>1. Handlers(c)
      BY <1>2 DEF Good
    <3>2. s \notin c.timers /\ (s \notin Streams => left = 0)
      BY <1>5, <3>1 DEF Handlers, HandlerOf, left
    <3>3. HandlerOf(e, s)
      BY <2>9, <2>13, <3>2 DEF HandlerOf
    <3>4. Finals(e) = Finals(c)
      BY <1>5, <2>9, Kinds DEF Finals
    <3>5. e.finals = Cardinality(Finals(e))
      BY <2>9, <3>1, <3>4 DEF Handlers
    <3>7. \A q \in Flows \ {s} : /\ e.flow[q] = c.flow[q]
                                 /\ e.tokens[q] = c.tokens[q]
                                 /\ q \in e.timers <=> q \in c.timers
      BY <2>9, <2>13
    <3>6. Ready(e) = Ready(c) \cup ({s} \cap Streams)
      BY <2>9, Kinds DEF Ready
    <3> QED  BY <3>1, <3>3, <3>5, <3>6, <3>7, OneHandler
  <2>12. Quiet(e)
    BY <1>2, <1>3, <2>9 DEF Quiet, Good
  <2>14. Pressure(e, told')
    BY <1>5, <2>9, <2>11 DEF IInv, Pressure, PauseIfPaused
  <2>15. Good(e, arrived) /\ told' \subseteq Streams
    BY <1>5, <2>7, <2>10, <2>11, <2>12 DEF Good, IInv, PauseIfPaused
  <2> QED  BY <1>2, <2>8, <2>14, <2>15, EndOfCallback
<1> QED  BY <1>4, <1>5 DEF FirstResponse

(* A callback that leaves nothing to close.                                *)
LEMMA CallbackDone ==
  ASSUME IInv, Good(c', arrived), arrived' = arrived,
         told' \subseteq Streams, Pressure(c', told')
  PROVE  IInv'
BY DEF IInv

(* onFirstResponseError().                                                 *)
LEMMA FirstResponseErrorStep ==
  ASSUME IInv, NEW s \in Flows, FirstResponseError(s)
  PROVE  IInv'
<1> DEFINE b == Enqueue(c, s)
<1> DEFINE d == FreeStream(b, s, FALSE)
<1>1. s \in Ids /\ s \in Frames
  BY Kinds DEF Frames
<1>2. /\ Good(c, arrived) /\ s \in c.active /\ c' = d
      /\ arrived' = arrived /\ told' = told /\ c.flow[s] # "none"
  BY DEF IInv, FirstResponseError, Answered
<1>3. /\ c.ended[s] = 0 /\ s \in arrived /\ c.state # "CLOSED"
      /\ c.flow[s] \in {"early", "cancelled"}
  BY <1>1, <1>2, NotComplete DEF Good, Life
<1>4. Good(b, arrived) /\ Alike(c, b) /\ b.ended = c.ended
  BY <1>1, <1>2, <1>3, EnqueueGood
<1> HIDE DEF b
<1>5. /\ Typed(d) /\ Writing(d) /\ Kept(b, d)
      /\ d.active = b.active /\ d.timers = b.timers \ {s}
      /\ d.flow = [b.flow EXCEPT ![s] = "none"] /\ d.ended = b.ended
      /\ d.tokens = [b.tokens EXCEPT ![s] = 0]
  <2>1. Typed(b) /\ Writing(b) /\ b.flow[s] # "none"
    BY <1>3, <1>4 DEF Alike, Good
  <2>2. FALSE \in BOOLEAN /\ (FALSE => b.ended[s] = 0)
    OBVIOUS
  <2> QED  BY <2>1, <2>2, FreeStreamFacts
<1> HIDE DEF d
<1>6. /\ \A q \in Flows : d.flow[q] = IF q = s THEN "none" ELSE c.flow[q]
      /\ \A q \in Flows \ {s} : d.tokens[q] = c.tokens[q]
      /\ d.active = c.active /\ d.timers = c.timers \ {s}
      /\ d.ended = c.ended /\ Kept(c, d)
  <2>1. /\ Kept(c, d) /\ b.flow = c.flow /\ b.active = c.active
        /\ b.timers = c.timers /\ b.tokens = c.tokens
    BY <1>4, <1>5 DEF Alike, Kept
  <2>2. /\ c.flow \in [Flows -> {"none", "early", "cancelled", "ready",
                                 "final"}]
        /\ c.tokens \in [Flows -> 0..MaxTokens]
    BY <1>2 DEF Good, Typed
  <2> QED  BY <1>4, <1>5, <2>1, <2>2
<1>7. Life(d, arrived)
  BY <1>1, <1>2, <1>3, <1>6, SMTT(30) DEF Good, Life
<1>8. Finals(d) = Finals(c) /\ Ready(d) = Ready(c)
  <2>1. Finals(d) = Finals(c)
    BY <1>3, <1>6, Kinds DEF Finals
  <2>2. Ready(d) = Ready(c)
    BY <1>3, <1>6, Kinds DEF Ready
  <2> QED  BY <2>1, <2>2
<1>9. Handlers(d)
  <2>1. Handlers(c)
    BY <1>2 DEF Good
  <2>2. d.finals = c.finals
    BY <1>6 DEF Kept
  <2>3. HandlerOf(d, s)
    BY <1>6 DEF HandlerOf
  <2>4. d.finals = Cardinality(Finals(d))
    BY <1>8, <2>1, <2>2 DEF Handlers
  <2> QED  BY <1>6, <2>1, <2>3, <2>4, OneHandler
<1>10. Quiet(d)
  BY <1>2, <1>3, <1>6 DEF Quiet, Kept, Good
<1>11. Pressure(d, told)
  BY <1>6, <1>8, PressureKept DEF IInv
<1>12. Good(d, arrived)
  BY <1>5, <1>7, <1>9, <1>10 DEF Good
<1> QED  BY <1>2, <1>11, <1>12, CallbackDone DEF IInv

(* What credits do not touch.                                              *)
Rest(d, e) ==
  /\ e.batch = d.batch /\ e.owed = d.owed /\ e.writes = d.writes
  /\ e.reported = d.reported /\ e.ended = d.ended
  /\ e.state = d.state /\ e.drained = d.drained /\ e.timer = d.timer
  /\ e.sock = d.sock /\ e.active = d.active /\ e.flow = d.flow
  /\ e.finals = d.finals /\ e.handles = d.handles /\ e.paused = d.paused

(* The credits of a handler change, and with them its timeout.             *)
LEMMA CreditGood ==
  ASSUME NEW d, NEW e, NEW a, NEW t, NEW s \in Flows,
         Good(d, a), Pressure(d, t), Typed(e), Rest(d, e), HandlerOf(e, s),
         \A q \in Flows \ {s} : /\ e.tokens[q] = d.tokens[q]
                                /\ q \in e.timers <=> q \in d.timers
  PROVE  Good(e, a) /\ Pressure(e, t)
<1>1. Life(e, a)
  <2>1. e.active = d.active /\ e.flow = d.flow /\ e.ended = d.ended
    BY DEF Rest
  <2> QED  BY <2>1 DEF Good, Life
<1>2. Handlers(e)
  <2>1. Finals(e) = Finals(d) /\ e.finals = d.finals /\ e.flow = d.flow
    BY DEF Finals, Rest
  <2>2. Handlers(d)
    BY DEF Good
  <2>3. e.finals = Cardinality(Finals(e))
    BY <2>1, <2>2 DEF Handlers
  <2> QED  BY <2>1, <2>2, <2>3, OneHandler
<1>3. Writing(e)
  BY SameWriting DEF Good, Rest
<1>4. Quiet(e)
  <2>1. d.state = "CLOSED" =>
          HandlerOf(e, s) /\ \A q \in Flows : e.flow[q] = "none"
    BY DEF Good, Quiet, Rest
  <2>2. d.state = "CLOSED" => e.timers = {}
    <3>1. e.timers \subseteq Flows
      BY DEF Typed
    <3> QED  BY <2>1, <3>1 DEF Good, Quiet, HandlerOf
  <2> QED  BY <2>2 DEF Good, Quiet, Rest, Dead
<1>5. Pressure(e, t)
  <2>1. Buffered(e) = Buffered(d)
    BY SMTT(30) DEF Buffered, Rest
  <2> QED  BY <2>1 DEF Pressure, Ready, Rest
<1> QED  BY <1>1, <1>2, <1>3, <1>4, <1>5 DEF Good

(* The frame of a stream or a sink that is ready.                          *)
LEMMA ReadyFrame ==
  ASSUME IInv, NEW s \in Flows, c.flow[s] \in {"ready", "final"}
  PROVE  LET b == Enqueue(c, s)
         IN  /\ Good(b, arrived) /\ Alike(c, b) /\ b.flow[s] = c.flow[s]
             /\ Pressure(b, told) /\ Ready(b) = Ready(c)
<1> DEFINE b == Enqueue(c, s)
<1>1. s \in Ids /\ s \in Frames
  BY Kinds DEF Frames
<1>2. Good(c, arrived) /\ c.flow[s] # "none"
  BY DEF IInv
<1>3. c.ended[s] = 0 /\ c.state # "CLOSED"
  BY <1>1, <1>2, NotComplete
<1>4. Good(b, arrived) /\ Alike(c, b)
  BY <1>1, <1>2, <1>3, EnqueueGood
<1> HIDE DEF b
<1>5. Ready(b) = Ready(c) /\ b.flow[s] = c.flow[s] /\ Kept(c, b)
  BY <1>4 DEF Alike, Ready
<1>6. Pressure(b, told)
  BY <1>5, PressureKept DEF IInv
<1> QED  BY <1>4, <1>5, <1>6 DEF b

(* onStreamNext().                                                         *)
LEMMA StreamNextStep ==
  ASSUME IInv, NEW s \in Streams, StreamNext(s)
  PROVE  IInv'
<1> DEFINE b == Enqueue(c, s)
<1> DEFINE t == IF c.tokens[s] = 1 THEN b.timers \cup {s} ELSE b.timers
<1> DEFINE e == [b EXCEPT !.tokens[s] = @ - 1, !.timers = t]
<1>1. s \in Flows /\ c.flow[s] = "ready" /\ arrived' = arrived /\ told' = told
  BY Kinds DEF StreamNext
<1>2. /\ Good(b, arrived) /\ Alike(c, b) /\ b.flow[s] = "ready"
      /\ Pressure(b, told)
  BY <1>1, ReadyFrame
<1>3. c' = e
  BY SMTT(30) DEF StreamNext
<1>4. c.tokens[s] > 0 /\ b.tokens = c.tokens
  BY <1>2 DEF StreamNext, Alike, Kept
<1> HIDE DEF b
<1>5. b.tokens[s] - 1 \in 0..MaxTokens /\ t \subseteq Flows
      /\ (c.tokens[s] = 1 <=> b.tokens[s] - 1 = 0)
  <2>1. b.tokens[s] \in 0..MaxTokens /\ MaxTokens \in Nat \ {0}
    BY <1>1, <1>2, ConnectionAssumption DEF Good, Typed
  <2>2. t \subseteq Flows
    BY <1>1, <1>2 DEF Good, Typed
  <2> HIDE DEF t
  <2> QED  BY <1>4, <2>1, <2>2, SMTT(30)
<1>6. t = IF c.tokens[s] = 1 THEN b.timers \cup {s} ELSE b.timers
  OBVIOUS
<1> HIDE DEF t
<1>7. Typed(e)
  BY <1>1, <1>2, <1>5, SMTT(30) DEF Good, Typed
<1>8. /\ Rest(b, e) /\ e.timers = t
      /\ e.tokens = [b.tokens EXCEPT ![s] = b.tokens[s] - 1]
  BY <1>2, SMTT(30) DEF Good, Typed, Rest
<1> HIDE DEF e
<1>9. /\ e.tokens[s] = b.tokens[s] - 1
      /\ \A q \in Flows \ {s} : /\ e.tokens[q] = b.tokens[q]
                                /\ q \in e.timers <=> q \in b.timers
  <2>1. b.tokens \in [Flows -> 0..MaxTokens]
    BY <1>2 DEF Good, Typed
  <2> QED  BY <1>1, <1>6, <1>8, <2>1
<1>10. HandlerOf(e, s)
  <2>1. s \notin b.timers
    <3>1. HandlerOf(b, s)
      BY <1>1, <1>2 DEF Good, Handlers
    <3>2. b.tokens[s] # 0
      BY <1>4, SMTT(30)
    <3> QED  BY <3>1, <3>2 DEF HandlerOf
  <2>2. e.flow[s] = "ready"
    BY <1>2, <1>8 DEF Rest
  <2> QED  BY <1>5, <1>6, <1>8, <1>9, <2>1, <2>2 DEF HandlerOf
<1>11. Good(e, arrived) /\ Pressure(e, told)
  BY <1>1, <1>2, <1>7, <1>8, <1>9, <1>10, CreditGood
<1> QED  BY <1>1, <1>3, <1>11, CallbackDone DEF IInv

(* A REQUEST_N frame.                                                      *)
LEMMA RequestNStep ==
  ASSUME IInv, NEW s \in Streams, RequestN(s)
  PROVE  IInv'
<1> DEFINE e == [c EXCEPT !.tokens[s] = @ + 1, !.grants = @ + 1,
                          !.timers = @ \ {s}]
<1>1. /\ s \in Flows /\ c.flow[s] = "ready" /\ arrived' = arrived
      /\ told' = told /\ c' = e /\ c.tokens[s] < MaxTokens
      /\ Good(c, arrived) /\ Pressure(c, told)
  BY Kinds DEF RequestN, IInv
<1>2. c.tokens[s] + 1 \in 0..MaxTokens /\ c.tokens[s] + 1 # 0
  <2>1. c.tokens[s] \in 0..MaxTokens /\ MaxTokens \in Nat \ {0}
    BY <1>1, ConnectionAssumption DEF Good, Typed
  <2> QED  BY <1>1, <2>1, SMTT(30)
<1>3. Typed(e)
  BY <1>1, <1>2, SMTT(30) DEF Good, Typed
<1>4. /\ Rest(c, e) /\ e.timers = c.timers \ {s}
      /\ e.tokens = [c.tokens EXCEPT ![s] = c.tokens[s] + 1]
  BY <1>1, SMTT(30) DEF Good, Typed, Rest
<1> HIDE DEF e
<1>5. /\ e.tokens[s] = c.tokens[s] + 1
      /\ \A q \in Flows \ {s} : /\ e.tokens[q] = c.tokens[q]
                                /\ q \in e.timers <=> q \in c.timers
  <2>1. c.tokens \in [Flows -> 0..MaxTokens]
    BY <1>1 DEF Good, Typed
  <2> QED  BY <1>1, <1>4, <2>1
<1>6. HandlerOf(e, s)
  <2>1. e.flow[s] = "ready"
    BY <1>1, <1>4 DEF Rest
  <2> QED  BY <1>2, <1>4, <1>5, <2>1 DEF HandlerOf
<1>7. Good(e, arrived) /\ Pressure(e, told)
  BY <1>1, <1>3, <1>4, <1>5, <1>6, CreditGood
<1> QED  BY <1>1, <1>7, CallbackDone DEF IInv

(* onSinkRequestN().                                                       *)
LEMMA SinkRequestNStep ==
  ASSUME IInv, NEW s \in Sinks, SinkRequestN(s)
  PROVE  IInv'
<1> DEFINE b == Enqueue(c, s)
<1> DEFINE e == [b EXCEPT !.tokens[s] = @ + 1, !.grants = @ + 1,
                          !.timers = @ \cup {s}]
<1>1. /\ s \in Flows /\ s \notin Streams /\ c.flow[s] = "ready"
      /\ arrived' = arrived /\ told' = told /\ c' = e
      /\ c.tokens[s] < MaxTokens
  BY Kinds DEF SinkRequestN
<1>2. /\ Good(b, arrived) /\ Alike(c, b) /\ b.flow[s] = "ready"
      /\ Pressure(b, told)
  BY <1>1, ReadyFrame
<1> HIDE DEF b
<1>3. b.tokens[s] + 1 \in 0..MaxTokens /\ b.tokens[s] + 1 # 0
  <2>1. b.tokens[s] \in 0..MaxTokens /\ MaxTokens \in Nat \ {0}
    BY <1>1, <1>2, ConnectionAssumption DEF Good, Typed
  <2>2. b.tokens[s] = c.tokens[s]
    BY <1>2 DEF Alike, Kept
  <2> QED  BY <1>1, <2>1, <2>2, SMTT(30)
<1>4. Typed(e)
  BY <1>1, <1>2, <1>3, SMTT(30) DEF Good, Typed
<1>5. /\ Rest(b, e) /\ e.timers = b.timers \cup {s}
      /\ e.tokens = [b.tokens EXCEPT ![s] = b.tokens[s] + 1]
  BY <1>2, SMTT(30) DEF Good, Typed, Rest
<1> HIDE DEF e
<1>6. /\ e.tokens[s] = b.tokens[s] + 1
      /\ \A q \in Flows \ {s} : /\ e.tokens[q] = b.tokens[q]
                                /\ q \in e.timers <=> q \in b.timers
  <2>1. b.tokens \in [Flows -> 0..MaxTokens]
    BY <1>2 DEF Good, Typed
  <2> QED  BY <1>1, <1>5, <2>1
<1>7. HandlerOf(e, s)
  <2>1. e.flow[s] = "ready"
    BY <1>2, <1>5 DEF Rest
  <2> QED  BY <1>1, <1>3, <1>5, <1>6, <2>1 DEF HandlerOf
<1>8. Good(e, arrived) /\ Pressure(e, told)
  BY <1>1, <1>2, <1>4, <1>5, <1>6, <1>7, CreditGood
<1> QED  BY <1>1, <1>8, CallbackDone DEF IInv

(* A PAYLOAD frame of a sink.                                              *)
LEMMA SinkNextStep ==
  ASSUME IInv, NEW s \in Sinks, SinkNext(s)
  PROVE  IInv'
<1> DEFINE t == IF c.tokens[s] = 1 THEN c.timers \ {s} ELSE c.timers
<1> DEFINE e == [c EXCEPT !.tokens[s] = @ - 1, !.timers = t]
<1>1. /\ s \in Flows /\ s \notin Streams /\ c.flow[s] = "ready"
      /\ arrived' = arrived /\ told' = told /\ c.tokens[s] > 0
      /\ Good(c, arrived) /\ Pressure(c, told)
  BY Kinds DEF SinkNext, IInv
<1>2. c' = e
  BY SMTT(30) DEF SinkNext
<1>3. /\ c.tokens[s] - 1 \in 0..MaxTokens /\ t \subseteq Flows
      /\ (c.tokens[s] = 1 <=> c.tokens[s] - 1 = 0)
  <2>1. c.tokens[s] \in 0..MaxTokens /\ MaxTokens \in Nat \ {0}
    BY <1>1, ConnectionAssumption DEF Good, Typed
  <2>2. t \subseteq Flows
    BY <1>1 DEF Good, Typed
  <2> HIDE DEF t
  <2> QED  BY <1>1, <2>1, <2>2, SMTT(30)
<1>4. t = IF c.tokens[s] = 1 THEN c.timers \ {s} ELSE c.timers
  OBVIOUS
<1> HIDE DEF t
<1>5. Typed(e)
  BY <1>1, <1>3, SMTT(30) DEF Good, Typed
<1>6. /\ Rest(c, e) /\ e.timers = t
      /\ e.tokens = [c.tokens EXCEPT ![s] = c.tokens[s] - 1]
  BY <1>1, SMTT(30) DEF Good, Typed, Rest
<1> HIDE DEF e
<1>7. /\ e.tokens[s] = c.tokens[s] - 1
      /\ \A q \in Flows \ {s} : /\ e.tokens[q] = c.tokens[q]
                                /\ q \in e.timers <=> q \in c.timers
  <2>1. c.tokens \in [Flows -> 0..MaxTokens]
    BY <1>1 DEF Good, Typed
  <2> QED  BY <1>1, <1>4, <1>6, <2>1
<1>8. HandlerOf(e, s)
  <2>1. s \in c.timers
    <3>1. HandlerOf(c, s)
      BY <1>1 DEF Good, Handlers
    <3>2. c.tokens[s] # 0
      BY <1>1, SMTT(30)
    <3> QED  BY <1>1, <3>1, <3>2 DEF HandlerOf
  <2>2. e.flow[s] = "ready"
    BY <1>1, <1>6 DEF Rest
  <2> QED  BY <1>1, <1>3, <1>4, <1>6, <1>7, <2>1, <2>2 DEF HandlerOf
<1>9. Good(e, arrived) /\ Pressure(e, told)
  BY <1>1, <1>5, <1>6, <1>7, <1>8, CreditGood
<1> QED  BY <1>1, <1>2, <1>9, CallbackDone DEF IInv

(* The last PAYLOAD frame of a sink: onSinkComplete().                     *)
LEMMA SinkCompleteStep ==
  ASSUME IInv, NEW s \in Sinks, SinkComplete(s)
  PROVE  IInv'
<1> DEFINE e == [c EXCEPT !.flow[s] = "final", !.finals = @ + 1,
                          !.timers = @ \ {s}]
<1>1. /\ s \in Flows /\ s \notin Streams /\ c.flow[s] = "ready"
      /\ arrived' = arrived /\ told' = told /\ c' = e
      /\ Good(c, arrived) /\ Pressure(c, told)
  BY Kinds DEF SinkComplete, IInv
<1>2. Typed(e)
  BY <1>1, SMTT(30) DEF Good, Typed
<1>3. /\ e.batch = c.batch /\ e.owed = c.owed /\ e.writes = c.writes
      /\ e.reported = c.reported /\ e.ended = c.ended
      /\ e.state = c.state /\ e.drained = c.drained /\ e.timer = c.timer
      /\ e.sock = c.sock /\ e.active = c.active
      /\ e.flow = [c.flow EXCEPT ![s] = "final"]
      /\ e.tokens = c.tokens /\ e.timers = c.timers \ {s}
      /\ e.finals = c.finals + 1
      /\ e.handles = c.handles /\ e.paused = c.paused
  BY <1>1, SMTT(30) DEF Good, Typed
<1> HIDE DEF e
<1>4. \A q \in Flows : e.flow[q] = IF q = s THEN "final" ELSE c.flow[q]
  BY <1>1, <1>3 DEF Good, Typed
<1>5. Life(e, arrived)
  BY <1>1, <1>3, <1>4, SMTT(30) DEF Good, Life
<1>6. Handlers(e)
  <2>1. Handlers(c)
    BY <1>1 DEF Good
  <2>2. Finals(e) = Finals(c) \cup {s} /\ s \notin Finals(c)
    BY <1>1, <1>4, Kinds DEF Finals
  <2>3. IsFiniteSet(Finals(c))
    <3>1. Finals(c) \subseteq arrived
      BY <1>1, Kinds DEF Finals, Good, Life
    <3> QED  BY <3>1, FS_Subset DEF IInv
  <2>4. Cardinality(Finals(e)) = Cardinality(Finals(c)) + 1
    BY <2>2, <2>3, FS_AddElement
  <2>5. e.finals = Cardinality(Finals(e))
    BY <1>3, <2>1, <2>4 DEF Handlers
  <2>6. HandlerOf(e, s)
    BY <1>1, <1>3, <1>4 DEF HandlerOf
  <2> QED  BY <1>1, <1>3, <1>4, <2>1, <2>5, <2>6, OneHandler
<1>7. Writing(e)
  BY <1>1, <1>3, SameWriting DEF Good
<1>8. Quiet(e)
  BY <1>1, <1>3 DEF Good, Quiet
<1>9. Pressure(e, told)
  <2>1. Buffered(e) = Buffered(c)
    BY <1>3, SMTT(30) DEF Buffered
  <2>2. Ready(e) = Ready(c)
    BY <1>1, <1>4, Kinds DEF Ready
  <2> QED  BY <1>1, <1>3, <2>1, <2>2 DEF Pressure
<1>10. Good(e, arrived)
  BY <1>2, <1>5, <1>6, <1>7, <1>8 DEF Good
<1> QED  BY <1>1, <1>9, <1>10, CallbackDone DEF IInv

(* A ready handler is freed, with or without a last frame.                 *)
LEMMA FreedStep ==
  ASSUME IInv, NEW s \in Flows, c.flow[s] = "ready", NEW d,
         Good(d, arrived), Kept(c, d), d.flow = c.flow,
         c' = FreeStream(d, s, TRUE), arrived' = arrived,
         told' = told \ {s} \/ (told' = told /\ s \notin Streams)
  PROVE  IInv'
<1>1. d.flow[s] = "ready" /\ Ready(d) = Ready(c)
  BY DEF Ready
<1> DEFINE e == FreeStream(d, s, TRUE)
<1>2. Good(e, arrived) /\ Kept(d, e) /\ Ready(e) = Ready(d) \ {s}
  BY <1>1, FreedReady
<1> HIDE DEF e
<1>3. Kept(c, e)
  BY <1>2 DEF Kept
<1>4. Ready(c) \subseteq Streams
  BY DEF Ready
<1>5. told = (IF c.paused THEN Ready(c) ELSE {})
        => told' = IF c.paused THEN Ready(e) ELSE {}
  BY <1>1, <1>2, <1>4
<1>6. Pressure(e, told')
  BY <1>3, <1>5, PressureKept DEF IInv
<1> QED  BY <1>2, <1>6, CallbackDone DEF IInv, e

(* onStreamComplete(), onStreamError().                                    *)
LEMMA StreamEndStep ==
  ASSUME IInv, NEW s \in Streams, StreamEnd(s)
  PROVE  IInv'
<1> DEFINE b == Enqueue(c, s)
<1>1. /\ s \in Flows /\ c.flow[s] = "ready" /\ c' = FreeStream(b, s, TRUE)
      /\ told' = told \ {s} /\ arrived' = arrived
  BY Kinds DEF StreamEnd
<1>2. Good(b, arrived) /\ Alike(c, b)
  BY <1>1, ReadyFrame
<1> HIDE DEF b
<1> QED  BY <1>1, <1>2, FreedStep DEF Alike

(* timeoutExpired().                                                       *)
LEMMA TimeoutExpiredStep ==
  ASSUME IInv, NEW s \in Flows, TimeoutExpired(s)
  PROVE  IInv'
<1> DEFINE b == Enqueue(c, s)
<1>1. /\ c' = FreeStream(b, s, TRUE)
      /\ told' = told \ {s} /\ arrived' = arrived
  BY DEF TimeoutExpired
<1>2. c.flow[s] = "ready"
  <2>1. HandlerOf(c, s) /\ s \in c.timers
    BY DEF IInv, Good, Handlers, TimeoutExpired
  <2> QED  BY <2>1 DEF HandlerOf
<1>3. Good(b, arrived) /\ Alike(c, b)
  BY <1>2, ReadyFrame
<1> HIDE DEF b
<1> QED  BY <1>1, <1>2, <1>3, FreedStep DEF Alike

(* A CANCEL or ERROR frame.                                                *)
LEMMA CancelStep ==
  ASSUME IInv, NEW s \in Flows, Cancel(s)
  PROVE  IInv'
<1>1. /\ Good(c, arrived) /\ Pressure(c, told)
      /\ told' = told \ {s} /\ arrived' = arrived /\ c.sock = "open"
  BY DEF IInv, Cancel, Readable
<1>2. CASE c.flow[s] = "ready" /\ c' = FreeStream(c, s, TRUE)
  <2>1. Kept(c, c)
    BY DEF Kept
  <2> QED  BY <1>1, <1>2, <2>1, FreedStep
<1>3. CASE c.flow[s] = "early" /\ c' = [c EXCEPT !.flow[s] = "cancelled"]
  <2> DEFINE e == [c EXCEPT !.flow[s] = "cancelled"]
  <2>1. Typed(e)
    BY <1>1, SMTT(30) DEF Good, Typed
  <2>2. /\ e.batch = c.batch /\ e.owed = c.owed /\ e.writes = c.writes
        /\ e.reported = c.reported /\ e.ended = c.ended
        /\ e.state = c.state /\ e.drained = c.drained /\ e.timer = c.timer
        /\ e.sock = c.sock /\ e.active = c.active
        /\ e.flow = [c.flow EXCEPT ![s] = "cancelled"]
        /\ e.tokens = c.tokens /\ e.timers = c.timers
        /\ e.finals = c.finals
        /\ e.handles = c.handles /\ e.paused = c.paused
    BY <1>1, SMTT(30) DEF Good, Typed
  <2>3. c' = e
    BY <1>3
  <2> HIDE DEF e
  <2>4. \A q \in Flows : e.flow[q] = IF q = s THEN "cancelled" ELSE c.flow[q]
    BY <1>1, <2>2 DEF Good, Typed
  <2>5. Life(e, arrived)
    BY <1>1, <1>3, <2>2, <2>4, SMTT(30) DEF Good, Life
  <2>6. Handlers(e)
    <3>1. Handlers(c)
      BY <1>1 DEF Good
    <3>2. Finals(e) = Finals(c)
      BY <1>3, <2>4, Kinds DEF Finals
    <3>3. e.finals = Cardinality(Finals(e))
      BY <2>2, <3>1, <3>2 DEF Handlers
    <3>4. HandlerOf(e, s)
      BY <1>3, <2>2, <2>4, <3>1 DEF Handlers, HandlerOf
    <3> QED  BY <2>2, <2>4, <3>1, <3>3, <3>4, OneHandler
  <2>7. Writing(e)
    BY <1>1, <2>2, SameWriting DEF Good
  <2>8. Quiet(e)
    BY <1>1, <1>3, <2>2 DEF Good, Quiet
  <2>9. Pressure(e, told')
    <3>1. Buffered(e) = Buffered(c)
      BY <2>2, SMTT(30) DEF Buffered
    <3>2. Ready(e) = Ready(c) /\ s \notin Ready(c)
      BY <1>3, <2>4, Kinds DEF Ready
    <3> QED  BY <1>1, <2>2, <3>1, <3>2 DEF Pressure
  <2>10. Good(e, arrived)
    BY <2>1, <2>5, <2>6, <2>7, <2>8 DEF Good
  <2> QED  BY <1>1, <2>3, <2>9, <2>10, CallbackDone DEF IInv
<1> QED  BY <1>2, <1>3 DEF Cancel

(* onFinalResponse(), onFinalResponseError().                              *)
LEMMA FinalResponseStep ==
  ASSUME IInv, NEW s \in Sinks, FinalResponse(s)
  PROVE  IInv'
<1> DEFINE b == Enqueue(c, s)
<1> DEFINE d == FreeStream(b, s, TRUE)
<1> DEFINE e == [d EXCEPT !.finals = @ - 1]
<1>1. /\ s \in Flows /\ s \notin Streams
      /\ told' = told /\ arrived' = arrived
  BY Kinds DEF FinalResponse
<1>2. CASE c.flow[s] = "ready" /\ c' = d
  <2>1. Good(b, arrived) /\ Alike(c, b)
    BY <1>1, <1>2, ReadyFrame
  <2> HIDE DEF b
  <2> QED  BY <1>1, <1>2, <2>1, FreedStep DEF Alike
<1>3. CASE c.flow[s] = "final" /\ CloseIfNeeded(e)
  <2>1. /\ Good(b, arrived) /\ Alike(c, b) /\ b.flow[s] = "final"
        /\ Pressure(b, told) /\ Ready(b) = Ready(c)
    BY <1>1, <1>3, ReadyFrame
  <2> HIDE DEF b
  <2>2. /\ Typed(d) /\ Life(d, arrived) /\ Writing(d) /\ Quiet(d)
        /\ Kept(b, d) /\ d.timers = b.timers \ {s}
        /\ \A q \in Flows \ {s} : d.tokens[q] = b.tokens[q]
        /\ \A q \in Flows : d.flow[q] = IF q = s THEN "none" ELSE b.flow[q]
    BY <1>1, <2>1, FreedFlow
  <2> HIDE DEF d
  <2>3. Typed(e)
    BY <2>2, SMTT(30) DEF Typed
  <2>4. /\ e.batch = d.batch /\ e.owed = d.owed /\ e.writes = d.writes
        /\ e.reported = d.reported /\ e.ended = d.ended
        /\ e.state = d.state /\ e.drained = d.drained /\ e.timer = d.timer
        /\ e.sock = d.sock /\ e.active = d.active /\ e.flow = d.flow
        /\ e.tokens = d.tokens /\ e.timers = d.timers
        /\ e.finals = d.finals - 1
        /\ e.handles = d.handles /\ e.paused = d.paused
    BY <2>2, SMTT(30) DEF Typed
  <2> HIDE DEF e
  <2>5. Life(e, arrived)
    <3>1. e.active = d.active /\ e.flow = d.flow /\ e.ended = d.ended
      BY <2>4
    <3>2. Life(d, arrived)
      BY <2>2
    <3> QED  BY <3>1, <3>2 DEF Life
  <2>6. Handlers(e)
    <3>1. Handlers(b) /\ b.finals = d.finals
      BY <2>1, <2>2 DEF Good, Kept
    <3>2. Finals(e) = Finals(b) \ {s} /\ s \in Finals(b)
      <4>1. \A q \in Sinks : e.flow[q] = IF q = s THEN "none" ELSE b.flow[q]
        BY <2>2, <2>4, Kinds
      <4> QED  BY <2>1, <4>1 DEF Finals
    <3>3. IsFiniteSet(Finals(b))
      <4>1. Finals(b) \subseteq arrived
        BY <2>1, Kinds DEF Finals, Good, Life
      <4> QED  BY <4>1, FS_Subset DEF IInv
    <3>4. Cardinality(Finals(e)) = Cardinality(Finals(b)) - 1
      BY <3>2, <3>3, FS_RemoveElement
    <3>5. e.finals = Cardinality(Finals(e))
      BY <2>4, <3>1, <3>4 DEF Handlers
    <3>6. HandlerOf(e, s)
      BY <1>1, <2>2, <2>4 DEF HandlerOf
    <3> QED  BY <1>1, <2>2, <2>4, <3>1, <3>5, <3>6, OneHandler
  <2>7. Writing(e)
    BY <2>2, <2>4, SameWriting
  <2>8. Quiet(e)
    <3>1. c.state # "CLOSED"
      BY <1>1, <1>3 DEF IInv, Good, Quiet
    <3>2. e.state # "CLOSED"
      BY <2>1, <2>2, <2>4, <3>1 DEF Alike, Kept
    <3> QED  BY <2>2, <2>4, <3>2 DEF Quiet
  <2>9. Pressure(e, told)
    <3>1. Buffered(e) = Buffered(d)
      BY <2>4, SMTT(30) DEF Buffered
    <3>2. Ready(e) = Ready(b)
      BY <1>1, <2>2, <2>4, Kinds DEF Ready
    <3> QED  BY <2>1, <2>2, <2>4, <3>1, <3>2 DEF Pressure, Kept
  <2>10. Good(e, arrived)
    BY <2>3, <2>5, <2>6, <2>7, <2>8 DEF Good
  <2> QED  BY <1>1, <1>3, <2>9, <2>10, EndOfCallback DEF IInv
<1> QED  BY <1>2, <1>3 DEF FinalResponse

-----------------------------------------------------------------------------
(* The callbacks of the socket.                                            *)

(* The number of frames in the buffer of the socket is a number, zero when *)
(* there is no write.                                                      *)
LEMMA BufferedFacts ==
  ASSUME NEW d, Typed(d)
  PROVE  Buffered(d) \in Nat /\ (d.writes = <<>> => Buffered(d) = 0)
<1> DEFINE ws == d.writes
<1> DEFINE D == DOMAIN ws
<1> DEFINE part(i) == {i} \X DOMAIN ws[i].frames
<1> DEFINE P == {part(i) : i \in D}
<1>1. ws \in Seq(WriteContexts) /\ Buffered(d) = Cardinality(UNION P)
  BY DEF Typed, Buffered
<1> HIDE DEF ws
<1>2. IsFiniteSet(D)
  BY <1>1, FS_Interval, SMTT(30)
<1>3. \A i \in D : IsFiniteSet(part(i))
  <2> SUFFICES ASSUME NEW i \in D
               PROVE  IsFiniteSet(part(i))
    OBVIOUS
  <2>1. ws[i] \in WriteContexts
    BY <1>1, SMTT(30)
  <2> DEFINE f == ws[i].frames
  <2>2. f \in Seq(Frames)
    BY <2>1 DEF WriteContexts
  <2> HIDE DEF f
  <2>3. IsFiniteSet(DOMAIN f)
    BY <2>2, FS_Interval, SMTT(30)
  <2>4. IsFiniteSet({i})
    BY FS_Singleton
  <2>5. IsFiniteSet({i} \X DOMAIN f)
    BY <2>3, <2>4, FS_Product
  <2> QED  BY <2>5 DEF f
<1> HIDE DEF part
<1>4. IsFiniteSet(P)
  <2> DEFINE g == [i \in D |-> part(i)]
  <2>1. g \in Surjection(D, P)
    BY DEF Surjection
  <2> QED  BY <1>2, <2>1, FS_Surjection
<1>5. IsFiniteSet(UNION P)
  BY <1>3, <1>4, FS_UNION
<1>6. ws = <<>> => UNION P = {}
  <2>1. ws = <<>> => D = {}
    BY SMTT(30)
  <2> QED  BY <2>1
<1> QED  BY <1>1, <1>5, <1>6, FS_CardinalityType, FS_EmptySet DEF ws

Minor(d, e) ==
  /\ e.batch = d.batch /\ e.owed = d.owed /\ e.writes = d.writes
  /\ e.reported = d.reported /\ e.paused = d.paused
  /\ SameLife(d, e)

(* What most callbacks of the socket and of the drainer leave alone is all *)
(* that matters, if the connection stays as quiet as it has to be.         *)
LEMMA MinorGood ==
  ASSUME NEW d, NEW e, NEW a, Good(d, a), Typed(e), Minor(d, e), Quiet(e)
  PROVE  /\ Good(e, a)
         /\ \A t : e.sock = d.sock /\ Pressure(d, t) => Pressure(e, t)
<1>1. Life(e, a) /\ Handlers(e)
  BY LifeKept DEF Good, Minor
<1>2. Writing(e)
  BY SameWriting DEF Good, Minor, SameLife
<1>3. Buffered(e) = Buffered(d)
  BY SMTT(30) DEF Buffered, Minor
<1>4. Ready(e) = Ready(d)
  BY DEF Ready, Minor, SameLife
<1>5. \A t : e.sock = d.sock /\ Pressure(d, t) => Pressure(e, t)
  BY <1>3, <1>4 DEF Pressure, Minor
<1> QED  BY <1>1, <1>2, <1>5 DEF Good

(* The answer of a single request.                                         *)
LEMMA RespondStep ==
  ASSUME IInv, NEW x \in Singles, Respond(x)
  PROVE  IInv'
<1> DEFINE d == Enqueue(c, x)
<1> DEFINE e == [d EXCEPT !.answered = @ \cup {x}]
<1>1. /\ x \in c.active /\ c' = e /\ arrived' = arrived /\ told' = told
      /\ x \in Ids /\ x \in Frames /\ Good(c, arrived) /\ Pressure(c, told)
  BY Kinds DEF Respond, IInv, Frames
<1>2. c.ended[x] = 0 /\ c.state # "CLOSED"
  BY <1>1, NotComplete
<1>3. Good(d, arrived) /\ Alike(c, d)
  BY <1>1, <1>2, EnqueueGood
<1>4. Pressure(d, told)
  <2>1. Ready(d) = Ready(c)
    BY <1>3 DEF Alike, Ready
  <2> QED  BY <1>1, <1>3, <2>1, PressureKept DEF Alike
<1> HIDE DEF d
<1>5. Typed(e)
  BY <1>3, SMTT(30) DEF Good, Typed
<1>6. Minor(d, e)
  BY <1>3, SMTT(30) DEF Good, Typed, Minor, SameLife
<1>7. /\ e.state = d.state /\ e.drained = d.drained /\ e.timer = d.timer
      /\ e.sock = d.sock /\ e.handles = d.handles
  BY <1>3, SMTT(30) DEF Good, Typed
<1> HIDE DEF e
<1>8. Quiet(e)
  BY <1>2, <1>3, <1>7 DEF Good, Quiet, Alike, Kept
<1>9. Good(e, arrived) /\ Pressure(e, told)
  BY <1>3, <1>4, <1>5, <1>6, <1>7, <1>8, MinorGood
<1> QED  BY <1>1, <1>9, CallbackDone DEF IInv

(* The end of a callback that closes.                                      *)
LEMMA EndWithClose ==
  ASSUME IInv, NEW d, Good(d, arrived), Close(d),
         arrived' = arrived, told' = told, Pressure(d, told)
  PROVE  IInv'
<1>1. Good(c', arrived) /\ Follows(d, c')
  BY CloseFacts DEF IInv
<1>2. Pressure(c', told')
  BY <1>1, PressureFollows
<1> QED  BY <1>1, <1>2 DEF IInv

(* The socket fails its writes.                                            *)
LEMMA FailWritesFacts ==
  ASSUME NEW d, NEW a, NEW t, Good(d, a), NEW s \in {"closed", "error"}
  PROVE  Good(FailWrites(d, s), a) /\ Pressure(FailWrites(d, s), t)
<1> DEFINE e == FailWrites(d, s)
<1> DEFINE o == Owed(d.writes)
<1>1. o \subseteq Ids
  <2>1. \A i \in DOMAIN d.writes : d.writes[i] \in WriteContexts
    BY SMTT(30) DEF Typed, Good
  <2>2. \A w \in WriteContexts : w.owed \subseteq Ids
    BY DEF WriteContexts
  <2> QED  BY <2>1, <2>2 DEF Owed
<1>2. e = [d EXCEPT !.reported = @ \cup o, !.writes = <<>>, !.sock = s]
  BY DEF FailWrites
<1>3. o = Owed(d.writes)
  OBVIOUS
<1> HIDE DEF e, o
<1>4. Typed(e)
  BY <1>1, <1>2, SMTT(30) DEF Good, Typed
<1>5. /\ e.batch = d.batch /\ e.owed = d.owed /\ e.writes = <<>>
      /\ e.reported = d.reported \cup o /\ e.sock = s
      /\ e.state = d.state /\ e.drained = d.drained /\ e.timer = d.timer
      /\ e.handles = d.handles
  BY <1>2, SMTT(30) DEF Good, Typed
<1>6. SameLife(d, e)
  BY <1>2, SMTT(30) DEF Good, Typed, SameLife
<1>7. Life(e, a) /\ Handlers(e)
  BY <1>6, LifeKept DEF Good
<1>8. Writing(e)
  <2>1. Writing(d) /\ e.ended = d.ended
    BY <1>6 DEF Good, SameLife
  <2> QED  BY <1>3, <1>5, <2>1, NoWrites, SMTT(30) DEF Writing
<1>9. Quiet(e)
  BY <1>5, <1>6 DEF Good, Quiet, Dead, SameLife
<1>10. Pressure(e, t)
  BY <1>5, SMTT(30) DEF Pressure
<1> QED  BY <1>4, <1>7, <1>8, <1>9, <1>10 DEF Good, e

(* The batch is handed to the socket.                                      *)
LEMMA FlushedFacts ==
  ASSUME NEW a, Good(c, a), c.state # "CLOSED"
  PROVE  /\ Good(Flushed, a) /\ Flushed.sock = c.sock
         /\ Flushed.paused = c.paused /\ Flushed.flow = c.flow
         /\ Flushed.state = c.state
<1> DEFINE e == Flushed
<1>1. CASE c.batch = <<>>
  BY <1>1 DEF Flushed
<1>2. CASE c.batch # <<>>
  <2> DEFINE v == Writes(c)
  <2> DEFINE ws == c.writes
  <2> DEFINE w == ws \o v
  <2>1. e = [c EXCEPT !.batch = <<>>, !.owed = {}, !.writes = w]
    BY <1>2, SMTT(30) DEF Flushed, Good, Typed
  <2>2. /\ v \in Seq(WriteContexts) /\ Owed(v) = c.owed
        /\ Unwritten(v) \subseteq Range(c.batch) /\ InOrder(v)
    BY BatchWrites DEF Good
  <2>3. Writing(c) /\ ws \in Seq(WriteContexts) /\ InOrder(ws)
    BY DEF Good, Writing, Typed
  <2>4. Owed(ws) \cap (Owed(v) \cup Unwritten(v)) = {}
    BY <2>2, <2>3 DEF Writing
  <2> HIDE DEF v, ws
  <2>5. /\ w \in Seq(WriteContexts) /\ Owed(w) = Owed(ws) \cup Owed(v)
        /\ Unwritten(w) = Unwritten(ws) \cup Unwritten(v) /\ InOrder(w)
    BY <2>2, <2>3, <2>4, MoreWrites
  <2> HIDE DEF e, w
  <2>6. Typed(e)
    BY <2>1, <2>5, SMTT(30) DEF Good, Typed
  <2>7. /\ e.batch = <<>> /\ e.owed = {} /\ e.writes = w
        /\ e.reported = c.reported /\ e.sock = c.sock /\ e.paused = c.paused
        /\ e.state = c.state /\ e.drained = c.drained /\ e.timer = c.timer
        /\ e.handles = c.handles
    BY <2>1, SMTT(30) DEF Good, Typed
  <2>8. SameLife(c, e)
    BY <2>1, SMTT(30) DEF Good, Typed, SameLife
  <2>9. Life(e, a) /\ Handlers(e)
    BY <2>8, LifeKept DEF Good
  <2>10. Writing(e)
    <3>1. e.ended = c.ended
      BY <2>8 DEF SameLife
    <3>2. Range(<<>>) = {}
      BY SMTT(30) DEF Range
    <3>3. /\ Owed(e.writes) = Owed(c.writes) \cup c.owed
          /\ Unwritten(e.writes)
               \subseteq Unwritten(c.writes) \cup Range(c.batch)
      BY <2>2, <2>5, <2>7 DEF ws
    <3>4. \A x \in Ids :
            e.ended[x] = IF x \in e.owed \cup e.reported \cup Owed(e.writes)
                           THEN 1 ELSE 0
      BY <2>3, <2>7, <3>1, <3>3, SMTT(30) DEF Writing
    <3>5. /\ (e.owed \cup e.reported) \cap Owed(e.writes) = {}
          /\ e.reported \cap (Range(e.batch) \cup Unwritten(e.writes)) = {}
      BY <2>3, <2>7, <3>2, <3>3 DEF Writing
    <3>6. e.owed \cap e.reported = {} /\ Owed(e.writes) \cap Range(e.batch) = {}
          /\ (e.batch = <<>> => e.owed = {}) /\ InOrder(e.writes)
      BY <2>5, <2>7, <3>2
    <3> QED  BY <3>4, <3>5, <3>6 DEF Writing
  <2>11. Quiet(e)
    BY <2>7 DEF Good, Quiet
  <2> QED  BY <2>6, <2>7, <2>8, <2>9, <2>10, <2>11 DEF Good, SameLife, e
<1> QED  BY <1>1, <1>2

(* The socket tells what it buffers, and streams are paused or resumed.    *)
LEMMA EgressFacts ==
  ASSUME IInv, NEW d, Good(d, arrived), d.paused = c.paused,
         d.sock = c.sock, d.flow = c.flow, NEW t,
         LET e == [d EXCEPT !.paused = EgressPaused(d)]
         IN  IF e.paused # c.paused
               THEN t = IF e.paused THEN {s \in Streams : e.flow[s] = "ready"}
                                    ELSE {}
               ELSE t = told
  PROVE  LET e == [d EXCEPT !.paused = EgressPaused(d)]
         IN  Good(e, arrived) /\ Pressure(e, t) /\ t \subseteq Streams
<1> DEFINE p == EgressPaused(d)
<1> DEFINE e == [d EXCEPT !.paused = p]
<1>1. p \in BOOLEAN
  BY DEF EgressPaused
<1>2. /\ p => Buffered(d) >= Recovery /\ d.writes # <<>>
      /\ Threshold # 0 /\ Buffered(d) > Threshold => p
  <2>1. Buffered(d) \in Nat /\ (d.writes = <<>> => Buffered(d) = 0)
    BY BufferedFacts DEF Good
  <2>2. Threshold \in Nat /\ Recovery \in 0..Threshold
    BY ConnectionAssumption
  <2>3. Buffered(d) > Threshold => Buffered(d) >= Recovery /\ Buffered(d) # 0
    BY <2>1, <2>2, SMTT(30)
  <2> QED  BY <2>1, <2>3 DEF EgressPaused
<1> HIDE DEF p
<1>3. Typed(e)
  BY <1>1, SMTT(30) DEF Good, Typed
<1>4. /\ e.batch = d.batch /\ e.owed = d.owed /\ e.writes = d.writes
      /\ e.reported = d.reported /\ e.ended = d.ended
      /\ e.state = d.state /\ e.drained = d.drained /\ e.timer = d.timer
      /\ e.handles = d.handles /\ e.sock = d.sock /\ e.paused = p
  BY SMTT(30) DEF Good, Typed
<1>5. SameLife(d, e)
  BY SMTT(30) DEF Good, Typed, SameLife
<1>6. IF e.paused # c.paused THEN t = IF e.paused THEN Ready(e) ELSE {}
                             ELSE t = told
  BY DEF Ready, p
<1>7. e = [d EXCEPT !.paused = EgressPaused(d)]
  BY DEF p
<1> HIDE DEF e
<1>8. Life(e, arrived) /\ Handlers(e)
  BY <1>5, LifeKept DEF Good
<1>9. Writing(e)
  BY <1>4, SameWriting DEF Good
<1>10. Quiet(e)
  BY <1>4, <1>5 DEF Good, Quiet, Dead, SameLife
<1>11. Buffered(e) = Buffered(d) /\ Ready(e) = Ready(c)
  <2>1. Buffered(e) = Buffered(d)
    BY <1>4, SMTT(30) DEF Buffered
  <2> QED  BY <1>5, <2>1 DEF Ready, SameLife
<1>12. Pressure(e, t)
  <2> SUFFICES ASSUME e.sock = "open"
               PROVE  t = IF e.paused THEN Ready(e) ELSE {}
    BY <1>2, <1>4, <1>11 DEF Pressure
  <2>1. CASE e.paused # c.paused
    BY <1>6, <2>1
  <2>2. CASE e.paused = c.paused
    BY <1>4, <1>6, <1>11, <2>2 DEF IInv, Pressure
  <2> QED  BY <2>1, <2>2
<1>13. t \subseteq Streams
  BY <1>6 DEF Ready, IInv
<1> QED  BY <1>3, <1>7, <1>8, <1>9, <1>10, <1>12, <1>13 DEF Good

(* flushPendingWrites().                                                   *)
LEMMA FlushPendingWritesStep ==
  ASSUME IInv, FlushPendingWrites
  PROVE  IInv'
<1> DEFINE d == Flushed
<1>1. /\ Good(c, arrived) /\ c.state # "CLOSED" /\ arrived' = arrived
  BY DEF IInv, FlushPendingWrites
<1>2. /\ Good(d, arrived) /\ d.sock = c.sock
      /\ d.paused = c.paused /\ d.flow = c.flow
  BY <1>1, FlushedFacts
<1> DEFINE k == IF Dead(c) THEN c.sock ELSE "closed"
<1>3. CASE Close(FailWrites(d, k)) /\ told' = told
  <2>1. k \in {"closed", "error"}
    BY DEF Dead
  <2> HIDE DEF d, k
  <2>2. Good(FailWrites(d, k), arrived) /\ Pressure(FailWrites(d, k), told)
    BY <1>2, <2>1, FailWritesFacts
  <2> QED  BY <1>1, <1>3, <2>2, EndWithClose
<1>4. CASE /\ c' = [d EXCEPT !.paused = EgressPaused(d)]
           /\ IF c'.paused # c.paused THEN TellStreams(c') ELSE told' = told
  <2> DEFINE e == [d EXCEPT !.paused = EgressPaused(d)]
  <2> HIDE DEF d
  <2>1. IF e.paused # c.paused
          THEN told' = IF e.paused THEN {s \in Streams : e.flow[s] = "ready"}
                                   ELSE {}
          ELSE told' = told
    BY <1>4 DEF TellStreams
  <2>2. Good(e, arrived) /\ Pressure(e, told') /\ told' \subseteq Streams
    BY <1>2, <2>1, EgressFacts
  <2> QED  BY <1>1, <1>4, <2>2, CallbackDone
<1> QED  BY <1>3, <1>4 DEF FlushPendingWrites

(* The end of writeSuccess().                                              *)
LEMMA AfterWriteSuccessFacts ==
  ASSUME IInv, NEW d, Good(d, arrived), d.state # "CLOSED",
         AfterWriteSuccess(d), arrived' = arrived,
         told' \subseteq Streams, Pressure(d, told')
  PROVE  IInv'
<1>1. CASE CloseIfNeeded(d)
  BY <1>1, EndOfCallback
<1> DEFINE e == [d EXCEPT !.handles = @ + 1, !.reading = FALSE]
<1>2. CASE d.handles < MaxHandles /\ c' = e
  <2>1. d.handles + 1 \in 0..MaxHandles
    <3>1. d.handles \in 0..MaxHandles /\ MaxHandles \in Nat
      BY ConnectionAssumption DEF Good, Typed
    <3> QED  BY <1>2, <3>1, SMTT(30)
  <2>2. Typed(e)
    BY <2>1, SMTT(30) DEF Good, Typed
  <2>3. /\ e.batch = d.batch /\ e.owed = d.owed /\ e.writes = d.writes
        /\ e.reported = d.reported /\ e.ended = d.ended
        /\ e.state = d.state /\ e.drained = d.drained /\ e.timer = d.timer
        /\ e.sock = d.sock /\ e.active = d.active /\ e.flow = d.flow
        /\ e.tokens = d.tokens /\ e.timers = d.timers
        /\ e.finals = d.finals /\ e.paused = d.paused
    BY SMTT(30) DEF Good, Typed
  <2> HIDE DEF e
  <2>4. Minor(d, e) /\ Quiet(e)
    BY <2>3 DEF Minor, SameLife, Quiet, Good
  <2>5. Good(e, arrived) /\ Pressure(e, told')
    BY <2>2, <2>3, <2>4, MinorGood
  <2> QED  BY <1>2, <2>5, CallbackDone
<1> QED  BY <1>1, <1>2 DEF AfterWriteSuccess

(* The socket takes the whole batch at once.                               *)
LEMMA FlushAtOnceStep ==
  ASSUME IInv, FlushAtOnce
  PROVE  IInv'
<1> DEFINE r == c.reported \cup c.owed
<1> DEFINE e == [c EXCEPT !.batch = <<>>, !.owed = {}, !.reported = r]
<1>1. /\ Good(c, arrived) /\ c.state # "CLOSED" /\ c.writes = <<>>
      /\ AfterWriteSuccess(e) /\ arrived' = arrived /\ told' = told
  BY DEF IInv, FlushAtOnce
<1>10. r \subseteq Ids
  BY <1>1 DEF Good, Typed
<1>11. Typed(c)
  BY <1>1 DEF Good
<1> HIDE DEF r
<1>2. Typed(e)
  BY <1>10, <1>11, SMTT(30) DEF Typed
<1>3. /\ e.batch = <<>> /\ e.owed = {} /\ e.writes = c.writes
      /\ e.reported = r /\ e.paused = c.paused
      /\ e.state = c.state /\ e.drained = c.drained /\ e.timer = c.timer
      /\ e.sock = c.sock /\ e.ended = c.ended
  BY <1>1, SMTT(30) DEF Good, Typed
<1>4. SameLife(c, e)
  BY <1>1, SMTT(30) DEF Good, Typed, SameLife
<1> HIDE DEF e
<1>5. Life(e, arrived) /\ Handlers(e)
  BY <1>1, <1>4, LifeKept DEF Good
<1>6. Writing(e)
  <2>1. Writing(c)
    BY <1>1 DEF Good
  <2>2. Owed(c.writes) = {} /\ Unwritten(c.writes) = {} /\ InOrder(c.writes)
    BY <1>1, NoWrites
  <2>3. Range(<<>>) = {}
    BY SMTT(30) DEF Range
  <2> QED  BY <1>3, <2>1, <2>2, <2>3, SMTT(30) DEF Writing, r
<1>7. Quiet(e)
  BY <1>1, <1>3 DEF Good, Quiet
<1>8. Pressure(e, told)
  <2>1. Buffered(e) = Buffered(c)
    BY <1>3, SMTT(30) DEF Buffered
  <2>2. Ready(e) = Ready(c)
    BY <1>4 DEF SameLife, Ready
  <2> QED  BY <1>3, <2>1, <2>2 DEF Pressure, IInv
<1>9. Good(e, arrived)
  BY <1>2, <1>5, <1>6, <1>7 DEF Good
<1> QED  BY <1>1, <1>3, <1>8, <1>9, AfterWriteSuccessFacts DEF IInv

(* writeSuccess().                                                         *)
LEMMA WriteSuccessStep ==
  ASSUME IInv, WriteSuccess
  PROVE  IInv'
<1> DEFINE ws == c.writes
<1> DEFINE v == Tail(ws)
<1> DEFINE o == Head(ws).owed
<1> DEFINE d == [c EXCEPT !.writes = v, !.reported = @ \cup o]
<1> DEFINE e == [d EXCEPT !.paused = EgressPaused(d)]
<1>1. /\ Good(c, arrived) /\ ws # <<>> /\ arrived' = arrived
      /\ AfterWriteSuccess(e)
      /\ IF e.paused # c.paused THEN TellStreams(e) ELSE told' = told
  BY DEF IInv, WriteSuccess, Written
<1>2. c.state # "CLOSED"
  BY <1>1 DEF Good, Quiet
<1>3. /\ v \in Seq(WriteContexts) /\ Head(ws) \in WriteContexts
      /\ Owed(ws) = o \cup Owed(v) /\ Unwritten(v) \subseteq Unwritten(ws)
      /\ o \cap (Owed(v) \cup Unwritten(v)) = {} /\ InOrder(v)
  <2>1. ws \in Seq(WriteContexts) /\ InOrder(ws)
    BY <1>1 DEF Good, Typed, Writing
  <2> HIDE DEF ws
  <2> QED  BY <1>1, <2>1, OldestWrite
<1>4. o \subseteq Ids
  BY <1>3 DEF WriteContexts
<1>5. ws = c.writes
  OBVIOUS
<1> HIDE DEF ws, v, o
<1>6. Typed(d)
  BY <1>1, <1>3, <1>4, SMTT(30) DEF Good, Typed
<1>7. /\ d.batch = c.batch /\ d.owed = c.owed /\ d.writes = v
      /\ d.reported = c.reported \cup o /\ d.paused = c.paused
      /\ d.state = c.state /\ d.drained = c.drained /\ d.timer = c.timer
      /\ d.sock = c.sock /\ d.ended = c.ended
  BY <1>1, SMTT(30) DEF Good, Typed
<1>8. SameLife(c, d)
  BY <1>1, SMTT(30) DEF Good, Typed, SameLife
<1> DEFINE g == d
<1>9. e = [g EXCEPT !.paused = EgressPaused(g)] /\ g = d
  OBVIOUS
<1> HIDE DEF d
<1>10. Life(d, arrived) /\ Handlers(d)
  BY <1>1, <1>8, LifeKept DEF Good
<1>11. Writing(d)
  <2>1. Writing(c)
    BY <1>1 DEF Good
  <2>2. \A x \in Ids :
          d.ended[x] = IF x \in d.owed \cup d.reported \cup Owed(d.writes)
                         THEN 1 ELSE 0
    <3>1. d.owed \cup d.reported \cup Owed(d.writes)
            = c.owed \cup c.reported \cup Owed(c.writes)
      BY <1>3, <1>5, <1>7
    <3> QED  BY <1>7, <2>1, <3>1 DEF Writing
  <2>3. /\ (d.owed \cup d.reported) \cap Owed(d.writes) = {}
        /\ d.owed \cap d.reported = {}
        /\ Owed(d.writes) \cap Range(d.batch) = {}
    BY <1>3, <1>5, <1>7, <2>1 DEF Writing
  <2>4. d.reported \cap (Range(d.batch) \cup Unwritten(d.writes)) = {}
    BY <1>3, <1>5, <1>7, <2>1 DEF Writing
  <2> QED  BY <1>3, <1>7, <2>1, <2>2, <2>3, <2>4 DEF Writing
<1>12. Quiet(d)
  BY <1>1, <1>2, <1>7 DEF Good, Quiet
<1>13. Good(d, arrived) /\ d.flow = c.flow
  BY <1>6, <1>8, <1>10, <1>11, <1>12 DEF Good, SameLife
<1>14. IF e.paused # c.paused
         THEN told' = IF e.paused THEN {s \in Streams : e.flow[s] = "ready"}
                                  ELSE {}
         ELSE told' = told
  BY <1>1 DEF TellStreams
<1>15. Good(e, arrived) /\ Pressure(e, told') /\ told' \subseteq Streams
  BY <1>7, <1>13, <1>14, EgressFacts
<1>16. e.state # "CLOSED"
  BY <1>2, <1>6, <1>7, SMTT(30) DEF Typed
<1> QED  BY <1>1, <1>15, <1>16, AfterWriteSuccessFacts

(* writeErr().                                                             *)
LEMMA WriteErrStep ==
  ASSUME IInv, WriteErr
  PROVE  IInv'
<1> DEFINE e == FailWrites(c, "error")
<1>1. Good(c, arrived) /\ Close(e) /\ arrived' = arrived /\ told' = told
  BY DEF IInv, WriteErr
<1>2. Good(e, arrived) /\ Pressure(e, told)
  BY <1>1, FailWritesFacts
<1> QED  BY <1>1, <1>2, EndWithClose

-----------------------------------------------------------------------------
(* The callbacks that drain and close.                                     *)

(* readEOF().                                                              *)
LEMMA ReadEofStep ==
  ASSUME IInv, ReadEof
  PROVE  IInv'
<1> DEFINE e == [c EXCEPT !.sock = "eof", !.reading = FALSE]
<1>1. /\ Good(c, arrived) /\ Close(e) /\ arrived' = arrived /\ told' = told
      /\ c.sock = "open"
  BY DEF IInv, ReadEof
<1>2. Typed(e)
  BY <1>1, SMTT(30) DEF Good, Typed
<1>3. Minor(c, e)
  BY <1>1, SMTT(30) DEF Good, Typed, Minor, SameLife
<1>4. /\ e.state = c.state /\ e.drained = c.drained /\ e.timer = c.timer
      /\ e.sock = "eof"
  BY <1>1, SMTT(30) DEF Good, Typed
<1> HIDE DEF e
<1>5. c.state # "CLOSED"
  BY <1>1 DEF Good, Quiet, Dead
<1>6. Quiet(e)
  BY <1>1, <1>4, <1>5 DEF Good, Quiet
<1>7. Good(e, arrived)
  BY <1>1, <1>2, <1>3, <1>6, MinorGood
<1>8. Pressure(e, told)
  BY <1>4 DEF Pressure
<1> QED  BY <1>1, <1>7, <1>8, EndWithClose

(* A frame breaks the protocol.                                            *)
LEMMA ContractViolationStep ==
  ASSUME IInv, ContractViolation
  PROVE  IInv'
BY EndWithClose DEF IInv, ContractViolation

(* startDrain().                                                           *)
LEMMA StartDrainFacts ==
  ASSUME IInv, NEW d, NEW code, Good(d, arrived), d.state = "ALIVE",
         Pressure(d, told), StartDrain(d, code),
         arrived' = arrived, told' = told
  PROVE  IInv'
<1> DEFINE b == Enqueue(d, Stream0)
<1> DEFINE e == [b EXCEPT !.state = "DRAINING", !.code = code]
<1>1. CloseIfNeeded(e)
  BY DEF StartDrain
<1>2. Good(b, arrived) /\ Alike(d, b)
  <2>1. Stream0 \in Frames /\ Stream0 \notin Ids
    BY ConnectionAssumption DEF Frames
  <2> QED  BY <2>1, EnqueueGood
<1> HIDE DEF b
<1>3. Typed(e)
  BY <1>2, SMTT(30) DEF Good, Typed
<1>4. Minor(b, e)
  BY <1>2, SMTT(30) DEF Good, Typed, Minor, SameLife
<1>5. /\ e.state = "DRAINING" /\ e.drained = b.drained /\ e.timer = b.timer
      /\ e.sock = b.sock
  BY <1>2, SMTT(30) DEF Good, Typed
<1> HIDE DEF e
<1>6. Quiet(e)
  BY <1>2, <1>5 DEF Good, Quiet
<1>7. Pressure(b, told)
  BY <1>2, PressureKept DEF Alike, Ready
<1>8. Good(e, arrived) /\ Pressure(e, told)
  BY <1>2, <1>3, <1>4, <1>5, <1>6, <1>7, MinorGood
<1> QED  BY <1>1, <1>8, EndOfCallback DEF IInv

(* The connection manager drains the connection.                           *)
LEMMA NotifyPendingShutdownStep ==
  ASSUME IInv, NotifyPendingShutdown
  PROVE  IInv'
BY StartDrainFacts DEF IInv, NotifyPendingShutdown

(* The ingress limit is exceeded: incMemoryUsage().                        *)
LEMMA IncMemoryUsageFailsStep ==
  ASSUME IInv, IncMemoryUsageFails
  PROVE  IInv'
<1> DEFINE e == [c EXCEPT !.reading = FALSE]
<1>1. /\ Good(c, arrived) /\ Pressure(c, told)
      /\ IF c.state = "ALIVE" THEN StartDrain(e, TRUE) ELSE c' = e
      /\ arrived' = arrived /\ told' = told
  BY DEF IInv, IncMemoryUsageFails
<1>2. Typed(e)
  BY <1>1, SMTT(30) DEF Good, Typed
<1>3. Minor(c, e)
  BY <1>1, SMTT(30) DEF Good, Typed, Minor, SameLife
<1>4. /\ e.state = c.state /\ e.drained = c.drained /\ e.timer = c.timer
      /\ e.sock = c.sock /\ e.handles = c.handles
  BY <1>1, SMTT(30) DEF Good, Typed
<1> HIDE DEF e
<1>5. Quiet(e)
  BY <1>1, <1>3, <1>4 DEF Good, Quiet, Minor, SameLife, Dead
<1>6. Good(e, arrived) /\ Pressure(e, told)
  BY <1>1, <1>2, <1>3, <1>4, <1>5, MinorGood
<1>7. CASE c.state = "ALIVE" /\ StartDrain(e, TRUE)
  BY <1>1, <1>4, <1>6, <1>7, StartDrainFacts
<1>8. CASE c' = e
  BY <1>1, <1>6, <1>8, CallbackDone DEF IInv
<1> QED  BY <1>1, <1>7, <1>8

(* closeWhenIdle().                                                        *)
LEMMA CloseWhenIdleStep ==
  ASSUME IInv, CloseWhenIdle
  PROVE  IInv'
<1> DEFINE e == DrainComplete(c)
<1>1. /\ Good(c, arrived) /\ Pressure(c, told) /\ Close(e)
      /\ arrived' = arrived /\ told' = told
  BY DEF IInv, CloseWhenIdle
<1>2. Good(e, arrived) /\ Follows(c, e)
  BY <1>1, DrainCompleteFacts
<1>3. Pressure(e, told)
  BY <1>1, <1>2, PressureFollows
<1> QED  BY <1>1, <1>2, <1>3, EndWithClose

(* dropConnection().                                                       *)
LEMMA DropConnectionStep ==
  ASSUME IInv, DropConnection
  PROVE  IInv'
<1> DEFINE d == DrainComplete(Flushed)
<1> DEFINE k == IF Dead(c) THEN c.sock ELSE "closed"
<1> DEFINE e == FailWrites(d, k)
<1>1. /\ Good(c, arrived) /\ c.state # "CLOSED" /\ Close(e)
      /\ arrived' = arrived /\ told' = told
  BY DEF IInv, DropConnection
<1>2. Good(Flushed, arrived)
  BY <1>1, FlushedFacts
<1>3. Good(d, arrived)
  BY <1>2, DrainCompleteFacts
<1>4. k \in {"closed", "error"}
  BY DEF Dead
<1> HIDE DEF d, k
<1>5. Good(e, arrived) /\ Pressure(e, told)
  BY <1>3, <1>4, FailWritesFacts
<1> QED  BY <1>1, <1>5, EndWithClose

(* The socket drainer's timer.                                             *)
LEMMA DrainTimeoutStep ==
  ASSUME IInv, DrainTimeout
  PROVE  IInv'
<1> DEFINE e == DrainComplete(c)
<1>1. /\ Good(c, arrived) /\ Pressure(c, told) /\ CloseIfNeeded(e)
      /\ arrived' = arrived /\ told' = told
  BY DEF IInv, DrainTimeout
<1>2. Good(e, arrived) /\ Follows(c, e)
  BY <1>1, DrainCompleteFacts
<1>3. Pressure(e, told)
  BY <1>1, <1>2, PressureFollows
<1> QED  BY <1>1, <1>2, <1>3, EndOfCallback DEF IInv

(* A ReadResumableHandle is resumed or destroyed.                          *)
LEMMA ResumeReadStep ==
  ASSUME IInv, ResumeRead
  PROVE  IInv'
<1> DEFINE k == (c.state \in {"ALIVE", "DRAINING"}) \/ c.reading
<1> DEFINE e == [c EXCEPT !.handles = @ - 1, !.reading = k]
<1>1. /\ Good(c, arrived) /\ Pressure(c, told) /\ c.handles > 0
      /\ arrived' = arrived /\ told' = told
  BY DEF IInv, ResumeRead
<1>2. CloseIfNeeded(e)
  BY DEF ResumeRead
<1> HIDE DEF k
<1>3. c.handles - 1 \in 0..MaxHandles /\ c.handles # 0
  <2>1. c.handles \in 0..MaxHandles /\ MaxHandles \in Nat
    BY <1>1, ConnectionAssumption DEF Good, Typed
  <2> QED  BY <1>1, <2>1, SMTT(30)
<1>4. Typed(e)
  BY <1>1, <1>3, SMTT(30) DEF Good, Typed
<1>5. Minor(c, e)
  BY <1>1, SMTT(30) DEF Good, Typed, Minor, SameLife
<1>6. /\ e.state = c.state /\ e.drained = c.drained /\ e.timer = c.timer
      /\ e.sock = c.sock
  BY <1>1, SMTT(30) DEF Good, Typed
<1> HIDE DEF e
<1>7. Quiet(e)
  BY <1>1, <1>3, <1>6 DEF Good, Quiet
<1>8. Good(e, arrived) /\ Pressure(e, told)
  BY <1>1, <1>4, <1>5, <1>6, <1>7, MinorGood
<1> QED  BY <1>1, <1>2, <1>8, EndOfCallback DEF IInv

-----------------------------------------------------------------------------
(* A connection starts with no request and nothing to write.               *)
LEMMA InitIInv ==
  ASSUME Init
  PROVE  IInv
<1>1. Typed(c)
  <2>1. /\ [s \in Flows |-> 0] \in [Flows -> 0..MaxTokens]
        /\ 0 \in 0..MaxHandles
    BY ConnectionAssumption, SMTT(30)
  <2> QED  BY <2>1, SMTT(30) DEF Init, Typed
<1>2. /\ c.state = "ALIVE" /\ c.drained = FALSE /\ c.timer = FALSE
      /\ c.sock = "open" /\ c.active = {} /\ c.timers = {} /\ c.finals = 0
      /\ c.flow = [s \in Flows |-> "none"] /\ c.tokens = [s \in Flows |-> 0]
      /\ c.batch = <<>> /\ c.owed = {} /\ c.writes = <<>>
      /\ c.paused = FALSE /\ c.reported = {} /\ c.ended = [x \in Ids |-> 0]
      /\ arrived = {} /\ told = {}
  BY SMTT(30) DEF Init
<1>3. Life(c, arrived)
  BY <1>2 DEF Life
<1>4. Handlers(c)
  <2>1. Finals(c) = {}
    BY <1>2, Kinds DEF Finals
  <2>2. \A s \in Flows : HandlerOf(c, s)
    BY <1>2 DEF HandlerOf
  <2> QED  BY <1>2, <2>1, <2>2, FS_EmptySet DEF Handlers
<1>5. Writing(c)
  <2>1. Range(<<>>) = {}
    BY SMTT(30) DEF Range
  <2> QED  BY <1>2, <2>1, NoWrites DEF Writing
<1>6. Quiet(c)
  BY <1>2 DEF Quiet
<1>7. Pressure(c, told)
  <2>1. Buffered(c) = 0
    BY <1>1, <1>2, BufferedFacts
  <2>2. ~(0 > Threshold)
    BY ConnectionAssumption, SMTT(30)
  <2> QED  BY <1>2, <2>1, <2>2 DEF Pressure
<1>8. IsFiniteSet(arrived)
  BY <1>2, FS_EmptySet
<1> QED  BY <1>1, <1>2, <1>3, <1>4, <1>5, <1>6, <1>7, <1>8 DEF IInv, Good

(* Every callback keeps the invariant.                                     *)
LEMMA NextIInv ==
  ASSUME IInv, Faulty \cap Flows = {}, [Next]_vars
  PROVE  IInv'
<1>1. CASE UNCHANGED vars
  BY <1>1 DEF IInv, vars
<1>2. CASE \E x \in Ids : Request(x)
  BY <1>2, RequestStep
<1>3. CASE \E x \in Singles : Respond(x)
  BY <1>3, RespondStep
<1>4. CASE \E s \in Flows : FirstResponse(s)
  BY <1>4, FirstResponseStep
<1>5. CASE \E s \in Flows : FirstResponseError(s)
  BY <1>5, FirstResponseErrorStep
<1>6. CASE \E s \in Streams : StreamNext(s)
  BY <1>6, StreamNextStep
<1>7. CASE \E s \in Streams : StreamEnd(s)
  BY <1>7, StreamEndStep
<1>8. CASE \E s \in Streams : RequestN(s)
  BY <1>8, RequestNStep
<1>9. CASE \E s \in Flows : Cancel(s)
  BY <1>9, CancelStep
<1>10. CASE \E s \in Flows : TimeoutExpired(s)
  BY <1>10, TimeoutExpiredStep
<1>11. CASE \E s \in Sinks : SinkRequestN(s)
  BY <1>11, SinkRequestNStep
<1>12. CASE \E s \in Sinks : SinkNext(s)
  BY <1>12, SinkNextStep
<1>13. CASE \E s \in Sinks : SinkComplete(s)
  BY <1>13, SinkCompleteStep
<1>14. CASE \E s \in Sinks : FinalResponse(s)
  BY <1>14, FinalResponseStep
<1>15. CASE \E x \in Flows : RefuseFrame(x)
  BY <1>15, RefuseFrameStep
<1>16. CASE \E x \in Ids : DestroyRequest(x)
  BY <1>16, DestroyRequestStep
<1>17. CASE \E x \in Faulty : RefuseUnanswered(x)
  BY <1>17, RefuseUnansweredStep
<1> QED
  BY <1>1, <1>2, <1>3, <1>4, <1>5, <1>6, <1>7, <1>8, <1>9, <1>10, <1>11,
     <1>12, <1>13, <1>14, <1>15, <1>16, <1>17, FlushPendingWritesStep, FlushAtOnceStep,
     WriteSuccessStep, WriteErrStep, ReadEofStep, ContractViolationStep,
     NotifyPendingShutdownStep, IncMemoryUsageFailsStep, CloseWhenIdleStep,
     DropConnectionStep, DrainTimeoutStep, ResumeReadStep DEF Next

(* The invariant holds in every reachable state of a connection.           *)
THEOREM AlwaysIInv ==
  ASSUME Faulty \cap Flows = {}
  PROVE  Spec => []IInv
<1>1. Init => IInv
  BY InitIInv
<1>2. IInv /\ [Next]_vars => IInv'
  BY NextIInv
<1> QED  BY <1>1, <1>2, PTL DEF Spec

-----------------------------------------------------------------------------
(* A request is owed by one write at most.                                 *)
LEMMA OneHolder ==
  ASSUME NEW ws \in Seq(WriteContexts), InOrder(ws), NEW x
  PROVE  Cardinality({i \in DOMAIN ws : x \in ws[i].owed})
           = IF x \in Owed(ws) THEN 1 ELSE 0
<1> DEFINE H == {i \in DOMAIN ws : x \in ws[i].owed}
<1>1. CASE x \notin Owed(ws)
  <2>1. H = {}
    BY <1>1, InQueue
  <2> QED  BY <1>1, <2>1, FS_EmptySet
<1>2. CASE x \in Owed(ws)
  <2>1. PICK i \in DOMAIN ws : x \in ws[i].owed
    BY <1>2, InQueue
  <2>2. ASSUME NEW j \in DOMAIN ws, x \in ws[j].owed
        PROVE  j = i
    <3>1. ~(i < j) /\ ~(j < i)
      BY <2>1, <2>2 DEF InOrder
    <3> QED  BY <3>1, SMTT(30)
  <2>3. H = {i}
    BY <2>1, <2>2
  <2> QED  BY <1>2, <2>3, FS_Singleton
<1> QED  BY <1>1, <1>2

(* requestComplete() is called once for every request that was read, when  *)
(* its context and its handler are gone, and the request is then owed by   *)
(* the batch, owed by exactly one write, or reported.  The assumption is   *)
(* needed: a stream that is refused by closing the connection completes    *)
(* twice.                                                                  *)
THEOREM RequestsCompleteOnce ==
  ASSUME Faulty \cap Flows = {}
  PROVE  Spec => []CompletedOnce
<1>1. ASSUME IInv
      PROVE  CompletedOnce
  <2>1. Typed(c) /\ Life(c, arrived) /\ Handlers(c) /\ Writing(c)
    BY <1>1 DEF IInv, Good
  <2>2. TypeOK
    <3>1. c.finals \in Nat
      <4>1. Finals(c) \subseteq arrived
        BY <2>1, Kinds DEF Finals, Life
      <4>2. IsFiniteSet(Finals(c))
        BY <1>1, <4>1, FS_Subset DEF IInv
      <4> QED  BY <2>1, <4>2, FS_CardinalityType DEF Handlers
    <3>2. c.batch = <<>> => c.owed = {}
      BY <2>1 DEF Writing
    <3>3. told \subseteq Streams
      BY <1>1 DEF IInv
    <3> QED  BY <2>1, <3>1, <3>2, <3>3 DEF TypeOK, Typed, Frames
  <2>3. \A x \in Ids : c.ended[x] = IF /\ x \in arrived \ c.active
                                       /\ x \in Flows => c.flow[x] = "none"
                                      THEN 1 ELSE 0
    BY <2>1 DEF Life
  <2>4. ASSUME NEW x \in Ids
        PROVE  (IF x \in c.owed THEN 1 ELSE 0)
                 + Cardinality({i \in DOMAIN c.writes : x \in c.writes[i].owed})
                 + (IF x \in c.reported THEN 1 ELSE 0) = c.ended[x]
    <3> DEFINE ws == c.writes
    <3>1. ws \in Seq(WriteContexts) /\ InOrder(ws)
      BY <2>1 DEF Typed, Writing
    <3>2. /\ c.ended[x] = IF x \in c.owed \cup c.reported \cup Owed(ws)
                            THEN 1 ELSE 0
          /\ ~(x \in c.owed /\ x \in c.reported)
          /\ ~(x \in c.owed /\ x \in Owed(ws))
          /\ ~(x \in c.reported /\ x \in Owed(ws))
      BY <2>1 DEF Writing
    <3> DEFINE h == Cardinality({i \in DOMAIN ws : x \in ws[i].owed})
    <3> HIDE DEF ws
    <3>3. h = IF x \in Owed(ws) THEN 1 ELSE 0
      BY <3>1, OneHolder
    <3> HIDE DEF h
    <3>4. (IF x \in c.owed THEN 1 ELSE 0) + h
            + (IF x \in c.reported THEN 1 ELSE 0) = c.ended[x]
      BY <3>2, <3>3, SMTT(30)
    <3> QED  BY <3>4 DEF h, ws
  <2> QED  BY <2>2, <2>3, <2>4 DEF CompletedOnce
<1> QED  BY <1>1, AlwaysIInv, PTL

(* A request that is reported complete has no frame waiting in the batch   *)
(* or in the socket.                                                       *)
THEOREM ReportsFollowWrites ==
  ASSUME Faulty \cap Flows = {}
  PROVE  Spec => []ReportedAfterWritten
<1>1. IInv => ReportedAfterWritten
  BY InQueue DEF IInv, Good, Writing, ReportedAfterWritten
<1> QED  BY <1>1, AlwaysIInv, PTL

(* A connection is destroyed with no request, final response, timeout or   *)
(* frame left, and has reported every request it read.                     *)
THEOREM ClosedConnectionsClean ==
  ASSUME Faulty \cap Flows = {}
  PROVE  Spec => []ClosedIsClean
<1>1. ASSUME IInv, c.state = "CLOSED"
      PROVE  /\ c.active = {} /\ c.finals = 0 /\ c.batch = <<>>
             /\ c.timers = {} /\ c.reported = arrived
  <2>1. /\ c.active = {} /\ c.finals = 0 /\ c.batch = <<>> /\ c.timers = {}
        /\ c.writes = <<>> /\ \A s \in Flows : c.flow[s] = "none"
    BY <1>1 DEF IInv, Good, Quiet
  <2>2. c.owed = {} /\ Owed(c.writes) = {}
    BY <1>1, <2>1, NoWrites DEF IInv, Good, Writing
  <2>3. \A x \in Ids : c.ended[x] = IF x \in arrived THEN 1 ELSE 0
    BY <1>1, <2>1 DEF IInv, Good, Life
  <2>4. \A x \in Ids : c.ended[x] = IF x \in c.reported THEN 1 ELSE 0
    BY <1>1, <2>2 DEF IInv, Good, Writing
  <2>5. 1 # 0
    BY SMTT(30)
  <2>6. \A x \in Ids : x \in arrived <=> x \in c.reported
    BY <2>3, <2>4, <2>5, SMTT(30)
  <2> QED  BY <1>1, <2>1, <2>6 DEF IInv, Good, Typed
<1>2. IInv => ClosedIsClean
  BY <1>1 DEF ClosedIsClean
<1> QED  BY <1>2, AlwaysIInv, PTL

(* Handlers, contexts, timeouts and the count of final responses agree, as *)
(* long as no stream or sink dies unanswered and leaves its handler.       *)
THEOREM FlowsAlwaysAgree ==
  ASSUME Faulty \cap Flows = {}
  PROVE  Spec => []FlowsAgree
<1>1. ASSUME IInv
      PROVE  FlowsAgree
  <2>1. \A s \in Flows : c.flow[s] \in {"early", "cancelled"} => s \in c.active
    BY <1>1 DEF IInv, Good, Life
  <2>2. \A s \in Flows : s \in c.timers <=> /\ c.flow[s] = "ready"
                                            /\ s \in Streams <=> c.tokens[s] = 0
    BY <1>1 DEF IInv, Good, Handlers, HandlerOf
  <2>3. c.finals = Cardinality({s \in Sinks : c.flow[s] = "final"})
    BY <1>1 DEF IInv, Good, Handlers, Finals
  <2> QED  BY <2>1, <2>2, <2>3 DEF FlowsAgree
<1> QED  BY <1>1, AlwaysIInv, PTL

(* While the socket works, streams are paused as its buffer requires, and  *)
(* exactly the ready ones know it.                                         *)
THEOREM PausedUnderPressure ==
  ASSUME Faulty \cap Flows = {}
  PROVE  Spec => []Backpressure
<1>1. IInv => Backpressure
  BY DEF IInv, Pressure, Ready, Backpressure
<1> QED  BY <1>1, AlwaysIInv, PTL

=============================================================================
