--------------------- MODULE ServerPublisherStreamProofs ----------------------
(***************************************************************************)
(* A publisher stream is deleted once, when nobody uses it any more, and   *)
(* calls the service back exactly once before it is deleted and before     *)
(* complete() returns: for any number of publishing threads, of items and  *)
(* of credits.                                                             *)
(*                                                                         *)
(* What it carries keeps its order.  The messages of the stream stand in   *)
(* one line, from the client's callback back to the encoded queue, through *)
(* what processPayloads has in its hands, the buffer kept for want of      *)
(* credit, the queue and the batch being flushed.  A step moves messages   *)
(* between these places and leaves the line as it is, or adds the message  *)
(* of a publisher at its end.  So processPayloads never delivers without   *)
(* credit, and the stream implements StreamContract.                       *)
(***************************************************************************)
EXTENDS ServerPublisherStream, FiniteSets, TLAPS

USE ZenonT(30)

PubSteps == {"out", "push", "queue", "wake"}
StreamSteps == {"fresh", "exchange", "cas", "flush", "factory", "call",
                "running", "called", "gone"}
EvbSteps == {"out", "process", "get", "close", "decref"}
ExecSteps == {"out", "call", "running", "called", "gone"}

(* The part of the types that the ownership of the stream depends on.      *)
Places ==
  /\ DOMAIN pc = Threads
  /\ pc["stream"] \in StreamSteps
  /\ pc["evb"] \in EvbSteps
  /\ pc["exec"] \in ExecSteps
  /\ DOMAIN cur = Publishers
  /\ handle \in {"held", "completed", "dropped"}
  /\ tasks \in Nat /\ inTask \in BOOLEAN /\ refs \in Int /\ runs \in Nat
  /\ once \in {"READY", "IN_PROGRESS", "WAITING", "POSTED", "DONE"}
  /\ client \in {"none", "open", "ended", "cancelled"}
  /\ DOMAIN credit = {"isSet", "val", "buf"}
  /\ credit.isSet \in BOOLEAN /\ credit.val \in Nat
  /\ DOMAIN queue = {"type", "msgs"}
  /\ queue.type \in {"EMPTY", "TAIL", "CONSUMER", "CLOSED"}

(* What the publishers do while there is a publisher, and after.           *)
PublisherInv ==
  /\ handle = "held" =>
       \A p \in Publishers : /\ pc[p] \in PubSteps
                             /\ pc[p] # "out" => cur[p] # End
  /\ handle = "completed" =>
       /\ cur[Completer] = End
       /\ pc[Completer] \in PubSteps \union {"call", "running", "called",
                                             "join", "leave"}
       /\ \A p \in Publishers \ {Completer} : pc[p] = "out"
  /\ handle = "dropped" =>
       once # "READY" /\ \A p \in Publishers : pc[p] = "out"

(* Whose turn it is to run the service's callback, and to wait for it.     *)
Running == {t \in Callers : pc[t] = "running"}
CallbackInv ==
  /\ once = "READY" =>
       /\ runs = 0
       /\ \A t \in Callers : pc[t] \notin {"called", "join", "leave"}
       /\ handle = "completed" => pc[Completer] # "out"
  /\ once \in {"READY", "POSTED", "DONE"} <=> Running = {}
  /\ \A t, u \in Running : t = u
  /\ once \in {"IN_PROGRESS", "WAITING"} => runs = 0
  /\ once \in {"POSTED", "DONE"} => runs = 1
  /\ once \in {"WAITING", "POSTED"} <=> pc[Completer] = "join"
  /\ pc[Completer] = "leave" => once = "DONE"
  /\ handle = "completed" /\ pc[Completer] = "out" => once = "DONE"

(* The event base is in processPayloads, waits in the queue, is about to   *)
(* be told or has been told of messages: no two of these.                  *)
Processing == pc["evb"] \in {"process", "get"}
Wakers == {p \in Publishers : pc[p] = "wake"}
WakeupInv ==
  /\ Processing => client = "open" /\ ~Wakes(queue) /\ Wakers = {} /\ tasks = 0
  /\ Wakes(queue) => Wakers = {} /\ tasks = 0
  /\ Wakers # {} => tasks = 0
  /\ \A p, q \in Wakers : p = q
  /\ tasks \in 0..1
  /\ Wakes(queue) \/ Wakers # {} \/ tasks = 1 =>
       \/ client = "open" /\ HasCredit
       \/ client = "cancelled"

(* How far the client's side of the stream has come, and what of it the    *)
(* event base and the executor still have to do.                           *)
ClientInv ==
  /\ inTask => Processing
  /\ client # "none" => pc["stream"] = "gone"
  /\ client # "cancelled" => pc["exec"] = "out"
  /\ pc["evb"] \in {"close", "decref"} => client = "cancelled"
  /\ client = "cancelled" /\ pc["evb"] # "close" => IsClosed(queue)
  /\ IsClosed(queue) => client = "cancelled"

IInv == Places /\ PublisherInv /\ CallbackInv /\ WakeupInv /\ ClientInv
          /\ OwnersCounted

-----------------------------------------------------------------------------
(* The names of the threads are different.                                 *)
LEMMA ThreadNames ==
  /\ Completer \in Publishers /\ Publishers \subseteq Threads
  /\ Callers \subseteq Threads /\ "evb" \in Threads
  /\ "stream" \in Threads /\ "exec" \in Threads
  /\ "evb" \notin Publishers \union Callers
  /\ "stream" \notin Publishers /\ "exec" \notin Publishers
  /\ Callers = {Completer, "exec", "stream"}
  /\ "stream" # "exec"
BY PublisherAssumption DEF Threads, Callers

(* Thread t goes to a step, and the others stay where they are.            *)
Moved(t, step) == pc'[t] = step /\ \A u \in Threads \ {t} : pc'[u] = pc[u]

(* Goto does that.                                                         *)
LEMMA GotoMoves ==
  ASSUME Places, NEW t \in Threads, NEW step, Goto(t, step)
  PROVE  Moved(t, step) /\ DOMAIN pc' = Threads
BY DEF Places, Goto, Moved

(* What the operations leave in queue_.                                    *)
LEMMA QueueOperations ==
  ASSUME Places, NEW m
  PROVE  /\ DOMAIN Push(queue, m) = {"type", "msgs"}
         /\ Push(queue, m).type = IF IsClosed(queue) THEN "CLOSED" ELSE "TAIL"
         /\ DOMAIN Wait(queue) = {"type", "msgs"}
         /\ Wait(queue).type = IF queue.type = "EMPTY" THEN "CONSUMER"
                                                      ELSE queue.type
         /\ DOMAIN Taken(queue) = {"type", "msgs"}
         /\ Taken(queue).type = IF IsClosed(queue) THEN "CLOSED" ELSE "EMPTY"
         /\ DOMAIN ClosedQueue = {"type", "msgs"}
         /\ ClosedQueue.type = "CLOSED"
BY DEF Places, Push, Wait, Taken, IsClosed, ClosedQueue, EmptyQueue

(* The invariant holds initially: the publisher and the stream own it.     *)
LEMMA InitIInv == Init => IInv
<1> SUFFICES ASSUME Init PROVE IInv
  OBVIOUS
<1>1. /\ pc["stream"] = "fresh" /\ pc["evb"] = "out" /\ pc["exec"] = "out"
      /\ \A p \in Publishers : pc[p] = "out"
      /\ pc[Completer] = "out"
  BY ThreadNames DEF Init
<1>2. Places
  <2>1. DOMAIN pc = Threads
    BY DEF Init
  <2>2. /\ DOMAIN queue = {"type", "msgs"} /\ queue.type = "EMPTY"
        /\ DOMAIN credit = {"isSet", "val", "buf"}
        /\ credit.isSet = TRUE /\ credit.val = 0
    BY DEF Init, EmptyQueue
  <2>3. inTask \in BOOLEAN /\ credit.isSet \in BOOLEAN
    BY <2>2 DEF Init
  <2>4. /\ DOMAIN cur = Publishers /\ handle = "held" /\ tasks = 0 /\ refs = 2
        /\ runs = 0 /\ once = "READY" /\ client = "none"
    BY DEF Init
  <2> QED
    BY <1>1, <2>1, <2>2, <2>3, <2>4, SMTT(30)
    DEF Places, StreamSteps, EvbSteps, ExecSteps
<1>3. PublisherInv
  BY <1>1 DEF Init, PublisherInv, PubSteps
<1>4. CallbackInv
  BY <1>1 DEF Init, CallbackInv, Running, Callers
<1>5. WakeupInv /\ ClientInv
  BY <1>1, SMTT(30)
  DEF Init, WakeupInv, ClientInv, Processing, Wakers, Wakes, IsClosed,
              EmptyQueue
<1>6. OwnersCounted
  BY <1>1, SMTT(30) DEF Init, OwnersCounted, Holds, PublisherOwns, StreamOwns
<1> QED  BY <1>2, <1>3, <1>4, <1>5, <1>6 DEF IInv

(* What the publishers do keeps the invariant.                             *)
LEMMA PublishingKeeps ==
  ASSUME IInv, \/ \E p \in Publishers : PublishNext(p) \/ PublishStep(p)
               \/ Complete \/ Drop
  PROVE  IInv'
<1> USE ThreadNames DEF IInv, object, history
<1>1. ASSUME NEW p \in Publishers, PublishNext(p)  PROVE IInv'
  <2>1. /\ pc[p] = "out" /\ Moved(p, "push")
        /\ DOMAIN pc' = Threads
        /\ cur'[p] # End
        /\ \A q \in Publishers \ {p} : cur'[q] = cur[q]
    BY <1>1, GotoMoves DEF PublishNext, End, Places
  <2>2. Places'
    BY <1>1, <2>1, SMTT(30) DEF PublishNext, Places, Moved
  <2>3. PublisherInv'
    BY <1>1, <2>1 DEF PublishNext, PublisherInv, PubSteps, Moved
  <2>4. CallbackInv'
    BY <1>1, <2>1, SMTT(30) DEF PublishNext, CallbackInv, Running, Moved
  <2>5. WakeupInv'
    BY <1>1, <2>1, SMTT(30)
    DEF PublishNext, WakeupInv, Processing, Wakers, HasCredit, Moved
  <2>6. ClientInv'
    BY <1>1, <2>1 DEF PublishNext, ClientInv, Processing, Moved
  <2>7. OwnersCounted'
    BY <1>1, <2>1
    DEF PublishNext, OwnersCounted, PublisherOwns, StreamOwns, Moved
  <2> QED  BY <2>2, <2>3, <2>4, <2>5, <2>6, <2>7
<1>2. CASE Complete
  <2>1. /\ Moved(Completer, "push") /\ DOMAIN pc' = Threads
        /\ cur'[Completer] = End
    BY <1>2, GotoMoves DEF Complete, Places
  <2>2. Places'
    BY <1>2, <2>1, SMTT(30) DEF Complete, Places, Moved
  <2>3. PublisherInv'
    BY <1>2, <2>1 DEF Complete, Idle, PublisherInv, PubSteps, Moved
  <2>4. CallbackInv'
    BY <1>2, <2>1, SMTT(30)
    DEF Complete, Idle, CallbackInv, Running, PublisherInv, Moved
  <2>5. WakeupInv'
    BY <1>2, <2>1
    DEF Complete, WakeupInv, Processing, Wakers, HasCredit, Moved
  <2>6. ClientInv'
    BY <1>2, <2>1 DEF Complete, ClientInv, Processing, Moved
  <2>7. OwnersCounted'
    BY <1>2, <2>1
    DEF Complete, OwnersCounted, PublisherOwns, StreamOwns, Moved
  <2> QED  BY <2>2, <2>3, <2>4, <2>5, <2>6, <2>7
<1>3. CASE Drop
  <2>1. pc' = pc
    BY <1>3, GotoMoves DEF Drop, Places
  <2>2. Places'
    BY <1>3, <2>1, SMTT(30) DEF Drop, Places, Moved
  <2>3. PublisherInv'
    BY <1>3, <2>1 DEF Drop, Idle, PublisherInv, PubSteps, Moved
  <2>4. CallbackInv'
    BY <1>3, <2>1, SMTT(30) DEF Drop, CallbackInv, Running, Moved
  <2>5. WakeupInv'
    BY <1>3, <2>1 DEF Drop, WakeupInv, Processing, Wakers, HasCredit, Moved
  <2>6. ClientInv'
    BY <1>3, <2>1 DEF Drop, ClientInv, Processing, Moved
  <2>7. OwnersCounted'
    BY <1>3, <2>1, SMTT(30)
    DEF Drop, Idle, OwnersCounted, PublisherOwns, StreamOwns, Holds, Places,
        Moved
  <2> QED  BY <2>2, <2>3, <2>4, <2>5, <2>6, <2>7
<1>4. ASSUME NEW p \in Publishers, PushOrGetClosedPayload(p)  PROVE IInv'
  <2>1. /\ pc[p] = "push" /\ DOMAIN pc' = Threads
        /\ \E step \in {"queue", IF cur[p] = End THEN "call" ELSE "out"} :
             Moved(p, step)
    BY <1>4, GotoMoves DEF PushOrGetClosedPayload, Published, Places
  <2>2. Places'
    BY <1>4, <2>1, SMTT(30) DEF PushOrGetClosedPayload, Places, Moved
  <2>3. PublisherInv'
    BY <1>4, <2>1 DEF PushOrGetClosedPayload, PublisherInv, PubSteps, Moved
  <2>4. CallbackInv'
    BY <1>4, <2>1, SMTT(30)
    DEF PushOrGetClosedPayload, CallbackInv, Running, PublisherInv, Moved
  <2>5. WakeupInv'
    BY <1>4, <2>1, SMTT(30)
    DEF PushOrGetClosedPayload, WakeupInv, Processing, Wakers, HasCredit,
        Moved
  <2>6. ClientInv'
    BY <1>4, <2>1 DEF PushOrGetClosedPayload, ClientInv, Processing, Moved
  <2>7. OwnersCounted'
    BY <1>4, <2>1, SMTT(30)
    DEF PushOrGetClosedPayload, OwnersCounted, Holds, PublisherOwns,
        StreamOwns, Places, ClientInv, PublisherInv, PubSteps, Moved
  <2> QED  BY <2>2, <2>3, <2>4, <2>5, <2>6, <2>7
<1>5. ASSUME NEW p \in Publishers, QueuePush(p)  PROVE IInv'
  <2>1. /\ pc[p] = "queue" /\ DOMAIN pc' = Threads
        /\ Moved(p, IF Wakes(queue) THEN "wake"
                    ELSE IF cur[p] = End THEN "call" ELSE "out")
        /\ DOMAIN queue' = {"type", "msgs"}
        /\ queue'.type = IF IsClosed(queue) THEN "CLOSED" ELSE "TAIL"
    BY <1>5, GotoMoves, QueueOperations DEF QueuePush, Published, Places
  <2>2. Places'
    BY <1>5, <2>1 DEF QueuePush, Places, Moved
  <2>3. PublisherInv'
    BY <1>5, <2>1 DEF QueuePush, PublisherInv, PubSteps, Moved
  <2>4. CallbackInv'
    BY <1>5, <2>1, SMTT(30)
    DEF QueuePush, CallbackInv, Running, PublisherInv, Moved
  <2>5. WakeupInv'
    BY <1>5, <2>1, SMTT(30)
    DEF QueuePush, WakeupInv, Processing, Wakers, HasCredit, Wakes, Places,
        Moved
  <2>6. ClientInv'
    BY <1>5, <2>1
    DEF QueuePush, ClientInv, Processing, IsClosed, WakeupInv, Moved
  <2>7. OwnersCounted'
    BY <1>5, <2>1, SMTT(30)
    DEF QueuePush, OwnersCounted, Holds, PublisherOwns, StreamOwns, Places,
        ClientInv, PublisherInv, PubSteps, Moved
  <2> QED  BY <2>2, <2>3, <2>4, <2>5, <2>6, <2>7
<1>6. ASSUME NEW p \in Publishers, Consume(p)  PROVE IInv'
  <2>1. /\ pc[p] = "wake" /\ DOMAIN pc' = Threads
        /\ Moved(p, IF cur[p] = End THEN "call" ELSE "out")
    BY <1>6, GotoMoves DEF Consume, Published, Places
  <2>2. Places'
    BY <1>6, <2>1, SMTT(30) DEF Consume, Places, Moved
  <2>3. PublisherInv'
    BY <1>6, <2>1 DEF Consume, PublisherInv, PubSteps, Moved
  <2>4. CallbackInv'
    BY <1>6, <2>1, SMTT(30)
    DEF Consume, CallbackInv, Running, PublisherInv, Moved
  <2>5. WakeupInv'
    BY <1>6, <2>1, SMTT(30)
    DEF Consume, WakeupInv, Processing, Wakers, HasCredit, Moved
  <2>6. ClientInv'
    BY <1>6, <2>1 DEF Consume, ClientInv, Processing, Moved
  <2>7. OwnersCounted'
    BY <1>6, <2>1, SMTT(30)
    DEF Consume, OwnersCounted, Holds, PublisherOwns, StreamOwns, Places,
        ClientInv, PublisherInv, PubSteps, Moved
  <2> QED  BY <2>2, <2>3, <2>4, <2>5, <2>6, <2>7
<1> QED
  BY <1>1, <1>2, <1>3, <1>4, <1>5, <1>6 DEF PublishStep

(* Calling the service back and waiting for it keeps the invariant.        *)
LEMMA CallingKeeps ==
  ASSUME IInv, \/ \E t \in Callers : CallStep(t)
               \/ Join \/ Joined
  PROVE  IInv'
<1> USE ThreadNames DEF IInv, object, history
<1>1. ASSUME NEW t \in Callers, Call(t)  PROVE IInv'
  <2>1. /\ pc[t] = "call" /\ DOMAIN pc' = Threads
        /\ Moved(t, IF once = "READY" THEN "running" ELSE "called")
    BY <1>1, GotoMoves DEF Call, Places
  <2>2. Places'
    BY <1>1, <2>1, SMTT(30)
    DEF Call, Places, StreamSteps, EvbSteps, ExecSteps, Moved
  <2>3. PublisherInv'
    BY <1>1, <2>1 DEF Call, PublisherInv, PubSteps, Moved
  <2>4. CallbackInv'
    BY <1>1, <2>1, SMTT(30) DEF Call, CallbackInv, Running, Moved
  <2>5. WakeupInv'
    BY <1>1, <2>1, SMTT(30)
    DEF Call, WakeupInv, Processing, Wakers, HasCredit, Moved
  <2>6. ClientInv'
    BY <1>1, <2>1 DEF Call, ClientInv, Processing, Moved
  <2>7. OwnersCounted'
    BY <1>1, <2>1, SMTT(30)
    DEF Call, OwnersCounted, PublisherOwns, StreamOwns, Holds, Places, Moved
  <2> QED  BY <2>2, <2>3, <2>4, <2>5, <2>6, <2>7
<1>2. ASSUME NEW t \in Callers, Return(t)  PROVE IInv'
  <2>1. /\ pc[t] = "running" /\ Moved(t, "called")
        /\ DOMAIN pc' = Threads
    BY <1>2, GotoMoves DEF Return, Places
  <2>2. Places'
    BY <1>2, <2>1, SMTT(30)
    DEF Return, Places, StreamSteps, EvbSteps, ExecSteps, Moved
  <2>3. PublisherInv'
    BY <1>2, <2>1 DEF Return, PublisherInv, PubSteps, Moved
  <2>4. CallbackInv'
    <3>1. Running = {t} /\ once \in {"IN_PROGRESS", "WAITING"}
      BY <1>2, SMTT(30) DEF Return, CallbackInv, Running, Places
    <3>2. Running' = {} /\ (pc'[Completer] = "join" <=> pc[Completer] = "join")
      BY <1>2, <2>1, <3>1, SMTT(30) DEF Running, Moved
    <3>3. once' = (IF once = "IN_PROGRESS" THEN "DONE" ELSE "POSTED")
          /\ runs' = 1
      BY <1>2, <3>1, SMTT(30) DEF Return, CallbackInv
    <3>4. \A u \in Callers : pc'[u] \in {"leave", "out"} => pc'[u] = pc[u]
      BY <2>1 DEF Moved
    <3> QED
      BY <1>2, <3>1, <3>2, <3>3, <3>4 DEF Return, CallbackInv
  <2>5. WakeupInv'
    BY <1>2, <2>1, SMTT(30)
    DEF Return, WakeupInv, Processing, Wakers, HasCredit, Moved
  <2>6. ClientInv'
    BY <1>2, <2>1 DEF Return, ClientInv, Processing, Moved
  <2>7. OwnersCounted'
    BY <1>2, <2>1, SMTT(30)
    DEF Return, OwnersCounted, PublisherOwns, StreamOwns, Holds, Places, Moved
  <2> QED  BY <2>2, <2>3, <2>4, <2>5, <2>6, <2>7
<1>3. CASE Join
  <2>1. /\ pc[Completer] = "called" /\ DOMAIN pc' = Threads
        /\ Moved(Completer, IF once = "IN_PROGRESS" THEN "join" ELSE "leave")
    BY <1>3, GotoMoves DEF Join, Places
  <2>2. Places'
    BY <1>3, <2>1, SMTT(30) DEF Join, Places, Moved
  <2>3. PublisherInv'
    BY <1>3, <2>1 DEF Join, PublisherInv, PubSteps, Moved
  <2>4. CallbackInv'
    <3>1. Running' = Running
      BY <2>1 DEF Running, Moved
    <3>2. \A t \in Callers \ {Completer} : pc'[t] = pc[t]
      BY <2>1 DEF Moved
    <3>3. pc'[Completer] = (IF once = "IN_PROGRESS" THEN "join" ELSE "leave")
          /\ once' = (IF once = "IN_PROGRESS" THEN "WAITING" ELSE once)
          /\ UNCHANGED <<runs, handle>>
      BY <1>3, <2>1 DEF Join, Moved
    <3>4. once \in {"IN_PROGRESS", "DONE"}
      BY <2>1 DEF CallbackInv, Places
    <3> QED
      BY <3>1, <3>2, <3>3, <3>4 DEF CallbackInv
  <2>5. WakeupInv'
    BY <1>3, <2>1, SMTT(30)
    DEF Join, WakeupInv, Processing, Wakers, HasCredit, Moved
  <2>6. ClientInv'
    BY <1>3, <2>1 DEF Join, ClientInv, Processing, Moved
  <2>7. OwnersCounted'
    BY <1>3, <2>1 DEF Join, OwnersCounted, PublisherOwns, StreamOwns, Moved
  <2> QED  BY <2>2, <2>3, <2>4, <2>5, <2>6, <2>7
<1>4. CASE Joined
  <2>1. /\ pc[Completer] = "join" /\ Moved(Completer, "leave")
        /\ DOMAIN pc' = Threads
    BY <1>4, GotoMoves DEF Joined, Places
  <2>2. Places'
    BY <1>4, <2>1 DEF Joined, Places, Moved
  <2>3. PublisherInv'
    BY <1>4, <2>1 DEF Joined, PublisherInv, PubSteps, Moved
  <2>4. CallbackInv'
    BY <1>4, <2>1, SMTT(30) DEF Joined, CallbackInv, Running, Moved
  <2>5. WakeupInv'
    BY <1>4, <2>1, SMTT(30)
    DEF Joined, WakeupInv, Processing, Wakers, HasCredit, Moved
  <2>6. ClientInv'
    BY <1>4, <2>1 DEF Joined, ClientInv, Processing, Moved
  <2>7. OwnersCounted'
    BY <1>4, <2>1 DEF Joined, OwnersCounted, PublisherOwns, StreamOwns, Moved
  <2> QED  BY <2>2, <2>3, <2>4, <2>5, <2>6, <2>7
<1>5. ASSUME NEW t \in Callers, Leave(t)  PROVE IInv'
  <2>1. /\ pc[t] = IF t = Completer THEN "leave" ELSE "called"
        /\ Moved(t, IF t = Completer THEN "out" ELSE "gone")
        /\ DOMAIN pc' = Threads
    BY <1>5, GotoMoves DEF Leave, Places
  <2>2. Places'
    BY <1>5, <2>1, SMTT(30)
    DEF Leave, Places, StreamSteps, EvbSteps, ExecSteps, Moved
  <2>3. PublisherInv'
    BY <1>5, <2>1 DEF Leave, PublisherInv, PubSteps, Moved
  <2>4. CallbackInv'
    BY <1>5, <2>1, SMTT(30) DEF Leave, CallbackInv, Running, Moved
  <2>5. WakeupInv'
    BY <1>5, <2>1, SMTT(30)
    DEF Leave, WakeupInv, Processing, Wakers, HasCredit, Moved
  <2>6. ClientInv'
    BY <1>5, <2>1 DEF Leave, ClientInv, Processing, Moved
  <2>7. OwnersCounted'
    BY <1>5, <2>1, SMTT(30)
    DEF Leave, OwnersCounted, Holds, PublisherOwns, StreamOwns, Places,
        ClientInv, PublisherInv, PubSteps, Moved
  <2> QED  BY <2>2, <2>3, <2>4, <2>5, <2>6, <2>7
<1> QED
  BY <1>1, <1>2, <1>3, <1>4, <1>5 DEF CallStep

(* Establishing the stream, or dropping it, keeps the invariant.           *)
LEMMA EstablishingKeeps ==
  ASSUME IInv, \/ Abandon \/ EstablishStream \/ EstablishStep
               \/ FirstResponse
  PROVE  IInv'
<1> USE ThreadNames DEF IInv, object, history
<1>1. CASE Abandon
  <2>1. /\ pc["stream"] \in {"fresh", "factory"}
        /\ Moved("stream", "call") /\ DOMAIN pc' = Threads
    BY <1>1, GotoMoves DEF Abandon, Places
  <2>2. Places'
    BY <1>1, <2>1, SMTT(30)
    DEF Abandon, Places, StreamSteps, EvbSteps, ExecSteps, Moved
  <2>3. PublisherInv'
    BY <1>1, <2>1 DEF Abandon, PublisherInv, Moved
  <2>4. CallbackInv'
    BY <1>1, <2>1, SMTT(30) DEF Abandon, CallbackInv, Running, Moved
  <2>5. WakeupInv'
    BY <1>1, <2>1, SMTT(30)
    DEF Abandon, WakeupInv, Processing, Wakers, HasCredit, Moved
  <2>6. ClientInv'
    BY <1>1, <2>1 DEF Abandon, ClientInv, Processing, Moved
  <2>7. OwnersCounted'
    BY <1>1, <2>1 DEF Abandon, OwnersCounted, PublisherOwns, StreamOwns, Moved
  <2> QED  BY <2>2, <2>3, <2>4, <2>5, <2>6, <2>7
<1>2. CASE EstablishStream
  <2>1. /\ pc["stream"] = "fresh" /\ Moved("stream", "exchange")
        /\ DOMAIN pc' = Threads
    BY <1>2, GotoMoves DEF EstablishStream, Places
  <2>2. Places'
    BY <1>2, <2>1, SMTT(30)
    DEF EstablishStream, Places, StreamSteps, EvbSteps, ExecSteps, Moved
  <2>3. PublisherInv'
    BY <1>2, <2>1 DEF EstablishStream, PublisherInv, Moved
  <2>4. CallbackInv'
    BY <1>2, <2>1, SMTT(30) DEF EstablishStream, CallbackInv, Running, Moved
  <2>5. WakeupInv'
    BY <1>2, <2>1
    DEF EstablishStream, WakeupInv, Processing, Wakers, HasCredit, Moved
  <2>6. ClientInv'
    BY <1>2, <2>1 DEF EstablishStream, ClientInv, Processing, Moved
  <2>7. OwnersCounted'
    BY <1>2, <2>1
    DEF EstablishStream, OwnersCounted, PublisherOwns, StreamOwns, Moved
  <2> QED  BY <2>2, <2>3, <2>4, <2>5, <2>6, <2>7
<1>3. CASE Exchange \/ CloseIfEmpty
  <2>1. /\ pc["stream"] \in {"exchange", "cas"} /\ DOMAIN pc' = Threads
        /\ \E step \in {"flush", "cas", "factory", "exchange"} :
             Moved("stream", step)
    BY <1>3, GotoMoves DEF Exchange, CloseIfEmpty, Places
  <2>2. Places'
    BY <1>3, <2>1, SMTT(30)
    DEF Exchange, CloseIfEmpty, Places, StreamSteps, EvbSteps, ExecSteps,
        Moved
  <2>3. PublisherInv'
    BY <1>3, <2>1 DEF Exchange, CloseIfEmpty, PublisherInv, Moved
  <2>4. CallbackInv'
    BY <1>3, <2>1, SMTT(30)
    DEF Exchange, CloseIfEmpty, CallbackInv, Running, Moved
  <2>5. WakeupInv'
    BY <1>3, <2>1, SMTT(30)
    DEF Exchange, CloseIfEmpty, WakeupInv, Processing, Wakers, HasCredit,
        Moved
  <2>6. ClientInv'
    BY <1>3, <2>1, SMTT(30)
    DEF Exchange, CloseIfEmpty, ClientInv, Processing, Moved
  <2>7. OwnersCounted'
    BY <1>3, <2>1
    DEF Exchange, CloseIfEmpty, OwnersCounted, PublisherOwns, StreamOwns,
        Moved
  <2> QED  BY <2>2, <2>3, <2>4, <2>5, <2>6, <2>7
<1>4. CASE Flush
  <2>1. /\ pc["stream"] = "flush" /\ DOMAIN pc' = Threads
        /\ \E step \in {"exchange", "flush"} : Moved("stream", step)
        /\ DOMAIN queue' = {"type", "msgs"}
        /\ queue'.type = IF IsClosed(queue) THEN "CLOSED" ELSE "TAIL"
    BY <1>4, GotoMoves, QueueOperations DEF Flush, Places
  <2>2. Places'
    BY <1>4, <2>1, SMTT(30)
    DEF Flush, Places, StreamSteps, EvbSteps, ExecSteps, Moved
  <2>3. PublisherInv'
    BY <1>4, <2>1 DEF Flush, PublisherInv, Moved
  <2>4. CallbackInv'
    BY <1>4, <2>1, SMTT(30) DEF Flush, CallbackInv, Running, Moved
  <2>5. WakeupInv'
    BY <1>4, <2>1, SMTT(30)
    DEF Flush, WakeupInv, Processing, Wakers, HasCredit, Wakes, Places, Moved
  <2>6. ClientInv'
    BY <1>4, <2>1 DEF Flush, ClientInv, Processing, IsClosed, WakeupInv, Moved
  <2>7. OwnersCounted'
    BY <1>4, <2>1 DEF Flush, OwnersCounted, PublisherOwns, StreamOwns, Moved
  <2> QED  BY <2>2, <2>3, <2>4, <2>5, <2>6, <2>7
<1>5. CASE FirstResponse
  <2>1. /\ pc["stream"] = "factory" /\ pc["evb"] = "out"
        /\ Moved("stream", "gone") /\ DOMAIN pc' = Threads
    BY <1>5, GotoMoves DEF FirstResponse, Places
  <2>2. Places'
    BY <1>5, <2>1, SMTT(30)
    DEF FirstResponse, Places, StreamSteps, EvbSteps, ExecSteps, Moved
  <2>3. PublisherInv'
    BY <1>5, <2>1 DEF FirstResponse, PublisherInv, Moved
  <2>4. CallbackInv'
    BY <1>5, <2>1, SMTT(30) DEF FirstResponse, CallbackInv, Running, Moved
  <2>5. WakeupInv'
    BY <1>5, <2>1, SMTT(30)
    DEF FirstResponse, WakeupInv, Processing, Wakers, Wakes, HasCredit,
        Places, ClientInv, IsClosed, Moved
  <2>6. ClientInv'
    BY <1>5, <2>1 DEF FirstResponse, ClientInv, Processing, Moved
  <2>7. OwnersCounted'
    BY <1>5, <2>1
    DEF FirstResponse, OwnersCounted, PublisherOwns, StreamOwns, Moved
  <2> QED  BY <2>2, <2>3, <2>4, <2>5, <2>6, <2>7
<1> QED
  BY <1>1, <1>2, <1>3, <1>4, <1>5 DEF EstablishStep

(* What the event base does keeps the invariant.                           *)
LEMMA EvbKeeps ==
  ASSUME IInv, \/ \E n \in 1..MaxGrants : RequestN(n)
               \/ EvbStep \/ Cancel
  PROVE  IInv'
<1> USE ThreadNames DEF IInv, object, history
<1>1. ASSUME NEW n \in 1..MaxGrants, RequestN(n)  PROVE IInv'
  <2>1. /\ pc["evb"] = "out" /\ client = "open"
        /\ IF HasCredit THEN pc' = pc ELSE Moved("evb", "process")
        /\ DOMAIN pc' = Threads
        /\ DOMAIN credit' = {"isSet", "val", "buf"}
        /\ credit'.isSet = TRUE /\ credit'.val \in Nat /\ credit'.val > 0
    BY <1>1, GotoMoves, SMTT(30) DEF RequestN, OnEvb, HasCredit, Places
  <2>2. Places'
    BY <1>1, <2>1
    DEF RequestN, OnEvb, Places, StreamSteps, EvbSteps, ExecSteps, Moved
  <2>3. PublisherInv'
    BY <1>1, <2>1, SMTT(30) DEF RequestN, PublisherInv, Moved
  <2>4. CallbackInv'
    BY <1>1, <2>1, SMTT(30) DEF RequestN, CallbackInv, Running, Moved
  <2>5. WakeupInv'
    BY <1>1, <2>1, SMTT(30)
    DEF RequestN, WakeupInv, Processing, Wakers, HasCredit, Moved
  <2>6. ClientInv'
    BY <1>1, <2>1 DEF RequestN, ClientInv, Processing, Moved
  <2>7. OwnersCounted'
    BY <1>1, <2>1
    DEF RequestN, OwnersCounted, PublisherOwns, StreamOwns, Moved
  <2> QED  BY <2>2, <2>3, <2>4, <2>5, <2>6, <2>7
<1>2. CASE RunTask
  <2>1. /\ pc["evb"] = "out"
        /\ IF IsClosed(queue) THEN pc' = pc ELSE Moved("evb", "process")
        /\ DOMAIN pc' = Threads
    BY <1>2, GotoMoves DEF RunTask, Places
  <2>2. Places'
    <3>1. inTask' \in BOOLEAN
      BY <1>2 DEF RunTask, Places
    <3>2. tasks' \in Nat /\ refs' \in Int
      BY <1>2, SMTT(30) DEF RunTask, Places
    <3> QED
      BY <1>2, <2>1, <3>1, <3>2, SMTT(30)
      DEF RunTask, Places, StreamSteps, EvbSteps, ExecSteps, Moved
  <2>3. PublisherInv'
    BY <1>2, <2>1 DEF RunTask, PublisherInv, Moved
  <2>4. CallbackInv'
    BY <1>2, <2>1, SMTT(30) DEF RunTask, CallbackInv, Running, Moved
  <2>5. WakeupInv'
    BY <1>2, <2>1, SMTT(30)
    DEF RunTask, WakeupInv, Processing, Wakers, Wakes, HasCredit, Places,
        ClientInv, IsClosed, Moved
  <2>6. ClientInv'
    BY <1>2, <2>1 DEF RunTask, ClientInv, Processing, Moved
  <2>7. OwnersCounted'
    <3>1. /\ pc["evb"] = "out" /\ ~inTask /\ pc'["exec"] = pc["exec"]
          /\ tasks' = tasks - 1 /\ tasks \in Int /\ refs \in Int
          /\ UNCHANGED <<handle, client>>
      BY <1>2, <2>1, SMTT(30) DEF RunTask, Places, ClientInv, Processing, Moved
    <3>2. PublisherOwns' = PublisherOwns
      BY <1>2, <2>1 DEF RunTask, PublisherOwns, Moved
    <3>3. StreamOwns' = StreamOwns
      BY <2>1, <3>1 DEF StreamOwns, Moved
    <3>4. CASE IsClosed(queue)
      BY <1>2, <3>1, <3>2, <3>3, <3>4, SMTT(30)
      DEF RunTask, OwnersCounted, Holds
    <3>5. CASE ~IsClosed(queue)
      BY <1>2, <3>1, <3>2, <3>3, <3>5, SMTT(30)
      DEF RunTask, OwnersCounted, Holds
    <3> QED  BY <3>4, <3>5
  <2> QED  BY <2>2, <2>3, <2>4, <2>5, <2>6, <2>7
<1>3. CASE ProcessItem
  <2>1. /\ pc' = pc /\ pc["evb"] = "process"
        /\ DOMAIN credit' = {"isSet", "val", "buf"}
        /\ credit'.isSet = credit.isSet /\ credit'.val \in Nat
    <3>1. /\ DOMAIN credit' = {"isSet", "val", "buf"}
          /\ credit'.isSet = credit.isSet /\ credit'.val = credit.val - 1
      BY <1>3 DEF ProcessItem, Places
    <3>2. credit'.val \in Nat
      BY <1>3, <3>1, SMTT(30) DEF ProcessItem, HasCredit, Places
    <3> QED  BY <1>3, <3>1, <3>2 DEF ProcessItem
  <2>2. Places'
    BY <1>3, <2>1 DEF ProcessItem, Places, Moved
  <2>3. PublisherInv'
    BY <1>3, <2>1 DEF ProcessItem, PublisherInv, Moved
  <2>4. CallbackInv'
    BY <1>3, <2>1, SMTT(30) DEF ProcessItem, CallbackInv, Running, Moved
  <2>5. WakeupInv'
    BY <1>3, <2>1, SMTT(30)
    DEF ProcessItem, WakeupInv, Processing, Wakers, HasCredit, Moved
  <2>6. ClientInv'
    BY <1>3, <2>1 DEF ProcessItem, ClientInv, Processing, Moved
  <2>7. OwnersCounted'
    BY <1>3, <2>1
    DEF ProcessItem, OwnersCounted, PublisherOwns, StreamOwns, Moved
  <2> QED  BY <2>2, <2>3, <2>4, <2>5, <2>6, <2>7
<1>4. CASE ProcessEnd
  <2>1. /\ pc["evb"] = "process" /\ Moved("evb", "out")
        /\ DOMAIN pc' = Threads
    BY <1>4, GotoMoves DEF ProcessEnd, ProcessReturns, Places
  <2>2. Places'
    <3>1. inTask' \in BOOLEAN
      BY <1>4 DEF ProcessEnd, ProcessReturns, Places
    <3>2. refs' \in Int
      BY <1>4, SMTT(30) DEF ProcessEnd, ProcessReturns, Places
    <3> QED
      BY <1>4, <2>1, <3>1, <3>2
      DEF ProcessEnd, Places, StreamSteps, EvbSteps, ExecSteps, Moved
  <2>3. PublisherInv'
    BY <1>4, <2>1 DEF ProcessEnd, PublisherInv, Moved
  <2>4. CallbackInv'
    BY <1>4, <2>1, SMTT(30) DEF ProcessEnd, CallbackInv, Running, Moved
  <2>5. WakeupInv'
    BY <1>4, <2>1, SMTT(30)
    DEF ProcessEnd, WakeupInv, Processing, Wakers, HasCredit, Moved
  <2>6. ClientInv'
    BY <1>4, <2>1
    DEF ProcessEnd, ProcessReturns, ClientInv, Processing, IsClosed,
        WakeupInv, Moved
  <2>7. OwnersCounted'
    <3>1. /\ client = "open" /\ pc["stream"] = "gone" /\ pc["exec"] = "out"
          /\ pc'["stream"] = "gone" /\ pc'["exec"] = "out" /\ client' = "ended"
          /\ tasks' = tasks /\ tasks \in Int /\ refs \in Int /\ ~inTask'
      BY <1>4, <2>1, SMTT(30)
      DEF ProcessEnd, ProcessReturns, Places, ClientInv, WakeupInv,
          Processing, Moved
    <3>2. PublisherOwns' = PublisherOwns
      BY <1>4, <2>1 DEF ProcessEnd, PublisherOwns, Moved
    <3>3. StreamOwns /\ ~StreamOwns'
      BY <3>1 DEF StreamOwns
    <3>4. refs' = refs - Holds(inTask) - 1
      BY <1>4 DEF ProcessEnd, ProcessReturns, Holds
    <3> QED
      BY <3>1, <3>2, <3>3, <3>4, SMTT(30) DEF OwnersCounted, Holds
  <2> QED  BY <2>2, <2>3, <2>4, <2>5, <2>6, <2>7
<1>5. CASE WaitForMore
  <2>1. /\ pc["evb"] = "process" /\ HasCredit /\ DOMAIN pc' = Threads
        /\ Moved("evb", IF Waits(queue) THEN "out" ELSE "get")
        /\ DOMAIN queue' = {"type", "msgs"}
        /\ queue'.type = IF queue.type = "EMPTY" THEN "CONSUMER"
                                               ELSE queue.type
    BY <1>5, GotoMoves, QueueOperations
    DEF WaitForMore, ProcessReturns, Places
  <2>2. Places'
    <3>1. inTask' \in BOOLEAN
      BY <1>5 DEF WaitForMore, ProcessReturns, Places
    <3>2. refs' \in Int
      BY <1>5, SMTT(30) DEF WaitForMore, ProcessReturns, Places
    <3> QED
      BY <1>5, <2>1, <3>1, <3>2, SMTT(30)
      DEF WaitForMore, Places, StreamSteps, EvbSteps, ExecSteps, Moved
  <2>3. PublisherInv'
    BY <1>5, <2>1 DEF WaitForMore, PublisherInv, Moved
  <2>4. CallbackInv'
    BY <1>5, <2>1, SMTT(30) DEF WaitForMore, CallbackInv, Running, Moved
  <2>5. WakeupInv'
    BY <1>5, <2>1, SMTT(30)
    DEF WaitForMore, ProcessReturns, Waits, WakeupInv, Processing, Wakers,
        HasCredit, Wakes, Places, Moved
  <2>6. ClientInv'
    BY <1>5, <2>1
    DEF WaitForMore, ProcessReturns, Waits, ClientInv, Processing, IsClosed,
        WakeupInv, Moved
  <2>7. OwnersCounted'
    BY <1>5, <2>1, SMTT(30)
    DEF WaitForMore, ProcessReturns, Waits, OwnersCounted, PublisherOwns,
        StreamOwns, Holds, Places, Moved
  <2> QED  BY <2>2, <2>3, <2>4, <2>5, <2>6, <2>7
<1>6. CASE GetMessages
  <2>1. /\ pc["evb"] = "get" /\ Moved("evb", "process")
        /\ DOMAIN pc' = Threads
        /\ DOMAIN queue' = {"type", "msgs"}
        /\ queue'.type = IF IsClosed(queue) THEN "CLOSED" ELSE "EMPTY"
    BY <1>6, GotoMoves, QueueOperations DEF GetMessages, Places
  <2>2. Places'
    BY <1>6, <2>1, SMTT(30)
    DEF GetMessages, Places, StreamSteps, EvbSteps, ExecSteps, Moved
  <2>3. PublisherInv'
    BY <1>6, <2>1 DEF GetMessages, PublisherInv, Moved
  <2>4. CallbackInv'
    BY <1>6, <2>1, SMTT(30) DEF GetMessages, CallbackInv, Running, Moved
  <2>5. WakeupInv'
    BY <1>6, <2>1, SMTT(30)
    DEF GetMessages, WakeupInv, Processing, Wakers, HasCredit, Wakes, Places,
        Moved
  <2>6. ClientInv'
    BY <1>6, <2>1
    DEF GetMessages, ClientInv, Processing, IsClosed, WakeupInv, Moved
  <2>7. OwnersCounted'
    BY <1>6, <2>1
    DEF GetMessages, OwnersCounted, PublisherOwns, StreamOwns, Moved
  <2> QED  BY <2>2, <2>3, <2>4, <2>5, <2>6, <2>7
<1>7. CASE OutOfCredit
  <2>1. /\ pc["evb"] = "process" /\ Moved("evb", "out")
        /\ DOMAIN pc' = Threads
        /\ DOMAIN credit' = {"isSet", "val", "buf"}
        /\ credit'.isSet \in BOOLEAN /\ credit'.val \in Nat
    BY <1>7, GotoMoves DEF OutOfCredit, ProcessReturns, Places
  <2>2. Places'
    <3>1. inTask' \in BOOLEAN
      BY <1>7 DEF OutOfCredit, ProcessReturns, Places
    <3>2. refs' \in Int
      BY <1>7, SMTT(30) DEF OutOfCredit, ProcessReturns, Places
    <3> QED
      BY <1>7, <2>1, <3>1, <3>2
      DEF OutOfCredit, Places, StreamSteps, EvbSteps, ExecSteps, Moved
  <2>3. PublisherInv'
    BY <1>7, <2>1 DEF OutOfCredit, PublisherInv, Moved
  <2>4. CallbackInv'
    BY <1>7, <2>1, SMTT(30) DEF OutOfCredit, CallbackInv, Running, Moved
  <2>5. WakeupInv'
    BY <1>7, <2>1, SMTT(30)
    DEF OutOfCredit, WakeupInv, Processing, Wakers, HasCredit, Moved
  <2>6. ClientInv'
    BY <1>7, <2>1
    DEF OutOfCredit, ProcessReturns, ClientInv, Processing, IsClosed,
        WakeupInv, Moved
  <2>7. OwnersCounted'
    BY <1>7, <2>1, SMTT(30)
    DEF OutOfCredit, ProcessReturns, OwnersCounted, PublisherOwns, StreamOwns,
        Holds, Places, Moved
  <2> QED  BY <2>2, <2>3, <2>4, <2>5, <2>6, <2>7
<1>8. CASE Cancel
  <2>1. /\ pc["evb"] = "out" /\ client = "open" /\ DOMAIN pc' = Threads
        /\ pc'["evb"] = "close" /\ pc'["exec"] = "call"
        /\ \A u \in Threads \ {"evb", "exec"} : pc'[u] = pc[u]
    BY <1>8, GotoMoves DEF Cancel, OnEvb, Places
  <2>2. Places'
    BY <1>8, <2>1, SMTT(30)
    DEF Cancel, OnEvb, Places, StreamSteps, EvbSteps, ExecSteps, Moved
  <2>3. PublisherInv'
    BY <1>8, <2>1, SMTT(30) DEF Cancel, PublisherInv, Moved
  <2>4. CallbackInv'
    <3>1. pc["exec"] = "out"
      BY <2>1 DEF ClientInv
    <3>2. Running' = Running
      BY <2>1, <3>1 DEF Running
    <3> QED
      BY <1>8, <2>1, <3>1, <3>2 DEF Cancel, CallbackInv
  <2>5. WakeupInv'
    BY <1>8, <2>1, SMTT(30)
    DEF Cancel, WakeupInv, Processing, Wakers, HasCredit, Moved
  <2>6. ClientInv'
    BY <1>8, <2>1 DEF Cancel, ClientInv, Processing, Moved
  <2>7. OwnersCounted'
    BY <1>8, <2>1, SMTT(30)
    DEF Cancel, OnEvb, OwnersCounted, Holds, PublisherOwns, StreamOwns,
        Places, ClientInv, PublisherInv, PubSteps, Moved
  <2> QED  BY <2>2, <2>3, <2>4, <2>5, <2>6, <2>7
<1>9. CASE CloseQueue
  <2>1. /\ pc["evb"] = "close" /\ Moved("evb", "decref")
        /\ DOMAIN pc' = Threads
        /\ DOMAIN queue' = {"type", "msgs"} /\ queue'.type = "CLOSED"
    BY <1>9, GotoMoves, QueueOperations DEF CloseQueue, Places
  <2>2. Places'
    BY <1>9, <2>1, SMTT(30)
    DEF CloseQueue, Places, StreamSteps, EvbSteps, ExecSteps, Moved
  <2>3. PublisherInv'
    BY <1>9, <2>1, SMTT(30) DEF CloseQueue, PublisherInv, Moved
  <2>4. CallbackInv'
    BY <1>9, <2>1, SMTT(30) DEF CloseQueue, CallbackInv, Running, Moved
  <2>5. WakeupInv'
    BY <1>9, <2>1, SMTT(30)
    DEF CloseQueue, WakeupInv, Processing, Wakers, HasCredit, Wakes, Places,
        Moved
  <2>6. ClientInv'
    BY <1>9, <2>1
    DEF CloseQueue, ClientInv, Processing, IsClosed, WakeupInv, Moved
  <2>7. OwnersCounted'
    BY <1>9, <2>1
    DEF CloseQueue, OwnersCounted, PublisherOwns, StreamOwns, Moved
  <2> QED  BY <2>2, <2>3, <2>4, <2>5, <2>6, <2>7
<1>10. CASE Close
  <2>1. /\ pc["evb"] = "decref" /\ Moved("evb", "out")
        /\ DOMAIN pc' = Threads
    BY <1>10, GotoMoves DEF Close, Places
  <2>2. Places'
    BY <1>10, <2>1, SMTT(30)
    DEF Close, Places, StreamSteps, EvbSteps, ExecSteps, Moved
  <2>3. PublisherInv'
    BY <1>10, <2>1 DEF Close, PublisherInv, Moved
  <2>4. CallbackInv'
    BY <1>10, <2>1, SMTT(30) DEF Close, CallbackInv, Running, Moved
  <2>5. WakeupInv'
    BY <1>10, <2>1 DEF Close, WakeupInv, Processing, Wakers, HasCredit, Moved
  <2>6. ClientInv'
    BY <1>10, <2>1 DEF Close, ClientInv, Processing, Moved
  <2>7. OwnersCounted'
    BY <1>10, <2>1, SMTT(30)
    DEF Close, OwnersCounted, Holds, PublisherOwns, StreamOwns, Places,
        ClientInv, PublisherInv, PubSteps, Moved
  <2> QED  BY <2>2, <2>3, <2>4, <2>5, <2>6, <2>7
<1> QED
  BY <1>1, <1>2, <1>3, <1>4, <1>5, <1>6, <1>7, <1>8, <1>9, <1>10 DEF EvbStep

(* Every step keeps the invariant.                                         *)
LEMMA NextIInv == IInv /\ [Next]_vars => IInv'
<1> SUFFICES ASSUME IInv, [Next]_vars PROVE IInv'
  OBVIOUS
<1>1. CASE Next
  BY <1>1, PublishingKeeps, CallingKeeps, EstablishingKeeps, EvbKeeps DEF Next
<1>2. CASE UNCHANGED vars
  <2> USE <1>2 DEF vars, IInv, object, history
  <2>1. Places'
    BY SMTT(30) DEF Places
  <2>2. PublisherInv'
    BY DEF PublisherInv
  <2>3. CallbackInv'
    <3>1. Running' = Running
      BY DEF Running
    <3> QED  BY <3>1 DEF CallbackInv
  <2>4. WakeupInv' /\ ClientInv'
    <3>1. Wakers' = Wakers /\ Processing' = Processing
          /\ HasCredit' = HasCredit
      BY DEF Wakers, Processing, HasCredit
    <3> QED  BY <3>1 DEF WakeupInv, ClientInv
  <2>5. OwnersCounted'
    <3>1. PublisherOwns' = PublisherOwns /\ StreamOwns' = StreamOwns
      BY DEF PublisherOwns, StreamOwns
    <3> QED  BY <3>1 DEF OwnersCounted
  <2> QED  BY <2>1, <2>2, <2>3, <2>4, <2>5
<1> QED  BY <1>1, <1>2

-----------------------------------------------------------------------------
(* The invariant holds always.                                             *)
LEMMA AlwaysIInv == Spec => []IInv
BY InitIInv, NextIInv, PTL DEF Spec

(* refCount_ is always exactly the number of owners, so the stream is      *)
(* deleted once, by the last of them: for any number of publishers.        *)
THEOREM StreamOwnersCounted == Spec => []OwnersCounted
<1>1. IInv => OwnersCounted
  BY DEF IInv
<1> QED  BY AlwaysIInv, <1>1, PTL

(* complete() does not return, and the object is not deleted, before the   *)
(* service's callback has run, exactly once.                               *)
THEOREM CallbackAlwaysJoined == Spec => []CallbackJoined
<1>1. IInv => CallbackJoined
  <2> SUFFICES ASSUME IInv PROVE CallbackJoined
    OBVIOUS
  <2>1. handle = "completed" /\ pc[Completer] \in {"leave", "out"} => runs = 1
    BY DEF IInv, CallbackInv
  <2>2. ASSUME refs = 0
        PROVE  runs = 1 /\ once = "DONE"
    <3>1. /\ ~PublisherOwns /\ ~StreamOwns
          /\ pc["exec"] \notin {"call", "running", "called"}
      BY <2>2, SMTT(30) DEF IInv, OwnersCounted, Holds, Places
    <3>2. /\ handle # "held" /\ pc[Completer] = "out"
          /\ pc["stream"] = "gone"
      BY <3>1, ThreadNames
      DEF IInv, PublisherOwns, StreamOwns, PublisherInv, Places
    <3>3. Running = {}
      BY <3>1, <3>2 DEF Running, Callers
    <3>4. once \notin {"READY", "IN_PROGRESS", "WAITING", "POSTED"}
      BY <3>2, <3>3 DEF IInv, CallbackInv, PublisherInv, Places
    <3>5. once = "DONE"
      BY <3>4 DEF IInv, Places
    <3> QED  BY <3>5 DEF IInv, CallbackInv
  <2> QED  BY <2>1, <2>2 DEF CallbackJoined
<1> QED  BY AlwaysIInv, <1>1, PTL

-----------------------------------------------------------------------------
Steps == {"fresh", "out", "push", "queue", "wake", "call", "running", "called",
          "join", "leave", "gone", "exchange", "cas", "flush", "factory",
          "process", "get", "close", "decref"}

(* The types of what holds messages or counts them.                        *)
Shape ==
  /\ enc \in Queues(Messages) /\ enc.type # "CONSUMER"
  /\ (enc.type = "TAIL") <=> (enc.msgs # <<>>)
  /\ queue \in Queues(Messages)
  /\ queue.type = "TAIL" \/ queue.msgs = <<>>
  /\ batch \in Seq(Messages) /\ buffer \in Seq(Messages)
  /\ pc \in [Threads -> Steps]
  /\ cur \in [Publishers -> Messages]
  /\ credit \in [isSet : BOOLEAN, val : 0..MaxGrants, buf : Seq(Messages)]
  /\ sent \in [Publishers -> Nat]
  /\ \A p \in Publishers : sent[p] <= Items[p]
  /\ seen \in Seq(Messages \ {End})
  /\ granted \in 0..MaxGrants

(* Which of the places that hold messages are in use when.                 *)
Stations ==
  /\ IsClosed(enc) =>
       payload /\ pc["stream"] \notin {"fresh", "exchange", "cas", "flush"}
  /\ pc["stream"] \in {"exchange", "cas", "flush"} => payload
  /\ pc["stream"] = "factory" \/ client # "none" => IsClosed(enc)
  /\ (pc["stream"] = "flush") <=> (batch # <<>>)
  /\ Processing => credit.isSet
  /\ buffer # <<>> => pc["evb"] = "process"
  /\ credit.isSet => credit.buf = <<>>
  /\ ~credit.isSet => credit.val = 0
  /\ Len(seen) + credit.val = granted
  /\ \A p \in Publishers : pc[p] = "queue" => IsClosed(enc)

(* Everything published, in the order in which it reaches the client.      *)
Line == seen \o buffer \o credit.buf \o queue.msgs \o batch \o enc.msgs

(* The messages of line l are the first n[p] items of each publisher p, in *)
(* the order of their numbers, none twice and none left out, and there is  *)
(* nothing behind the end.                                                 *)
InLine(l, n) ==
  /\ \A i \in 1..Len(l) : l[i] # End => l[i][2] <= n[l[i][1]]
  /\ \A p \in Publishers : \A k \in 1..n[p] :
       \E i \in 1..Len(l) : l[i] = <<p, k>>
  /\ \A i, j \in 1..Len(l) :
       i < j => /\ l[i] # End
                /\ l[j] # End /\ l[i][1] = l[j][1] => l[i][2] < l[j][2]

NoEnd(l) == \A i \in 1..Len(l) : l[i] # End

(* Has publisher p an item in its hands that is in no queue yet?           *)
Pending(p) == pc[p] \in {"push", "queue"} /\ cur[p] # End
Number == [p \in Publishers |-> sent[p] - Holds(Pending(p))]

(* As long as the client may still be given something, everything that was *)
(* published is in line or in the hands of its publisher.                  *)
InOrder ==
  client \in {"none", "open"} =>
    /\ InLine(Line, Number)
    /\ \/ NoEnd(Line)
       \/ handle = "completed" /\ pc[Completer] \notin {"push", "queue"}
    /\ \A p \in Publishers : Pending(p) => cur[p] = <<p, sent[p]>>

DInv == Shape /\ Stations /\ InOrder


-----------------------------------------------------------------------------
(* The messages are the end, and the items of the publishers.              *)
LEMMA MessageFacts ==
  /\ End \in Messages
  /\ \A p \in Publishers : \A n \in 1..Items[p] :
       <<p, n>> \in Messages /\ <<p, n>> # End
  /\ \A m \in Messages : m # End =>
       /\ m[1] \in Publishers /\ m[2] \in 1..Items[m[1]]
       /\ m = <<m[1], m[2]>>
BY SMTT(30) DEF Messages, End

(* The sequence of length 0.                                               *)
LEMMA EmptyFact ==
  ASSUME NEW S, NEW s \in Seq(S)
  PROVE  (Len(s) = 0) <=> (s = <<>>)
BY SMTT(30)

(* A sequence that grew is not empty, and one that lost its only element   *)
(* is.                                                                     *)
LEMMA SeqFacts ==
  ASSUME NEW S, NEW s \in Seq(S), NEW e
  PROVE  /\ Append(s, e) # <<>>
         /\ s # <<>> => ((Len(s) = 1) <=> (Tail(s) = <<>>))
<1>1. Len(s) \in Nat /\ Len(Append(s, e)) = Len(s) + 1
  BY SMTT(30)
<1>2. Append(s, e) # <<>>
  BY <1>1, SMTT(30)
<1>3. ASSUME s # <<>>
      PROVE  (Len(s) = 1) <=> (Tail(s) = <<>>)
  <2>1. Tail(s) \in Seq(S) /\ Len(Tail(s)) = Len(s) - 1
    BY <1>3, SMTT(30)
  <2>2. (Len(Tail(s)) = 0) <=> (Tail(s) = <<>>)
    BY <2>1, EmptyFact
  <2> QED  BY <1>1, <2>1, <2>2, SMTT(30)
<1> QED  BY <1>2, <1>3

(* A thread that moves stays within its steps.                             *)
LEMMA GotoTypes ==
  ASSUME pc \in [Threads -> Steps], NEW t, NEW step \in Steps, Goto(t, step)
  PROVE  pc' \in [Threads -> Steps]
BY DEF Goto

(* What the operations of the queues do to their types.                    *)
LEMMA QueueTypes ==
  ASSUME NEW q \in Queues(Messages), NEW m \in Messages
  PROVE  /\ Push(q, m) \in Queues(Messages)
         /\ Wait(q) \in Queues(Messages) /\ Taken(q) \in Queues(Messages)
         /\ EmptyQueue \in Queues(Messages)
         /\ ClosedQueue \in Queues(Messages)
         /\ EmptyQueue.type = "EMPTY" /\ EmptyQueue.msgs = <<>>
         /\ ClosedQueue.type = "CLOSED" /\ ClosedQueue.msgs = <<>>
         /\ IF q.type = "CLOSED" THEN Push(q, m) = q
            ELSE Push(q, m).type = "TAIL" /\ Push(q, m).msgs = Append(q.msgs, m)
         /\ Wait(q).msgs = q.msgs
         /\ Wait(q).type = IF q.type = "EMPTY" THEN "CONSUMER" ELSE q.type
         /\ IF q.type = "CLOSED" THEN Taken(q) = q
            ELSE Taken(q).type = "EMPTY" /\ Taken(q).msgs = <<>>
         /\ q.msgs \in Seq(Messages)
BY SMTT(30) DEF Queues, Push, Wait, Taken, IsClosed, EmptyQueue, ClosedQueue

(* A push to a queue that is not closed.                                   *)
LEMMA PushOpen ==
  ASSUME NEW q \in Queues(Messages), NEW m \in Messages, q.type # "CLOSED"
  PROVE  /\ Push(q, m) \in Queues(Messages)
         /\ Push(q, m).type = "TAIL" /\ Push(q, m).msgs = Append(q.msgs, m)
         /\ q.msgs \in Seq(Messages)
BY QueueTypes

(* The types are kept.                                                     *)
LEMMA ShapeStep ==
  ASSUME IInv, Shape, Stations, Next
  PROVE  Shape'
<1> USE ThreadNames, MessageFacts, PublisherAssumption
    DEF object, history, Steps
<1>1. ASSUME NEW p \in Publishers, PublishNext(p)  PROVE Shape'
  <2>1. /\ sent[p] \in Nat /\ sent[p] + 1 \in 1..Items[p]
        /\ sent'[p] = sent[p] + 1
        /\ \A q \in Publishers \ {p} : sent'[q] = sent[q]
        /\ sent' \in [Publishers -> Nat]
    BY <1>1, SMTT(30) DEF PublishNext, Shape
  <2>2. cur' \in [Publishers -> Messages]
    <3>1. <<p, sent[p] + 1>> \in Messages
      BY <2>1
    <3> QED  BY <1>1, <3>1 DEF PublishNext, Shape
  <2>3. pc' \in [Threads -> Steps]
    BY <1>1, GotoTypes DEF PublishNext, Shape
  <2> QED  BY <1>1, <2>1, <2>3, SMTT(30) DEF PublishNext, Shape
<1>2. ASSUME NEW p \in Publishers, PushOrGetClosedPayload(p)  PROVE Shape'
  <2>1. cur[p] \in Messages
    BY DEF Shape
  <2>2. pc' \in [Threads -> Steps]
    BY <1>2, GotoTypes DEF PushOrGetClosedPayload, Published, Shape
  <2>3. /\ enc' \in Queues(Messages) /\ enc'.type # "CONSUMER"
        /\ (enc'.type = "TAIL") <=> (enc'.msgs # <<>>)
    <3>1. /\ enc' = Push(enc, cur[p]) /\ enc \in Queues(Messages)
          /\ enc.type # "CONSUMER" /\ (enc.type = "TAIL") <=> (enc.msgs # <<>>)
      BY <1>2 DEF PushOrGetClosedPayload, Shape
    <3>2. CASE enc.type = "CLOSED"
      BY <2>1, <3>1, <3>2, QueueTypes
    <3>3. CASE enc.type # "CLOSED"
      <4>1. /\ enc' \in Queues(Messages) /\ enc'.type = "TAIL"
            /\ enc'.msgs = Append(enc.msgs, cur[p])
            /\ enc.msgs \in Seq(Messages)
        BY <2>1, <3>1, <3>3, PushOpen
      <4>2. enc'.msgs # <<>>
        BY <4>1, SeqFacts, SMTT(30)
      <4> QED  BY <4>1, <4>2
    <3> QED  BY <3>2, <3>3
  <2> QED  BY <1>2, <2>2, <2>3 DEF PushOrGetClosedPayload, Shape
<1>3. ASSUME NEW p \in Publishers, QueuePush(p)  PROVE Shape'
  <2>1. cur[p] \in Messages
    BY DEF Shape
  <2>2. pc' \in [Threads -> Steps]
    BY <1>3, GotoTypes DEF QueuePush, Published, Shape
  <2>3. /\ queue' \in Queues(Messages)
        /\ queue'.type = "TAIL" \/ queue'.msgs = <<>>
    <3>1. /\ queue' = Push(queue, cur[p]) /\ queue \in Queues(Messages)
          /\ queue.type = "TAIL" \/ queue.msgs = <<>>
      BY <1>3 DEF QueuePush, Shape
    <3>2. CASE queue.type = "CLOSED"
      BY <2>1, <3>1, <3>2, QueueTypes
    <3>3. CASE queue.type # "CLOSED"
      <4>1. /\ Push(queue, cur[p]) \in Queues(Messages)
            /\ Push(queue, cur[p]).type = "TAIL"
        BY <2>1, <3>1, <3>3, PushOpen
      <4> QED  BY <3>1, <4>1
    <3> QED  BY <3>2, <3>3
  <2> QED  BY <1>3, <2>2, <2>3 DEF QueuePush, Shape
<1>4. ASSUME NEW p \in Publishers, Consume(p)  PROVE Shape'
  BY <1>4, GotoTypes DEF Consume, Shape, Published
<1>5. ASSUME NEW t \in Callers, Call(t)  PROVE Shape'
  BY <1>5, GotoTypes DEF Call, Shape
<1>6. ASSUME NEW t \in Callers, Return(t)  PROVE Shape'
  BY <1>6, GotoTypes DEF Return, Shape
<1>7. ASSUME NEW t \in Callers, Leave(t)  PROVE Shape'
  BY <1>7, GotoTypes DEF Leave, Shape
<1>8. ASSUME NEW n \in 1..MaxGrants, RequestN(n)  PROVE Shape'
  <2>1. granted' \in 0..MaxGrants /\ granted' = granted + n
    BY <1>8, SMTT(30) DEF RequestN, Shape
  <2>2. pc' \in [Threads -> Steps]
    BY <1>8, GotoTypes DEF RequestN, Shape
  <2>3. credit.val + n \in 0..MaxGrants /\ n \in 0..MaxGrants
    <3>1. Len(seen) + credit.val = granted
      BY DEF Stations
    <3>2. Len(seen) \in Nat /\ credit.val \in Nat /\ granted \in Nat
      BY SMTT(30) DEF Shape
    <3> QED  BY <2>1, <3>1, <3>2, SMTT(30)
  <2>4. credit' \in [isSet : BOOLEAN, val : 0..MaxGrants, buf : Seq(Messages)]
    <3>1. CASE HasCredit
      BY <1>8, <2>3, <3>1 DEF RequestN, Shape
    <3>2. CASE ~HasCredit
      <4>1. credit' = [isSet |-> TRUE, val |-> n, buf |-> <<>>]
        BY <1>8, <3>2 DEF RequestN
      <4>2. TRUE \in BOOLEAN /\ <<>> \in Seq(Messages)
        BY SMTT(30)
      <4> QED  BY <2>3, <4>1, <4>2, ZenonT(30)
    <3> QED  BY <3>1, <3>2
  <2>5. buffer' \in Seq(Messages)
    BY <1>8 DEF RequestN, Shape
  <2> QED  BY <1>8, <2>1, <2>2, <2>4 DEF RequestN, Shape
<1>9. CASE Complete
  BY <1>9, GotoTypes DEF Complete, Shape
<1>10. CASE Drop
  BY <1>10 DEF Drop, Shape
<1>11. CASE Join
  BY <1>11, GotoTypes DEF Join, Shape
<1>12. CASE Joined
  BY <1>12, GotoTypes DEF Joined, Shape
<1>13. CASE Abandon
  BY <1>13, GotoTypes DEF Abandon, Shape
<1>14. CASE EstablishStream
  BY <1>14, GotoTypes DEF EstablishStream, Shape
<1>15. CASE Exchange
  BY <1>15, GotoTypes, QueueTypes DEF Exchange, Shape
<1>16. CASE CloseIfEmpty
  BY <1>16, GotoTypes, QueueTypes, SMTT(30) DEF CloseIfEmpty, Shape
<1>17. CASE Flush
  <2>1. batch # <<>>
    BY <1>17 DEF Flush, Stations
  <2>2. Head(batch) \in Messages /\ batch' \in Seq(Messages)
    BY <1>17, <2>1, SMTT(30) DEF Flush, Shape
  <2>3. pc' \in [Threads -> Steps]
    BY <1>17, GotoTypes DEF Flush, Shape
  <2>4. /\ queue' \in Queues(Messages)
        /\ queue'.type = "TAIL" \/ queue'.msgs = <<>>
    BY <1>17, <2>2, QueueTypes DEF Flush, Shape
  <2> QED  BY <1>17, <2>2, <2>3, <2>4 DEF Flush, Shape
<1>18. CASE FirstResponse
  BY <1>18, GotoTypes DEF FirstResponse, Shape
<1>19. CASE RunTask
  BY <1>19, GotoTypes DEF RunTask, Shape
<1>20. CASE ProcessItem
  <2>1. Head(buffer) \in Messages \ {End} /\ buffer' \in Seq(Messages)
    BY <1>20, SMTT(30) DEF ProcessItem, Shape
  <2>2. seen' \in Seq(Messages \ {End})
    BY <1>20, <2>1, SMTT(30) DEF ProcessItem, Shape
  <2>3. credit' \in [isSet : BOOLEAN, val : 0..MaxGrants, buf : Seq(Messages)]
    <3>1. credit.val - 1 \in 0..MaxGrants
      BY <1>20, SMTT(30) DEF ProcessItem, HasCredit, Shape
    <3> QED  BY <1>20, <3>1 DEF ProcessItem, Shape
  <2> QED  BY <1>20, <2>1, <2>2, <2>3 DEF ProcessItem, Shape
<1>21. CASE ProcessEnd
  BY <1>21, GotoTypes, SMTT(30) DEF ProcessEnd, Shape, ProcessReturns
<1>22. CASE WaitForMore
  BY <1>22, GotoTypes, QueueTypes DEF WaitForMore, Shape, ProcessReturns
<1>23. CASE GetMessages
  BY <1>23, GotoTypes, QueueTypes DEF GetMessages, Shape
<1>24. CASE OutOfCredit
  BY <1>24, GotoTypes, SMTT(30) DEF OutOfCredit, Shape, ProcessReturns
<1>25. CASE Cancel
  BY <1>25 DEF Cancel, Shape
<1>26. CASE CloseQueue
  BY <1>26, GotoTypes, QueueTypes DEF CloseQueue, Shape
<1>27. CASE Close
  BY <1>27, GotoTypes DEF Close, Shape
<1> QED
  BY <1>1, <1>2, <1>3, <1>4, <1>5, <1>6, <1>7, <1>8, <1>9, <1>10, <1>11, <1>12,
     <1>13, <1>14, <1>15, <1>16, <1>17, <1>18, <1>19, <1>20, <1>21, <1>22,
     <1>23, <1>24, <1>25, <1>26, <1>27
  DEF Next, PublishStep, CallStep, EstablishStep, EvbStep

(* The stations are kept.                                                  *)
LEMMA StationsStep ==
  ASSUME IInv, Shape, Stations, Next
  PROVE  Stations'
<1> USE ThreadNames, PublisherAssumption DEF object, history
<1>1. ASSUME NEW p \in Publishers, PublishNext(p)  PROVE Stations'
  BY <1>1, SMTT(30) DEF PublishNext, Stations, Goto, Processing
<1>2. ASSUME NEW p \in Publishers, PushOrGetClosedPayload(p)  PROVE Stations'
  BY <1>2, QueueTypes, SMTT(30)
  DEF PushOrGetClosedPayload, Stations, Shape, Goto, Processing, Published,
      IsClosed
<1>3. ASSUME NEW p \in Publishers, QueuePush(p)  PROVE Stations'
  BY <1>3, SMTT(30) DEF QueuePush, Stations, Shape, Goto, Processing, Published
<1>4. ASSUME NEW p \in Publishers, Consume(p)  PROVE Stations'
  BY <1>4, SMTT(30) DEF Consume, Stations, Goto, Processing, Published
<1>5. ASSUME NEW t \in Callers, Call(t)  PROVE Stations'
  BY <1>5, SMTT(30) DEF Call, Stations, Shape, Goto, Processing
<1>6. ASSUME NEW t \in Callers, Return(t)  PROVE Stations'
  BY <1>6, SMTT(30) DEF Return, Stations, Goto, Processing
<1>7. ASSUME NEW t \in Callers, Leave(t)  PROVE Stations'
  BY <1>7, SMTT(30) DEF Leave, Stations, Goto, Processing
<1>8. ASSUME NEW n \in 1..MaxGrants, RequestN(n)  PROVE Stations'
  <2>1. /\ client = "open" /\ pc["evb"] = "out" /\ granted' = granted + n
        /\ enc' = enc /\ payload' = payload /\ batch' = batch
        /\ client' = client /\ seen' = seen
        /\ pc'["stream"] = pc["stream"] /\ pc'["evb"] \in {"out", "process"}
    BY <1>8 DEF RequestN, OnEvb, Goto, Shape
  <2>2. credit.val \in Nat /\ granted \in Nat /\ Len(seen) \in Nat
    BY SMTT(30) DEF Shape
  <2>3. CASE HasCredit
    <3>1. /\ credit'.val = credit.val + n /\ credit'.buf = credit.buf
          /\ credit'.isSet /\ buffer' = buffer /\ pc'["evb"] = "out"
      BY <1>8, <2>1, <2>3 DEF RequestN, HasCredit, Shape
    <3> QED  BY <2>1, <2>2, <2>3, <3>1, SMTT(30) DEF Stations, HasCredit
  <2>4. CASE ~HasCredit
    <3>1. /\ credit'.val = n /\ credit'.buf = <<>> /\ credit'.isSet
          /\ pc'["evb"] = "process"
      BY <1>8, <2>4, SMTT(30) DEF RequestN, Goto, Shape
    <3>2. credit.val = 0
      BY <2>2, <2>4, SMTT(30) DEF HasCredit, Stations
    <3> QED  BY <2>1, <3>1, <3>2, SMTT(30) DEF Stations
  <2> QED  BY <2>3, <2>4
<1>9. CASE Complete
  BY <1>9, SMTT(30) DEF Complete, Stations, Goto, Processing
<1>10. CASE Drop
  BY <1>10 DEF Drop, Stations, Processing
<1>11. CASE Join
  BY <1>11, SMTT(30) DEF Join, Stations, Shape, Goto, Processing
<1>12. CASE Joined
  BY <1>12, SMTT(30) DEF Joined, Stations, Goto, Processing
<1>13. CASE Abandon
  BY <1>13, SMTT(30) DEF Abandon, Stations, Goto, Processing
<1>14. CASE EstablishStream
  BY <1>14, SMTT(30) DEF EstablishStream, Stations, Goto, Processing
<1>15. CASE Exchange
  BY <1>15, QueueTypes, SMTT(30)
  DEF Exchange, Stations, Shape, Goto, Processing, IsClosed
<1>16. CASE CloseIfEmpty
  BY <1>16, QueueTypes, SMTT(30)
  DEF CloseIfEmpty, Stations, Shape, Goto, Processing, IsClosed
<1>17. CASE Flush
  <2>1. batch # <<>> /\ batch \in Seq(Messages) /\ pc["stream"] = "flush"
    BY <1>17 DEF Flush, Stations, Shape
  <2>2. /\ batch' = Tail(batch) /\ enc' = enc /\ payload' = payload
        /\ credit' = credit /\ buffer' = buffer /\ client' = client
        /\ seen' = seen /\ granted' = granted
        /\ pc'["stream"] = IF Len(batch) = 1 THEN "exchange" ELSE "flush"
        /\ pc'["evb"] = pc["evb"] /\ \A p \in Publishers : pc'[p] = pc[p]
    BY <1>17 DEF Flush, Goto, Shape
  <2>3. (Len(batch) = 1) <=> (batch' = <<>>)
    BY <2>1, <2>2, SeqFacts
  <2> QED  BY <2>1, <2>2, <2>3 DEF Stations, Processing
<1>18. CASE FirstResponse
  BY <1>18, SMTT(30) DEF FirstResponse, Stations, Goto, Processing
<1>19. CASE RunTask
  BY <1>19, SMTT(30)
  DEF RunTask, Stations, Shape, Goto, IInv, ClientInv, WakeupInv, Processing,
      HasCredit
<1>20. CASE ProcessItem
  BY <1>20, SMTT(30) DEF ProcessItem, Stations, Shape, Processing
<1>21. CASE ProcessEnd
  <2>1. client # "none"
    BY <1>21 DEF ProcessEnd, IInv, WakeupInv, Processing
  <2> QED
    BY <1>21, <2>1, SMTT(30)
    DEF ProcessEnd, Stations, Goto, Processing, ProcessReturns
<1>22. CASE WaitForMore
  BY <1>22 DEF WaitForMore, Stations, Shape, Goto, Processing, ProcessReturns
<1>23. CASE GetMessages
  BY <1>23 DEF GetMessages, Stations, Shape, Goto, Processing
<1>24. CASE OutOfCredit
  BY <1>24, SMTT(30)
  DEF OutOfCredit, Stations, Shape, Goto, Processing, ProcessReturns,
      HasCredit
<1>25. CASE Cancel
  <2>1. /\ pc'["stream"] = pc["stream"] /\ pc'["evb"] = "close"
        /\ pc["evb"] = "out" /\ client = "open"
    BY <1>25 DEF Cancel, OnEvb, Shape
  <2> QED  BY <1>25, <2>1 DEF Cancel, Stations, Processing
<1>26. CASE CloseQueue
  BY <1>26, SMTT(30) DEF CloseQueue, Stations, Goto, Processing
<1>27. CASE Close
  BY <1>27, SMTT(30) DEF Close, Stations, Goto, Processing
<1> QED
  BY <1>1, <1>2, <1>3, <1>4, <1>5, <1>6, <1>7, <1>8, <1>9, <1>10, <1>11, <1>12,
     <1>13, <1>14, <1>15, <1>16, <1>17, <1>18, <1>19, <1>20, <1>21, <1>22,
     <1>23, <1>24, <1>25, <1>26, <1>27
  DEF Next, PublishStep, CallStep, EstablishStep, EvbStep

-----------------------------------------------------------------------------
(* What concatenation does.                                                *)
LEMMA ConcatFacts ==
  ASSUME NEW S, NEW a \in Seq(S), NEW b \in Seq(S)
  PROVE  /\ a \o b \in Seq(S) /\ Len(a \o b) = Len(a) + Len(b)
         /\ \A i \in 1..Len(a) : (a \o b)[i] = a[i]
         /\ \A i \in 1..Len(b) : (a \o b)[Len(a) + i] = b[i]
         /\ a \o <<>> = a /\ <<>> \o a = a
BY SMTT(30)

(* Two sequences with the same elements are the same.                      *)
LEMMA SameSeq ==
  ASSUME NEW S, NEW a \in Seq(S), NEW b \in Seq(S), Len(a) = Len(b),
         \A i \in 1..Len(a) : a[i] = b[i]
  PROVE  a = b
BY SMTT(30)

(* The first element of b goes over to a.                                  *)
LEMMA HeadGoesOver ==
  ASSUME NEW S, NEW a \in Seq(S), NEW b \in Seq(S), b # <<>>
  PROVE  Append(a, Head(b)) \o Tail(b) = a \o b
<1> DEFINE c == Append(a, Head(b))
<1>1. /\ c \in Seq(S) /\ Len(c) = Len(a) + 1 /\ c[Len(a) + 1] = b[1]
      /\ \A i \in 1..Len(a) : c[i] = a[i]
  BY SMTT(30)
<1>2. /\ Tail(b) \in Seq(S) /\ Len(Tail(b)) = Len(b) - 1 /\ Len(b) \in Nat \ {0}
      /\ \A i \in 1..(Len(b) - 1) : Tail(b)[i] = b[i + 1]
  BY SMTT(30)
<1>3. Len(a) \in Nat
  BY SMTT(30)
<1> HIDE DEF c
<1>4. /\ c \o Tail(b) \in Seq(S) /\ a \o b \in Seq(S)
      /\ Len(c \o Tail(b)) = Len(a) + Len(b) /\ Len(a \o b) = Len(a) + Len(b)
  BY <1>1, <1>2, <1>3, SMTT(30)
<1>5. ASSUME NEW i \in 1..(Len(a) + Len(b))
      PROVE  (c \o Tail(b))[i] = (a \o b)[i]
  <2>1. CASE i <= Len(a)
    BY <1>1, <1>2, <1>3, <2>1, SMTT(30)
  <2>2. CASE i = Len(a) + 1
    BY <1>1, <1>2, <1>3, <2>2, SMTT(30)
  <2>3. CASE i > Len(a) + 1
    <3> DEFINE j == i - (Len(a) + 1)
    <3>1. j \in 1..(Len(b) - 1) /\ i = Len(a) + 1 + j
      BY <1>2, <1>3, <2>3, SMTT(30)
    <3> HIDE DEF j
    <3>2. (c \o Tail(b))[Len(c) + j] = Tail(b)[j]
      BY <1>1, <1>2, <3>1, ConcatFacts, SMTT(30)
    <3>3. (a \o b)[Len(a) + (j + 1)] = b[j + 1]
      BY <1>2, <3>1, ConcatFacts, SMTT(30)
    <3> QED  BY <1>1, <1>2, <1>3, <3>1, <3>2, <3>3, SMTT(30)
  <2>4. i <= Len(a) \/ i = Len(a) + 1 \/ i > Len(a) + 1
    BY <1>2, <1>3, SMTT(30)
  <2> QED  BY <2>1, <2>2, <2>3, <2>4
<1>6. c \o Tail(b) = a \o b
  BY <1>4, <1>5, SameSeq
<1> QED  BY <1>6 DEF c

(* An element at the end of b is at the end of a followed by b.            *)
LEMMA AppendGoesOut ==
  ASSUME NEW S, NEW a \in Seq(S), NEW b \in Seq(S), NEW e \in S
  PROVE  a \o Append(b, e) = Append(a \o b, e)
<1> DEFINE c == Append(b, e)
<1>1. /\ c \in Seq(S) /\ Len(c) = Len(b) + 1 /\ c[Len(b) + 1] = e
      /\ \A i \in 1..Len(b) : c[i] = b[i]
      /\ Len(a) \in Nat /\ Len(b) \in Nat
  BY SMTT(30)
<1> HIDE DEF c
<1> DEFINE d == a \o b
<1>2. /\ d \in Seq(S) /\ Len(d) = Len(a) + Len(b)
      /\ \A i \in 1..Len(a) : d[i] = a[i]
      /\ \A i \in 1..Len(b) : d[Len(a) + i] = b[i]
  BY ConcatFacts, SMTT(30)
<1> HIDE DEF d
<1>3. /\ Append(d, e) \in Seq(S) /\ Len(Append(d, e)) = Len(d) + 1
      /\ Append(d, e)[Len(d) + 1] = e
      /\ \A i \in 1..Len(d) : Append(d, e)[i] = d[i]
  BY <1>2, SMTT(30)
<1>4. /\ a \o c \in Seq(S) /\ Len(a \o c) = Len(a) + Len(c)
      /\ \A i \in 1..Len(a) : (a \o c)[i] = a[i]
      /\ \A i \in 1..Len(c) : (a \o c)[Len(a) + i] = c[i]
  <2>1. c \in Seq(S)
    BY <1>1
  <2> QED  BY <2>1, ConcatFacts, SMTT(30)
<1>5. ASSUME NEW i \in 1..(Len(a) + Len(b) + 1)
      PROVE  (a \o c)[i] = Append(d, e)[i]
  <2>1. CASE i <= Len(a)
    BY <1>1, <1>2, <1>3, <1>4, <2>1, SMTT(30)
  <2>2. CASE i > Len(a) /\ i <= Len(a) + Len(b)
    <3> DEFINE j == i - Len(a)
    <3>1. j \in 1..Len(b) /\ i = Len(a) + j
      BY <1>1, <2>2, SMTT(30)
    <3> HIDE DEF j
    <3> QED  BY <1>1, <1>2, <1>3, <1>4, <3>1, SMTT(30)
  <2>3. CASE i = Len(a) + Len(b) + 1
    BY <1>1, <1>2, <1>3, <1>4, <2>3, SMTT(30)
  <2>4. \/ i <= Len(a)
        \/ i > Len(a) /\ i <= Len(a) + Len(b)
        \/ i = Len(a) + Len(b) + 1
    BY <1>1, SMTT(30)
  <2> QED  BY <2>1, <2>2, <2>3, <2>4
<1>6. a \o c = Append(d, e)
  <2>1. Len(a \o c) = Len(Append(d, e))
    BY <1>1, <1>2, <1>3, <1>4, SMTT(30)
  <2>2. \A i \in 1..Len(a \o c) : (a \o c)[i] = Append(d, e)[i]
    <3>1. Len(a \o c) = Len(a) + Len(b) + 1
      BY <1>1, <1>4, SMTT(30)
    <3> QED  BY <1>5, <3>1
  <2> QED  BY <1>3, <1>4, <2>1, <2>2, SameSeq
<1> QED  BY <1>6 DEF c, d

-----------------------------------------------------------------------------
(* The next item of publisher p is put at the end of the line.             *)
LEMMA LineItem ==
  ASSUME NEW l \in Seq(Messages), NEW n \in [Publishers -> Nat],
         InLine(l, n), NoEnd(l), NEW p \in Publishers,
         NEW m \in [Publishers -> Nat], m[p] = n[p] + 1,
         \A q \in Publishers \ {p} : m[q] = n[q],
         <<p, m[p]>> \in Messages
  PROVE  InLine(Append(l, <<p, m[p]>>), m) /\ NoEnd(Append(l, <<p, m[p]>>))
<1> DEFINE e == <<p, m[p]>>
<1> DEFINE k == Append(l, e)
<1>1. /\ Len(l) \in Nat /\ k \in Seq(Messages) /\ Len(k) = Len(l) + 1
      /\ k[Len(k)] = e /\ \A i \in 1..Len(l) : k[i] = l[i]
  BY SMTT(30)
<1>2. e # End /\ e[1] = p /\ e[2] = m[p] /\ n[p] \in Nat
  BY DEF End
<1>3. ASSUME NEW i \in 1..Len(l)
      PROVE  l[i] # End /\ l[i][1] \in Publishers /\ l[i][2] <= n[l[i][1]]
             /\ l[i][2] \in Nat
  <2>1. l[i] \in Messages /\ l[i] # End
    BY SMTT(30) DEF NoEnd
  <2>2. l[i][1] \in Publishers /\ l[i][2] \in 1..Items[l[i][1]]
    BY <2>1, MessageFacts
  <2>3. Items[l[i][1]] \in Nat
    BY <2>2, PublisherAssumption
  <2> QED  BY <2>1, <2>2, <2>3, SMTT(30) DEF InLine
<1> HIDE DEF k, e
<1>4. NoEnd(k)
  BY <1>1, <1>2, <1>3, SMTT(30) DEF NoEnd
<1>5. ASSUME NEW i \in 1..Len(k) PROVE k[i][2] <= m[k[i][1]]
  <2>1. CASE i = Len(k)
    BY <1>1, <1>2, <2>1, SMTT(30)
  <2>2. CASE i # Len(k)
    <3>1. i \in 1..Len(l) /\ k[i] = l[i]
      BY <1>1, <2>2, SMTT(30)
    <3>2. /\ l[i][1] \in Publishers /\ l[i][2] <= n[l[i][1]]
          /\ l[i][2] \in Nat /\ n[l[i][1]] \in Nat /\ m[l[i][1]] \in Nat
      BY <1>3, <3>1
    <3>3. CASE l[i][1] = p
      BY <1>2, <3>1, <3>2, <3>3, SMTT(30)
    <3>4. CASE l[i][1] # p
      BY <3>1, <3>2, <3>4
    <3> QED  BY <3>3, <3>4
  <2> QED  BY <2>1, <2>2
<1>6. ASSUME NEW q \in Publishers, NEW j \in 1..m[q]
      PROVE  \E i \in 1..Len(k) : k[i] = <<q, j>>
  <2>1. CASE q = p /\ j = m[p]
    <3>1. k[Len(k)] = <<q, j>>
      BY <1>1, <2>1 DEF e
    <3>2. Len(k) \in 1..Len(k)
      BY <1>1, SMTT(30)
    <3> QED  BY <3>1, <3>2
  <2>2. CASE ~(q = p /\ j = m[p])
    <3>1. j \in 1..n[q]
      BY <1>2, <2>2, SMTT(30)
    <3>2. PICK i \in 1..Len(l) : l[i] = <<q, j>>
      BY <3>1 DEF InLine
    <3>3. i \in 1..Len(k) /\ k[i] = <<q, j>>
      BY <1>1, <3>2, SMTT(30)
    <3> QED  BY <3>3
  <2> QED  BY <2>1, <2>2
<1>7. ASSUME NEW i \in 1..Len(k), NEW j \in 1..Len(k), i < j,
             k[i][1] = k[j][1]
      PROVE  k[i][2] < k[j][2]
  <2>1. i \in 1..Len(l) /\ k[i] = l[i]
    BY <1>1, <1>7, SMTT(30)
  <2>2. CASE j = Len(k)
    <3>1. l[i][1] = p /\ l[i][2] <= n[p] /\ l[i][2] \in Nat
      BY <1>1, <1>2, <1>3, <1>7, <2>1, <2>2
    <3> QED  BY <1>1, <1>2, <2>1, <2>2, <3>1, SMTT(30)
  <2>3. CASE j # Len(k)
    <3>1. j \in 1..Len(l) /\ k[j] = l[j]
      BY <1>1, <2>3, SMTT(30)
    <3> QED  BY <1>3, <1>7, <2>1, <3>1 DEF InLine
  <2> QED  BY <2>2, <2>3
<1>8. \A i \in 1..Len(k) : k[i] # End
  BY <1>4 DEF NoEnd
<1> QED  BY <1>4, <1>5, <1>6, <1>7, <1>8 DEF InLine, k, e

(* The end is put at the end of the line.                                  *)
LEMMA LineEnds ==
  ASSUME NEW l \in Seq(Messages), NEW n, InLine(l, n), NoEnd(l)
  PROVE  InLine(Append(l, End), n)
<1> DEFINE k == Append(l, End)
<1>1. /\ Len(l) \in Nat /\ Len(k) = Len(l) + 1
      /\ k[Len(k)] = End /\ \A i \in 1..Len(l) : k[i] = l[i]
  BY MessageFacts, SMTT(30)
<1> HIDE DEF k
<1>2. \A i \in 1..Len(k) : i \in 1..Len(l) \/ i = Len(k)
  BY <1>1, SMTT(30)
<1>3. \A i, j \in 1..Len(k) : i < j => i \in 1..Len(l)
  BY <1>1, SMTT(30)
<1>4. \A i \in 1..Len(l) : i \in 1..Len(k)
  BY <1>1, SMTT(30)
<1>5. \A i \in 1..Len(k) : k[i] # End => k[i][2] <= n[k[i][1]]
  BY <1>1, <1>2 DEF InLine
<1>6. \A p \in Publishers : \A j \in 1..n[p] :
        \E i \in 1..Len(k) : k[i] = <<p, j>>
  BY <1>1, <1>4 DEF InLine
<1>7. \A i, j \in 1..Len(k) :
       i < j => /\ k[i] # End
                /\ k[j] # End /\ k[i][1] = k[j][1] => k[i][2] < k[j][2]
  BY <1>1, <1>2, <1>3 DEF InLine, NoEnd
<1> QED  BY <1>5, <1>6, <1>7 DEF InLine, k

-----------------------------------------------------------------------------
(* The line, put together from its parts.                                  *)
LineOf(s, b, c, q, t, e) == s \o b \o c \o q \o t \o e

(* The line is a sequence of messages.                                     *)
LEMMA LineIsSeq ==
  ASSUME NEW s \in Seq(Messages), NEW b \in Seq(Messages),
         NEW c \in Seq(Messages), NEW q \in Seq(Messages),
         NEW t \in Seq(Messages), NEW e \in Seq(Messages)
  PROVE  LineOf(s, b, c, q, t, e) \in Seq(Messages)
<1>1. (s \o b) \o c \in Seq(Messages)
  BY ConcatFacts
<1>2. ((s \o b) \o c) \o q \in Seq(Messages)
  BY <1>1, ConcatFacts
<1>3. (((s \o b) \o c) \o q) \o t \in Seq(Messages)
  BY <1>2, ConcatFacts
<1> QED  BY <1>3, ConcatFacts DEF LineOf

(* What becomes of the line when the messages go from one part to another: *)
(* from encodeOrQueue_ to the thread that establishes the stream, ...      *)
LEMMA LineExchanged ==
  ASSUME NEW s \in Seq(Messages), NEW b \in Seq(Messages),
         NEW c \in Seq(Messages), NEW q \in Seq(Messages),
         NEW e \in Seq(Messages)
  PROVE  LineOf(s, b, c, q, e, <<>>) = LineOf(s, b, c, q, <<>>, e)
<1>1. (s \o b) \o c \in Seq(Messages)
  BY ConcatFacts
<1>2. ((s \o b) \o c) \o q \in Seq(Messages)
  BY <1>1, ConcatFacts
<1>3. (((s \o b) \o c) \o q) \o e \in Seq(Messages)
  BY <1>2, ConcatFacts
<1> QED  BY <1>2, <1>3, ConcatFacts DEF LineOf

(* ... one by one from there to queue_, ...                                *)
LEMMA LineFlushed ==
  ASSUME NEW s \in Seq(Messages), NEW b \in Seq(Messages),
         NEW c \in Seq(Messages), NEW q \in Seq(Messages),
         NEW t \in Seq(Messages), NEW e \in Seq(Messages),
         t # <<>>
  PROVE  LineOf(s, b, c, Append(q, Head(t)), Tail(t), e)
           = LineOf(s, b, c, q, t, e)
<1> DEFINE x == (s \o b) \o c
<1>1. x \in Seq(Messages)
  BY ConcatFacts
<1> HIDE DEF x
<1>2. x \o q \in Seq(Messages) /\ Head(t) \in Messages
  BY <1>1, ConcatFacts, SMTT(30)
<1>3. x \o Append(q, Head(t)) = Append(x \o q, Head(t))
  BY <1>1, <1>2, AppendGoesOut, SMTT(30)
<1>4. Append(x \o q, Head(t)) \o Tail(t) = (x \o q) \o t
  BY <1>2, HeadGoesOver
<1> QED  BY <1>3, <1>4 DEF LineOf, x

(* ... from queue_ to processPayloads, ...                                 *)
LEMMA LineGot ==
  ASSUME NEW s \in Seq(Messages), NEW q \in Seq(Messages),
         NEW t \in Seq(Messages), NEW e \in Seq(Messages)
  PROVE  LineOf(s, q, <<>>, <<>>, t, e) = LineOf(s, <<>>, <<>>, q, t, e)
<1>1. s \o q \in Seq(Messages)
  BY ConcatFacts
<1> QED  BY <1>1, ConcatFacts, SMTT(30) DEF LineOf

(* ... from there to where they wait for credit, and back, ...             *)
LEMMA LineWaits ==
  ASSUME NEW s \in Seq(Messages), NEW b \in Seq(Messages),
         NEW q \in Seq(Messages), NEW t \in Seq(Messages),
         NEW e \in Seq(Messages)
  PROVE  LineOf(s, <<>>, b, q, t, e) = LineOf(s, b, <<>>, q, t, e)
<1>1. s \o b \in Seq(Messages)
  BY ConcatFacts
<1> QED  BY <1>1, ConcatFacts, SMTT(30) DEF LineOf

(* ... and one by one to the client.                                       *)
LEMMA LineSeen ==
  ASSUME NEW s \in Seq(Messages), NEW b \in Seq(Messages),
         NEW c \in Seq(Messages), NEW q \in Seq(Messages),
         NEW t \in Seq(Messages), NEW e \in Seq(Messages),
         b # <<>>
  PROVE  LineOf(Append(s, Head(b)), Tail(b), c, q, t, e)
           = LineOf(s, b, c, q, t, e)
BY HeadGoesOver DEF LineOf

(* The parts of the line are sequences of messages, and so is the line.    *)
LEMMA LineTypes ==
  ASSUME Shape
  PROVE  /\ seen \in Seq(Messages) /\ buffer \in Seq(Messages)
         /\ credit.buf \in Seq(Messages) /\ queue.msgs \in Seq(Messages)
         /\ batch \in Seq(Messages) /\ enc.msgs \in Seq(Messages)
         /\ Line = LineOf(seen, buffer, credit.buf, queue.msgs, batch, enc.msgs)
         /\ Line \in Seq(Messages)
<1>1. /\ seen \in Seq(Messages) /\ buffer \in Seq(Messages)
      /\ credit.buf \in Seq(Messages) /\ queue.msgs \in Seq(Messages)
      /\ batch \in Seq(Messages) /\ enc.msgs \in Seq(Messages)
  BY SMTT(30) DEF Shape, Queues
<1>2. Line = LineOf(seen, buffer, credit.buf, queue.msgs, batch, enc.msgs)
  BY DEF Line, LineOf
<1> QED  BY <1>1, <1>2, LineIsSeq

(* A message is pushed to encodeOrQueue_ or, once that is closed, to       *)
(* queue_: it goes to the end of the line.                                 *)
LEMMA LineGrows ==
  ASSUME Shape, NEW m \in Messages, UNCHANGED <<seen, buffer, credit, batch>>,
         \/ enc'.msgs = Append(enc.msgs, m) /\ queue' = queue
         \/ /\ queue'.msgs = Append(queue.msgs, m)
            /\ batch = <<>> /\ enc.msgs = <<>> /\ enc' = enc
  PROVE  Line' = Append(Line, m)
<1> DEFINE x == (seen \o buffer) \o credit.buf
<1> DEFINE y == x \o queue.msgs
<1> DEFINE z == y \o batch
<1>1. /\ seen \in Seq(Messages) /\ buffer \in Seq(Messages)
      /\ credit.buf \in Seq(Messages) /\ queue.msgs \in Seq(Messages)
      /\ batch \in Seq(Messages) /\ enc.msgs \in Seq(Messages)
  BY LineTypes
<1>2. x \in Seq(Messages)
  BY <1>1, ConcatFacts
<1>3. Line = z \o enc.msgs
  BY DEF Line
<1>4. Line' = (((x \o queue'.msgs) \o batch) \o enc'.msgs)
  BY DEF Line
<1> HIDE DEF x
<1>5. y \in Seq(Messages)
  BY <1>1, <1>2, ConcatFacts
<1>6. CASE enc'.msgs = Append(enc.msgs, m) /\ queue' = queue
  <2>1. Line' = z \o Append(enc.msgs, m)
    BY <1>4, <1>6
  <2> HIDE DEF y
  <2>2. z \in Seq(Messages)
    BY <1>1, <1>5, ConcatFacts
  <2> HIDE DEF z
  <2> DEFINE e == enc.msgs
  <2>3. e \in Seq(Messages) /\ Line = z \o e /\ Line' = z \o Append(e, m)
    BY <1>1, <1>3, <2>1
  <2> HIDE DEF e
  <2>4. z \o Append(e, m) = Append(z \o e, m)
    BY <2>2, <2>3, AppendGoesOut, SMTT(30)
  <2> QED  BY <2>3, <2>4
<1>7. CASE /\ queue'.msgs = Append(queue.msgs, m)
           /\ batch = <<>> /\ enc.msgs = <<>> /\ enc' = enc
  <2>1. Line' = ((x \o Append(queue.msgs, m)) \o <<>>) \o <<>>
    BY <1>4, <1>7
  <2>2. x \o Append(queue.msgs, m) = Append(y, m)
    <3> DEFINE q == queue.msgs
    <3>1. q \in Seq(Messages)
      BY <1>1
    <3> HIDE DEF q
    <3>2. x \o Append(q, m) = Append(x \o q, m)
      BY <1>2, <3>1, AppendGoesOut, SMTT(30)
    <3> QED  BY <3>2 DEF q
  <2>3. Line = (y \o <<>>) \o <<>>
    BY <1>3, <1>7
  <2> HIDE DEF y
  <2>4. Append(y, m) \in Seq(Messages)
    BY <1>5, SMTT(30)
  <2>5. (y \o <<>>) \o <<>> = y
    BY <1>5, ConcatFacts
  <2>6. (Append(y, m) \o <<>>) \o <<>> = Append(y, m)
    BY <2>4, ConcatFacts
  <2> QED  BY <2>1, <2>2, <2>3, <2>5, <2>6
<1> QED  BY <1>6, <1>7

(* Threads that have nothing to do with the line, and the ones that move   *)
(* messages within it, leave it as it is.                                  *)
LEMMA LineStays ==
  ASSUME IInv, Shape, Stations, Next, client' \in {"none", "open"},
         \A p \in Publishers : ~PushOrGetClosedPayload(p) /\ ~QueuePush(p)
  PROVE  Line' = Line
<1> USE ThreadNames DEF object, history
<1> DEFINE parts == <<seen, buffer, credit, queue, batch, enc>>
<1>1. ASSUME UNCHANGED parts PROVE Line' = Line
  BY <1>1 DEF Line
<1>2. ASSUME NEW p \in Publishers, PublishNext(p) \/ Consume(p)
      PROVE  Line' = Line
  BY <1>1, <1>2 DEF PublishNext, Consume
<1>3. ASSUME NEW t \in Callers, CallStep(t) PROVE Line' = Line
  BY <1>1, <1>3 DEF CallStep, Call, Return, Leave
<1>4. CASE Complete \/ Drop \/ Join \/ Joined \/ Abandon \/ EstablishStream
           \/ FirstResponse \/ RunTask \/ Close
  BY <1>1, <1>4 DEF Complete, Drop, Join, Joined, Abandon, EstablishStream,
     FirstResponse, RunTask, Close
<1>5. CASE Cancel \/ CloseQueue \/ ProcessEnd
  BY <1>5 DEF Cancel, CloseQueue, ProcessEnd, IInv, ClientInv
<1>6. Line = LineOf(seen, buffer, credit.buf, queue.msgs, batch, enc.msgs)
  BY LineTypes
<1>7. Line'
        = LineOf(seen', buffer', credit'.buf, queue'.msgs, batch', enc'.msgs)
  BY DEF Line, LineOf
<1> DEFINE c == credit.buf
           q == queue.msgs
           e == enc.msgs
<1>0. /\ seen \in Seq(Messages) /\ buffer \in Seq(Messages)
      /\ c \in Seq(Messages) /\ q \in Seq(Messages)
      /\ batch \in Seq(Messages) /\ e \in Seq(Messages)
  BY LineTypes
<1>8. CASE Exchange
  <2>1. /\ batch = <<>> /\ batch' = enc.msgs /\ enc'.msgs = <<>>
        /\ UNCHANGED <<seen, buffer, credit, queue>>
    BY <1>8 DEF Exchange, Stations, EmptyQueue
  <2>2. LineOf(seen, buffer, c, q, e, <<>>)
          = LineOf(seen, buffer, c, q, <<>>, e)
    BY <1>0, LineExchanged, SMTT(30)
  <2> QED  BY <1>6, <1>7, <2>1, <2>2
<1>9. CASE CloseIfEmpty
  <2>1. enc'.msgs = enc.msgs /\ UNCHANGED <<seen, buffer, credit, queue, batch>>
    BY <1>9, SMTT(30) DEF CloseIfEmpty, Shape, ClosedQueue
  <2> QED  BY <1>6, <1>7, <2>1
<1>10. CASE Flush
  <2>0. batch # <<>>
    BY <1>10 DEF Flush, Stations
  <2>1. ~IsClosed(queue)
    BY <1>10 DEF Flush, IInv, ClientInv
  <2>2. /\ batch' = Tail(batch) /\ queue'.msgs = Append(queue.msgs, Head(batch))
        /\ UNCHANGED <<seen, buffer, credit, enc>>
    BY <1>10, <2>1 DEF Flush, Push
  <2> HIDE DEF c, q, e
  <2>3. LineOf(seen, buffer, c, Append(q, Head(batch)), Tail(batch), e)
          = LineOf(seen, buffer, c, q, batch, e)
    BY <1>0, <2>0, LineFlushed, SMTT(30)
  <2> QED  BY <1>6, <1>7, <2>1, <2>2, <2>3 DEF c, q, e
<1>11. ASSUME NEW n \in 1..MaxGrants, RequestN(n) PROVE Line' = Line
  <2>1. buffer = <<>> /\ UNCHANGED <<seen, queue, batch, enc>>
    BY <1>11 DEF RequestN, OnEvb, Stations
  <2>2. CASE HasCredit
    BY <1>6, <1>7, <1>11, <2>1, <2>2 DEF RequestN, Shape
  <2>3. CASE ~HasCredit
    <3>1. buffer' = credit.buf /\ credit'.buf = <<>>
      BY <1>11, <2>3, SMTT(30) DEF RequestN
    <3>2. LineOf(seen, c, <<>>, q, batch, e)
            = LineOf(seen, <<>>, c, q, batch, e)
      BY <1>0, LineWaits, SMTT(30)
    <3> QED  BY <1>6, <1>7, <2>1, <3>1, <3>2
  <2> QED  BY <2>2, <2>3
<1>12. CASE ProcessItem
  <2>1. /\ buffer # <<>> /\ seen' = Append(seen, Head(buffer))
        /\ buffer' = Tail(buffer) /\ credit'.buf = credit.buf
        /\ UNCHANGED <<queue, batch, enc>>
    BY <1>12 DEF ProcessItem, Shape
  <2>2. LineOf(Append(seen, Head(buffer)), Tail(buffer), c, q, batch, e)
          = LineOf(seen, buffer, c, q, batch, e)
    BY <1>0, <2>1, LineSeen, SMTT(30)
  <2> QED  BY <1>6, <1>7, <2>1, <2>2
<1>13. CASE WaitForMore
  <2>1. /\ queue'.msgs = queue.msgs
        /\ UNCHANGED <<seen, buffer, credit, batch, enc>>
    BY <1>13 DEF WaitForMore, Wait, Shape, Queues
  <2> QED  BY <1>6, <1>7, <2>1
<1>14. CASE GetMessages
  <2>1. /\ buffer = <<>> /\ credit.buf = <<>> /\ ~IsClosed(queue)
    BY <1>14 DEF GetMessages, Stations, IInv, ClientInv, WakeupInv, Processing
  <2>2. /\ buffer' = queue.msgs /\ queue'.msgs = <<>>
        /\ UNCHANGED <<seen, credit, batch, enc>>
    BY <1>14, <2>1 DEF GetMessages, Taken, EmptyQueue
  <2>3. LineOf(seen, q, <<>>, <<>>, batch, e)
          = LineOf(seen, <<>>, <<>>, q, batch, e)
    BY <1>0, LineGot, SMTT(30)
  <2> QED  BY <1>6, <1>7, <2>1, <2>2, <2>3
<1>15. CASE OutOfCredit
  <2>1. credit.buf = <<>> /\ UNCHANGED <<seen, queue, batch, enc>>
    BY <1>15 DEF OutOfCredit, Stations, Processing
  <2>2. credit'.buf = buffer /\ buffer' = <<>>
    BY <1>15, <2>1 DEF OutOfCredit
  <2>3. LineOf(seen, <<>>, buffer, q, batch, e)
          = LineOf(seen, buffer, <<>>, q, batch, e)
    BY <1>0, LineWaits, SMTT(30)
  <2> QED  BY <1>6, <1>7, <2>1, <2>2, <2>3
<1> QED
  BY <1>2, <1>3, <1>4, <1>5, <1>8, <1>9, <1>10, <1>11, <1>12, <1>13, <1>14,
     <1>15 DEF Next, PublishStep, EstablishStep, EvbStep

-----------------------------------------------------------------------------
(* The order is kept when nobody begins to publish and nothing is put in   *)
(* line.                                                                   *)
LEMMA OrderStays ==
  ASSUME InOrder, Line' = Line, sent' = sent, cur' = cur, handle' = handle,
         \A p \in Publishers : pc'[p] \in {"push", "queue"}
                               <=> pc[p] \in {"push", "queue"},
         client' \in {"none", "open"} => client \in {"none", "open"}
  PROVE  InOrder'
<1>1. \A p \in Publishers : Pending(p)' <=> Pending(p)
  BY DEF Pending
<1>2. Number' = Number
  BY <1>1 DEF Number, Holds
<1>3. Completer \in Publishers
  BY PublisherAssumption
<1> QED  BY <1>1, <1>2, <1>3 DEF InOrder

(* What is in line when nothing is: everything that was published is in    *)
(* the hands of its publisher.                                             *)
LEMMA NumberType ==
  ASSUME Shape, InOrder, client \in {"none", "open"}
  PROVE  /\ Number \in [Publishers -> Nat]
         /\ \A p \in Publishers : Number[p] = sent[p] - Holds(Pending(p))
<1>1. ASSUME NEW p \in Publishers PROVE sent[p] - Holds(Pending(p)) \in Nat
  <2>1. CASE Pending(p)
    <3>1. cur[p] = <<p, sent[p]>> /\ cur[p] \in Messages /\ cur[p] # End
      BY <2>1 DEF InOrder, Shape, Pending
    <3>2. sent[p] \in 1..Items[p] /\ Items[p] \in Nat
      BY <3>1, MessageFacts, PublisherAssumption
    <3> QED  BY <2>1, <3>2, SMTT(30) DEF Holds
  <2>2. CASE ~Pending(p)
    BY <2>2, SMTT(30) DEF Holds, Shape
  <2> QED  BY <2>1, <2>2
<1> QED  BY <1>1 DEF Number

(* A publisher puts what it has in its hands at the end of the line.       *)
LEMMA OrderGrows ==
  ASSUME IInv, Shape, InOrder, client \in {"none", "open"},
         NEW p \in Publishers, pc[p] \in {"push", "queue"},
         Line' = Append(Line, cur[p]), sent' = sent, cur' = cur,
         handle' = handle, client' = client,
         pc'[p] \notin {"push", "queue"},
         \A r \in Publishers \ {p} : pc'[r] = pc[r]
  PROVE  InOrder'
<1>1. /\ Line \in Seq(Messages) /\ Completer \in Publishers
      /\ cur[p] \in Messages /\ sent[p] \in Nat
  BY LineTypes, PublisherAssumption DEF Shape
<1>2. /\ ~Pending(p)'
      /\ \A r \in Publishers \ {p} : Pending(r)' <=> Pending(r)
  BY DEF Pending
<1>3. /\ Number \in [Publishers -> Nat]
      /\ \A r \in Publishers : Number[r] = sent[r] - Holds(Pending(r))
  BY NumberType
<1>4. /\ \A r \in Publishers : Number'[r] = sent[r] - Holds(Pending(r)')
      /\ DOMAIN Number' = Publishers
  BY DEF Number, Holds
<1>5. \A r \in Publishers \ {p} : Number'[r] = Number[r]
  BY <1>2, <1>3, <1>4 DEF Holds
<1>6. InLine(Line, Number)
  BY DEF InOrder
<1>7. CASE cur[p] = End
  <2>1. handle = "completed" /\ p = Completer
    BY <1>7 DEF IInv, PublisherInv, Places
  <2>2. NoEnd(Line)
    BY <2>1 DEF InOrder
  <2>3. InLine(Line', Number)
    BY <1>1, <1>6, <1>7, <2>2, LineEnds
  <2>4. Number'[p] = Number[p]
    BY <1>2, <1>3, <1>4, <1>7 DEF Holds, Pending
  <2>5. Number' = Number
    <3>1. \A r \in Publishers : Number'[r] = Number[r]
      BY <1>5, <2>4
    <3> QED  BY <1>3, <3>1 DEF Number
  <2> QED  BY <1>2, <2>1, <2>3, <2>5 DEF InOrder
<1>8. CASE cur[p] # End
  <2>1. Pending(p) /\ cur[p] = <<p, sent[p]>>
    BY <1>8 DEF Pending, InOrder
  <2>2. NoEnd(Line)
    <3>1. handle = "completed" => p = Completer
      BY DEF IInv, PublisherInv
    <3> QED  BY <3>1 DEF InOrder
  <2>3. Number[p] = sent[p] - 1 /\ Number'[p] = sent[p]
    BY <1>1, <1>2, <1>3, <1>4, <2>1, SMTT(30) DEF Holds
  <2>4. Number' \in [Publishers -> Nat] /\ Number'[p] = Number[p] + 1
    <3>1. \A r \in Publishers : Number'[r] \in Nat
      BY <1>1, <1>3, <1>5, <2>3
    <3> QED  BY <1>1, <2>3, <3>1, SMTT(30) DEF Number
  <2>5. InLine(Line', Number') /\ NoEnd(Line')
    <3> DEFINE N == Number
               M == Number'
    <3>1. /\ N \in [Publishers -> Nat] /\ M \in [Publishers -> Nat]
          /\ InLine(Line, N)
      BY <1>3, <1>6, <2>4
    <3>2. M[p] = N[p] + 1 /\ \A r \in Publishers \ {p} : M[r] = N[r]
      BY <1>5, <2>4
    <3>3. <<p, M[p]>> \in Messages /\ Line' = Append(Line, <<p, M[p]>>)
      BY <1>1, <2>1, <2>3
    <3> HIDE DEF N, M
    <3>4. /\ InLine(Append(Line, <<p, M[p]>>), M)
          /\ NoEnd(Append(Line, <<p, M[p]>>))
      BY <1>1, <2>2, <3>1, <3>2, <3>3, LineItem
    <3> QED  BY <3>3, <3>4 DEF M
  <2> QED  BY <1>2, <2>5 DEF InOrder
<1> QED  BY <1>7, <1>8

(* Every step keeps the order.                                             *)
LEMMA OrderStep ==
  ASSUME IInv, Shape, Stations, InOrder, Next
  PROVE  InOrder'
<1> USE ThreadNames DEF object, history
<1>0. SUFFICES ASSUME client' \in {"none", "open"} PROVE InOrder'
  BY DEF InOrder
<1>1. client \in {"none", "open"}
  <2>1. \/ client' = client \/ client = "none"
        \/ client' \in {"ended", "cancelled"}
    BY DEF Next, PublishNext, PublishStep, PushOrGetClosedPayload, QueuePush,
       Consume, Complete, Drop, Join, Joined, CallStep, Call, Return, Leave,
       Abandon, EstablishStream, EstablishStep, Exchange, CloseIfEmpty, Flush,
       FirstResponse, RequestN, EvbStep, RunTask, ProcessItem, ProcessEnd,
       WaitForMore, GetMessages, OutOfCredit, CloseQueue, Close, Cancel, IInv,
       ClientInv
  <2> QED  BY <1>0, <2>1
<1>2. DOMAIN pc = Threads /\ DOMAIN cur = Publishers
  BY DEF IInv, Places
<1>3. ASSUME NEW p \in Publishers, PushOrGetClosedPayload(p) PROVE InOrder'
  <2>1. /\ pc[p] = "push" /\ UNCHANGED <<sent, cur, handle, client>>
        /\ cur[p] \in Messages
    BY <1>3 DEF PushOrGetClosedPayload, Shape
  <2>2. CASE IsClosed(enc)
    <3>1. Line' = Line
      BY <1>3, <2>2 DEF PushOrGetClosedPayload, Push, Line
    <3>2. pc'[p] = "queue" /\ \A r \in Publishers \ {p} : pc'[r] = pc[r]
      BY <1>2, <1>3, <2>2 DEF PushOrGetClosedPayload, Goto
    <3> QED  BY <1>1, <2>1, <3>1, <3>2, OrderStays
  <2>3. CASE ~IsClosed(enc)
    <3>1. /\ enc'.msgs = Append(enc.msgs, cur[p])
          /\ UNCHANGED <<seen, buffer, credit, queue, batch>>
      BY <1>3, <2>3 DEF PushOrGetClosedPayload, Push
    <3>2. Line' = Append(Line, cur[p])
      BY <2>1, <3>1, LineGrows
    <3>3. /\ pc'[p] \in {"call", "out"}
          /\ \A r \in Publishers \ {p} : pc'[r] = pc[r]
      BY <1>2, <1>3, <2>3 DEF PushOrGetClosedPayload, Published, Goto
    <3> QED  BY <1>1, <2>1, <3>2, <3>3, OrderGrows
  <2> QED  BY <2>2, <2>3
<1>4. ASSUME NEW p \in Publishers, QueuePush(p) PROVE InOrder'
  <2>1. /\ pc[p] = "queue" /\ UNCHANGED <<sent, cur, handle, client>>
        /\ cur[p] \in Messages
    BY <1>4 DEF QueuePush, Shape
  <2>2. IsClosed(enc) /\ ~IsClosed(queue)
    BY <1>1, <2>1 DEF Stations, IInv, ClientInv
  <2>3. enc.msgs = <<>> /\ batch = <<>>
    BY <2>2 DEF Stations, Shape, IsClosed
  <2>4. /\ queue'.msgs = Append(queue.msgs, cur[p])
        /\ UNCHANGED <<seen, buffer, credit, enc, batch>>
    BY <1>4, <2>2 DEF QueuePush, Push
  <2>5. Line' = Append(Line, cur[p])
    BY <2>1, <2>3, <2>4, LineGrows
  <2>6. /\ pc'[p] \in {"wake", "call", "out"}
        /\ \A r \in Publishers \ {p} : pc'[r] = pc[r]
    BY <1>2, <1>4 DEF QueuePush, Published, Goto
  <2> QED  BY <1>1, <2>1, <2>5, <2>6, OrderGrows
<1>5. ASSUME Next,
             \A p \in Publishers : ~PushOrGetClosedPayload(p) /\ ~QueuePush(p)
      PROVE  Line' = Line
  BY <1>0, <1>5, LineStays
<1>6. ASSUME NEW p \in Publishers, PublishNext(p) PROVE InOrder'
  <2>1. Line' = Line
    BY <1>6 DEF PublishNext, Line
  <2>2. /\ pc[p] = "out" /\ pc'[p] = "push" /\ handle = "held"
        /\ cur'[p] = <<p, sent[p] + 1>> /\ sent'[p] = sent[p] + 1
        /\ \A r \in Publishers \ {p} :
             pc'[r] = pc[r] /\ cur'[r] = cur[r] /\ sent'[r] = sent[r]
        /\ handle' = handle /\ sent[p] \in Nat
    BY <1>2, <1>6 DEF PublishNext, Goto, Shape
  <2>3. /\ ~Pending(p) /\ Pending(p)'
        /\ \A r \in Publishers \ {p} : Pending(r)' <=> Pending(r)
    BY <2>2, SMTT(30) DEF Pending, End
  <2>4. Number' = Number
    <3>1. \A r \in Publishers :
            sent'[r] - Holds(Pending(r)') = sent[r] - Holds(Pending(r))
      BY <2>2, <2>3, SMTT(30) DEF Holds
    <3> QED  BY <3>1 DEF Number, Holds
  <2>5. NoEnd(Line) /\ InLine(Line, Number)
    BY <1>1, <2>2 DEF InOrder
  <2>6. \A r \in Publishers : Pending(r)' => cur'[r] = <<r, sent'[r]>>
    BY <1>1, <2>2, <2>3 DEF InOrder
  <2> QED  BY <2>1, <2>4, <2>5, <2>6 DEF InOrder
<1>7. CASE Complete
  <2>1. Line' = Line
    BY <1>7 DEF Complete, Line
  <2>2. /\ handle = "held" /\ sent' = sent
        /\ \A r \in Publishers : pc[r] = "out"
        /\ cur'[Completer] = End
        /\ \A r \in Publishers \ {Completer} : pc'[r] = pc[r]
    BY <1>2, <1>7 DEF Complete, Idle, Goto
  <2>3. \A r \in Publishers : ~Pending(r) /\ ~Pending(r)'
    BY <2>2 DEF Pending
  <2>4. Number' = Number
    BY <2>2, <2>3 DEF Number, Holds
  <2>5. NoEnd(Line) /\ InLine(Line, Number)
    BY <1>1, <2>2 DEF InOrder
  <2> QED  BY <2>1, <2>3, <2>4, <2>5 DEF InOrder
<1>8. ASSUME NEW p \in Publishers, Consume(p) PROVE InOrder'
  <2>1. /\ pc'[p] \notin {"push", "queue"} /\ pc[p] = "wake"
        /\ \A r \in Publishers \ {p} : pc'[r] = pc[r]
    BY <1>2, <1>8 DEF Consume, Published, Goto
  <2> QED  BY <1>1, <1>8, <2>1, OrderStays DEF Consume, Line
<1>9. ASSUME NEW t \in Callers, CallStep(t) PROVE InOrder'
  <2>1. /\ pc'[t] \notin {"push", "queue"} /\ pc[t] \notin {"push", "queue"}
        /\ \A r \in Publishers \ {t} : pc'[r] = pc[r]
    BY <1>2, <1>9 DEF CallStep, Call, Return, Leave, Goto
  <2> QED
    BY <1>1, <1>9, <2>1, OrderStays DEF CallStep, Call, Return, Leave, Line
<1>10. CASE Join \/ Joined
  <2>1. /\ pc'[Completer] \notin {"push", "queue"}
        /\ pc[Completer] \notin {"push", "queue"}
        /\ \A r \in Publishers \ {Completer} : pc'[r] = pc[r]
    BY <1>2, <1>10 DEF Join, Joined, Goto
  <2> QED  BY <1>1, <1>10, <2>1, OrderStays DEF Join, Joined, Line
<1>11. CASE Drop
  <2>1. NoEnd(Line) /\ Line' = Line /\ Number' = Number
    BY <1>1, <1>11 DEF InOrder, Drop, Line, Number, Pending
  <2> QED  BY <1>1, <1>11, <2>1 DEF Drop, InOrder, Pending
<1>12. ASSUME Abandon \/ EstablishStream \/ EstablishStep \/ FirstResponse
                \/ EvbStep \/ Cancel \/ \E n \in 1..MaxGrants : RequestN(n)
       PROVE  InOrder'
  <2>1. /\ \A r \in Publishers : pc'[r] = pc[r]
        /\ UNCHANGED <<sent, cur, handle>>
    BY <1>2, <1>12 DEF Abandon, EstablishStream, EstablishStep, Exchange,
       CloseIfEmpty, Flush, FirstResponse, EvbStep, RunTask, ProcessItem,
       ProcessEnd, WaitForMore, GetMessages, OutOfCredit, CloseQueue, Close,
       Cancel, RequestN, ProcessReturns, Goto
  <2>2. \A p \in Publishers : ~PushOrGetClosedPayload(p) /\ ~QueuePush(p)
    BY <1>2, <2>1, SMTT(30)
    DEF PushOrGetClosedPayload, QueuePush, Published, Goto
  <2> QED  BY <1>1, <1>5, <2>1, <2>2, OrderStays
<1> QED
  BY <1>3, <1>4, <1>6, <1>7, <1>8, <1>9, <1>10, <1>11, <1>12
  DEF Next, PublishStep

-----------------------------------------------------------------------------
(* The messages of a stream are in order, to begin with ...                *)
LEMMA InitDInv == Init => DInv
<1> SUFFICES ASSUME Init PROVE DInv
  OBVIOUS
<1> USE DEF Init
<1>1. Shape
  <2>1. /\ enc \in Queues(Messages) /\ queue \in Queues(Messages)
        /\ enc.type = "EMPTY" /\ enc.msgs = <<>> /\ queue.msgs = <<>>
    BY SMTT(30) DEF EmptyQueue, Queues
  <2>2. pc \in [Threads -> Steps] /\ cur \in [Publishers -> Messages]
    BY MessageFacts DEF Steps
  <2>3. credit \in [isSet : BOOLEAN, val : 0..MaxGrants, buf : Seq(Messages)]
    <3>1. 0 \in 0..MaxGrants /\ <<>> \in Seq(Messages) /\ TRUE \in BOOLEAN
      BY PublisherAssumption, SMTT(30)
    <3> QED  BY <3>1, ZenonT(30)
  <2> QED  BY <2>1, <2>2, <2>3, PublisherAssumption, SMTT(30) DEF Shape
<1>2. Stations
  BY ThreadNames, SMTT(30) DEF Stations, EmptyQueue, IsClosed, Processing
<1>3. InOrder
  <2>1. Line = <<>>
    BY SMTT(30) DEF Line, EmptyQueue
  <2>2. \A p \in Publishers : ~Pending(p)
    BY ThreadNames DEF Pending
  <2>3. \A p \in Publishers : Number[p] = 0
    BY <2>2, SMTT(30) DEF Number, Holds
  <2> HIDE DEF Init
  <2>4. InLine(Line, Number) /\ NoEnd(Line)
    <3>1. 1..Len(Line) = {}
      BY <2>1, SMTT(30)
    <3>2. \A p \in Publishers : 1..Number[p] = {}
      BY <2>3, SMTT(30)
    <3> QED  BY <3>1, <3>2 DEF InLine, NoEnd
  <2> QED  BY <2>2, <2>4 DEF InOrder
<1> QED  BY <1>1, <1>2, <1>3 DEF DInv

(* ... and after every step.                                               *)
LEMMA AlwaysDInv == Spec => [](IInv /\ DInv)
<1>1. IInv /\ DInv /\ [Next]_vars => DInv'
  <2> SUFFICES ASSUME IInv, DInv, [Next]_vars PROVE DInv'
    OBVIOUS
  <2>1. CASE Next
    BY <2>1, ShapeStep, StationsStep, OrderStep DEF DInv
  <2>2. CASE UNCHANGED vars
    <3>1. Shape' /\ Stations'
      BY <2>2 DEF vars, object, history, DInv, Shape, Stations, Processing
    <3>2. InOrder'
      BY <2>2, OrderStays DEF vars, object, history, DInv, Line
    <3> QED  BY <3>1, <3>2 DEF DInv
  <2> QED  BY <2>1, <2>2
<1> QED  BY <1>1, AlwaysIInv, InitDInv, PTL DEF Spec

(* The asserts of processPayloads hold, whatever the publishers, the       *)
(* client and the executor do: it runs with credit, on an open queue, for  *)
(* an established stream, and drops no message it has in its hands.        *)
THEOREM ProcessingAlwaysHasCredit == Spec => []ProcessingHasCredit
<1>1. IInv /\ DInv => ProcessingHasCredit
  <2> SUFFICES ASSUME IInv, Shape, Stations PROVE ProcessingHasCredit
    BY DEF DInv
  <2>1. TypeOK
    <3>1. refs \in Nat
      BY SMTT(30) DEF IInv, OwnersCounted, Holds, WakeupInv
    <3>2. runs \in 0..1
      BY SMTT(30) DEF IInv, CallbackInv, Places
    <3> QED
      BY <3>1, <3>2
      DEF IInv, Places, WakeupInv, Shape, Stations, Steps, TypeOK
  <2>2. tasks > 0 => HasCredit \/ IsClosed(queue) \/ client = "cancelled"
    BY SMTT(30) DEF IInv, WakeupInv
  <2>3. Processing => client = "open" /\ ~IsClosed(queue) /\ IsClosed(enc)
    BY DEF IInv, WakeupInv, ClientInv, Stations
  <2>4. pc["evb"] = "get" => buffer = <<>>
    BY DEF Stations
  <2> QED  BY <2>1, <2>2, <2>3, <2>4 DEF ProcessingHasCredit, Processing
<1> QED  BY <1>1, AlwaysDInv, PTL

-----------------------------------------------------------------------------
(* A sequence begins with what others are put behind.                      *)
LEMMA ConcatBegins ==
  ASSUME NEW S, NEW a \in Seq(S), NEW b \in Seq(S), NEW i \in 1..Len(a)
  PROVE  (a \o b)[i] = a[i] /\ i \in 1..Len(a \o b)
BY SMTT(30)

(* What the client has seen is the beginning of the line, and the message  *)
(* that processPayloads is about to handle comes next.                     *)
LEMMA LineBegins ==
  ASSUME NEW s \in Seq(Messages), NEW b \in Seq(Messages),
         NEW c \in Seq(Messages), NEW q \in Seq(Messages),
         NEW t \in Seq(Messages), NEW e \in Seq(Messages),
         NEW i \in 1..Len(s \o b)
  PROVE  /\ LineOf(s, b, c, q, t, e)[i] = (s \o b)[i]
         /\ i \in 1..Len(LineOf(s, b, c, q, t, e))
<1> DEFINE v == s \o b
<1> DEFINE x == v \o c
<1> DEFINE y == x \o q
<1> DEFINE z == y \o t
<1>1. v \in Seq(Messages)
  BY ConcatFacts
<1> HIDE DEF v
<1>2. x \in Seq(Messages) /\ x[i] = v[i] /\ i \in 1..Len(x)
  BY <1>1, ConcatFacts, ConcatBegins, SMTT(30) DEF v
<1> HIDE DEF x
<1>3. y \in Seq(Messages) /\ y[i] = x[i] /\ i \in 1..Len(y)
  BY <1>2, ConcatFacts, ConcatBegins, SMTT(30)
<1> HIDE DEF y
<1>4. z \in Seq(Messages) /\ z[i] = y[i] /\ i \in 1..Len(z)
  BY <1>3, ConcatFacts, ConcatBegins, SMTT(30)
<1> HIDE DEF z
<1>5. (z \o e)[i] = z[i] /\ i \in 1..Len(z \o e)
  BY <1>4, ConcatBegins
<1>6. LineOf(s, b, c, q, t, e) = z \o e
  BY DEF LineOf, v, x, y, z
<1> QED  BY <1>2, <1>3, <1>4, <1>5, <1>6 DEF v

(* So the line begins with what was seen, and then the next message.       *)
LEMMA NextInLine ==
  ASSUME Shape, buffer # <<>>
  PROVE  /\ Len(seen) + 1 \in 1..Len(Line)
         /\ Line[Len(seen) + 1] = Head(buffer)
         /\ \A i \in 1..Len(seen) : i \in 1..Len(Line) /\ Line[i] = seen[i]
<1> DEFINE c == credit.buf
<1> DEFINE q == queue.msgs
<1> DEFINE e == enc.msgs
<1>1. /\ seen \in Seq(Messages) /\ buffer \in Seq(Messages)
      /\ c \in Seq(Messages) /\ q \in Seq(Messages)
      /\ batch \in Seq(Messages) /\ e \in Seq(Messages)
      /\ Line = LineOf(seen, buffer, c, q, batch, e)
  BY LineTypes
<1> HIDE DEF c, q, e
<1>2. \A i \in 1..Len(seen \o buffer) :
        Line[i] = (seen \o buffer)[i] /\ i \in 1..Len(Line)
  <2> SUFFICES ASSUME NEW i \in 1..Len(seen \o buffer)
               PROVE  Line[i] = (seen \o buffer)[i] /\ i \in 1..Len(Line)
    OBVIOUS
  <2>1. /\ LineOf(seen, buffer, c, q, batch, e)[i] = (seen \o buffer)[i]
        /\ i \in 1..Len(LineOf(seen, buffer, c, q, batch, e))
    BY <1>1, LineBegins, ZenonT(30)
  <2> QED  BY <1>1, <2>1, ZenonT(30)
<1>3. /\ Len(seen) \in Nat /\ Len(buffer) \in Nat /\ Len(buffer) >= 1
      /\ Head(buffer) = buffer[1] /\ 1 \in 1..Len(buffer)
  BY <1>1, SMTT(30)
<1>4. /\ Len(seen \o buffer) = Len(seen) + Len(buffer)
      /\ \A i \in 1..Len(seen) : (seen \o buffer)[i] = seen[i]
      /\ (seen \o buffer)[Len(seen) + 1] = buffer[1]
  BY <1>1, <1>3, ConcatFacts, SMTT(30)
<1>5. /\ Len(seen) + 1 \in 1..Len(seen \o buffer)
      /\ \A i \in 1..Len(seen) : i \in 1..Len(seen \o buffer)
  BY <1>3, <1>4, SMTT(30)
<1> QED  BY <1>2, <1>3, <1>4, <1>5

(* The items before number m of publisher p, and no others of p, have been *)
(* given to the client when m comes next.                                  *)
LEMMA ArrivedBefore ==
  ASSUME Shape, InOrder, client = "open", buffer # <<>>, Head(buffer) # End
  PROVE  \E p \in Publishers : \E m \in 1..sent[p] :
           Head(buffer) = <<p, m>> /\ Contract!Arrived(p) = 1..(m - 1)
<1> DEFINE l == Line
<1> DEFINE h == Len(seen) + 1
<1> DEFINE n == Number
<1>0. PICK p \in Publishers : \E m \in 1..Items[p] : Head(buffer) = <<p, m>>
  <2>1. Head(buffer) \in Messages
    BY SMTT(30) DEF Shape
  <2> QED  BY <2>1, MessageFacts
<1>1. PICK m \in 1..Items[p] : Head(buffer) = <<p, m>>
  BY <1>0
<1>2. /\ h \in 1..Len(l) /\ l[h] = <<p, m>> /\ l[h] # End
      /\ \A i \in 1..Len(seen) : i \in 1..Len(l) /\ l[i] = seen[i]
  BY <1>1, NextInLine
<1>3. /\ Len(seen) \in Nat /\ DOMAIN seen = 1..Len(seen) /\ Len(l) \in Nat
      /\ sent[p] \in Nat /\ seen \in Seq(Messages)
  <2>1. seen \in Seq(Messages) /\ l \in Seq(Messages)
    BY LineTypes
  <2>2. sent[p] \in Nat
    BY DEF Shape
  <2> HIDE DEF l
  <2> QED  BY <2>1, <2>2, SMTT(30)
<1>4. n[p] \in Nat /\ n[p] <= sent[p] /\ InLine(l, n)
  <2>1. n[p] \in Nat /\ n[p] = sent[p] - Holds(Pending(p))
    BY NumberType
  <2>2. Holds(Pending(p)) = 0 \/ Holds(Pending(p)) = 1
    BY DEF Holds
  <2>3. InLine(l, n)
    BY DEF InOrder
  <2> HIDE DEF l, n
  <2>4. n[p] <= sent[p]
    BY <1>3, <2>1, <2>2, SMTT(30)
  <2> QED  BY <2>1, <2>3, <2>4
<1> HIDE DEF l, n
<1>5. m \in Nat /\ m >= 1 /\ l[h][1] = p /\ l[h][2] = m
  BY <1>2, PublisherAssumption, SMTT(30)
<1>6. m <= n[p]
  BY <1>2, <1>5, <1>4 DEF InLine
<1>7. ASSUME NEW i \in 1..Len(seen), NEW k \in Nat, seen[i] = <<p, k>>
      PROVE  k < m
  <2>1. i \in 1..Len(l) /\ l[i] = <<p, k>> /\ i < h
    BY <1>2, <1>3, <1>7, SMTT(30)
  <2>2. l[i][1] = p /\ l[i][2] = k
    BY <2>1, SMTT(30)
  <2> QED  BY <1>2, <1>4, <1>5, <2>1, <2>2 DEF InLine
<1>8. ASSUME NEW k \in 1..(m - 1)
      PROVE  \E i \in 1..Len(seen) : seen[i] = <<p, k>>
  <2>1. k \in 1..n[p] /\ k < m
    BY <1>4, <1>5, <1>6, SMTT(30)
  <2>2. PICK i \in 1..Len(l) : l[i] = <<p, k>>
    BY <1>4, <2>1 DEF InLine
  <2>3. l[i] # End /\ l[i][1] = p /\ l[i][2] = k
    BY <2>2, SMTT(30) DEF End
  <2>4. ~(h < i)
    BY <1>2, <1>4, <1>5, <2>1, <2>3, SMTT(30) DEF InLine
  <2>5. i # h
    BY <1>5, <2>1, <2>3, SMTT(30)
  <2>6. i \in 1..Len(seen)
    BY <1>2, <1>3, <2>4, <2>5, SMTT(30)
  <2> QED  BY <1>2, <2>2, <2>6
<1> HIDE DEF h
<1>9. Contract!Arrived(p) = 1..(m - 1)
  <2>1. \A k \in 1..sent[p] :
          (\E i \in DOMAIN seen : seen[i] = <<p, k>>) => k \in 1..(m - 1)
    BY <1>3, <1>5, <1>7, SMTT(30)
  <2>2. \A k \in 1..(m - 1) : k \in 1..sent[p]
    BY <1>3, <1>4, <1>5, <1>6, SMTT(30)
  <2>3. \A k \in 1..(m - 1) : \E i \in DOMAIN seen : seen[i] = <<p, k>>
    BY <1>3, <1>8, ZenonT(30)
  <2> QED  BY <2>1, <2>2, <2>3, ZenonT(30) DEF Contract!Arrived
<1>10. m \in 1..sent[p]
  BY <1>3, <1>4, <1>5, <1>6, SMTT(30)
<1> QED  BY <1>1, <1>9, <1>10

(* When the end comes next, every item has been given to the client.       *)
LEMMA ArrivedAll ==
  ASSUME Shape, InOrder, client = "open", buffer # <<>>, Head(buffer) = End
  PROVE  /\ handle = "completed"
         /\ \A p \in Publishers : Contract!Arrived(p) = 1..Number[p]
<1> DEFINE l == Line
<1> DEFINE h == Len(seen) + 1
<1> DEFINE n == Number
<1>1. /\ h \in 1..Len(l) /\ l[h] = End
      /\ \A i \in 1..Len(seen) : i \in 1..Len(l) /\ l[i] = seen[i]
  BY NextInLine
<1>2. /\ Len(seen) \in Nat /\ DOMAIN seen = 1..Len(seen) /\ Len(l) \in Nat
      /\ sent \in [Publishers -> Nat] /\ seen \in Seq(Messages)
  BY LineTypes, SMTT(30) DEF Shape
<1>3. /\ \A p \in Publishers : n[p] \in Nat /\ n[p] <= sent[p]
      /\ InLine(l, n)
  BY <1>2, NumberType, SMTT(30) DEF InOrder, Holds
<1>4. handle = "completed"
  BY <1>1 DEF InOrder, NoEnd
<1> HIDE DEF l, n
<1>5. \A i \in 1..Len(l) : i = h \/ i \in 1..Len(seen)
  <2> SUFFICES ASSUME NEW i \in 1..Len(l), i # h PROVE i \in 1..Len(seen)
    OBVIOUS
  <2>1. ~(h < i)
    BY <1>1, <1>3 DEF InLine
  <2> QED  BY <1>1, <1>2, <2>1, SMTT(30)
<1> HIDE DEF h
<1>6. ASSUME NEW p \in Publishers PROVE Contract!Arrived(p) = 1..n[p]
  <2>1. ASSUME NEW i \in 1..Len(seen), NEW k \in Nat, seen[i] = <<p, k>>
        PROVE  k <= n[p]
    <3>1. l[i] = <<p, k>> /\ i \in 1..Len(l) /\ <<p, k>> # End
      BY <1>1, <2>1 DEF End
    <3>2. l[i][1] = p /\ l[i][2] = k
      BY <3>1, SMTT(30)
    <3> QED  BY <1>3, <3>1, <3>2 DEF InLine
  <2>2. ASSUME NEW k \in 1..n[p]
        PROVE  \E i \in 1..Len(seen) : seen[i] = <<p, k>>
    <3>1. PICK i \in 1..Len(l) : l[i] = <<p, k>>
      BY <1>3 DEF InLine
    <3>2. l[i] # End
      BY <3>1, SMTT(30) DEF End
    <3> QED  BY <1>1, <1>5, <3>1, <3>2
  <2>3. \A k \in 1..sent[p] :
          (\E i \in DOMAIN seen : seen[i] = <<p, k>>) => k \in 1..n[p]
    <3> SUFFICES ASSUME NEW k \in 1..sent[p],
                        NEW i \in DOMAIN seen, seen[i] = <<p, k>>
                 PROVE  k \in 1..n[p]
      OBVIOUS
    <3>1. sent[p] \in Nat /\ n[p] \in Nat /\ i \in 1..Len(seen)
      BY <1>2, <1>3
    <3>2. k \in Nat /\ 1 <= k
      BY <3>1, SMTT(30)
    <3>3. k <= n[p]
      BY <2>1, <3>1, <3>2
    <3> QED  BY <3>1, <3>2, <3>3, SMTT(30)
  <2>4. \A k \in 1..n[p] : k \in 1..sent[p]
    BY <1>2, <1>3, SMTT(30)
  <2>5. \A k \in 1..n[p] : \E i \in DOMAIN seen : seen[i] = <<p, k>>
    BY <1>2, <2>2, ZenonT(30)
  <2> QED  BY <2>3, <2>4, <2>5, ZenonT(30) DEF Contract!Arrived
<1> QED  BY <1>4, <1>6 DEF n

-----------------------------------------------------------------------------
(* A stream starts as its contract says.                                   *)
LEMMA InitContract == Init => Contract!Init
BY DEF Init, Contract!Init

(* Every step is a step of the contract, or none: ...                      *)
LEMMA NextContract ==
  ASSUME IInv, DInv, [Next]_vars
  PROVE  [Contract!Next]_(Contract!vars)
<1> USE DEF Contract!vars
<1>1. ASSUME NEW p \in Publishers, PublishNext(p) PROVE Contract!Produce(p)
  BY <1>1 DEF PublishNext, Contract!Produce
<1>2. ASSUME NEW p \in Publishers, PublishStep(p)
      PROVE  UNCHANGED Contract!vars
  BY <1>2 DEF PublishStep, PushOrGetClosedPayload, QueuePush, Consume, history
<1>3. ASSUME Complete PROVE Contract!Finish
  BY <1>3 DEF Complete, Contract!Finish, history
<1>4. ASSUME Drop \/ Join \/ Joined PROVE UNCHANGED Contract!vars
  BY <1>4 DEF Drop, Join, Joined, history
<1>5. ASSUME NEW t \in Callers, CallStep(t) PROVE UNCHANGED Contract!vars
  BY <1>5 DEF CallStep, Call, Return, Leave, history
<1>6. ASSUME Abandon \/ EstablishStream \/ EstablishStep
      PROVE  UNCHANGED Contract!vars
  BY <1>6 DEF Abandon, EstablishStream, EstablishStep, Exchange, CloseIfEmpty,
              Flush, history
<1>7. ASSUME FirstResponse PROVE UNCHANGED Contract!vars
  <2>1. client = "none"
    BY <1>7 DEF FirstResponse, IInv, ClientInv
  <2> QED  BY <1>7, <2>1 DEF FirstResponse, history
<1>8. ASSUME NEW k \in 1..MaxGrants, RequestN(k) PROVE Contract!Grant
  <2>1. granted \in Nat /\ k \in Nat /\ k >= 1
    BY PublisherAssumption, SMTT(30) DEF DInv, Shape
  <2> QED  BY <1>8, <2>1, SMTT(30) DEF RequestN, OnEvb, Contract!Grant
<1>9. ASSUME ProcessItem PROVE \E p \in Publishers : Contract!Arrive(p)
  <2>1. client = "open" /\ Shape /\ Stations /\ InOrder
    BY <1>9 DEF ProcessItem, IInv, WakeupInv, ClientInv, DInv, Processing
  <2>2. PICK p \in Publishers :
          \E m \in 1..sent[p] :
            Head(buffer) = <<p, m>> /\ Contract!Arrived(p) = 1..(m - 1)
    BY <1>9, <2>1, ArrivedBefore DEF ProcessItem
  <2>3. Len(seen) < granted
    <3>1. Len(seen) \in Nat /\ credit.val \in Nat
      BY <2>1, SMTT(30) DEF Shape
    <3> QED  BY <1>9, <2>1, <3>1, SMTT(30) DEF ProcessItem, HasCredit, Stations
  <2>4. Contract!Arrive(p)
    BY <1>9, <2>1, <2>2, <2>3 DEF ProcessItem, Contract!Arrive
  <2> QED  BY <2>4
<1>10. ASSUME ProcessEnd PROVE Contract!End
  <2>1. client = "open" /\ Shape /\ Stations /\ InOrder
    BY <1>10 DEF ProcessEnd, IInv, WakeupInv, ClientInv, DInv, Processing
  <2>2. /\ handle = "completed"
        /\ \A p \in Publishers : Contract!Arrived(p) = 1..Number[p]
    BY <1>10, <2>1, ArrivedAll DEF ProcessEnd
  <2>3. \A p \in Publishers : ~Pending(p)
    BY <2>2 DEF IInv, PublisherInv, Pending
  <2>4. \A p \in Publishers : Number[p] = sent[p]
    BY <2>1, <2>3, NumberType, SMTT(30) DEF Holds, Shape
  <2> QED  BY <1>10, <2>1, <2>2, <2>4 DEF ProcessEnd, Contract!End, history
<1>11. ASSUME RunTask \/ WaitForMore \/ GetMessages \/ OutOfCredit
                \/ CloseQueue \/ Close
       PROVE  UNCHANGED Contract!vars
  BY <1>11 DEF RunTask, WaitForMore, GetMessages, OutOfCredit, CloseQueue,
               Close, history
<1>12. ASSUME Cancel PROVE Contract!Cancel
  BY <1>12 DEF Cancel, OnEvb, Contract!Cancel, history
<1>13. ASSUME UNCHANGED vars PROVE UNCHANGED Contract!vars
  BY <1>13 DEF vars, history
<1> HIDE DEF Contract!vars
<1> QED
  BY <1>1, <1>2, <1>3, <1>4, <1>5, <1>6, <1>7, <1>8, <1>9, <1>10, <1>11,
     <1>12, <1>13
  DEF Next, EvbStep, Contract!Next

(* Each publisher's items reach the client in the order in which they were *)
(* published, none twice and none left out, no more than it asked for, the *)
(* end after all of them, and nothing after the end or a cancellation,     *)
(* whichever queue an item went through on its way.                        *)
THEOREM StreamKeepsContract == Spec => ImplementsStream
BY InitContract, NextContract, AlwaysDInv, PTL
   DEF Spec, ImplementsStream, Contract!Spec
=============================================================================
