--------------------- MODULE ServerGeneratorStreamProofs ----------------------
(***************************************************************************)
(* Three results about a generator stream, whatever is yielded, granted,   *)
(* paused and cancelled.                                                   *)
(*                                                                         *)
(* The bridge is deleted once, and not while one of its sides still uses   *)
(* it.  The functions of the client's side hold no reference of their own. *)
(* What protects the bridge is a token: the event base is busy with the    *)
(* queue, or waits in it, or has been woken by a coroutine that is about   *)
(* to schedule a function, or that function is scheduled.  There is never  *)
(* more than one, and the client's reference is dropped with it.           *)
(*                                                                         *)
(* No credit is lost or used twice, and the stream keeps its contract.     *)
(* Both rest on where each message is: what the client has seen, what is   *)
(* in its side's hands and what is in the queue are together what the      *)
(* coroutine has pushed, in that order.                                    *)
(***************************************************************************)
EXTENDS ServerGeneratorStream, FiniteSetTheorems, TLAPS

USE ZenonT(30)

GenSteps == {"start", "check", "waiting", "get", "next", "checkWake",
             "closeWake", "close", "release", "started", "gone"}
EvbSteps == {"first", "out", "close", "loop", "get", "deliver"}
Types == {"EMPTY", "TAIL", "CONSUMER", "CLOSED"}

(* The part of the types that the ownership of the bridge depends on.      *)
Places ==
  /\ toClient \in [type : Types, msgs : Seq(Items \union {End})]
  /\ toServer \in [type : Types, msgs : Seq(Commands)]
  /\ pc \in [gen : GenSteps, evb : EvbSteps]
  /\ then \in {"out", "loop"}
  /\ tasks \in Nat /\ refs \in Int
  /\ client \in {"open", "ended", "cancelled"}
  /\ sent \in Nat

Busy == \/ pc.evb \in {"first", "loop", "get", "deliver"}
        \/ pc.evb = "close" /\ then = "loop"
Waking == pc.gen \in {"checkWake", "closeWake"}
Tokens == Holds(Busy) + Holds(Wakes(toClient)) + Holds(Waking) + tasks

(* The references of the coroutine and of the function started with it.    *)
GenRefs == CASE pc.gen = "gone" -> 0 [] pc.gen = "started" -> 1 [] OTHER -> 2

IInv ==
  /\ Places
  /\ Tokens \in 0..1
  /\ refs = Tokens + GenRefs
  /\ client = "open" \/ pc.evb = "close" => Tokens = 1
  /\ pc.evb = "close" => client = "cancelled"
  /\ IsClosed(toClient) =>
       client = "cancelled" /\ pc.evb \notin {"get", "deliver"}
  /\ pc.evb = "first" => then = "loop"
  /\ then = "loop" => pc.evb \in {"first", "close"}
  /\ Wakes(toServer) => pc.gen = "waiting"

-----------------------------------------------------------------------------
(* What an operation leaves in a queue.                                    *)
LEMMA QueueOperations ==
  ASSUME NEW M, NEW q \in [type : Types, msgs : Seq(M)], NEW m \in M
  PROVE  /\ Push(q, m) \in [type : Types, msgs : Seq(M)]
         /\ Push(q, m).type = IF IsClosed(q) THEN "CLOSED" ELSE "TAIL"
         /\ Wait(q) \in [type : Types, msgs : Seq(M)]
         /\ Wait(q).type = IF q.type = "EMPTY" THEN "CONSUMER" ELSE q.type
         /\ Taken(q) \in [type : Types, msgs : Seq(M)]
         /\ Taken(q).type = IF IsClosed(q) THEN "CLOSED" ELSE "EMPTY"
         /\ ClosedQueue \in [type : Types, msgs : Seq(M)]
         /\ ClosedQueue.type = "CLOSED"
BY SMTT(30) DEF Push, Wait, Taken, IsClosed, ClosedQueue, EmptyQueue, Types

(* What the two sides send each other.                                     *)
LEMMA MessageTypes ==
  /\ \A n \in 1..MaxGrants : Ask(n) \in Commands
  /\ {CancelMessage, Pause, Resume} \subseteq Commands
  /\ End \in Items \union {End}
  /\ \A n \in Nat : n < MaxItems => <<"gen", n + 1>> \in Items \union {End}
BY GeneratorAssumption, SMTT(30) DEF Commands, Items

(* The invariant holds initially.                                          *)
LEMMA InitIInv == Init => IInv
BY SMTT(30)
DEF Init, IInv, Places, Tokens, Busy, Waking, GenRefs, Holds, Wakes, IsClosed,
       EmptyQueue, Types, GenSteps, EvbSteps

(* A step leaves both sides at one of their places.                        *)
LEMMA PlacesStep ==
  ASSUME IInv, [Next]_vars
  PROVE  Places'
<1> USE DEF IInv, Places, GenSteps, EvbSteps, queues, generator, callback
<1>1. ASSUME NEW n \in 0..MaxGrants, FirstResponse(n)  PROVE Places'
  <2>1. toServer' \in [type : Types, msgs : Seq(Commands)]
    <3>1. CASE n = 0  BY <1>1, <3>1, SMTT(30) DEF FirstResponse
    <3>2. CASE n # 0
      <4>1. n \in 1..MaxGrants /\ n > 0
        BY <3>2, GeneratorAssumption, SMTT(30)
      <4>2. toServer' = Push(toServer, Ask(n))
        BY <1>1, <4>1 DEF FirstResponse, ClientPush
      <4> QED  BY <4>1, <4>2, QueueOperations, MessageTypes
    <3> QED  BY <3>1, <3>2
  <2> QED  BY <1>1, <2>1 DEF FirstResponse, ClientPush
<1>2. ASSUME NEW n \in 1..MaxGrants, RequestN(n)  PROVE Places'
  BY <1>2, QueueOperations, MessageTypes DEF RequestN, OnEvb, ClientPush
<1>3. CASE PauseStream
  BY <1>3, QueueOperations, MessageTypes DEF PauseStream, ClientPush
<1>4. CASE ResumeStream
  BY <1>4, QueueOperations, MessageTypes DEF ResumeStream, OnEvb, ClientPush
<1>5. CASE Cancel
  BY <1>5, QueueOperations, MessageTypes DEF Cancel, ClientPush
<1>6. CASE ClientClose
  <2>1. toClient' \in [type : Types, msgs : Seq(Items \union {End})]
    BY <1>6, QueueOperations, MessageTypes DEF ClientClose
  <2>2. pc' \in [gen : GenSteps, evb : EvbSteps]
    BY <1>6 DEF ClientClose
  <2> QED  BY <1>6, <2>1, <2>2, SMTT(30) DEF ClientClose
<1>7. CASE RunTask
  BY <1>7, SMTT(30) DEF RunTask
<1>8. CASE ClientWait
  <2>1. toClient' \in [type : Types, msgs : Seq(Items \union {End})]
    BY <1>8, QueueOperations, MessageTypes DEF ClientWait
  <2> QED  BY <1>8, <2>1, SMTT(30) DEF ClientWait
<1>9. CASE ClientGetMessages
  BY <1>9, QueueOperations, MessageTypes DEF ClientGetMessages
<1>10. CASE Deliver \/ DeliverEnd \/ Delivered
  BY <1>10, SMTT(30) DEF Deliver, DeliverEnd, Delivered
<1>11. CASE GenStart \/ GenFail
  BY <1>11 DEF GenStart, GenFail, GenGoto
<1>12. CASE ServerWait
  BY <1>12, QueueOperations, MessageTypes, SMTT(30) DEF ServerWait, GenGoto
<1>13. CASE ServerGetMessages
  BY <1>13, QueueOperations, MessageTypes DEF ServerGetMessages, GenGoto
<1>14. CASE GenNext
  <2>1. toClient' \in [type : Types, msgs : Seq(Items \union {End})]
    BY <1>14, QueueOperations, MessageTypes DEF GenNext, ServerPush
  <2> QED  BY <1>14, <2>1, SMTT(30) DEF GenNext, ServerPush, GenGoto
<1>15. CASE GenEnd
  BY <1>15, QueueOperations, MessageTypes DEF GenEnd, ServerPush, GenGoto
<1>16. CASE Consume
  BY <1>16, SMTT(30) DEF Consume, GenGoto
<1>17. CASE ServerClose
  BY <1>17, QueueOperations, MessageTypes DEF ServerClose, GenGoto
<1>18. CASE GenRelease
  BY <1>18, SMTT(30) DEF GenRelease, GenGoto
<1>19. CASE UNCHANGED vars
  BY <1>19 DEF vars
<1> QED
  BY <1>1, <1>2, <1>3, <1>4, <1>5, <1>6, <1>7, <1>8, <1>9, <1>10, <1>11,
     <1>12, <1>13, <1>14, <1>15, <1>16, <1>17, <1>18, <1>19
  DEF Next, EvbStep, GenStep

(* A step leaves each queue empty, waited for, with messages or closed.    *)
LEMMA QueueTypes ==
  ASSUME Places
  PROVE  /\ \A m \in Items \union {End} :
              Push(toClient, m).type = IF IsClosed(toClient) THEN "CLOSED"
                                                             ELSE "TAIL"
         /\ Wait(toClient).type = IF toClient.type = "EMPTY" THEN "CONSUMER"
                                                            ELSE toClient.type
         /\ Taken(toClient).type = IF IsClosed(toClient) THEN "CLOSED"
                                                         ELSE "EMPTY"
         /\ \A m \in Commands : Push(toServer, m).type \in {"TAIL", "CLOSED"}
         /\ Wait(toServer).type = IF toServer.type = "EMPTY" THEN "CONSUMER"
                                                            ELSE toServer.type
         /\ Taken(toServer).type # "CONSUMER"
<1>1. CancelMessage \in Commands /\ End \in Items \union {End}
  BY MessageTypes
<1>2. /\ toClient \in [type : Types, msgs : Seq(Items \union {End})]
      /\ toServer \in [type : Types, msgs : Seq(Commands)]
  BY DEF Places
<1>3. Taken(toServer).type # "CONSUMER"
  BY <1>1, <1>2, QueueOperations
<1>4. \A m \in Commands : Push(toServer, m).type \in {"TAIL", "CLOSED"}
  BY DEF Push, IsClosed
<1>5. Wait(toServer).type = IF toServer.type = "EMPTY" THEN "CONSUMER"
                                                       ELSE toServer.type
  BY <1>1, <1>2, QueueOperations, SMTT(30)
<1>6. /\ Wait(toClient).type = IF toClient.type = "EMPTY" THEN "CONSUMER"
                                                         ELSE toClient.type
      /\ Taken(toClient).type = IF IsClosed(toClient) THEN "CLOSED"
                                                      ELSE "EMPTY"
  BY <1>1, <1>2, QueueOperations, SMTT(30)
<1>7. \A m \in Items \union {End} :
        Push(toClient, m).type = IF IsClosed(toClient) THEN "CLOSED"
                                                       ELSE "TAIL"
  BY <1>2, QueueOperations
<1> QED  BY <1>3, <1>4, <1>5, <1>6, <1>7

(* Operations of the coroutine's queue move no token: the coroutine is     *)
(* woken only where it waits.                                              *)
LEMMA ClientPushKeeps ==
  ASSUME IInv, NEW m \in Commands, NEW step \in EvbSteps, ClientPush(m, step)
  PROVE  /\ GenRefs' = GenRefs /\ (Waking' <=> Waking)
         /\ pc'.evb = step
         /\ ~Wakes(toServer')
<1>1. /\ toServer'.type \in {"TAIL", "CLOSED"}
      /\ pc'.evb = step
      /\ pc'.gen = IF Wakes(toServer) THEN "get" ELSE pc.gen
  BY QueueTypes DEF IInv, Places, ClientPush
<1>2. Wakes(toServer) => pc.gen = "waiting"
  BY DEF IInv
<1> QED  BY <1>1, <1>2 DEF GenRefs, Waking, Wakes

(* Every step keeps the invariant.                                         *)
LEMMA NextIInv ==
  ASSUME IInv, [Next]_vars
  PROVE  IInv'
<1>0. Places' /\ GenRefs \in Int
  BY PlacesStep, SMTT(30) DEF GenRefs
<1> USE <1>0 DEF IInv, Tokens, Busy, Holds, Wakes, IsClosed
<1>1. ASSUME NEW n \in 0..MaxGrants, FirstResponse(n)  PROVE IInv'
  <2>1. /\ GenRefs' = GenRefs /\ (Waking' <=> Waking)
        /\ pc'.evb = "loop"
        /\ (Wakes(toServer') => pc'.gen = "waiting")
    <3>1. CASE n > 0
      <4>1. n \in 1..MaxGrants
        BY <3>1, GeneratorAssumption, SMTT(30)
      <4> QED
        BY <1>1, <3>1, <4>1, ClientPushKeeps, MessageTypes
        DEF FirstResponse, EvbSteps
    <3>2. CASE n = 0
      BY <1>1, <3>2, SMTT(30) DEF FirstResponse, GenRefs, Waking, Places
    <3> QED  BY <3>1, <3>2, GeneratorAssumption, SMTT(30)
  <2> QED  BY <1>1, <2>1 DEF FirstResponse, Places
<1>2. ASSUME NEW n \in 1..MaxGrants, RequestN(n)  PROVE IInv'
  <2>1. /\ GenRefs' = GenRefs /\ (Waking' <=> Waking)
        /\ pc'.evb = "out" /\ ~Wakes(toServer')
    BY <1>2, ClientPushKeeps, MessageTypes DEF RequestN, EvbSteps
  <2> QED  BY <1>2, <2>1 DEF RequestN, OnEvb, Places
<1>3. CASE PauseStream
  <2>1. /\ GenRefs' = GenRefs /\ (Waking' <=> Waking)
        /\ pc'.evb = pc.evb /\ ~Wakes(toServer')
    BY <1>3, ClientPushKeeps, MessageTypes DEF PauseStream, EvbSteps
  <2> QED  BY <1>3, <2>1 DEF PauseStream, Places
<1>4. CASE ResumeStream
  <2>1. /\ GenRefs' = GenRefs /\ (Waking' <=> Waking)
        /\ pc'.evb = "out" /\ ~Wakes(toServer')
    BY <1>4, ClientPushKeeps, MessageTypes DEF ResumeStream, EvbSteps
  <2> QED  BY <1>4, <2>1 DEF ResumeStream, OnEvb, Places
<1>5. CASE Cancel
  <2>1. /\ GenRefs' = GenRefs /\ (Waking' <=> Waking)
        /\ pc'.evb = "close" /\ ~Wakes(toServer')
    BY <1>5, ClientPushKeeps, MessageTypes DEF Cancel, EvbSteps
  <2> QED  BY <1>5, <2>1 DEF Cancel, Places
<1>6. CASE ClientClose
  <2>1. /\ pc.evb = "close" /\ pc'.evb = then /\ pc'.gen = pc.gen
        /\ toClient'.type = "CLOSED"
    BY <1>6 DEF ClientClose, ClosedQueue, Places
  <2>2. client = "cancelled" /\ client' = client /\ toServer' = toServer
    BY <1>6, <2>1 DEF ClientClose, callback
  <2>3. GenRefs' = GenRefs /\ (Waking' <=> Waking)
    BY <2>1 DEF GenRefs, Waking
  <2>4. CASE Wakes(toClient)
    <3>1. then = "out" /\ ~Waking /\ tasks = 0 /\ Tokens = 1
      BY <2>1, <2>4, SMTT(30) DEF Places
    <3>2. Tokens' = 0
      BY <1>6, <2>1, <2>3, <3>1, SMTT(30) DEF ClientClose
    <3> QED
      BY <1>6, <2>1, <2>2, <2>3, <2>4, <3>1, <3>2, SMTT(30)
      DEF ClientClose, Places
  <2>5. CASE ~Wakes(toClient)
    BY <1>6, <2>1, <2>2, <2>3, <2>5 DEF ClientClose, Places
  <2> QED  BY <2>4, <2>5
<1>7. CASE RunTask
  <2>1. /\ pc.evb = "out" /\ pc'.evb = "loop" /\ pc'.gen = pc.gen
    BY <1>7 DEF RunTask, Places
  <2>2. GenRefs' = GenRefs /\ (Waking' <=> Waking)
    BY <2>1 DEF GenRefs, Waking
  <2>3. tasks = 1 /\ tasks' = 0 /\ ~Waking /\ ~Wakes(toClient) /\ Tokens = 1
    <3>1. tasks \in Nat /\ tasks > 0 /\ tasks' = tasks - 1
      BY <1>7 DEF RunTask, Places
    <3>2. /\ Holds(Busy) \in 0..1 /\ Holds(Waking) \in 0..1
          /\ Holds(Wakes(toClient)) \in 0..1
      BY SMTT(30)
    <3>3. tasks = 1 /\ Holds(Waking) = 0 /\ Holds(Wakes(toClient)) = 0
      BY <3>1, <3>2, SMTT(30)
    <3> QED  BY <3>1, <3>2, <3>3, SMTT(30)
  <2> QED
    BY <1>7, <2>1, <2>2, <2>3, SMTT(30) DEF RunTask, Places, queues, callback
<1>8. CASE ClientWait
  <2>1. /\ pc.evb = "loop" /\ pc'.gen = pc.gen
        /\ pc'.evb = IF Waits(toClient) THEN "out" ELSE "get"
        /\ toClient'.type = IF toClient.type = "EMPTY" THEN "CONSUMER"
                                                       ELSE toClient.type
    BY <1>8, QueueTypes DEF ClientWait, Places
  <2> QED
    BY <1>8, <2>1, SMTT(30)
    DEF ClientWait, Waits, Places, GenRefs, Waking, callback
<1>9. CASE ClientGetMessages
  <2>1. /\ pc.evb = "get" /\ pc'.evb = "deliver" /\ pc'.gen = pc.gen
        /\ toClient'.type = IF IsClosed(toClient) THEN "CLOSED" ELSE "EMPTY"
    BY <1>9, QueueTypes DEF ClientGetMessages, Places
  <2> QED
    BY <1>9, <2>1, SMTT(30)
    DEF ClientGetMessages, Places, GenRefs, Waking, callback
<1>10. CASE Deliver \/ Delivered
  <2>1. /\ pc.evb = "deliver" /\ pc'.evb \in {"deliver", "loop"}
        /\ pc'.gen = pc.gen
    BY <1>10 DEF Deliver, Delivered, Places
  <2> QED
    BY <1>10, <2>1
    DEF Deliver, Delivered, Places, GenRefs, Waking, queues, callback
<1>11. CASE DeliverEnd
  <2>1. pc.evb = "deliver" /\ pc'.evb = "out" /\ pc'.gen = pc.gen
    BY <1>11 DEF DeliverEnd, Places
  <2>2. ~Waking /\ ~Wakes(toClient) /\ tasks = 0 /\ Tokens = 1
    BY <2>1, SMTT(30) DEF Places
  <2>3. client' = "ended" /\ ~IsClosed(toClient)'
    BY <1>11, <2>1 DEF DeliverEnd, queues
  <2>4. GenRefs' = GenRefs /\ (Waking' <=> Waking)
    BY <2>1 DEF GenRefs, Waking
  <2> QED
    BY <1>11, <2>1, <2>2, <2>3, <2>4, SMTT(30) DEF DeliverEnd, Places, queues
<1>12. CASE GenStart \/ GenFail
  <2>1. /\ pc'.evb = pc.evb /\ pc.gen \in {"start", "next"}
        /\ pc'.gen \in {"check", "close"}
    BY <1>12 DEF GenStart, GenFail, GenGoto, Places
  <2> QED
    BY <1>12, <2>1
    DEF GenStart, GenFail, Places, GenRefs, Waking, queues, callback
<1>13. CASE ServerWait
  <2>1. /\ pc.gen = "check" /\ pc'.evb = pc.evb
        /\ pc'.gen \in {"waiting", "get"}
        /\ pc'.gen = "waiting" \/ toServer'.type # "CONSUMER"
    BY <1>13, QueueTypes DEF ServerWait, GenGoto, Waits, Places
  <2> QED
    BY <1>13, <2>1 DEF ServerWait, Places, GenRefs, Waking, callback
<1>14. CASE ServerGetMessages
  <2>1. /\ pc.gen = "get" /\ pc'.evb = pc.evb
        /\ pc'.gen \in {"close", "check", "next"}
        /\ toServer'.type # "CONSUMER"
    BY <1>14, QueueTypes DEF ServerGetMessages, GenGoto, Places
  <2> QED
    BY <1>14, <2>1 DEF ServerGetMessages, Places, GenRefs, Waking, callback
<1>15. ASSUME NEW m \in Items \union {End},
              NEW step \in {"check", "close"},
              NEW wake \in {"checkWake", "closeWake"},
              ServerPush(m, step, wake), pc.gen = "next",
              UNCHANGED <<toServer, callback, then, tasks, refs>>
       PROVE  IInv'
  <2>1. /\ pc'.evb = pc.evb
        /\ toClient'.type = IF IsClosed(toClient) THEN "CLOSED" ELSE "TAIL"
        /\ pc'.gen = IF Wakes(toClient) THEN wake ELSE step
    BY <1>15, QueueTypes DEF ServerPush, GenGoto, Places
  <2>2. /\ ~Waking /\ (Waking' <=> Wakes(toClient))
        /\ GenRefs = 2 /\ GenRefs' = 2
    BY <1>15, <2>1 DEF GenRefs, Waking
  <2> QED
    BY <1>15, <2>1, <2>2, SMTT(30) DEF Places, callback
<1>16. CASE GenNext
  BY <1>15, <1>16, MessageTypes DEF GenNext, Places
<1>17. CASE GenEnd
  BY <1>15, <1>17, MessageTypes DEF GenEnd
<1>18. CASE Consume
  <2>1. /\ pc'.evb = pc.evb /\ pc.gen \in {"checkWake", "closeWake"}
        /\ pc'.gen \in {"check", "close"}
    BY <1>18 DEF Consume, GenGoto, Places
  <2> QED
    BY <1>18, <2>1, SMTT(30)
    DEF Consume, Places, GenRefs, Waking, queues, callback
<1>19. CASE ServerClose
  <2>1. /\ pc'.evb = pc.evb /\ pc.gen = "close" /\ pc'.gen = "release"
        /\ toServer'.type = "CLOSED"
    BY <1>19 DEF ServerClose, GenGoto, ClosedQueue, Places
  <2> QED
    BY <1>19, <2>1 DEF ServerClose, Places, GenRefs, Waking, callback
<1>20. CASE GenRelease
  <2>1. /\ pc'.evb = pc.evb
        /\ \/ pc.gen = "release" /\ pc'.gen = "started"
           \/ pc.gen = "started" /\ pc'.gen = "gone"
    BY <1>20 DEF GenRelease, GenGoto, Places
  <2>2. GenRefs' = GenRefs - 1 /\ ~Waking /\ ~Waking'
    BY <2>1, SMTT(30) DEF GenRefs, Waking
  <2> QED
    BY <1>20, <2>1, <2>2, SMTT(30)
    DEF GenRelease, Places, GenRefs, queues, callback
<1>21. CASE UNCHANGED vars
  BY <1>21 DEF vars, queues, callback, Places, GenRefs, Waking
<1> QED
  BY <1>1, <1>2, <1>3, <1>4, <1>5, <1>6, <1>7, <1>8, <1>9, <1>10, <1>11,
     <1>12, <1>13, <1>14, <1>16, <1>17, <1>18, <1>19, <1>20, <1>21
  DEF Next, EvbStep, GenStep

(* refCount_ is exactly the number of owners of the bridge, the client's   *)
(* side for as long as any function of its may still run.                  *)
THEOREM BridgeOwnersCounted == Spec => []OwnersCounted
<1>1. IInv => OwnersCounted
  BY SMTT(30)
  DEF IInv, Places, Tokens, Busy, Waking, GenRefs, Holds, OwnersCounted,
         ClientUses, EvbSteps
<1>2. IInv /\ [Next]_vars => IInv'
  BY NextIInv
<1> QED  BY <1>1, <1>2, InitIInv, PTL DEF Spec

-----------------------------------------------------------------------------
(* The items and the credits.                                              *)

Data ==
  /\ credits \in 0..MaxGrants /\ granted \in 0..MaxGrants
  /\ tokens \in Int
  /\ paused \in BOOLEAN /\ requested \in BOOLEAN
  /\ held \in BOOLEAN /\ finished \in BOOLEAN
  /\ buffer \in Seq(Items \union {End}) /\ seen \in Seq(Items)
  /\ pauses \in 0..MaxPauses /\ sent \in 0..MaxItems

(* Where the two sides are when the stream is open, over, or closed.       *)
Ending == {"closeWake", "close", "release", "started", "gone"}

(* Nothing of the client's side is running, waiting or scheduled.          *)
Idle == ~Busy /\ ~Wakes(toClient) /\ ~Waking /\ tasks = 0

Stages ==
  /\ buffer # <<>> => pc.evb = "deliver"
  /\ pc.evb \in {"get", "deliver"} => client = "open"
  /\ pc.evb = "first" => client = "open" /\ granted = 0
  /\ client = "ended" => Idle
  /\ client = "cancelled" => pc.evb = "close" \/ IsClosed(toClient)
  /\ finished = TRUE => pc.gen \in Ending
  /\ IsClosed(toServer) <=> pc.gen \in {"release", "started", "gone"}
  /\ toClient.type # "TAIL" => toClient.msgs = <<>>
  /\ toServer.type # "TAIL" => toServer.msgs = <<>>

(* The k-th message of a coroutine that yields n items.                    *)
Message(k, n) == IF k <= n THEN <<"gen", k>> ELSE End

(* How many messages the coroutine has pushed, the end included.           *)
Pushed == IF finished = TRUE THEN sent + 1 ELSE sent

(* s is what such a coroutine pushes after its first b messages.           *)
Follows(s, b, n) == \A i \in 1..Len(s) : s[i] = Message(b + i, n)

(* What the client has seen, what its side has in its hands and what is in *)
(* the queue are what the coroutine has pushed, in that order.             *)
InOrder ==
  /\ Len(seen) <= sent
  /\ \A i \in 1..Len(seen) : seen[i] = <<"gen", i>>
  /\ client = "open" =>
       /\ Follows(buffer, Len(seen), sent)
       /\ Follows(toClient.msgs, Len(seen) + Len(buffer), sent)
       /\ Len(seen) + Len(buffer) + Len(toClient.msgs) = Pushed

(* Where what the client has asked for is.                                 *)
Credited ==
  /\ tokens = granted - Len(seen)
  /\ sent <= granted
  /\ ~IsClosed(toServer) =>
       credits + AskedFor(toServer.msgs) + sent = granted
  /\ pc.gen = "next" => credits # 0

DInv == IInv /\ Data /\ Stages /\ InOrder /\ Credited

(* The first k numbers are k.                                              *)
LEMMA CountTo ==
  ASSUME NEW k \in Nat
  PROVE  IsFiniteSet(1..k) /\ Cardinality(1..k) = k
<1>1. /\ IsFiniteSet(1..k)
      /\ Cardinality(1..k) = IF 1 > k THEN 0 ELSE k - 1 + 1
  BY FS_Interval, SMTT(30)
<1> QED  BY <1>1, SMTT(30)

(* Nothing is asked for by no message.                                     *)
LEMMA AskedForNothing == AskedFor(<<>>) = 0
<1>1. {t \in (DOMAIN <<>>) \X (1..MaxGrants) : t[2] <= <<>>[t[1]][2]} = {}
  BY SMTT(30)
<1> QED  BY <1>1, FS_EmptySet DEF AskedFor

(* What a batch asks for is a number, and a message at its end adds what   *)
(* it asks for itself.                                                     *)
LEMMA AskedForAppend ==
  ASSUME NEW s \in Seq(Commands), NEW m \in Commands
  PROVE  /\ AskedFor(s) \in Nat
         /\ AskedFor(Append(s, m)) = AskedFor(s) + m[2]
<1> DEFINE tokens1 == {t \in (DOMAIN s) \X (1..MaxGrants) :
                         t[2] <= s[t[1]][2]}
           after == {t \in (DOMAIN Append(s, m)) \X (1..MaxGrants) :
                       t[2] <= Append(s, m)[t[1]][2]}
           new == {Len(s) + 1} \X (1..m[2])
           all == (1..Len(s)) \X (1..MaxGrants)
<1>1. m[2] \in 0..MaxGrants /\ Len(s) \in Nat /\ MaxGrants \in Nat
  BY GeneratorAssumption, SMTT(30)
  DEF Commands, Ask, CancelMessage, Pause, Resume
<1>2. IsFiniteSet(1..Len(s)) /\ IsFiniteSet(1..MaxGrants)
  BY <1>1, CountTo
<1>3. IsFiniteSet(all)
  BY <1>2, FS_Product
<1>4. tokens1 \subseteq all
  BY SMTT(30)
<1>5. IsFiniteSet(tokens1) /\ Cardinality(tokens1) \in Nat
  BY <1>3, <1>4, FS_Subset, FS_CardinalityType
<1>6. IsFiniteSet(new) /\ Cardinality(new) = m[2]
  <2>1. /\ IsFiniteSet({Len(s) + 1}) /\ Cardinality({Len(s) + 1}) = 1
    BY FS_Singleton
  <2>2. IsFiniteSet(1..m[2]) /\ Cardinality(1..m[2]) = m[2]
    BY <1>1, CountTo, SMTT(30)
  <2>3. IsFiniteSet(new) /\ Cardinality(new) = 1 * m[2]
    BY <2>1, <2>2, FS_Product
  <2> QED  BY <1>1, <2>3, SMTT(30)
<1>7. after = tokens1 \cup new
  <2>1. ASSUME NEW i \in 1..(Len(s) + 1)
        PROVE  Append(s, m)[i] = IF i = Len(s) + 1 THEN m ELSE s[i]
    BY <2>1, SMTT(30)
  <2>2. /\ DOMAIN Append(s, m) = 1..(Len(s) + 1) /\ DOMAIN s = 1..Len(s)
    BY SMTT(30)
  <2>3. ASSUME NEW i, NEW k
        PROVE  <<i, k>> \in after <=> <<i, k>> \in tokens1 \cup new
    BY <1>1, <2>1, <2>2, SMTT(30)
  <2>4. \A t \in after \cup tokens1 \cup new : t = <<t[1], t[2]>>
    BY SMTT(30)
  <2> QED  BY <2>3, <2>4
<1>8. tokens1 \cap new = {}
  BY <1>1, SMTT(30)
<1>9. Cardinality(after) = Cardinality(tokens1) + Cardinality(new)
                             - Cardinality(tokens1 \cap new)
  BY <1>5, <1>6, <1>7, FS_Union
<1>10. Cardinality(tokens1 \cap new) = 0
  BY <1>8, FS_EmptySet
<1> HIDE DEF tokens1, after, new
<1>11. Cardinality(after) = Cardinality(tokens1) + m[2]
  BY <1>1, <1>5, <1>6, <1>9, <1>10, SMTT(30)
<1> QED  BY <1>5, <1>11 DEF AskedFor, tokens1, after

(* The items among the messages that follow the first b.                   *)
LEMMA ItemsFollowing ==
  ASSUME NEW n \in Nat, NEW s \in Seq(Items \union {End}), NEW b \in Nat,
         Follows(s, b, n), b <= n, b + Len(s) <= n + 1
  PROVE  ItemsIn(s) = IF b + Len(s) <= n THEN Len(s) ELSE n - b
<1> DEFINE k == IF b + Len(s) <= n THEN Len(s) ELSE n - b
<1>1. Len(s) \in Nat /\ k \in Nat
  BY SMTT(30)
<1>2. \A i \in 1..Len(s) : s[i] # End <=> b + i <= n
  <2>1. ASSUME NEW i \in 1..Len(s)
        PROVE  s[i] = IF b + i <= n THEN <<"gen", b + i>> ELSE End
    BY DEF Follows, Message
  <2>2. \A x : <<"gen", x>> # End
    BY DEF End
  <2> QED  BY <2>1, <2>2
<1>3. {i \in DOMAIN s : s[i] # End} = 1..k
  BY <1>1, <1>2, SMTT(30)
<1>4. Cardinality(1..k) = k
  BY <1>1, CountTo
<1> QED  BY <1>3, <1>4 DEF ItemsIn

(* Messages that are all items stay what they are when more are yielded.   *)
LEMMA FollowsLonger ==
  ASSUME NEW n \in Nat, NEW k \in Nat, n <= k, NEW b \in Nat,
         NEW s \in Seq(Items \union {End}), Follows(s, b, n), b + Len(s) <= n
  PROVE  Follows(s, b, k)
<1>1. ASSUME NEW i \in 1..Len(s)  PROVE s[i] = Message(b + i, k)
  <2>1. b + i <= n /\ b + i <= k
    BY <1>1, SMTT(30)
  <2>2. s[i] = Message(b + i, n)
    BY DEF Follows
  <2> QED  BY <2>1, <2>2 DEF Message
<1> QED  BY <1>1 DEF Follows

(* The next message follows.                                               *)
LEMMA FollowsAppend ==
  ASSUME NEW n \in Nat, NEW b \in Nat, NEW s \in Seq(Items \union {End}),
         NEW m \in Items \union {End}, Follows(s, b, n),
         m = Message(b + Len(s) + 1, n)
  PROVE  Follows(Append(s, m), b, n)
<1>1. /\ Len(s) \in Nat /\ Len(Append(s, m)) = Len(s) + 1
      /\ Append(s, m)[Len(s) + 1] = m
      /\ \A i \in 1..Len(s) : Append(s, m)[i] = s[i]
  BY SMTT(30)
<1>2. ASSUME NEW i \in 1..Len(Append(s, m))
      PROVE  Append(s, m)[i] = Message(b + i, n)
  <2>1. CASE i = Len(s) + 1
    <3>1. b + i = b + Len(s) + 1
      BY <1>1, <2>1, SMTT(30)
    <3> QED  BY <1>1, <2>1, <3>1
  <2>2. CASE i # Len(s) + 1
    <3>1. i \in 1..Len(s)
      BY <1>1, <2>2, SMTT(30)
    <3> QED  BY <1>1, <3>1 DEF Follows
  <2> QED  BY <2>1, <2>2
<1> QED  BY <1>2 DEF Follows

(* Without the first message the others follow one later.                  *)
LEMMA FollowsTail ==
  ASSUME NEW n \in Nat, NEW b \in Nat, NEW s \in Seq(Items \union {End}),
         Follows(s, b, n), s # <<>>
  PROVE  Follows(Tail(s), b + 1, n) /\ Head(s) = Message(b + 1, n)
<1>1. /\ Len(s) \in Nat /\ Len(s) >= 1 /\ Len(Tail(s)) = Len(s) - 1
      /\ Head(s) = s[1]
      /\ \A i \in 1..(Len(s) - 1) : Tail(s)[i] = s[i + 1]
  BY SMTT(30)
<1>2. ASSUME NEW i \in 1..Len(Tail(s))
      PROVE  Tail(s)[i] = Message(b + 1 + i, n)
  <2>1. /\ i \in 1..(Len(s) - 1) /\ i + 1 \in 1..Len(s)
        /\ b + (i + 1) = b + 1 + i
    BY <1>1, SMTT(30)
  <2>2. s[i + 1] = Message(b + (i + 1), n)
    BY <2>1 DEF Follows
  <2> QED  BY <1>1, <2>1, <2>2
<1>3. Head(s) = Message(b + 1, n)
  BY <1>1, SMTT(30) DEF Follows
<1> QED  BY <1>2, <1>3 DEF Follows

(* The messages that an operation leaves in a queue.                       *)
LEMMA QueueMessages ==
  ASSUME NEW q, NEW m
  PROVE  /\ Push(q, m).msgs = IF IsClosed(q) THEN q.msgs ELSE Append(q.msgs, m)
         /\ Taken(q).msgs = IF IsClosed(q) THEN q.msgs ELSE <<>>
         /\ ClosedQueue.msgs = <<>>
BY DEF Push, Taken, ClosedQueue, EmptyQueue

(* No messages are a sequence of messages.                                 *)
LEMMA NoMessages == <<>> \in Seq(Items \union {End}) /\ <<>> \in Seq(Items)
BY SMTT(30)

(* Waiting in a queue changes none of its messages.                        *)
LEMMA WaitKeeps ==
  ASSUME NEW M, NEW q \in [type : Types, msgs : Seq(M)]
  PROVE  Wait(q).msgs = q.msgs
BY DEF Wait

(* The invariant holds initially.                                          *)
LEMMA InitDInv == Init => DInv
<1> SUFFICES ASSUME Init  PROVE DInv
  OBVIOUS
<1>1. IInv
  BY InitIInv
<1>2. Data
  <2>1. /\ credits = 0 /\ granted = 0 /\ tokens = 0 /\ pauses = 0 /\ sent = 0
        /\ buffer = <<>> /\ seen = <<>>
    BY DEF Init
  <2>2. /\ credits \in 0..MaxGrants /\ granted \in 0..MaxGrants
        /\ tokens \in Int /\ pauses \in 0..MaxPauses /\ sent \in 0..MaxItems
    BY <2>1, GeneratorAssumption, SMTT(30)
  <2>3. /\ paused \in BOOLEAN /\ requested \in BOOLEAN
        /\ held \in BOOLEAN /\ finished \in BOOLEAN
    BY DEF Init
  <2> QED  BY <2>1, <2>2, <2>3, NoMessages DEF Data
<1>3. Stages
  BY DEF Init, Stages, EmptyQueue, IsClosed
<1>4. InOrder
  BY SMTT(30) DEF Init, InOrder, Follows, EmptyQueue, Pushed
<1>5. Credited
  <2>1. AskedFor(toServer.msgs) = 0
    BY AskedForNothing DEF Init, EmptyQueue
  <2>2. /\ credits = 0 /\ granted = 0 /\ tokens = 0 /\ sent = 0
        /\ Len(seen) = 0 /\ pc.gen = "start"
    BY DEF Init
  <2> QED  BY <2>1, <2>2, SMTT(30) DEF Credited
<1> QED  BY <1>1, <1>2, <1>3, <1>4, <1>5 DEF DInv

(* A step leaves the data in their types: the credits because every token  *)
(* that is asked for was granted.                                          *)
LEMMA DataStep ==
  ASSUME DInv, [Next]_vars
  PROVE  Data'
<1> USE GeneratorAssumption DEF DInv, Data, queues, generator, callback
<1>1. ASSUME NEW n \in 0..MaxGrants, FirstResponse(n)  PROVE Data'
  BY <1>1, SMTT(30) DEF FirstResponse
<1>2. ASSUME NEW n \in 1..MaxGrants, RequestN(n)  PROVE Data'
  BY <1>2, SMTT(30) DEF RequestN
<1>3. CASE PauseStream
  BY <1>3, SMTT(30) DEF PauseStream
<1>4. CASE ResumeStream
  BY <1>4 DEF ResumeStream
<1>5. CASE Cancel
  BY <1>5 DEF Cancel
<1>6. CASE ClientClose \/ RunTask \/ ClientWait
  BY <1>6 DEF ClientClose, RunTask, ClientWait
<1>7. CASE ClientGetMessages
  <2>1. toClient.msgs \in Seq(Items \union {End})
    BY DEF IInv, Places
  <2> QED  BY <1>7, <2>1 DEF ClientGetMessages
<1>8. CASE Deliver
  <2>1. Head(buffer) \in Items /\ Tail(buffer) \in Seq(Items \union {End})
    BY <1>8, SMTT(30) DEF Deliver
  <2> QED  BY <1>8, <2>1, SMTT(30) DEF Deliver
<1>9. CASE DeliverEnd \/ Delivered
  BY <1>9, NoMessages DEF DeliverEnd, Delivered
<1>10. CASE GenStart \/ GenFail \/ ServerWait
  BY <1>10 DEF GenStart, GenFail, ServerWait
<1>11. CASE ServerGetMessages
  <2>1. ~IsClosed(toServer)
    BY <1>11 DEF ServerGetMessages, Stages
  <2>2. AskedFor(toServer.msgs) \in Nat
    BY AskedForAppend, MessageTypes DEF IInv, Places
  <2>3. credits' = credits + AskedFor(toServer.msgs)
    BY <1>11 DEF ServerGetMessages
  <2>4. credits' \in 0..MaxGrants
    BY <2>1, <2>2, <2>3, SMTT(30) DEF Credited
  <2>5. paused' \in BOOLEAN
    BY <1>11 DEF ServerGetMessages, PausedAfter
  <2> QED  BY <1>11, <2>4, <2>5 DEF ServerGetMessages
<1>12. CASE GenNext
  BY <1>12, SMTT(30) DEF GenNext, Credited
<1>13. CASE GenEnd
  BY <1>13 DEF GenEnd
<1>14. CASE Consume \/ ServerClose \/ GenRelease
  BY <1>14 DEF Consume, ServerClose, GenRelease
<1>15. CASE UNCHANGED vars
  BY <1>15 DEF vars
<1> QED
  BY <1>1, <1>2, <1>3, <1>4, <1>5, <1>6, <1>7, <1>8, <1>9, <1>10, <1>11,
     <1>12, <1>13, <1>14, <1>15
  DEF Next, EvbStep, GenStep

(* What a push to the coroutine leaves: its queue stays closed or holds    *)
(* messages, and the coroutine moves only from where it waits.             *)
LEMMA ClientPushLeaves ==
  ASSUME DInv, NEW m \in Commands, NEW step \in EvbSteps, ClientPush(m, step)
  PROVE  /\ pc'.evb = step
         /\ (pc'.gen = pc.gen \/ (pc.gen = "waiting" /\ pc'.gen = "get"))
         /\ (IsClosed(toServer)' <=> IsClosed(toServer))
         /\ (IsClosed(toServer) => toServer' = toServer)
         /\ (toServer'.type # "TAIL" => toServer'.msgs = <<>>)
<1>1. /\ pc'.evb = step
      /\ pc'.gen = IF Wakes(toServer) THEN "get" ELSE pc.gen
  BY DEF ClientPush, DInv, IInv, Places
<1>2. Wakes(toServer) => pc.gen = "waiting"
  BY DEF DInv, IInv
<1>3. toServer' = Push(toServer, m)
  BY DEF ClientPush
<1>4. CASE IsClosed(toServer)
  BY <1>1, <1>2, <1>3, <1>4 DEF Push, IsClosed, Wakes, DInv, Stages
<1>5. CASE ~IsClosed(toServer)
  <2>1. toServer'.type = "TAIL"
    BY <1>3, <1>5 DEF Push
  <2> QED  BY <1>1, <1>2, <1>5, <2>1 DEF IsClosed
<1> QED  BY <1>4, <1>5

(* A step leaves each side where the other's state allows it to be.        *)
LEMMA StagesStep ==
  ASSUME DInv, [Next]_vars
  PROVE  Stages'
<1>0. Places
  BY DEF DInv, IInv
<1> USE DEF DInv, Stages, Ending, Idle, Busy, Waking, Wakes
<1>1. ASSUME NEW n \in 0..MaxGrants, FirstResponse(n)  PROVE Stages'
  <2>1. /\ pc'.evb = "loop"
        /\ (pc'.gen = pc.gen \/ (pc.gen = "waiting" /\ pc'.gen = "get"))
        /\ (IsClosed(toServer)' <=> IsClosed(toServer))
        /\ (toServer'.type # "TAIL" => toServer'.msgs = <<>>)
    <3>1. CASE n > 0
      <4>1. n \in 1..MaxGrants
        BY <3>1, GeneratorAssumption, SMTT(30)
      <4> QED
        BY <1>1, <3>1, <4>1, ClientPushLeaves, MessageTypes
        DEF FirstResponse, EvbSteps
    <3>2. CASE n = 0
      BY <1>0, <1>1, <3>2, SMTT(30) DEF FirstResponse, Places, IsClosed
    <3> QED  BY <3>1, <3>2, GeneratorAssumption, SMTT(30)
  <2> QED  BY <1>1, <2>1 DEF FirstResponse, IsClosed, generator
<1>2. ASSUME NEW n \in 1..MaxGrants, RequestN(n)  PROVE Stages'
  <2>1. /\ pc'.evb = "out"
        /\ (pc'.gen = pc.gen \/ (pc.gen = "waiting" /\ pc'.gen = "get"))
        /\ (IsClosed(toServer)' <=> IsClosed(toServer))
        /\ (toServer'.type # "TAIL" => toServer'.msgs = <<>>)
    BY <1>2, ClientPushLeaves, MessageTypes DEF RequestN, EvbSteps
  <2> QED  BY <1>2, <2>1 DEF RequestN, OnEvb, IsClosed, generator
<1>3. CASE PauseStream
  <2>1. /\ pc'.evb = pc.evb
        /\ (pc'.gen = pc.gen \/ (pc.gen = "waiting" /\ pc'.gen = "get"))
        /\ (IsClosed(toServer)' <=> IsClosed(toServer))
        /\ (toServer'.type # "TAIL" => toServer'.msgs = <<>>)
    BY <1>3, ClientPushLeaves, MessageTypes DEF PauseStream, EvbSteps
  <2> QED  BY <1>3, <2>1 DEF PauseStream, IsClosed, generator
<1>4. CASE ResumeStream
  <2>1. /\ pc'.evb = "out"
        /\ (pc'.gen = pc.gen \/ (pc.gen = "waiting" /\ pc'.gen = "get"))
        /\ (IsClosed(toServer)' <=> IsClosed(toServer))
        /\ (toServer'.type # "TAIL" => toServer'.msgs = <<>>)
    BY <1>4, ClientPushLeaves, MessageTypes DEF ResumeStream, EvbSteps
  <2> QED  BY <1>4, <2>1 DEF ResumeStream, OnEvb, IsClosed, generator
<1>5. CASE Cancel
  <2>1. /\ pc'.evb = "close"
        /\ (pc'.gen = pc.gen \/ (pc.gen = "waiting" /\ pc'.gen = "get"))
        /\ (IsClosed(toServer)' <=> IsClosed(toServer))
        /\ (toServer'.type # "TAIL" => toServer'.msgs = <<>>)
    BY <1>5, ClientPushLeaves, MessageTypes DEF Cancel, EvbSteps
  <2> QED  BY <1>5, <2>1 DEF Cancel, IsClosed, generator
<1>6. CASE ClientClose
  <2>1. /\ pc.evb = "close" /\ pc'.evb = then /\ pc'.gen = pc.gen
        /\ toClient'.type = "CLOSED" /\ toClient'.msgs = <<>>
        /\ client = "cancelled" /\ then \in {"out", "loop"}
    BY <1>0, <1>6 DEF ClientClose, ClosedQueue, Places, IInv
  <2> QED  BY <1>6, <2>1 DEF ClientClose, callback, generator, IsClosed
<1>7. CASE RunTask
  <2>1. /\ pc.evb = "out" /\ pc'.evb = "loop" /\ pc'.gen = pc.gen
        /\ tasks # 0
    BY <1>0, <1>7, SMTT(30) DEF RunTask, Places
  <2> QED  BY <1>7, <2>1 DEF RunTask, callback, generator, queues, IsClosed
<1>8. CASE ClientWait
  <2>1. /\ pc.evb = "loop" /\ pc'.gen = pc.gen
        /\ pc'.evb = IF Waits(toClient) THEN "out" ELSE "get"
        /\ toClient'.type = IF toClient.type = "EMPTY" THEN "CONSUMER"
                                                       ELSE toClient.type
        /\ toClient'.msgs = toClient.msgs
    BY <1>0, <1>8, QueueTypes, WaitKeeps DEF ClientWait, Places
  <2>2. client # "ended" /\ client \in {"open", "ended", "cancelled"}
    BY <1>0, <2>1 DEF Places
  <2> QED
    BY <1>8, <2>1, <2>2, SMTT(30)
    DEF ClientWait, Waits, callback, generator, IsClosed
<1>9. CASE ClientGetMessages
  <2>1. /\ pc.evb = "get" /\ pc'.evb = "deliver" /\ pc'.gen = pc.gen
        /\ toClient'.type = IF IsClosed(toClient) THEN "CLOSED" ELSE "EMPTY"
        /\ toClient'.msgs = IF IsClosed(toClient) THEN toClient.msgs ELSE <<>>
    BY <1>0, <1>9, QueueTypes, QueueMessages DEF ClientGetMessages, Places
  <2> QED
    BY <1>9, <2>1 DEF ClientGetMessages, callback, generator, IsClosed
<1>10. CASE Deliver
  BY <1>10 DEF Deliver, callback, generator, queues, IsClosed
<1>11. CASE Delivered
  <2>1. /\ pc.evb = "deliver" /\ pc'.evb = "loop" /\ pc'.gen = pc.gen
    BY <1>0, <1>11 DEF Delivered, Places
  <2> QED  BY <1>11, <2>1 DEF Delivered, callback, generator, queues, IsClosed
<1>12. CASE DeliverEnd
  <2>1. pc.evb = "deliver" /\ pc'.evb = "out" /\ pc'.gen = pc.gen
    BY <1>0, <1>12 DEF DeliverEnd, Places
  <2>2. ~Waking /\ ~Wakes(toClient) /\ tasks = 0
    BY <1>0, <2>1, SMTT(30) DEF Places, IInv, Tokens, Holds
  <2>3. then # "loop"
    BY <2>1 DEF IInv
  <2> QED
    BY <1>12, <2>1, <2>2, <2>3 DEF DeliverEnd, generator, queues, IsClosed
<1>13. CASE GenStart \/ GenFail
  <2>1. /\ pc'.evb = pc.evb /\ pc.gen \in {"start", "next"}
        /\ pc'.gen \in {"check", "close"}
    BY <1>0, <1>13 DEF GenStart, GenFail, GenGoto, Places
  <2> QED
    BY <1>13, <2>1
    DEF GenStart, GenFail, callback, generator, queues, IsClosed
<1>14. CASE ServerWait
  <2>1. /\ pc.gen = "check" /\ pc'.evb = pc.evb
        /\ pc'.gen \in {"waiting", "get"}
        /\ toServer'.msgs = toServer.msgs
        /\ \/ toServer' = toServer
           \/ toServer'.type = IF toServer.type = "EMPTY" THEN "CONSUMER"
                                                          ELSE toServer.type
    BY <1>0, <1>14, QueueTypes, WaitKeeps DEF ServerWait, GenGoto, Places
  <2> QED
    BY <1>14, <2>1 DEF ServerWait, callback, generator, IsClosed
<1>15. CASE ServerGetMessages
  <2>1. /\ pc.gen = "get" /\ pc'.evb = pc.evb
        /\ pc'.gen \in {"close", "check", "next"}
    BY <1>0, <1>15 DEF ServerGetMessages, GenGoto, Places
  <2>2. toServer'.type = "EMPTY" /\ toServer'.msgs = <<>>
    BY <1>15, <2>1 DEF ServerGetMessages, Taken, EmptyQueue
  <2> QED
    BY <1>15, <2>1, <2>2 DEF ServerGetMessages, callback, IsClosed
<1>16. ASSUME NEW m \in Items \union {End},
              NEW step \in {"check", "close"},
              NEW wake \in {"checkWake", "closeWake"},
              step = "check" <=> wake = "checkWake",
              ServerPush(m, step, wake), pc.gen = "next",
              finished' = TRUE => step = "close",
              UNCHANGED <<toServer, callback, then, tasks, buffer>>
       PROVE  Stages'
  <2>1. /\ pc'.evb = pc.evb
        /\ toClient'.type = IF IsClosed(toClient) THEN "CLOSED" ELSE "TAIL"
        /\ pc'.gen = IF toClient.type = "CONSUMER" THEN wake ELSE step
    BY <1>0, <1>16, QueueTypes DEF ServerPush, GenGoto, Places
  <2>2. IsClosed(toClient) => toClient'.msgs = toClient.msgs
    BY <1>16 DEF ServerPush, Push
  <2> QED
    BY <1>16, <2>1, <2>2 DEF callback, IsClosed
<1>17. CASE GenNext
  <2>1. <<"gen", sent + 1>> \in Items \union {End}
    BY <1>0, <1>17, MessageTypes DEF GenNext, Places
  <2>2. finished # TRUE
    BY <1>17 DEF GenNext
  <2> QED  BY <1>16, <1>17, <2>1, <2>2 DEF GenNext
<1>18. CASE GenEnd
  BY <1>16, <1>18, MessageTypes DEF GenEnd
<1>19. CASE Consume
  <2>1. /\ pc'.evb = pc.evb
        /\ \/ pc.gen = "checkWake" /\ pc'.gen = "check"
           \/ pc.gen = "closeWake" /\ pc'.gen = "close"
    BY <1>0, <1>19 DEF Consume, GenGoto, Places
  <2> QED
    BY <1>19, <2>1 DEF Consume, callback, generator, queues, IsClosed
<1>20. CASE ServerClose
  <2>1. /\ pc'.evb = pc.evb /\ pc.gen = "close" /\ pc'.gen = "release"
        /\ toServer'.type = "CLOSED" /\ toServer'.msgs = <<>>
    BY <1>0, <1>20 DEF ServerClose, GenGoto, ClosedQueue, Places
  <2> QED
    BY <1>20, <2>1 DEF ServerClose, callback, generator, IsClosed
<1>21. CASE GenRelease
  <2>1. /\ pc'.evb = pc.evb
        /\ \/ pc.gen = "release" /\ pc'.gen = "started"
           \/ pc.gen = "started" /\ pc'.gen = "gone"
    BY <1>0, <1>21 DEF GenRelease, GenGoto, Places
  <2> QED
    BY <1>21, <2>1 DEF GenRelease, callback, generator, queues, IsClosed
<1>22. CASE UNCHANGED vars
  BY <1>22 DEF vars, callback, generator, queues, IsClosed
<1> QED
  BY <1>1, <1>2, <1>3, <1>4, <1>5, <1>6, <1>7, <1>8, <1>9, <1>10, <1>11,
     <1>12, <1>13, <1>14, <1>15, <1>17, <1>18, <1>19, <1>20, <1>21, <1>22
  DEF Next, EvbStep, GenStep

(* The lengths of the three stages, added up.                              *)
LEMMA Lengths ==
  ASSUME NEW a \in Nat, NEW b \in Nat, NEW c \in Nat, NEW n \in Nat,
         a + b + c = n
  PROVE  a + b <= n /\ a + b + c <= n
BY SMTT(30)

(* The first stage is not all if there is something in the second.         *)
LEMMA NotAll ==
  ASSUME NEW a \in Nat, NEW b \in Nat, NEW c \in Nat, b # 0
  PROVE  a + b + c # a
BY SMTT(30)

(* A step that moves no message keeps their order.                         *)
LEMMA OrderStays ==
  ASSUME InOrder, UNCHANGED <<seen, sent, finished>>,
         client' = "open" => /\ client = "open" /\ buffer' = buffer
                             /\ toClient'.msgs = toClient.msgs
  PROVE  InOrder'
BY DEF InOrder, Pushed

(* The coroutine pushes its messages in order: items while it has not      *)
(* ended, and then the end.                                                *)
LEMMA PushInOrder ==
  ASSUME DInv, Data', finished = FALSE, NEW m,
         m = Message(sent + 1, sent'), toClient' = Push(toClient, m),
         UNCHANGED <<seen, buffer, client>>,
         sent <= sent', Pushed' = sent + 1
  PROVE  InOrder'
<1>1. /\ sent \in Nat /\ sent' \in 0..MaxItems
      /\ seen \in Seq(Items) /\ buffer \in Seq(Items \union {End})
      /\ toClient.msgs \in Seq(Items \union {End})
  BY DEF DInv, Data, IInv, Places
<1>2. /\ Len(seen) \in Nat /\ Len(buffer) \in Nat /\ Len(toClient.msgs) \in Nat
      /\ Len(seen) + Len(buffer) \in Nat /\ sent \in Nat /\ sent' \in Nat
  BY <1>1, SMTT(30)
<1>3. /\ Len(seen) <= sent
      /\ \A i \in 1..Len(seen) : seen[i] = <<"gen", i>>
  BY DEF DInv, InOrder
<1>4. Len(seen) <= sent'
  BY <1>1, <1>2, <1>3, SMTT(30)
<1>5. ASSUME client = "open"
      PROVE  /\ Follows(buffer, Len(seen), sent')
             /\ Follows(toClient'.msgs, Len(seen) + Len(buffer), sent')
             /\ Len(seen) + Len(buffer) + Len(toClient'.msgs) = sent + 1
  <2>1. ~IsClosed(toClient)
    BY <1>5 DEF DInv, IInv
  <2>2. toClient'.msgs = Append(toClient.msgs, m)
    BY <2>1, QueueMessages
  <2>3. /\ Follows(buffer, Len(seen), sent)
        /\ Follows(toClient.msgs, Len(seen) + Len(buffer), sent)
    BY <1>5 DEF DInv, InOrder
  <2>0. Len(seen) + Len(buffer) + Len(toClient.msgs) = sent
    BY <1>5 DEF DInv, InOrder, Pushed
  <2>4. Follows(buffer, Len(seen), sent')
    <3>1. Len(seen) + Len(buffer) <= sent
      BY <1>2, <2>0, Lengths, ZenonT(30)
    <3> QED  BY <1>1, <1>2, <2>3, <3>1, FollowsLonger
  <2>5. Follows(toClient.msgs, Len(seen) + Len(buffer), sent')
    <3>1. Len(seen) + Len(buffer) + Len(toClient.msgs) <= sent
      BY <1>2, <2>0, Lengths, ZenonT(30)
    <3> QED  BY <1>1, <1>2, <2>3, <3>1, FollowsLonger
  <2>6. m \in Items \union {End}
    <3>1. CASE sent + 1 <= sent'
      <4>1. sent + 1 \in 1..MaxItems
        BY <1>1, <3>1, GeneratorAssumption, SMTT(30)
      <4> QED  BY <3>1, <4>1 DEF Message, Items
    <3>2. CASE ~(sent + 1 <= sent')
      BY <3>2 DEF Message
    <3> QED  BY <3>1, <3>2
  <2>7. m = Message(Len(seen) + Len(buffer) + Len(toClient.msgs) + 1, sent')
    BY <2>0
  <2>8. Follows(Append(toClient.msgs, m), Len(seen) + Len(buffer), sent')
    BY <1>1, <1>2, <2>5, <2>6, <2>7, FollowsAppend
  <2>9. Len(Append(toClient.msgs, m)) = Len(toClient.msgs) + 1
    BY <1>1, <2>6, SMTT(30)
  <2>10. Len(seen) + Len(buffer) + Len(Append(toClient.msgs, m)) = sent + 1
    <3> DEFINE a == Len(seen)
               b == Len(buffer)
               c == Len(toClient.msgs)
               d == Len(Append(toClient.msgs, m))
    <3>1. a \in Nat /\ b \in Nat /\ c \in Nat /\ a + b + c = sent /\ d = c + 1
      BY <1>2, <2>0, <2>9, ZenonT(30)
    <3> HIDE DEF a, b, c, d
    <3>2. a + b + d = sent + 1
      BY <1>2, <3>1, SMTT(30)
    <3> QED  BY <3>2, ZenonT(30) DEF a, b, d
  <2> QED  BY <2>2, <2>4, <2>8, <2>10
<1> QED  BY <1>3, <1>4, <1>5 DEF InOrder

(* A delivery: the head of the buffer is the item after those seen.        *)
LEMMA HeadFacts ==
  ASSUME DInv, pc.evb = "deliver", buffer # <<>>
  PROVE  /\ client = "open" /\ Len(seen) \in Nat /\ sent \in Nat
         /\ Head(buffer) # End => /\ Head(buffer) = <<"gen", Len(seen) + 1>>
                                  /\ Len(seen) + 1 <= sent
         /\ Head(buffer) = End => Len(seen) = sent /\ finished = TRUE
<1>1. /\ client = "open" /\ sent \in Nat /\ seen \in Seq(Items)
      /\ buffer \in Seq(Items \union {End}) /\ finished \in BOOLEAN
      /\ toClient.msgs \in Seq(Items \union {End})
  BY DEF DInv, Data, Stages, IInv, Places
<1>2. /\ Len(seen) \in Nat /\ Len(buffer) \in Nat /\ Len(buffer) >= 1
      /\ Head(buffer) = buffer[1] /\ Len(toClient.msgs) \in Nat
  BY <1>1, SMTT(30)
<1>0. Len(seen) + Len(buffer) + Len(toClient.msgs) = Pushed
  BY <1>1 DEF DInv, InOrder
<1>3. Len(seen) <= sent /\ Follows(buffer, Len(seen), sent)
  BY <1>1 DEF DInv, InOrder
<1>4. Head(buffer) = Message(Len(seen) + 1, sent)
  BY <1>1, <1>2, <1>3, FollowsTail
<1>5. \A k : <<"gen", k>> # End
  BY DEF End
<1>6. CASE Len(seen) + 1 <= sent
  <2>1. Head(buffer) = <<"gen", Len(seen) + 1>>
    BY <1>4, <1>6 DEF Message
  <2> QED  BY <1>1, <1>2, <1>5, <1>6, <2>1
<1>7. CASE ~(Len(seen) + 1 <= sent)
  <2>1. Len(seen) = sent
    BY <1>1, <1>2, <1>3, <1>7, SMTT(30)
  <2>2. Pushed # sent
    <3>1. Len(buffer) # 0 /\ sent \in Nat
      BY <1>1, <1>2, SMTT(30)
    <3>2. Len(seen) + Len(buffer) + Len(toClient.msgs) # Len(seen)
      BY <1>2, <3>1, NotAll, ZenonT(30)
    <3> QED  BY <1>0, <2>1, <3>2, ZenonT(30)
  <2>3. finished = TRUE
    BY <2>2 DEF Pushed
  <2>4. Head(buffer) = End
    BY <1>4, <1>7 DEF Message
  <2> QED  BY <1>1, <1>2, <2>1, <2>3, <2>4
<1> QED  BY <1>6, <1>7

(* Every step keeps the order of the messages.                             *)
LEMMA OrderStep ==
  ASSUME DInv, [Next]_vars, Data'
  PROVE  InOrder'
<1>0. InOrder /\ Places
  BY DEF DInv, IInv
<1> USE DEF queues, generator, callback
<1>1. ASSUME NEW n \in 0..MaxGrants, FirstResponse(n)  PROVE InOrder'
  BY <1>0, <1>1, OrderStays DEF FirstResponse
<1>2. ASSUME NEW n \in 1..MaxGrants, RequestN(n)  PROVE InOrder'
  BY <1>0, <1>2, OrderStays DEF RequestN
<1>3. CASE PauseStream
  BY <1>0, <1>3, OrderStays DEF PauseStream
<1>4. CASE ResumeStream
  BY <1>0, <1>4, OrderStays DEF ResumeStream
<1>5. CASE Cancel
  BY <1>0, <1>5, OrderStays DEF Cancel
<1>6. CASE ClientClose
  <2>1. client' # "open"
    BY <1>6 DEF ClientClose, DInv, IInv
  <2> QED  BY <1>0, <1>6, <2>1, OrderStays DEF ClientClose
<1>7. CASE RunTask
  BY <1>0, <1>7, OrderStays DEF RunTask
<1>8. CASE ClientWait
  <2>1. toClient'.msgs = toClient.msgs
    BY <1>0, <1>8, WaitKeeps DEF ClientWait, Places
  <2> QED  BY <1>0, <1>8, <2>1, OrderStays DEF ClientWait
<1>9. CASE ClientGetMessages
  <2>1. /\ client = "open" /\ buffer = <<>> /\ ~IsClosed(toClient)
    BY <1>9 DEF ClientGetMessages, DInv, Stages, IInv
  <2>2. buffer' = toClient.msgs /\ toClient'.msgs = <<>>
    BY <1>9, <2>1, QueueMessages DEF ClientGetMessages
  <2>3. UNCHANGED <<seen, sent, finished, client>>
    BY <1>9 DEF ClientGetMessages
  <2>4. /\ toClient.msgs \in Seq(Items \union {End}) /\ seen \in Seq(Items)
        /\ Len(buffer) = 0 /\ Len(toClient'.msgs) = 0
        /\ Len(toClient.msgs) \in Nat /\ Len(seen) \in Nat
    BY <1>0, <2>1, <2>2, SMTT(30) DEF Places, DInv, Data
  <2>5. Follows(buffer', Len(seen'), sent')
    <3>1. Len(seen) + Len(buffer) = Len(seen)
      BY <2>4, SMTT(30)
    <3>2. Follows(toClient.msgs, Len(seen) + Len(buffer), sent)
      BY <1>0, <2>1 DEF InOrder
    <3> QED  BY <2>2, <2>3, <3>1, <3>2
  <2>6. Follows(toClient'.msgs, Len(seen') + Len(buffer'), sent')
    BY <2>4, SMTT(30) DEF Follows
  <2>7. Len(seen') + Len(buffer') + Len(toClient'.msgs)
          = Pushed'
    BY <1>0, <2>1, <2>2, <2>3, <2>4, SMTT(30) DEF InOrder, Pushed
  <2> QED  BY <1>0, <2>3, <2>5, <2>6, <2>7 DEF InOrder, Pushed
<1>10. CASE Deliver
  <2>1. /\ client = "open" /\ Len(seen) \in Nat /\ sent \in Nat
        /\ Head(buffer) = <<"gen", Len(seen) + 1>> /\ Len(seen) + 1 <= sent
    BY <1>10, HeadFacts DEF Deliver
  <2>2. /\ seen' = Append(seen, Head(buffer)) /\ buffer' = Tail(buffer)
        /\ UNCHANGED <<sent, finished, client, toClient>> /\ buffer # <<>>
    BY <1>10 DEF Deliver
  <2>3. /\ seen \in Seq(Items) /\ buffer \in Seq(Items \union {End})
        /\ Head(buffer) \in Items
        /\ toClient.msgs \in Seq(Items \union {End})
    BY <1>0, <1>10, SMTT(30) DEF DInv, Data, Places, Deliver
  <2>4. /\ Len(seen') = Len(seen) + 1 /\ Len(buffer') = Len(buffer) - 1
        /\ Len(buffer) \in Nat /\ Len(buffer) >= 1
        /\ Len(toClient.msgs) \in Nat
        /\ seen'[Len(seen) + 1] = Head(buffer)
        /\ \A i \in 1..Len(seen) : seen'[i] = seen[i]
        /\ \A i \in 1..(Len(buffer) - 1) : buffer'[i] = buffer[i + 1]
    BY <2>1, <2>2, <2>3, SMTT(30)
  <2>5. ASSUME NEW i \in 1..Len(seen')  PROVE seen'[i] = <<"gen", i>>
    <3>1. CASE i = Len(seen) + 1
      BY <2>1, <2>4, <3>1
    <3>2. CASE i # Len(seen) + 1
      <4>1. i \in 1..Len(seen)
        BY <2>1, <2>4, <3>2, SMTT(30)
      <4> QED  BY <1>0, <2>4, <4>1 DEF InOrder
    <3> QED  BY <3>1, <3>2
  <2>6. Follows(buffer', Len(seen'), sent')
    <3>1. Follows(buffer, Len(seen), sent)
      BY <1>0, <2>1 DEF InOrder
    <3>2. Follows(Tail(buffer), Len(seen) + 1, sent)
      BY <2>1, <2>2, <2>3, <3>1, FollowsTail
    <3> QED  BY <2>2, <2>4, <3>2
  <2>7. Len(seen') + Len(buffer') = Len(seen) + Len(buffer)
    BY <2>1, <2>4, SMTT(30)
  <2>8. Follows(toClient'.msgs, Len(seen') + Len(buffer'), sent')
    BY <1>0, <2>1, <2>2, <2>7 DEF InOrder
  <2>9. Len(seen') + Len(buffer') + Len(toClient'.msgs)
          = Pushed'
    BY <1>0, <2>1, <2>2, <2>7 DEF InOrder, Pushed
  <2> QED  BY <2>1, <2>2, <2>4, <2>5, <2>6, <2>8, <2>9 DEF InOrder
<1>11. CASE DeliverEnd
  BY <1>0, <1>11, OrderStays DEF DeliverEnd
<1>12. CASE Delivered
  BY <1>0, <1>12, OrderStays DEF Delivered
<1>13. CASE GenStart \/ GenFail \/ ServerWait \/ ServerGetMessages
  BY <1>0, <1>13, OrderStays
  DEF GenStart, GenFail, ServerWait, ServerGetMessages
<1>14. CASE GenNext
  <2>1. finished = FALSE
    BY <1>14 DEF GenNext, DInv, Data, Stages, Ending
  <2>2. /\ sent \in Nat /\ sent' = sent + 1 /\ finished' = FALSE
        /\ toClient' = Push(toClient, <<"gen", sent + 1>>)
        /\ UNCHANGED <<seen, buffer, client>>
    BY <1>14, <2>1, SMTT(30) DEF GenNext, ServerPush, DInv, Data
  <2>3. /\ <<"gen", sent + 1>> = Message(sent + 1, sent') /\ sent <= sent'
        /\ Pushed' = sent + 1
    BY <2>2, SMTT(30) DEF Message, Pushed
  <2> QED  BY <2>1, <2>2, <2>3, PushInOrder
<1>15. CASE GenEnd
  <2>1. finished = FALSE
    BY <1>15 DEF GenEnd, DInv, Data, Stages, Ending
  <2>2. /\ sent \in Nat /\ sent' = sent /\ finished' = TRUE
        /\ toClient' = Push(toClient, End)
        /\ UNCHANGED <<seen, buffer, client>>
    BY <1>15, SMTT(30) DEF GenEnd, ServerPush, DInv, Data
  <2>3. /\ End = Message(sent + 1, sent') /\ sent <= sent'
        /\ Pushed' = sent + 1
    BY <2>2, SMTT(30) DEF Message, Pushed
  <2> QED  BY <2>1, <2>2, <2>3, PushInOrder
<1>16. CASE Consume \/ ServerClose \/ GenRelease
  BY <1>0, <1>16, OrderStays DEF Consume, ServerClose, GenRelease
<1>17. CASE UNCHANGED vars
  BY <1>0, <1>17, OrderStays DEF vars
<1> QED
  BY <1>1, <1>2, <1>3, <1>4, <1>5, <1>6, <1>7, <1>8, <1>9, <1>10, <1>11,
     <1>12, <1>13, <1>14, <1>15, <1>16, <1>17
  DEF Next, EvbStep, GenStep

(* A step that moves no credit keeps the account.                          *)
LEMMA CreditStays ==
  ASSUME Credited, UNCHANGED <<tokens, granted, seen, sent, credits>>,
         \/ IsClosed(toServer)'
         \/ ~IsClosed(toServer) /\ toServer'.msgs = toServer.msgs,
         pc'.gen = "next" => pc.gen = "next"
  PROVE  Credited'
BY DEF Credited

(* A message to the coroutine asks for what it says.                       *)
LEMMA PushAsks ==
  ASSUME DInv, NEW m \in Commands, toServer' = Push(toServer, m),
         ~IsClosed(toServer)'
  PROVE  /\ ~IsClosed(toServer) /\ AskedFor(toServer.msgs) \in Nat
         /\ AskedFor(toServer'.msgs) = AskedFor(toServer.msgs) + m[2]
<1>1. ~IsClosed(toServer)
  BY DEF Push
<1>2. toServer'.msgs = Append(toServer.msgs, m)
  BY <1>1, QueueMessages
<1>3. toServer.msgs \in Seq(Commands)
  BY DEF DInv, IInv, Places
<1> QED  BY <1>1, <1>2, <1>3, AskedForAppend

(* A message that asks for nothing keeps the account.                      *)
LEMMA CreditKept ==
  ASSUME DInv, NEW m \in Commands, m[2] = 0,
         NEW step \in EvbSteps, ClientPush(m, step),
         UNCHANGED <<tokens, granted, seen, sent, credits>>
  PROVE  Credited'
<1>1. toServer' = Push(toServer, m)
  BY DEF ClientPush
<1>2. pc'.gen = "next" => pc.gen = "next"
  BY ClientPushLeaves
<1>3. ~IsClosed(toServer)' =>
        /\ ~IsClosed(toServer) /\ AskedFor(toServer.msgs) \in Nat
        /\ AskedFor(toServer'.msgs) = AskedFor(toServer.msgs) + 0
  BY <1>1, PushAsks
<1>4. Credited
  BY DEF DInv
<1> QED  BY <1>2, <1>3, <1>4, SMTT(30) DEF Credited

(* A grant adds as much to the client's tokens as to what the coroutine is *)
(* asked for.                                                              *)
LEMMA CreditGranted ==
  ASSUME DInv, NEW n \in 1..MaxGrants, NEW step \in EvbSteps,
         ClientPush(Ask(n), step), tokens' = tokens + n,
         granted' = granted + n, UNCHANGED <<seen, sent, credits>>
  PROVE  Credited'
<1>1. toServer' = Push(toServer, Ask(n)) /\ Ask(n) \in Commands
  BY MessageTypes DEF ClientPush
<1>2. pc'.gen = "next" => pc.gen = "next"
  BY <1>1, ClientPushLeaves
<1>3. Ask(n)[2] = n
  BY DEF Ask
<1>4. ~IsClosed(toServer)' =>
        /\ ~IsClosed(toServer) /\ AskedFor(toServer.msgs) \in Nat
        /\ AskedFor(toServer'.msgs) = AskedFor(toServer.msgs) + n
  BY <1>1, <1>3, PushAsks
<1>5. /\ Credited /\ tokens \in Int /\ granted \in Nat /\ n \in Nat
      /\ seen \in Seq(Items) /\ sent \in Nat /\ credits \in Nat
  BY GeneratorAssumption, SMTT(30) DEF DInv, Data
<1>6. Len(seen) \in Nat
  BY <1>5, SMTT(30)
<1>7. tokens' = granted' - Len(seen') /\ sent' <= granted'
  BY <1>5, <1>6, SMTT(30) DEF Credited
<1>8. ASSUME ~IsClosed(toServer)'
      PROVE  credits' + AskedFor(toServer'.msgs) + sent' = granted'
  <2> DEFINE a == AskedFor(toServer.msgs)
             b == AskedFor(toServer'.msgs)
  <2>1. a \in Nat /\ b = a + n /\ credits + a + sent = granted
    BY <1>4, <1>5, <1>8 DEF Credited
  <2> HIDE DEF a, b
  <2>2. credits' + b + sent' = granted'
    BY <1>5, <2>1, SMTT(30)
  <2> QED  BY <2>2 DEF b
<1>9. pc'.gen = "next" => credits' # 0
  BY <1>2, <1>5 DEF Credited
<1> QED  BY <1>7, <1>8, <1>9 DEF Credited

(* Every step keeps the account of the credits.                            *)
LEMMA CreditStep ==
  ASSUME DInv, [Next]_vars
  PROVE  Credited'
<1>0. /\ Credited /\ Places /\ tokens \in Int /\ granted \in Nat
      /\ seen \in Seq(Items) /\ sent \in Nat /\ credits \in Nat
      /\ Len(seen) \in Nat
  BY GeneratorAssumption, SMTT(30) DEF DInv, IInv, Data
<1> USE DEF queues, generator, callback
<1>1. ASSUME NEW n \in 0..MaxGrants, FirstResponse(n)  PROVE Credited'
  <2>1. granted = 0
    BY <1>1 DEF FirstResponse, DInv, Stages
  <2>2. tokens = 0 /\ n \in Nat
    <3>1. Len(seen) <= sent /\ sent <= granted /\ tokens = granted - Len(seen)
      BY DEF DInv, InOrder, Credited
    <3> QED  BY <1>0, <2>1, <3>1, GeneratorAssumption, SMTT(30)
  <2>3. tokens' = tokens + n /\ granted' = granted + n
    BY <1>1, <2>1, <2>2, SMTT(30) DEF FirstResponse
  <2>4. UNCHANGED <<seen, sent, credits>>
    BY <1>1 DEF FirstResponse
  <2>5. CASE n = 0
    <3>1. UNCHANGED <<tokens, granted>>
      BY <1>0, <2>3, <2>5, SMTT(30)
    <3>3. ~(n > 0)
      BY <2>5, SMTT(30)
    <3>2. pc'.gen = pc.gen /\ toServer' = toServer
      BY <1>0, <1>1, <3>3 DEF FirstResponse, Places
    <3> QED  BY <1>0, <2>4, <3>1, <3>2, CreditStays DEF IsClosed
  <2>6. CASE n # 0
    <3>1. n \in 1..MaxGrants /\ n > 0 /\ "loop" \in EvbSteps
      BY <2>6, GeneratorAssumption, SMTT(30) DEF EvbSteps
    <3>2. ClientPush(Ask(n), "loop")
      BY <1>1, <3>1 DEF FirstResponse
    <3> QED  BY <2>3, <2>4, <3>1, <3>2, CreditGranted
  <2> QED  BY <2>5, <2>6
<1>2. ASSUME NEW n \in 1..MaxGrants, RequestN(n)  PROVE Credited'
  <2>1. "out" \in EvbSteps
    BY DEF EvbSteps
  <2> QED  BY <1>2, <2>1, CreditGranted DEF RequestN
<1>3. CASE PauseStream \/ ResumeStream \/ Cancel
  <2>1. PICK m \in {Pause, Resume, CancelMessage}, step \in EvbSteps :
          ClientPush(m, step)
    BY <1>0, <1>3 DEF PauseStream, ResumeStream, Cancel, EvbSteps, Places
  <2>2. m \in Commands /\ m[2] = 0
    BY MessageTypes, SMTT(30) DEF Pause, Resume, CancelMessage
  <2>3. UNCHANGED <<tokens, granted, seen, sent, credits>>
    BY <1>3 DEF PauseStream, ResumeStream, Cancel
  <2> QED  BY <2>1, <2>2, <2>3, CreditKept
<1>4. CASE ClientClose \/ RunTask \/ ClientWait \/ ClientGetMessages
             \/ DeliverEnd \/ Delivered
  <2>1. /\ UNCHANGED <<tokens, granted, seen, sent, credits, toServer>>
    BY <1>4 DEF ClientClose, RunTask, ClientWait, ClientGetMessages,
                DeliverEnd, Delivered
  <2>2. pc'.gen = pc.gen
    BY <1>0, <1>4 DEF ClientClose, RunTask, ClientWait, ClientGetMessages,
                DeliverEnd, Delivered, Places
  <2> QED  BY <1>0, <2>1, <2>2, CreditStays DEF IsClosed
<1>5. CASE Deliver
  <2>1. /\ tokens' = tokens - 1 /\ seen' = Append(seen, Head(buffer))
        /\ UNCHANGED <<granted, sent, credits, toServer, pc>>
    BY <1>5 DEF Deliver
  <2>2. Head(buffer) \in Items
    BY <1>5, SMTT(30) DEF Deliver, DInv, Data
  <2>3. Len(seen') = Len(seen) + 1
    BY <1>0, <2>1, <2>2, SMTT(30)
  <2>4. tokens' = granted' - Len(seen')
    BY <1>0, <2>1, <2>3, SMTT(30) DEF Credited
  <2> QED  BY <1>0, <2>1, <2>4 DEF Credited, IsClosed
<1>6. CASE GenStart \/ GenFail \/ Consume \/ GenRelease \/ ServerClose
  <2>1. /\ UNCHANGED <<tokens, granted, seen, sent, credits>>
        /\ toServer' = toServer \/ toServer' = ClosedQueue
    BY <1>6 DEF GenStart, GenFail, Consume, GenRelease, ServerClose
  <2>2. pc'.gen # "next"
    BY <1>0, <1>6 DEF GenStart, GenFail, Consume, GenRelease, ServerClose,
                      GenGoto, Places
  <2> QED  BY <1>0, <2>1, <2>2, CreditStays, SMTT(30) DEF IsClosed, ClosedQueue
<1>7. CASE ServerWait
  <2>1. UNCHANGED <<tokens, granted, seen, sent, credits>>
    BY <1>7 DEF ServerWait
  <2>2. pc'.gen # "next"
    BY <1>0, <1>7 DEF ServerWait, GenGoto, Places
  <2>3. toServer'.msgs = toServer.msgs /\ ~IsClosed(toServer)
    BY <1>0, <1>7, WaitKeeps DEF ServerWait, Places, DInv, Stages
  <2> QED  BY <1>0, <2>1, <2>2, <2>3, CreditStays
<1>8. CASE ServerGetMessages
  <2>1. ~IsClosed(toServer) /\ AskedFor(toServer.msgs) \in Nat
    BY <1>0, <1>8, AskedForAppend, MessageTypes
    DEF ServerGetMessages, DInv, Stages, Places
  <2>2. /\ credits' = credits + AskedFor(toServer.msgs)
        /\ UNCHANGED <<tokens, granted, seen, sent>>
    BY <1>8 DEF ServerGetMessages
  <2>3. AskedFor(toServer'.msgs) = 0
    BY <1>8, <2>1, QueueMessages, AskedForNothing DEF ServerGetMessages
  <2>4. pc'.gen = "next" => credits' # 0
    BY <1>0, <1>8 DEF ServerGetMessages, GenGoto, Places
  <2>5. credits' + AskedFor(toServer'.msgs) + sent' = granted'
    BY <1>0, <2>1, <2>2, <2>3, SMTT(30) DEF Credited
  <2> QED  BY <1>0, <2>2, <2>4, <2>5 DEF Credited
<1>9. CASE GenNext
  <2>1. /\ credits' = credits - 1 /\ sent' = sent + 1 /\ credits # 0
        /\ UNCHANGED <<tokens, granted, seen, toServer>>
    BY <1>0, <1>9 DEF GenNext, Credited
  <2>2. pc'.gen # "next"
    BY <1>0, <1>9 DEF GenNext, ServerPush, GenGoto, Places
  <2>3. ~IsClosed(toServer) /\ AskedFor(toServer.msgs) \in Nat
    BY <1>0, <1>9, AskedForAppend, MessageTypes
    DEF GenNext, DInv, Stages, Places
  <2>4. credits + AskedFor(toServer.msgs) + sent = granted
    BY <1>0, <2>3 DEF Credited
  <2>5. /\ credits' + AskedFor(toServer'.msgs) + sent' = granted'
        /\ sent' <= granted'
    BY <1>0, <2>1, <2>3, <2>4, SMTT(30)
  <2> QED  BY <1>0, <2>1, <2>2, <2>5 DEF Credited
<1>10. CASE GenEnd
  <2>1. UNCHANGED <<tokens, granted, seen, sent, credits, toServer>>
    BY <1>10 DEF GenEnd
  <2>2. pc'.gen # "next"
    BY <1>0, <1>10 DEF GenEnd, ServerPush, GenGoto, Places
  <2> QED  BY <1>0, <2>1, <2>2, CreditStays DEF IsClosed
<1>11. CASE UNCHANGED vars
  BY <1>0, <1>11, CreditStays DEF vars, IsClosed
<1> QED
  BY <1>1, <1>2, <1>3, <1>4, <1>5, <1>6, <1>7, <1>8, <1>9, <1>10, <1>11
  DEF Next, EvbStep, GenStep

(* Every step keeps the whole invariant.                                   *)
LEMMA NextDInv ==
  ASSUME DInv, [Next]_vars
  PROVE  DInv'
<1>1. IInv'
  BY NextIInv DEF DInv
<1>2. Data'
  BY DataStep
<1> QED
  BY <1>1, <1>2, StagesStep, OrderStep, CreditStep DEF DInv

(* The items on their way to an open stream's client are those that were   *)
(* yielded and not yet given to it.                                        *)
LEMMA ItemsUnderWay ==
  ASSUME DInv, client = "open"
  PROVE  ItemsIn(toClient.msgs) + ItemsIn(buffer) = sent - Len(seen)
<1> DEFINE a == Len(seen)
           b == Len(buffer)
           c == Len(toClient.msgs)
           x == ItemsIn(buffer)
           y == ItemsIn(toClient.msgs)
<1>1. /\ sent \in Nat /\ seen \in Seq(Items)
      /\ buffer \in Seq(Items \union {End})
      /\ toClient.msgs \in Seq(Items \union {End})
  BY DEF DInv, Data, IInv, Places
<1>2. a \in Nat /\ b \in Nat /\ c \in Nat
  BY <1>1, SMTT(30)
<1>3. /\ a <= sent /\ Follows(buffer, a, sent)
      /\ Follows(toClient.msgs, a + b, sent)
      /\ a + b + c = Pushed
  BY DEF DInv, InOrder
<1>4. Pushed = sent \/ Pushed = sent + 1
  BY DEF Pushed
<1>5. c = 0 => y = 0
  <2>1. c = 0 => {i \in DOMAIN toClient.msgs : toClient.msgs[i] # End} = {}
    BY <1>1, SMTT(30)
  <2> QED  BY <2>1, FS_EmptySet DEF ItemsIn
<1> HIDE DEF a, b, c, x, y
<1>6. a + b <= sent + 1 /\ (a + b <= sent => a + b + c <= sent + 1)
  BY <1>1, <1>2, <1>3, <1>4, SMTT(30)
<1>7. x = IF a + b <= sent THEN b ELSE sent - a
  BY <1>1, <1>2, <1>3, <1>6, ItemsFollowing DEF b, x
<1>8. a + b <= sent => y = IF a + b + c <= sent THEN c ELSE sent - (a + b)
  <2>1. a + b \in Nat
    BY <1>2, SMTT(30)
  <2> QED  BY <1>1, <1>3, <1>6, <2>1, ItemsFollowing DEF c, y
<1>9. y + x = sent - a
  BY <1>1, <1>2, <1>3, <1>4, <1>5, <1>6, <1>7, <1>8, SMTT(30)
<1> QED  BY <1>9 DEF a, x, y

(* The types follow from the invariant.                                    *)
LEMMA Typed ==
  ASSUME DInv
  PROVE  TypeOK
<1>1. /\ Places /\ Data /\ Tokens \in 0..1 /\ refs = Tokens + GenRefs
  BY DEF DInv, IInv
<1>2. tasks \in 0..1
  <2>1. Holds(Busy) \in Nat /\ Holds(Wakes(toClient)) \in Nat
          /\ Holds(Waking) \in Nat
    BY DEF Holds
  <2> QED  BY <1>1, <2>1, SMTT(30) DEF Tokens, Places
<1>3. refs \in 0..3
  BY <1>1, SMTT(30) DEF GenRefs
<1>4. tokens \in 0..MaxGrants
  <2>1. /\ Len(seen) \in Nat /\ granted \in 0..MaxGrants /\ sent \in Nat
        /\ MaxGrants \in Nat
    BY <1>1, GeneratorAssumption, SMTT(30) DEF Data, Places
  <2>2. Len(seen) <= sent /\ sent <= granted /\ tokens = granted - Len(seen)
    BY DEF DInv, InOrder, Credited
  <2> QED  BY <2>1, <2>2, SMTT(30)
<1>5. /\ toClient \in Queues(Items \union {End})
      /\ toServer \in Queues(Commands)
  BY <1>1 DEF Places, Queues, Types
<1>6. {paused, requested, held, finished} \subseteq BOOLEAN
  BY <1>1 DEF Data
<1> QED
  BY <1>1, <1>2, <1>3, <1>4, <1>5, <1>6
  DEF TypeOK, Places, Data, GenSteps, EvbSteps

(* No credit is lost or used twice between the client's callback and the   *)
(* coroutine.                                                              *)
LEMMA Conserved ==
  ASSUME DInv
  PROVE  CreditsConserved
<1> DEFINE underWay == ItemsIn(toClient.msgs) + ItemsIn(buffer)
           a == Len(seen)
           asked == AskedFor(toServer.msgs)
<1>1. TypeOK
  BY Typed
<1>2. ASSUME client = "open"
      PROVE  /\ underWay <= tokens
             /\ ~IsClosed(toServer) => tokens = credits + asked + underWay
  <2>1. underWay = sent - a
    BY <1>2, ItemsUnderWay
  <2>2. /\ a \in Nat /\ asked \in Nat /\ sent \in Nat /\ credits \in Nat
        /\ granted \in Nat
    BY AskedForAppend, MessageTypes, GeneratorAssumption, SMTT(30)
    DEF DInv, IInv, Places, Data
  <2>3. /\ tokens = granted - a /\ sent <= granted
        /\ ~IsClosed(toServer) => credits + asked + sent = granted
    BY DEF DInv, Credited
  <2> HIDE DEF underWay, a, asked
  <2>4. underWay <= tokens
    BY <2>1, <2>2, <2>3, SMTT(30)
  <2>5. credits + asked + sent = granted => tokens = credits + asked + underWay
    BY <2>1, <2>2, <2>3, SMTT(30)
  <2> QED  BY <2>3, <2>4, <2>5
<1> QED  BY <1>1, <1>2 DEF CreditsConserved

(* The coroutine's credits, what is asked for on its way to the coroutine  *)
(* and the items on their way to the client always add up to the client's  *)
(* tokens, so that onStreamNext never finds none, however many items are   *)
(* yielded and granted and however often the stream is paused.             *)
THEOREM CreditsAlwaysConserved == Spec => []CreditsConserved
<1>1. Init => DInv
  BY InitDInv
<1>2. DInv /\ [Next]_vars => DInv'
  BY NextDInv
<1>3. DInv => CreditsConserved
  BY Conserved
<1> QED  BY <1>1, <1>2, <1>3, PTL DEF Spec

-----------------------------------------------------------------------------
(* The items given to the client are the first ones.                       *)
LEMMA ArrivedFirst ==
  ASSUME DInv
  PROVE  Contract!Arrived("gen") = 1..Len(seen)
<1>1. /\ Len(seen) \in Nat /\ DOMAIN seen = 1..Len(seen) /\ sent \in Nat
  BY SMTT(30) DEF DInv, Data, IInv, Places
<1>2. /\ Len(seen) <= sent
      /\ \A i \in 1..Len(seen) : seen[i] = <<"gen", i>>
  BY DEF DInv, InOrder
<1>3. ASSUME NEW n
      PROVE  (\E i \in DOMAIN seen : seen[i] = <<"gen", n>>)
               <=> n \in 1..Len(seen)
  BY <1>1, <1>2, SMTT(30)
<1>4. \A n \in 1..Len(seen) : n \in 1..sent
  BY <1>1, <1>2, SMTT(30)
<1>5. [p \in {"gen"} |-> sent]["gen"] = sent
  OBVIOUS
<1> QED  BY <1>3, <1>4, <1>5, ZenonT(30) DEF Contract!Arrived

(* A stream starts as its contract says.                                   *)
LEMMA InitContract == Init => Contract!Init
BY DEF Init, Contract!Init

(* Every step is a step of the contract, or none.                          *)
LEMMA NextContract ==
  ASSUME DInv, [Next]_vars
  PROVE  [Contract!Next]_(Contract!vars)
<1> USE DEF Contract!vars, queues, generator, callback
<1>0. granted \in Nat /\ sent \in Nat
  BY GeneratorAssumption, SMTT(30) DEF DInv, Data, IInv, Places
<1>1. ASSUME NEW n \in 0..MaxGrants, FirstResponse(n)
      PROVE  Contract!Grant \/ UNCHANGED Contract!vars
  <2>1. client = "open" /\ granted = 0
    BY <1>1 DEF FirstResponse, DInv, Stages
  <2>2. n = 0 \/ n > 0
    BY GeneratorAssumption, SMTT(30)
  <2>3. n \in Nat
    BY GeneratorAssumption, SMTT(30)
  <2>4. CASE n = 0
    BY <1>1, <2>1, <2>4 DEF FirstResponse
  <2>5. CASE n > 0
    BY <1>1, <2>1, <2>3, <2>5 DEF FirstResponse, Contract!Grant
  <2> QED  BY <2>2, <2>4, <2>5
<1>2. ASSUME NEW n \in 1..MaxGrants, RequestN(n)  PROVE Contract!Grant
  <2>1. n \in Nat /\ granted + n > granted /\ granted + n \in Nat
    BY <1>0, GeneratorAssumption, SMTT(30)
  <2> QED  BY <1>2, <2>1 DEF RequestN, OnEvb, Contract!Grant
<1>3. ASSUME \/ PauseStream \/ ResumeStream \/ ClientClose \/ RunTask
             \/ ClientWait \/ ClientGetMessages \/ Delivered
      PROVE  UNCHANGED Contract!vars
  BY <1>3 DEF PauseStream, ResumeStream, ClientClose, RunTask, ClientWait,
              ClientGetMessages, Delivered
<1>4. ASSUME Cancel PROVE Contract!Cancel
  BY <1>4 DEF Cancel, Contract!Cancel
<1>5. ASSUME Deliver PROVE Contract!Arrive("gen")
  <2>1. /\ client = "open" /\ Len(seen) \in Nat
        /\ Head(buffer) = <<"gen", Len(seen) + 1>> /\ Len(seen) + 1 <= sent
    BY <1>5, HeadFacts DEF Deliver
  <2>2. Contract!Arrived("gen") = 1..Len(seen)
    BY ArrivedFirst
  <2>3. /\ Len(seen) + 1 \in 1..sent /\ (Len(seen) + 1) - 1 = Len(seen)
        /\ Len(seen) < granted
    <3>1. sent <= granted
      BY DEF DInv, Credited
    <3> QED  BY <1>0, <2>1, <3>1, SMTT(30)
  <2>4. [p \in {"gen"} |-> sent]["gen"] = sent
    OBVIOUS
  <2>5. /\ seen' = Append(seen, <<"gen", Len(seen) + 1>>)
        /\ UNCHANGED <<sent, finished, granted, client>>
    BY <1>5, <2>1 DEF Deliver
  <2> QED  BY <2>1, <2>2, <2>3, <2>4, <2>5 DEF Contract!Arrive
<1>6. ASSUME DeliverEnd PROVE Contract!End
  <2>1. client = "open" /\ Len(seen) = sent /\ finished = TRUE
    BY <1>6, HeadFacts DEF DeliverEnd
  <2>2. Contract!Arrived("gen") = 1..sent
    BY <2>1, ArrivedFirst
  <2> QED  BY <1>6, <2>1, <2>2 DEF DeliverEnd, Contract!End
<1>7. ASSUME \/ GenStart \/ ServerWait \/ ServerGetMessages \/ Consume
             \/ ServerClose \/ GenRelease \/ GenFail
      PROVE  UNCHANGED Contract!vars
  BY <1>7 DEF GenStart, ServerWait, ServerGetMessages, Consume, ServerClose,
              GenRelease, GenFail
<1>8. ASSUME GenNext PROVE Contract!Produce("gen")
  <2>1. finished = FALSE
    BY <1>8 DEF GenNext, DInv, Stages, Data, Ending
  <2>2. [p \in {"gen"} |-> sent + 1]
          = [[p \in {"gen"} |-> sent] EXCEPT !["gen"] = @ + 1]
    OBVIOUS
  <2> QED  BY <1>8, <2>1, <2>2 DEF GenNext, Contract!Produce
<1>9. ASSUME GenEnd PROVE Contract!Finish
  BY <1>9 DEF GenEnd, Contract!Finish
<1>10. ASSUME UNCHANGED vars PROVE UNCHANGED Contract!vars
  BY <1>10 DEF vars
<1> HIDE DEF Contract!vars, queues, generator, callback
<1> QED
  BY <1>1, <1>2, <1>3, <1>4, <1>5, <1>6, <1>7, <1>8, <1>9, <1>10
  DEF Next, EvbStep, GenStep, Contract!Next

(* The items of a generator reach the client in the order in which they    *)
(* were yielded, none twice and none left out, no more than it asked for,  *)
(* the end after all of them, and nothing after the end or a cancellation. *)
THEOREM GeneratorKeepsContract == Spec => ImplementsStream
<1>1. Init => DInv
  BY InitDInv
<1>2. DInv /\ [Next]_vars => DInv'
  BY NextDInv
<1>3. Init => Contract!Init
  BY InitContract
<1>4. DInv /\ [Next]_vars => [Contract!Next]_(Contract!vars)
  BY NextContract
<1> QED
  BY <1>1, <1>2, <1>3, <1>4, PTL
  DEF Spec, ImplementsStream, Contract!Spec

=============================================================================
