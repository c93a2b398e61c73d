------------------------ MODULE ServerGeneratorStream -------------------------
(***************************************************************************)
(* ServerGeneratorStreamBridge (thrift/lib/cpp2/async): a stream whose     *)
(* items come from a coroutine of the service.                             *)
(*                                                                         *)
(* The coroutine ("gen") runs on an executor and the client's callback, a  *)
(* RocketStreamClientCallback, on the connection's event base ("evb").     *)
(* They talk through the two queues of a TwoWayBridge, each of which can   *)
(* hold the other side waiting.  Three owners share the bridge: the        *)
(* coroutine, the function that runs when it ends, and the client's side,  *)
(* which lets go when it has been given the end or told of the closing.    *)
(***************************************************************************)
EXTENDS TwoWayBridge, Naturals, FiniteSets

CONSTANTS MaxItems,   \* how many items the coroutine may yield
          MaxGrants,  \* how many items the client may ask for
          MaxPauses   \* how often the connection may pause the stream

ASSUME GeneratorAssumption ==
  MaxItems \in Nat /\ MaxGrants \in Nat /\ MaxPauses \in Nat

VARIABLES
  toClient,   \* clientQueue_
  toServer,   \* serverQueue_
  pc,         \* thread -> where it is
  credits,    \* of the coroutine
  paused,     \* pauseStream, of the coroutine
  requested,  \* has cancelSource_ been asked for cancellation?
  then,       \* what the event base does after onStreamCancel
  buffer,     \* messages that processClientMessages has in its hands
  tasks,      \* processClientMessages scheduled by consume()
  refs,       \* refCount_
  tokens,     \* tokens_ of the client's callback
  held,       \* is the stream paused by the connection?
  pauses,     \* how often it was
  client,     \* the client's callback: "open", "ended" or "cancelled"
  sent,       \* history: number of items yielded
  finished,   \* history: has the coroutine pushed the end?
  seen,       \* history: the items given to the client's callback
  granted     \* history: the tokens given by the client

queues == <<toClient, toServer>>
generator == <<credits, paused, sent, finished>>
callback == <<tokens, held, pauses, client, granted>>
vars == <<queues, generator, callback, pc, requested, then, buffer, tasks, refs,
          seen>>

(* To the client: the items, and Complete or an error.                     *)
End == <<>>
Items == {"gen"} \X (1..MaxItems)

(* To the server.                                                          *)
Ask(n) == <<"RequestN", n>>
CancelMessage == <<"Cancel", 0>>
Pause == <<"Pause", 0>>
Resume == <<"Resume", 0>>
Commands == {Ask(n) : n \in 1..MaxGrants} \union {CancelMessage, Pause, Resume}

Init ==
  /\ toClient = EmptyQueue
  /\ toServer = EmptyQueue
  /\ pc = [gen |-> "start", evb |-> "first"]
  /\ credits = 0
  /\ paused = FALSE
  /\ requested = FALSE
  /\ then = "loop"
  /\ buffer = <<>>
  /\ tasks = 0
  /\ refs = 3
  /\ tokens = 0
  /\ held = FALSE
  /\ pauses = 0
  /\ client = "open"
  /\ sent = 0
  /\ finished = FALSE
  /\ seen = <<>>
  /\ granted = 0

-----------------------------------------------------------------------------
(* The client's side, on the event base.                                   *)

\* mutant: a push to a waiting coroutine does not wake it
ClientPushSilently(m, step) ==
  /\ toServer' = Push(toServer, m)
  /\ pc' = [pc EXCEPT !.evb = step]

(* clientPush: a coroutine that waits is woken; the event base goes on.    *)
ClientPush(m, step) ==
  /\ toServer' = Push(toServer, m)
  /\ pc' = [pc EXCEPT !.evb = step,
                      !.gen = IF Wakes(toServer) THEN "get" ELSE @]

(* onFirstResponse: the client has asked for n items besides the first     *)
(* response; then processClientMessages.                                   *)
FirstResponse(n) ==
  /\ pc.evb = "first"
  /\ tokens' = n
  /\ granted' = n
  /\ IF n > 0 THEN ClientPush(Ask(n), "loop")
              ELSE pc' = [pc EXCEPT !.evb = "loop"] /\ UNCHANGED toServer
  /\ then' = "out"
  /\ UNCHANGED <<toClient, generator, held, pauses, client, requested, buffer,
                 tasks, refs, seen>>

OnEvb == client = "open" /\ pc.evb = "out"

(* A REQUEST_N frame.                                                      *)
RequestN(n) ==
  /\ OnEvb /\ granted + n <= MaxGrants
  /\ tokens' = tokens + n
  /\ granted' = granted + n
  /\ ClientPush(Ask(n), "out")
  /\ UNCHANGED <<toClient, generator, held, pauses, client, requested, then,
                 buffer, tasks, refs, seen>>

(* The connection pauses its streams, even during onFirstResponse, and     *)
(* resumes them.                                                           *)
PauseStream ==
  /\ client = "open" /\ pc.evb \in {"out", "first"}
  /\ ~held /\ pauses < MaxPauses
  /\ held' = TRUE
  /\ pauses' = pauses + 1
  /\ ClientPush(Pause, pc.evb)
  /\ UNCHANGED <<toClient, generator, tokens, client, granted, requested, then,
                 buffer, tasks, refs, seen>>

ResumeStream ==
  /\ OnEvb /\ held
  /\ held' = FALSE
  /\ ClientPush(Resume, "out")
  /\ UNCHANGED <<toClient, generator, tokens, pauses, client, granted,
                 requested, then, buffer, tasks, refs, seen>>

\* mutant: the generator is not asked to cancel
CancelUnrequested ==
  /\ client = "open" /\ pc.evb \in {"out", "first"}
  /\ client' = "cancelled"
  /\ ClientPush(CancelMessage, "close")
  /\ UNCHANGED <<toClient, generator, tokens, held, pauses, granted, requested,
                 then, buffer, tasks, refs, seen>>

(* onStreamCancel, because of a CANCEL frame, of the expired credit        *)
(* timeout or of the connection's end, or in onFirstResponse if the stream *)
(* was cancelled before: cancellation is requested, the coroutine told ... *)
Cancel ==
  /\ client = "open" /\ pc.evb \in {"out", "first"}
  /\ client' = "cancelled"
  /\ requested' = TRUE
  /\ ClientPush(CancelMessage, "close")
  /\ UNCHANGED <<toClient, generator, tokens, held, pauses, granted, then,
                 buffer, tasks, refs, seen>>

\* mutant: the client's side lets go although its function is still scheduled
ClientCloseReleases ==
  /\ pc.evb = "close"
  /\ toClient' = ClosedQueue
  /\ refs' = refs - 1
  /\ pc' = [pc EXCEPT !.evb = then]
  /\ then' = "out"
  /\ UNCHANGED <<toServer, generator, callback, requested, buffer, tasks, seen>>

(* ... and the client's queue closed.  If the bridge waits there it is     *)
(* told at once, by canceled(), and lets go.                               *)
ClientClose ==
  /\ pc.evb = "close"
  /\ toClient' = ClosedQueue
  /\ refs' = IF Wakes(toClient) THEN refs - 1 ELSE refs
  /\ pc' = [pc EXCEPT !.evb = then]
  /\ then' = "out"
  /\ UNCHANGED <<toServer, generator, callback, requested, buffer, tasks, seen>>

(* The function that consume() scheduled.                                  *)
RunTask ==
  /\ pc.evb = "out" /\ tasks > 0
  /\ tasks' = tasks - 1
  /\ pc' = [pc EXCEPT !.evb = "loop"]
  /\ UNCHANGED <<queues, generator, callback, requested, then, buffer, refs,
                 seen>>

(* processClientMessages: wait, unless there are messages; on a closed     *)
(* queue canceled() lets go of the bridge.                                 *)
ClientWait ==
  /\ pc.evb = "loop"
  /\ toClient' = Wait(toClient)
  /\ refs' = IF IsClosed(toClient) THEN refs - 1 ELSE refs
  /\ pc' = [pc EXCEPT !.evb = IF Waits(toClient) THEN "out" ELSE "get"]
  /\ UNCHANGED <<toServer, generator, callback, requested, then, buffer, tasks,
                 seen>>

\* mutant: the messages are left in the order of the linked list
ClientGetMessagesReversed ==
  /\ pc.evb = "get"
  /\ toClient' = Taken(toClient)
  /\ LET msgs == toClient.msgs
     IN  buffer' = [i \in DOMAIN msgs |-> msgs[Len(msgs) + 1 - i]]
  /\ pc' = [pc EXCEPT !.evb = "deliver"]
  /\ UNCHANGED <<toServer, generator, callback, requested, then, tasks, refs,
                 seen>>

ClientGetMessages ==
  /\ pc.evb = "get"
  /\ toClient' = Taken(toClient)
  /\ buffer' = toClient.msgs
  /\ pc' = [pc EXCEPT !.evb = "deliver"]
  /\ UNCHANGED <<toServer, generator, callback, requested, then, tasks, refs,
                 seen>>

(* onStreamNext                                                            *)
Deliver ==
  /\ pc.evb = "deliver" /\ buffer # <<>> /\ Head(buffer) # End
  /\ seen' = Append(seen, Head(buffer))
  /\ tokens' = tokens - 1
  /\ buffer' = Tail(buffer)
  /\ UNCHANGED <<queues, generator, held, pauses, client, granted, pc,
                 requested, then, tasks, refs>>

(* onStreamComplete or onStreamError: the client's side lets go.           *)
DeliverEnd ==
  /\ pc.evb = "deliver" /\ buffer # <<>> /\ Head(buffer) = End
  /\ client' = "ended"
  /\ refs' = refs - 1
  /\ buffer' = <<>>
  /\ pc' = [pc EXCEPT !.evb = "out"]
  /\ UNCHANGED <<queues, generator, tokens, held, pauses, granted, requested,
                 then, tasks, seen>>

Delivered ==
  /\ pc.evb = "deliver" /\ buffer = <<>>
  /\ pc' = [pc EXCEPT !.evb = "loop"]
  /\ UNCHANGED <<queues, generator, callback, requested, then, buffer, tasks,
                 refs, seen>>

-----------------------------------------------------------------------------
(* fromAsyncGeneratorImpl, on the executor.                                *)

GenGoto(step) == pc' = [pc EXCEPT !.gen = step]

GenStart ==
  /\ pc.gen = "start"
  /\ GenGoto("check")
  /\ UNCHANGED <<queues, generator, callback, requested, then, buffer, tasks,
                 refs, seen>>

(* An interceptor throws at the beginning or on an item.                   *)
GenFail ==
  /\ pc.gen \in {"start", "next"}
  /\ GenGoto("close")
  /\ UNCHANGED <<queues, generator, callback, requested, then, buffer, tasks,
                 refs, seen>>

(* Without credit, or paused, it waits for a message.                      *)
ServerWait ==
  /\ pc.gen = "check"
  /\ IF credits = 0 \/ paused
       THEN /\ toServer' = Wait(toServer)
            /\ GenGoto(IF Waits(toServer) THEN "waiting" ELSE "get")
       ELSE GenGoto("get") /\ UNCHANGED toServer
  /\ UNCHANGED <<toClient, generator, callback, requested, then, buffer, tasks,
                 refs, seen>>

(* What the messages of a batch ask for in all: the tokens (i, k) of the   *)
(* messages that ask for at least k.                                       *)
AskedFor(msgs) ==
  Cardinality({t \in (DOMAIN msgs) \X (1..MaxGrants) : t[2] <= msgs[t[1]][2]})

(* The last Pause or Resume of a batch decides.                            *)
PausedAfter(msgs) ==
  LET turns == {i \in DOMAIN msgs : msgs[i] \in {Pause, Resume}}
      last == CHOOSE i \in turns : \A j \in turns : j <= i
  IN  IF turns = {} THEN paused ELSE msgs[last] = Pause

Cancels(msgs) == \E i \in DOMAIN msgs : msgs[i] = CancelMessage

\* mutant: what is asked for while the stream is paused does not count
ServerGetMessagesUnlessPaused ==
  /\ pc.gen = "get"
  /\ toServer' = Taken(toServer)
  /\ credits' = IF paused THEN credits ELSE credits + AskedFor(toServer.msgs)
  /\ paused' = PausedAfter(toServer.msgs)
  /\ GenGoto(CASE Cancels(toServer.msgs) -> "close"
               [] paused' \/ credits' = 0 -> "check"
               [] OTHER -> "next")
  /\ UNCHANGED <<toClient, sent, finished, callback, requested, then, buffer,
                 tasks, refs, seen>>

(* The coroutine takes the messages, one after the other.  A Cancel ends   *)
(* it, and without credit, or paused, it begins again.                     *)
ServerGetMessages ==
  /\ pc.gen = "get"
  /\ toServer' = Taken(toServer)
  /\ credits' = credits + AskedFor(toServer.msgs)
  /\ paused' = PausedAfter(toServer.msgs)
  /\ GenGoto(CASE Cancels(toServer.msgs) -> "close"
               [] paused' \/ credits' = 0 -> "check"
               [] OTHER -> "next")
  /\ UNCHANGED <<toClient, sent, finished, callback, requested, then, buffer,
                 tasks, refs, seen>>

(* serverPush: if the bridge waits in the client's queue, the event base   *)
(* has to be told before the coroutine goes on.                            *)
ServerPush(m, step, wake) ==
  /\ toClient' = Push(toClient, m)
  /\ GenGoto(IF Wakes(toClient) THEN wake ELSE step)

(* The coroutine yields an item, for a credit, ...                         *)
GenNext ==
  /\ pc.gen = "next" /\ sent < MaxItems
  /\ sent' = sent + 1
  /\ credits' = credits - 1
  /\ ServerPush(<<"gen", sent + 1>>, "check", "checkWake")
  /\ UNCHANGED <<toServer, paused, finished, callback, requested, then, buffer,
                 tasks, refs, seen>>

(* ... or it is at its end, throws, or gives up because of a cancellation. *)
GenEnd ==
  /\ pc.gen = "next"
  /\ finished' = TRUE
  /\ ServerPush(End, "close", "closeWake")
  /\ UNCHANGED <<toServer, credits, paused, sent, callback, requested, then,
                 buffer, tasks, refs, seen>>

(* consume(): processClientMessages is scheduled on the event base.        *)
Consume ==
  /\ pc.gen \in {"checkWake", "closeWake"}
  /\ tasks' = tasks + 1
  /\ GenGoto(IF pc.gen = "checkWake" THEN "check" ELSE "close")
  /\ UNCHANGED <<queues, generator, callback, requested, then, buffer, refs,
                 seen>>

(* SCOPE_EXIT: serverClose, after which the coroutine's reference and then *)
(* that of the function started with it are dropped.                       *)
ServerClose ==
  /\ pc.gen = "close"
  /\ toServer' = ClosedQueue
  /\ GenGoto("release")
  /\ UNCHANGED <<toClient, generator, callback, requested, then, buffer, tasks,
                 refs, seen>>

GenRelease ==
  /\ pc.gen \in {"release", "started"}
  /\ refs' = refs - 1
  /\ GenGoto(IF pc.gen = "release" THEN "started" ELSE "gone")
  /\ UNCHANGED <<queues, generator, callback, requested, then, buffer, tasks,
                 seen>>

-----------------------------------------------------------------------------
EvbStep == \/ ClientClose \/ RunTask \/ ClientWait \/ ClientGetMessages
           \/ Deliver \/ DeliverEnd \/ Delivered

GenStep == \/ GenStart \/ ServerWait \/ ServerGetMessages \/ Consume
           \/ ServerClose \/ GenRelease

Next ==
  \/ \E n \in 0..MaxGrants : FirstResponse(n)
  \/ \E n \in 1..MaxGrants : RequestN(n)
  \/ PauseStream \/ ResumeStream \/ Cancel
  \/ EvbStep
  \/ GenStep \/ GenFail \/ GenNext \/ GenEnd

Spec == Init /\ [][Next]_vars

(* The event base answers first and runs its functions, the executor runs  *)
(* the coroutine, and the service's generator returns when it is asked to  *)
(* cancel.  It need not yield anything, and the client owes nothing.       *)
FairSpec ==
  /\ Spec
  /\ WF_vars(EvbStep)
  /\ WF_vars(GenStep)
  /\ WF_vars(\E n \in 0..MaxGrants : FirstResponse(n))
  /\ WF_vars(requested /\ GenEnd)

-----------------------------------------------------------------------------
(* Properties                                                              *)

(* Types: each side is at one of the steps of the code.                    *)
TypeOK ==
  /\ toClient \in Queues(Items \union {End})
  /\ toServer \in Queues(Commands)
  /\ pc \in [gen : {"start", "check", "waiting", "get", "next", "checkWake",
                    "closeWake", "close", "release", "started", "gone"},
             evb : {"first", "out", "close", "loop", "get", "deliver"}]
  /\ credits \in 0..MaxGrants /\ tokens \in 0..MaxGrants
  /\ granted \in 0..MaxGrants
  /\ {paused, requested, held, finished} \subseteq BOOLEAN
  /\ then \in {"out", "loop"}
  /\ buffer \in Seq(Items \union {End})
  /\ tasks \in 0..1 /\ refs \in 0..3 /\ pauses \in 0..MaxPauses
  /\ client \in {"open", "ended", "cancelled"}
  /\ sent \in 0..MaxItems /\ seen \in Seq(Items)

Holds(what) == IF what THEN 1 ELSE 0

(* The client's side still uses the bridge: its callback may call it, it   *)
(* waits in the queue, or a function of its is running or scheduled.       *)
ClientUses ==
  \/ client = "open" \/ pc.evb # "out" \/ tasks > 0
  \/ Wakes(toClient) \/ pc.gen \in {"checkWake", "closeWake"}

(* Every owner counts once: the client's side as long as it uses the       *)
(* bridge, although its functions hold no reference of their own and a     *)
(* cancellation may come before a scheduled one runs.                      *)
OwnersCounted ==
  refs = Holds(ClientUses)
           + (CASE pc.gen = "gone" -> 0 [] pc.gen = "started" -> 1
                [] OTHER -> 2)

ItemsIn(s) == Cardinality({i \in DOMAIN s : s[i] # End})

(* No credit is lost or used twice on its way: what the client's callback  *)
(* thinks it may be given is what the coroutine may yield, plus what is in *)
(* either queue, until the coroutine ends.  So an item always finds a      *)
(* token, as onStreamNext asserts.                                         *)
CreditsConserved ==
  LET underWay == ItemsIn(toClient.msgs) + ItemsIn(buffer)
  IN  /\ TypeOK
      /\ client = "open" =>
           /\ underWay <= tokens
           /\ ~IsClosed(toServer) =>
                tokens = credits + AskedFor(toServer.msgs) + underWay

(* What StreamContract says of a stream is so of this one.                 *)
Contract == INSTANCE StreamContract WITH
  Producers <- {"gen"},
  sent <- [p \in {"gen"} |-> sent],
  over <- client

ImplementsStream == Contract!Spec

Running == pc.gen \notin {"close", "closeWake", "release", "started", "gone"}

(* What the coroutine has yielded reaches the client, and so does its end, *)
(* unless the client cancels: no wakeup of the event base is lost.  A      *)
(* client that has asked for more, and is not paused, has the coroutine    *)
(* ask the generator for it, whatever pauses and requests came before: no  *)
(* wakeup of the coroutine is lost.                                        *)
NoLostWakeup ==
  /\ \A n \in 1..MaxItems : sent >= n ~> Len(seen) >= n \/ client = "cancelled"
  /\ finished ~> client # "open"
  /\ tokens > 0 /\ ~held ~> \/ pc.gen = "next" \/ ~Running
                            \/ tokens = 0 \/ held \/ client # "open"

(* A stream that is over, in either way, is deleted.                       *)
BridgeReleased == client # "open" ~> refs = 0

=============================================================================
