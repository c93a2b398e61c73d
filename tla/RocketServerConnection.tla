------------------------ MODULE RocketServerConnection ------------------------
(***************************************************************************)
(* RocketServerConnection with the frame contexts, stream callbacks and    *)
(* sink callbacks it owns (thrift/lib/cpp2/transport/rocket/server): the   *)
(* batching of writes, the completion of requests, back-pressure, credit   *)
(* and chunk timeouts, and the way from ALIVE to CLOSED.                   *)
(*                                                                         *)
(* Everything runs on the connection's event base, so an action is a whole *)
(* callback.  c is the connection object; the operators that take it and   *)
(* give it back are its methods, and a callback ends in CloseIfNeeded or   *)
(* Close as in the code.  The socket and the server callbacks behind the   *)
(* streams are external.                                                   *)
(***************************************************************************)
EXTENDS Integers, FiniteSets, Sequences, Functions

CONSTANTS Singles,     \* request-response requests
          Oneways,     \* fire-and-forget requests
          Streams,     \* requests for a stream
          Sinks,       \* requests for a sink
          HasFds,      \* the requests whose frames carry file descriptors
          Faulty,      \* the requests that the server may refuse unanswered
          MaxArrivals, \* bound: the requests read
          MaxTokens,   \* bound: the credits a peer holds at a time
          MaxGrants,   \* bound: the times credits are granted
          MaxHandles,  \* bound: read pauses at a time
          Threshold,   \* egressBufferBackpressureThreshold_, in frames
          Recovery,    \* egressBufferRecoverySize_, in frames
          EgressLimit  \* the limit of egressMemoryTracker_, in frames

(* A frame is the request it belongs to, or this for stream 0.             *)
Stream0 == "stream 0"

Ids == Singles \cup Oneways \cup Streams \cup Sinks
Flows == Streams \cup Sinks

ASSUME ConnectionAssumption ==
  /\ Singles \cap (Oneways \cup Flows) = {}
  /\ Oneways \cap Flows = {} /\ Streams \cap Sinks = {}
  /\ HasFds \subseteq Ids /\ Faulty \subseteq Ids /\ Stream0 \notin Ids
  /\ MaxArrivals \in Nat /\ MaxTokens \in Nat \ {0}
  /\ MaxGrants \in Nat /\ MaxHandles \in Nat
  /\ Threshold \in Nat /\ Recovery \in 0..Threshold /\ EgressLimit \in Nat

VARIABLES
  c,       \* the connection, a record of the members below
  arrived, \* history: the requests that were read
  told     \* the streams whose server callback is paused

vars == <<c, arrived, told>>

Init ==
  /\ c = [state    |-> "ALIVE",    \* state_
          code     |-> FALSE,      \* drainCompleteCode_
          drained  |-> FALSE,      \* socketDrainer_.drainComplete_
          timer    |-> FALSE,      \* is socketDrainer_ scheduled?
          sock     |-> "open",     \* the socket: open, eof, closed or error
          reading  |-> TRUE,       \* does the socket have its read callback?
          active   |-> {},         \* inflightRequests_, the live contexts
          answered |-> {},         \* those of single requests that have an answer
          flow     |-> [s \in Flows |-> "none"], \* streams_ and its handlers
          tokens   |-> [s \in Flows |-> 0],      \* tokens_, credits_
          timers   |-> {},         \* the handlers whose timeout is armed
          finals   |-> 0,          \* inflightSinkFinalResponses_
          batch    |-> <<>>,       \* bufferedWrites_
          owed     |-> {},         \* requestCompleteCount of the batch
          writes   |-> <<>>,       \* inflightWritesQueue_
          handles  |-> 0,          \* activePausedHandlers_
          paused   |-> FALSE,      \* streamsPaused_
          grants   |-> 0,          \* history: credits granted
          ended    |-> [x \in Ids |-> 0], \* history: requestComplete() calls
          reported |-> {},         \* history: told to frameHandler_
          leftover |-> "none"]     \* history: what the destructor meets
  /\ arrived = {}
  /\ told = {}

Dead(d) == d.sock \in {"closed", "error"}
Buffered(d) ==
  Cardinality(UNION {{i} \X DOMAIN d.writes[i].frames : i \in DOMAIN d.writes})
Owed(ws) == UNION {ws[i].owed : i \in DOMAIN ws}
-----------------------------------------------------------------------------
(* send(): the frame joins the batch.                                      *)
Enqueue(d, x) == [d EXCEPT !.batch = Append(@, x)]

\* mutant: the completion is owed by the first write
CompleteWithOldest(d, x) ==
  CASE d.writes # <<>> -> [d EXCEPT !.ended[x] = @ + 1,
                             !.writes[Len(d.writes)].owed = @ \cup {x}]
    [] d.batch # <<>>  -> [d EXCEPT !.ended[x] = @ + 1,
                                    !.owed = @ \cup {x}]
    [] OTHER           -> [d EXCEPT !.ended[x] = @ + 1,
                                    !.reported = @ \cup {x}]

(* requestComplete(): frameHandler_ hears of it once what is in the batch, *)
(* or else what the socket has, is written.                                *)
RequestComplete(d, x) ==
  CASE d.batch # <<>>  -> [d EXCEPT !.ended[x] = @ + 1,
                                    !.owed = @ \cup {x}]
    [] d.batch = <<>> /\ d.writes # <<>> ->
                          [d EXCEPT !.ended[x] = @ + 1,
                             !.writes[Len(d.writes)].owed = @ \cup {x}]
    [] OTHER           -> [d EXCEPT !.ended[x] = @ + 1,
                                    !.reported = @ \cup {x}]

(* freeStream(); the handler's credits and its timeout die with it.        *)
FreeStream(d, s, markRequestComplete) ==
  LET e == [d EXCEPT !.flow[s] = "none", !.timers = @ \ {s}, !.tokens[s] = 0]
  IN  IF d.flow[s] # "none" /\ markRequestComplete
        THEN RequestComplete(e, s) ELSE e

(* The RocketServerFrameContext of request x dies; its caller goes on with *)
(* CloseIfNeeded, the end of decInflightRequests().                        *)
EndContext(d, x, markRequestComplete) ==
  LET e == IF markRequestComplete THEN RequestComplete(d, x) ELSE d
  IN  [e EXCEPT !.active = @ \ {x}, !.answered = @ \ {x}]

\* mutant: final responses do not keep the connection
BusyWithoutFinals(d) ==
  d.active # {} \/ d.writes # <<>> \/ d.batch # <<>> \/ d.handles # 0

IsBusy(d) ==
  \/ d.active # {} \/ d.writes # <<>> \/ d.finals # 0
  \/ d.batch # <<>> \/ d.handles # 0

(* SocketDrainer.                                                          *)
Activate(d) == [d EXCEPT !.timer = ~d.drained]
DrainComplete(d) ==
  [d EXCEPT !.drained = TRUE, !.timer = FALSE,
            !.reading = @ /\ d.drained]

(* DRAINING is over when the last request is.                              *)
Drained(d) ==
  IF d.state = "DRAINING" /\ d.active = {} /\ d.finals = 0
    THEN [Activate(d) EXCEPT !.state = "CLOSING",
            !.batch = IF d.code THEN @ \o <<Stream0, Stream0>> ELSE @]
    ELSE d

(* The last part of closeIfNeeded(): every handler left hears of the end   *)
(* and completes its request, a stream's peer is sent an error, and the    *)
(* connection is destroyed.  The socket may not have written those errors  *)
(* yet, and the destructor fails the write; if it has, the quiescence      *)
(* callback has had a handle, which may have paused the reading.           *)
Leftovers(d) ==
  IF Dead(d) \/ \A s \in Streams : d.flow[s] = "none"
    THEN {"none"}
    ELSE {"none", "writes"} \cup IF MaxHandles > 0 THEN {"handle"} ELSE {}

Closed(d, left) ==
  LET open == {s \in Flows : d.flow[s] # "none"}
  IN  [d EXCEPT !.state = "CLOSED",
                !.flow = [s \in Flows |-> "none"],
                !.timers = {},
                !.ended = [x \in Ids |-> IF x \in open THEN @[x] + 1
                                                       ELSE @[x]],
                !.reported = @ \cup open,
                !.leftover = left,
                !.sock = IF Dead(d) THEN @ ELSE "closed"]

(* closeIfNeeded(), the end of a callback that leaves the connection as d: *)
(* e and f are the connection after each part.                             *)
CloseIfNeeded(d) ==
  \E e \in {Drained(b) : b \in {d}} :
    \E f \in {IF e.state = "CLOSING" /\ e.sock # "open"
               THEN DrainComplete(e) ELSE e} :
      IF f.state = "CLOSING" /\ ~IsBusy(f) /\ f.drained
        THEN \E left \in Leftovers(f) : c' = Closed(f, left)
        ELSE c' = f

(* close() up to its closeIfNeeded(); with that, the end of a callback.    *)
Closing(d) ==
  IF d.state \in {"CLOSING", "CLOSED"}
    THEN d
    ELSE [Activate(d) EXCEPT !.state = "CLOSING",
            !.batch = IF d.sock = "error" THEN @ ELSE Append(@, Stream0)]

Close(d) == \E b \in {d} : CloseIfNeeded(Closing(b))
-----------------------------------------------------------------------------
(* A request is read.  A stream or a sink is in streams_ before its        *)
(* handler is ready.                                                       *)
Readable == c.reading /\ c.sock = "open" /\ c.state \in {"ALIVE", "DRAINING"}

Request(x) ==
  /\ Readable /\ x \notin arrived /\ Cardinality(arrived) < MaxArrivals
  /\ c' = [c EXCEPT !.active = @ \cup {x},
                    !.flow = [s \in Flows |-> IF s = x THEN "early" ELSE @[s]],
                    !.tokens = [s \in Flows |->
                                  IF s = x /\ s \in Streams THEN 1 ELSE @[s]]]
  /\ arrived' = arrived \cup {x}
  /\ UNCHANGED told

(* A request for a stream or a sink that is refused, because its id is in  *)
(* use or because a sink asks for less than 2 credits: it closes, and the  *)
(* context dies as that of a request that was handled.                     *)
RefuseFrame(x) ==
  /\ Readable /\ x \in Flows /\ x \notin arrived
  /\ Cardinality(arrived) < MaxArrivals
  /\ \E d \in {Closing([c EXCEPT !.active = @ \cup {x}])} :
       CloseIfNeeded(EndContext(d, x, TRUE))
  /\ arrived' = arrived \cup {x}
  /\ UNCHANGED told

(* A request has one answer (RequestStateMachine): a response, or the      *)
(* error of a task timeout while its handler goes on.  That of a stream or *)
(* a sink leaves it in streams_ with a server callback, or frees it.       *)
Answered(x) == IF x \in Flows THEN c.flow[x] = "none" ELSE x \in c.answered

Respond(x) ==
  /\ x \in c.active /\ x \in Singles /\ ~Answered(x)
  /\ c' = [Enqueue(c, x) EXCEPT !.answered = @ \cup {x}]
  /\ UNCHANGED <<arrived, told>>

(* The request object dies, and the context with it.  A oneway request has *)
(* no answer.                                                              *)
DestroyRequest(x) ==
  /\ x \in c.active /\ (x \in Oneways \/ Answered(x))
  /\ CloseIfNeeded(EndContext(c, x, TRUE))
  /\ UNCHANGED <<arrived, told>>

(* A request that dies unanswered: refused by closing the connection, or   *)
(* dropped.  What it has in streams_ stays there.                          *)
RefuseUnanswered(x) ==
  /\ x \in c.active /\ x \in Faulty /\ ~Answered(x)
  /\ \E d \in {Closing(c), c} : CloseIfNeeded(EndContext(d, x, TRUE))
  /\ UNCHANGED <<arrived, told>>

\* mutant: a stream that becomes ready is not told
PauseNone(s) == {}

(* A stream that becomes ready while streams are paused is paused.         *)
PauseIfPaused(s) == IF c.paused THEN {s} \cap Streams ELSE {}

(* onFirstResponse(): the handler becomes ready, unless the peer has given *)
(* the stream up.  The stream completes its request from now on            *)
(* (unsetMarkRequestComplete()).                                           *)
FirstResponse(s) ==
  /\ s \in c.active /\ s \in Flows
  /\ \/ /\ c.flow[s] = "cancelled"
        /\ CloseIfNeeded(EndContext(FreeStream(c, s, TRUE), s, FALSE))
        /\ UNCHANGED told
     \/ /\ c.flow[s] = "early"
        /\ LET left == IF s \in Streams THEN c.tokens[s] - 1 ELSE 0
               d == [c EXCEPT !.flow[s] = "ready",
                              !.tokens[s] = left,
                              !.timers = IF s \in Streams /\ left = 0
                                           THEN @ \cup {s} ELSE @]
           IN  CloseIfNeeded(EndContext(Enqueue(d, s), s, FALSE))
        /\ told' = told \cup PauseIfPaused(s)
  /\ UNCHANGED arrived

\* mutant: the freed stream completes the request too
FirstErrorCompletesTwice(s) ==
  /\ s \in c.active /\ s \in Flows /\ ~Answered(s)
  /\ c' = FreeStream(Enqueue(c, s), s, TRUE)
  /\ UNCHANGED <<arrived, told>>

(* onFirstResponseError(): the request's own context will complete it.     *)
FirstResponseError(s) ==
  /\ s \in c.active /\ s \in Flows /\ ~Answered(s)
  /\ c' = FreeStream(Enqueue(c, s), s, FALSE)
  /\ UNCHANGED <<arrived, told>>
-----------------------------------------------------------------------------
(* onStreamNext(): the server callback has a payload and a credit.         *)
StreamNext(s) ==
  /\ s \in Streams /\ c.flow[s] = "ready" /\ c.tokens[s] > 0
  /\ c' = [Enqueue(c, s) EXCEPT !.tokens[s] = @ - 1,
             !.timers = IF c.tokens[s] = 1 THEN @ \cup {s} ELSE @]
  /\ UNCHANGED <<arrived, told>>

(* onStreamComplete(), onStreamError().                                    *)
StreamEnd(s) ==
  /\ s \in Streams /\ c.flow[s] = "ready"
  /\ c' = FreeStream(Enqueue(c, s), s, TRUE)
  /\ told' = told \ {s}
  /\ UNCHANGED arrived

\* mutant: the credit timeout is not cancelled
RequestNKeepsTimer(s) ==
  /\ Readable /\ s \in Streams /\ c.flow[s] = "ready"
  /\ c.tokens[s] < MaxTokens /\ c.grants < MaxGrants
  /\ c' = [c EXCEPT !.tokens[s] = @ + 1, !.grants = @ + 1]
  /\ UNCHANGED <<arrived, told>>

(* A REQUEST_N frame: more credits, no credit timeout.                     *)
RequestN(s) ==
  /\ Readable /\ s \in Streams /\ c.flow[s] = "ready"
  /\ c.tokens[s] < MaxTokens /\ c.grants < MaxGrants
  /\ c' = [c EXCEPT !.tokens[s] = @ + 1, !.grants = @ + 1,
                    !.timers = @ \ {s}]
  /\ UNCHANGED <<arrived, told>>

(* The peer gives the stream up: a CANCEL frame, for a sink an ERROR frame *)
(* (or a payload with an exception).                                       *)
Cancel(s) ==
  /\ Readable /\ s \in Flows
  /\ \/ c.flow[s] = "early" /\ c' = [c EXCEPT !.flow[s] = "cancelled"]
     \/ c.flow[s] = "ready" /\ c' = FreeStream(c, s, TRUE)
  /\ told' = told \ {s}
  /\ UNCHANGED arrived

(* timeoutExpired() of a stream without credits or of a sink that sends no *)
(* chunk: the server callback is told and the peer is sent an error.       *)
TimeoutExpired(s) ==
  /\ s \in c.timers
  /\ c' = FreeStream(Enqueue(c, s), s, TRUE)
  /\ told' = told \ {s}
  /\ UNCHANGED arrived
-----------------------------------------------------------------------------
(* onSinkRequestN().                                                       *)
SinkRequestN(s) ==
  /\ s \in Sinks /\ c.flow[s] = "ready"
  /\ c.tokens[s] < MaxTokens /\ c.grants < MaxGrants
  /\ c' = [Enqueue(c, s) EXCEPT !.tokens[s] = @ + 1, !.grants = @ + 1,
                                !.timers = @ \cup {s}]
  /\ UNCHANGED <<arrived, told>>

(* A PAYLOAD frame of a sink with credits.                                 *)
SinkNext(s) ==
  /\ Readable /\ s \in Sinks /\ c.flow[s] = "ready" /\ c.tokens[s] > 0
  /\ c' = [c EXCEPT !.tokens[s] = @ - 1,
                    !.timers = IF c.tokens[s] = 1 THEN @ \ {s} ELSE @]
  /\ UNCHANGED <<arrived, told>>

(* The sink's last PAYLOAD frame: onSinkComplete().                        *)
SinkComplete(s) ==
  /\ Readable /\ s \in Sinks /\ c.flow[s] = "ready"
  /\ c' = [c EXCEPT !.flow[s] = "final", !.finals = @ + 1,
                    !.timers = @ \ {s}]
  /\ UNCHANGED <<arrived, told>>

(* onFinalResponse(), onFinalResponseError(): sent before the sink is      *)
(* complete, it does not count as a final response in flight.              *)
FinalResponse(s) ==
  /\ s \in Sinks
  /\ LET d == FreeStream(Enqueue(c, s), s, TRUE)
     IN  \/ c.flow[s] = "ready" /\ c' = d
         \/ c.flow[s] = "final" /\ CloseIfNeeded([d EXCEPT !.finals = @ - 1])
  /\ UNCHANGED <<arrived, told>>
-----------------------------------------------------------------------------
(* flushWrites(), flushWritesWithFds(): a write ends after each frame with *)
(* file descriptors, so frame i is in the write after those that end       *)
(* before it, and the last write has the context of the batch.             *)
WriteOf(b, i) == 1 + Cardinality({j \in 1..(i - 1) : b[j] \in HasFds})

Writes(d) ==
  LET n == Len(d.batch)
      last == WriteOf(d.batch, n)
      end(k) == Cardinality({i \in 1..n : WriteOf(d.batch, i) <= k})
  IN  [k \in 1..last |->
         [frames |-> SubSeq(d.batch, end(k - 1) + 1, end(k)),
          owed   |-> IF k = last THEN d.owed ELSE {}]]

(* The socket has failed all writes it had, with writeErr(); s is its      *)
(* state from then on.                                                     *)
FailWrites(d, s) ==
  [d EXCEPT !.reported = @ \cup Owed(d.writes), !.writes = <<>>, !.sock = s]

(* onEgressBuffered(), onEgressBufferCleared(): are streams paused now?    *)
EgressPaused(d) ==
  /\ Threshold # 0
  /\ \/ Buffered(d) > Threshold
     \/ d.paused /\ d.writes # <<>> /\ Buffered(d) >= Recovery

(* pauseStreams() and resumeStreams() tell every handler that is ready.    *)
TellStreams(d) ==
  told' = IF d.paused THEN {s \in Streams : d.flow[s] = "ready"} ELSE {}

Flushed ==
  IF c.batch = <<>> THEN c
  ELSE [c EXCEPT !.batch = <<>>, !.owed = {}, !.writes = @ \o Writes(c)]

(* flushPendingWrites(): the socket buffers the write, or fails it because *)
(* it is closed; too much in its buffer drops the connection.              *)
FlushPendingWrites ==
  /\ c.state # "CLOSED" /\ c.batch # <<>>
  /\ \E d \in {Flushed} :
       \/ /\ Dead(c) \/ (c.sock = "open" /\ Buffered(d) > EgressLimit)
          /\ Close(FailWrites(d, IF Dead(c) THEN c.sock ELSE "closed"))
          /\ UNCHANGED told
       \/ /\ ~Dead(c) /\ ~(c.sock = "open" /\ Buffered(d) > EgressLimit)
          /\ c' = [d EXCEPT !.paused = EgressPaused(d)]
          /\ IF c'.paused # c.paused THEN TellStreams(c') ELSE UNCHANGED told
  /\ UNCHANGED arrived

(* The end of writeSuccess().  With nothing left to write, the quiescence  *)
(* callback, if there is one, may pause the reading of the socket; if it   *)
(* does not, its handle closes if needed as it dies.                       *)
AfterWriteSuccess(d) ==
  \/ CloseIfNeeded(d)
  \/ /\ d.handles < MaxHandles /\ d.batch = <<>> /\ d.writes = <<>>
     /\ c' = [d EXCEPT !.handles = @ + 1, !.reading = FALSE]

(* The socket takes the whole batch at once.                               *)
FlushAtOnce ==
  /\ c.state # "CLOSED" /\ c.batch # <<>> /\ c.writes = <<>> /\ ~Dead(c)
  /\ AfterWriteSuccess([c EXCEPT !.batch = <<>>, !.owed = {},
                                 !.reported = @ \cup c.owed])
  /\ UNCHANGED <<arrived, told>>

(* The oldest write is done, and the socket tells what it still buffers.   *)
Written ==
  LET d == [c EXCEPT !.writes = Tail(@),
                     !.reported = @ \cup Head(c.writes).owed]
  IN  [d EXCEPT !.paused = EgressPaused(d)]

\* mutant: the last write does not try to close
SuccessWithoutClose ==
  /\ c.writes # <<>>
  /\ c' = Written
  /\ IF c'.paused # c.paused THEN TellStreams(c') ELSE UNCHANGED told
  /\ UNCHANGED arrived

(* writeSuccess() of the oldest write.                                     *)
WriteSuccess ==
  /\ c.writes # <<>>
  /\ \E d \in {Written} :
       /\ AfterWriteSuccess(d)
       /\ IF d.paused # c.paused THEN TellStreams(d) ELSE UNCHANGED told
  /\ UNCHANGED arrived

(* A write fails, and with it all others: writeErr().                      *)
WriteErr ==
  /\ c.writes # <<>>
  /\ Close(FailWrites(c, "error"))
  /\ UNCHANGED <<arrived, told>>
-----------------------------------------------------------------------------
(* The end of the input: the parser's readEOF() closes.                    *)
ReadEof ==
  /\ c.sock = "open" /\ c.reading
  /\ Close([c EXCEPT !.sock = "eof", !.reading = FALSE])
  /\ UNCHANGED <<arrived, told>>

(* A frame that breaks the protocol.                                       *)
ContractViolation ==
  /\ Readable
  /\ Close(c)
  /\ UNCHANGED <<arrived, told>>

(* startDrain(), by the connection manager's notifyPendingShutdown() or    *)
(* by incMemoryUsage() when the ingress limit is exceeded.                 *)
StartDrain(d, code) ==
  CloseIfNeeded([Enqueue(d, Stream0) EXCEPT !.state = "DRAINING",
                                            !.code = code])

NotifyPendingShutdown ==
  /\ c.state = "ALIVE"
  /\ StartDrain(c, FALSE)
  /\ UNCHANGED <<arrived, told>>

IncMemoryUsageFails ==
  /\ Readable
  /\ LET d == [c EXCEPT !.reading = FALSE]
     IN  IF c.state = "ALIVE" THEN StartDrain(d, TRUE) ELSE c' = d
  /\ UNCHANGED <<arrived, told>>

(* closeWhenIdle(), by the connection manager or by the idle timeout.      *)
CloseWhenIdle ==
  /\ c.state # "CLOSED" /\ ~IsBusy(c)
  /\ Close(DrainComplete(c))
  /\ UNCHANGED <<arrived, told>>

(* dropConnection(): the batch is flushed and all writes fail.             *)
DropConnection ==
  /\ c.state # "CLOSED"
  /\ Close(FailWrites(DrainComplete(Flushed),
                      IF Dead(c) THEN c.sock ELSE "closed"))
  /\ UNCHANGED <<arrived, told>>

(* The socket drainer's timer.                                             *)
DrainTimeout ==
  /\ c.timer
  /\ CloseIfNeeded(DrainComplete(c))
  /\ UNCHANGED <<arrived, told>>

(* A ReadResumableHandle is resumed or destroyed.                          *)
ResumeRead ==
  /\ c.handles > 0
  /\ CloseIfNeeded([c EXCEPT !.handles = @ - 1,
       !.reading = (c.state \in {"ALIVE", "DRAINING"}) \/ @])
  /\ UNCHANGED <<arrived, told>>

Next ==
  \/ \E x \in Ids : Request(x)
  \/ \E x \in Flows : RefuseFrame(x)
  \/ \E x \in Singles : Respond(x)
  \/ \E x \in Ids : DestroyRequest(x)
  \/ \E x \in Faulty : RefuseUnanswered(x)
  \/ \E s \in Flows : FirstResponse(s)
  \/ \E s \in Flows : FirstResponseError(s)
  \/ \E s \in Streams : StreamNext(s)
  \/ \E s \in Streams : StreamEnd(s)
  \/ \E s \in Streams : RequestN(s)
  \/ \E s \in Flows : Cancel(s)
  \/ \E s \in Flows : TimeoutExpired(s)
  \/ \E s \in Sinks : SinkRequestN(s)
  \/ \E s \in Sinks : SinkNext(s)
  \/ \E s \in Sinks : SinkComplete(s)
  \/ \E s \in Sinks : FinalResponse(s)
  \/ FlushPendingWrites
  \/ FlushAtOnce
  \/ WriteSuccess
  \/ WriteErr
  \/ ReadEof
  \/ ContractViolation
  \/ NotifyPendingShutdown
  \/ IncMemoryUsageFails
  \/ CloseWhenIdle
  \/ DropConnection
  \/ DrainTimeout
  \/ ResumeRead

Spec == Init /\ [][Next]_vars

(* The event base runs the flush callback and the drainer's timer, the     *)
(* socket ends its writes, the service answers its requests and its        *)
(* complete sinks, requests that are answered die, and whoever paused the  *)
(* reading resumes it.  The peer owes nothing.                             *)
FairSpec ==
  /\ Spec
  /\ WF_vars(FlushPendingWrites)
  /\ WF_vars(WriteSuccess \/ WriteErr)
  /\ WF_vars(DrainTimeout)
  /\ WF_vars(ResumeRead)
  /\ WF_vars(\E x \in Ids : Respond(x) \/ FirstResponse(x) \/ DestroyRequest(x))
  /\ \A s \in Sinks : WF_vars(c.flow[s] = "final" /\ FinalResponse(s))
-----------------------------------------------------------------------------
(* The members have their types.                                           *)
TypeOK ==
  /\ c.state \in {"ALIVE", "DRAINING", "CLOSING", "CLOSED"}
  /\ c.sock \in {"open", "eof", "closed", "error"}
  /\ c.active \subseteq Ids /\ c.timers \subseteq Flows
  /\ c.flow \in [Flows -> {"none", "early", "cancelled", "ready", "final"}]
  /\ c.tokens \in [Flows -> 0..MaxTokens]
  /\ c.finals \in Nat /\ c.handles \in 0..MaxHandles
  /\ c.batch \in Seq(Ids \cup {Stream0})
  /\ c.owed \subseteq Ids /\ (c.batch = <<>> => c.owed = {})
  /\ c.reported \subseteq Ids
  /\ told \subseteq Streams

(* requestComplete() is called once for every frame context, when both it  *)
(* and its stream are gone, and is then owed by exactly one write or       *)
(* reported: whichever way a stream ends, and whether its request was      *)
(* answered, timed out, or was refused with its frame (the server's count  *)
(* then goes down for a request that was never counted).  A stream or sink *)
(* that is refused unanswered is the exception, see CompletedAtMostOnce.   *)
CompletedOnce ==
  /\ TypeOK
  /\ \A x \in Ids :
       /\ c.ended[x] = IF /\ x \in arrived \ c.active
                          /\ x \in Flows => c.flow[x] = "none"
                         THEN 1 ELSE 0
       /\ LET holders == Cardinality({i \in DOMAIN c.writes :
                                        x \in c.writes[i].owed})
              count(b) == IF b THEN 1 ELSE 0
          IN  count(x \in c.owed) + holders + count(x \in c.reported)
                = c.ended[x]

(* "We won't mark request complete if the stream was already erased", and  *)
(* after a first response error the request's own object "is responsible   *)
(* for marking the request as complete": nothing is completed twice.       *)
CompletedAtMostOnce == \A x \in Ids : c.ended[x] <= 1

(* A request is reported complete only when no frame of it is waiting to   *)
(* be written: its memory is accounted for until the socket took it.       *)
ReportedAfterWritten ==
  \A x \in c.reported :
    /\ x \notin Range(c.batch)
    /\ \A i \in DOMAIN c.writes : x \notin Range(c.writes[i].frames)

(* A closed connection has no request, no final response and nothing to    *)
(* write left (the DCHECKs of the destructor, and "onSinkError called      *)
(* after sink complete!"), and has reported every request it read.         *)
ClosedIsClean ==
  c.state = "CLOSED" =>
    /\ c.active = {} /\ c.finals = 0
    /\ c.batch = <<>> /\ c.timers = {}
    /\ c.reported = arrived

(* "DCHECK(inflightWritesQueue_.empty())" and                              *)
(* "DCHECK(activePausedHandlers_ == 0)" in the destructor.                 *)
NothingOutlivesConnection == c.leftover = "none"

(* What the connection keeps for its streams and sinks agrees with where   *)
(* they are.  One whose handler has no server callback yet belongs to a    *)
(* request in flight: handleConnectionClose() of a sink, which uses the    *)
(* callback, never meets one without (unless its request was refused       *)
(* unanswered).  A stream's credit timeout runs exactly while it is ready  *)
(* and without credits (the DCHECK of timeoutExpired()); a sink's chunk    *)
(* timeout exactly while it is open and the peer has credits.              *)
(* inflightSinkFinalResponses_ counts the sinks that are complete and wait *)
(* for their final response.                                               *)
FlowsAgree ==
  /\ \A s \in Flows :
       /\ c.flow[s] \in {"early", "cancelled"} => s \in c.active
       /\ s \in c.timers <=> /\ c.flow[s] = "ready"
                             /\ s \in Streams <=> c.tokens[s] = 0
  /\ c.finals = Cardinality({s \in Sinks : c.flow[s] = "final"})

(* While the socket works, streams are paused whenever more than the       *)
(* threshold is buffered and only while at least the recovery size is, and *)
(* every ready stream's server callback has been told so, the streams that *)
(* became ready in the meantime included.                                  *)
Backpressure ==
  c.sock = "open" =>
    /\ Threshold # 0 /\ Buffered(c) > Threshold => c.paused
    /\ c.paused => c.writes # <<>> /\ Buffered(c) >= Recovery
    /\ told = IF c.paused THEN {s \in Streams : c.flow[s] = "ready"} ELSE {}

(* A connection that drains or closes is destroyed in the end.             *)
EventuallyClosed == c.state \in {"DRAINING", "CLOSING"} ~> c.state = "CLOSED"
=============================================================================
