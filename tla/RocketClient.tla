----------------------------- MODULE RocketClient -----------------------------
(***************************************************************************)
(* RocketClient and its RequestContextQueue                                *)
(* (thrift/lib/cpp2/transport/rocket/client): the life of the frames that  *)
(* a client connection writes, from the call that makes them to the        *)
(* callback that ends them, through batched socket writes, responses,      *)
(* timeouts, write errors, a server that announces it is closing, and      *)
(* close().                                                                *)
(*                                                                         *)
(* Everything runs on the client's event base, so an action is a whole     *)
(* callback: the calls it makes into the queue, the waiters it posts and   *)
(* what those do in turn, which Finish collects.  The socket is external:  *)
(* it takes the writes in order, moves them to the wire one context at a   *)
(* time, and ends each with writeSuccess() or writeErr(bytes written).     *)
(***************************************************************************)
EXTENDS Naturals, FiniteSets, Sequences

CONSTANTS RR,       \* requests sent with sendRequestResponse()
          FNF,      \* requests sent with sendRequestFnf()
          Streams,  \* requests sent with sendRequestStream()
          Timed,    \* the requests whose timeout is not zero
          HasFds,   \* the requests that carry file descriptors
          Deferred  \* may a write be complete before its callback?

ASSUME ClientAssumption ==
  /\ RR \cap FNF = {} /\ RR \cap Streams = {} /\ FNF \cap Streams = {}
  /\ Timed \subseteq RR \cup Streams
  /\ HasFds \subseteq RR \cup FNF \cup Streams
  /\ Deferred \in BOOLEAN

Requests == RR \cup FNF \cup Streams

(* The frames a stream's consumer sends later; each at most once here.     *)
Control == {"REQUEST_N", "CANCEL"} \X Streams

Contexts == Requests \cup Control

(* createDummyEndOfBatchMarker().                                          *)
Dummy == <<"DUMMY">>

(* The kinds of contexts can be told apart.                                *)
ASSUME ContextAssumption == Requests \cap (Control \cup {Dummy}) = {}

ToSet(q) == {q[i] : i \in DOMAIN q}

Errors == {"NOT_OPEN", "TIMED_OUT", "CLOSED", "error"}

VARIABLES
  conn,      \* clientState_.connState
  state,     \* context -> RequestContext::State, "NEW" before it exists
  scheduled, \* writeScheduledQueue_
  sending,   \* writeSendingQueue_; writeSentQueue_ is Sent below
  tracked,   \* requestResponseContexts_
  timers,    \* the requests whose timeout is armed
  streams,   \* streams_
  first,     \* firstResponseTimeouts_
  writeLoop, \* is writeLoopCallback_ scheduled?
  closeLoop, \* is closeLoopCallback_ scheduled?
  calls,     \* history: request -> the callbacks its caller got
  writes,    \* the writes the socket has not ended, oldest first
  done,      \* how many contexts of the first of them are on the wire
  broken,    \* has a write failed?
  wire,      \* history: the contexts written to the end
  peer       \* request -> how far the server is with its answer

client == <<conn, state, scheduled, tracked, timers, streams, first,
            writeLoop, closeLoop, calls>>
socket == <<writes, done, broken, wire>>
vars == <<client, sending, socket, peer>>

Init ==
  /\ conn = "CONNECTED"
  /\ state = [x \in Contexts |-> "NEW"]
  /\ scheduled = <<>> /\ sending = <<>>
  /\ tracked = {} /\ timers = {} /\ streams = {} /\ first = {}
  /\ writeLoop = FALSE /\ closeLoop = FALSE
  /\ calls = [r \in Requests |-> <<>>]
  /\ writes = <<>> /\ done = 0 /\ broken = FALSE /\ wire = {}
  /\ peer = [r \in Requests |-> "none"]

(* requests_: the makeRequestCountGuard()s alive.  A stream's request has  *)
(* none, its later frames have.                                            *)
Counted == {x \in (RR \cup FNF) \cup Control :
              state[x] \notin {"NEW", "COMPLETE"}}

(* writeSentQueue_.                                                        *)
Sent == {x \in Contexts : state[x] = "WRITE_SENT"}

(* What ends with an error.                                                *)
Failed(result) == {x \in DOMAIN result : result[x] \in Errors}

None == [x \in {} |-> "ok"]
Result(xs, v) == [x \in xs |-> v]
-----------------------------------------------------------------------------
(* notifyIfDetachable() closes a client that the server has asked to go    *)
(* once its last request and its last stream are gone.                     *)
NotifyIfDetachable(c, ended, open) ==
  c = "CLOSING" /\ Counted \ ended = {} /\ open = {}

(* What brings close() about in a callback that finds the client in state  *)
(* c: a call of its own, a stream frame that failed, the CANCEL frame of   *)
(* an initial error that a client no longer connected refuses, or          *)
(* notifyIfDetachable().                                                   *)
Closes(c, close, failed, initial, ended, open) ==
  /\ c \in {"CONNECTED", "CLOSING"}
  /\ \/ close
     \/ failed \cap Control # {}
     \/ c = "CLOSING" /\ initial # {}
     \/ NotifyIfDetachable(c, ended, open)

(* close() calls failAllScheduledWrites().                                 *)
FailAllScheduledWrites(closes) == IF closes THEN ToSet(scheduled) ELSE {}

(* writeScheduledQueue_ when the contexts of ended have ended: a context   *)
(* that is scheduled ends only with all the others.                        *)
LeftScheduled(ended) ==
  IF ToSet(scheduled) \subseteq ended THEN <<>> ELSE scheduled

(* At most one stream is cancelled in a callback.                          *)
InSequence(cancels) ==
  IF cancels = {} THEN <<>> ELSE <<CHOOSE x \in cancels : TRUE>>

\* mutant: a write error reaches a stream with a response
InitialErrorWhileOpen(failed) == failed \cap streams

(* A failed write is a stream's initial error only while the stream has    *)
(* not had its first response.                                             *)
InitialErrors(failed) == failed \cap first

(* freeStream() erases the stream's first response timeout too.            *)
FirstAfter(freed, told) == first \ (freed \cup told)

(* What a callback does at its end to a client in state c, that closes or  *)
(* not.  The contexts of result and of drop end: they leave the queues and *)
(* their waiters are posted; those of sent wait in writeSentQueue_.  The   *)
(* caller of a request or of a oneway request gets its callback.  The      *)
(* streams of initial have failed before their first response and are      *)
(* cancelled; told gives what the streams hear from this callback itself,  *)
(* freed the streams it frees.                                             *)
Settle(c, closes, result, drop, sent, told, initial, freed) ==
  LET ended == DOMAIN result \cup drop
      gone == freed \cup initial
      cancels == IF c = "CONNECTED" /\ ~closes
                   THEN {<<"CANCEL", s>> : s \in initial} ELSE {}
      answered == (ended \cap (RR \cup FNF)) \cup
                  InitialErrors(Failed(result) \cup drop)
  IN  /\ conn' = IF closes THEN "ERROR" ELSE c
      /\ closeLoop' = (c # "CLOSED" /\ (closeLoop \/ closes))
      /\ state' = [x \in Contexts |->
                     IF x \in cancels    THEN "WRITE_SCHEDULED"
                     ELSE IF x \in ended THEN "COMPLETE"
                     ELSE IF x \in sent  THEN "WRITE_SENT"
                     ELSE state[x]]
      /\ scheduled' = LeftScheduled(ended) \o InSequence(cancels)
      /\ writeLoop' = (conn' = "CONNECTED" /\ (writeLoop \/ cancels # {}))
      /\ tracked' = tracked \ ended
      /\ timers' = timers \ ended
      /\ streams' = streams \ gone
      /\ first' = FirstAfter(gone, DOMAIN told)
      /\ calls' = [r \in Requests |->
                     IF r \in answered
                       THEN Append(calls[r], IF r \in drop THEN "NOT_OPEN"
                                                           ELSE result[r])
                     ELSE IF r \in DOMAIN told
                       THEN Append(calls[r], told[r])
                     ELSE calls[r]]

(* The rest of a callback that finds the client in state c, ends the       *)
(* contexts of result and tells the streams told: it may close the client, *)
(* and then the scheduled writes fail too.                                 *)
Finish(c, result, sent, close, told, freed) ==
  LET refused == InitialErrors(Failed(result)) \cup Failed(told)
      closes == Closes(c, close, Failed(result), refused, DOMAIN result,
                       streams \ (freed \cup refused))
      drop == FailAllScheduledWrites(closes) \ DOMAIN result
  IN  Settle(c, closes, result, drop, sent, told,
             refused \cup InitialErrors(drop), freed)
-----------------------------------------------------------------------------
(* trackIfRequestResponse().                                               *)
TrackIfRequestResponse(x) == {x} \cap RR

(* scheduleWrite() on a connected client; a stream is in streams_ and has  *)
(* its first response timeout from the start.                              *)
EnqueueScheduledWrite(x, freed) ==
  /\ state' = [state EXCEPT ![x] = "WRITE_SCHEDULED"]
  /\ scheduled' = Append(scheduled, x)
  /\ writeLoop' = TRUE
  /\ tracked' = tracked \cup TrackIfRequestResponse(x)
  /\ streams' = (streams \ freed) \cup ({x} \cap Streams)
  /\ first' = first \cup ({x} \cap Streams)
  /\ UNCHANGED <<conn, timers, closeLoop, calls>>

(* canHandleRequest(): the channel answers at once for a client that is no *)
(* longer alive.                                                           *)
Refuse(r) ==
  /\ state' = [state EXCEPT ![r] = "COMPLETE"]
  /\ calls' = [calls EXCEPT ![r] = Append(@, "NOT_OPEN")]
  /\ UNCHANGED <<conn, scheduled, tracked, timers, streams, first, writeLoop,
                 closeLoop>>

(* A request of the channel.                                               *)
Send(r) ==
  /\ state[r] = "NEW"
  /\ IF conn = "CONNECTED" THEN EnqueueScheduledWrite(r, {}) ELSE Refuse(r)
  /\ UNCHANGED <<sending, socket, peer>>

(* sendFrame(): a frame that cannot be scheduled closes the client.        *)
SendFrame(x, freed) ==
  IF conn = "CONNECTED"
    THEN EnqueueScheduledWrite(x, freed)
    ELSE Finish(conn, None, {}, TRUE, None, freed)

(* The consumer of a stream asks for more.                                 *)
SendRequestN(s) ==
  /\ s \in streams \ first /\ state[<<"REQUEST_N", s>>] = "NEW"
  /\ SendFrame(<<"REQUEST_N", s>>, {})
  /\ UNCHANGED <<sending, socket, peer>>

(* The consumer of a stream gives it up: cancelStream().                   *)
Cancel(s) ==
  /\ s \in streams \ first
  /\ SendFrame(<<"CANCEL", s>>, {s})
  /\ UNCHANGED <<sending, socket, peer>>

(* The scheduled contexts with the marks and offsets the batch gives them: *)
(* a context with file descriptors ends a write.  The offset is counted    *)
(* from the start of the whole batch, in contexts.                         *)
Batch(q) ==
  [i \in DOMAIN q |->
     [ctx |-> q[i], last |-> q[i] \in HasFds \/ i = Len(q), end |-> i]]

(* How many entries before the i-th of queue q end a write.                *)
EndsBefore(q, i) == Cardinality({j \in 1..(i - 1) : q[j].last})

(* The writes that batch b makes, each up to a mark.                       *)
WritesOf(b) ==
  LET before(n) == {i \in DOMAIN b : EndsBefore(b, i) < n - 1}
      of(n) == {i \in DOMAIN b : EndsBefore(b, i) = n - 1}
  IN  [n \in 1..EndsBefore(b, Len(b) + 1) |->
         [j \in 1..Cardinality(of(n)) |-> b[Cardinality(before(n)) + j].ctx]]

(* writeLoopCallback_ runs: all scheduled contexts go to the socket.       *)
WriteScheduledRequestsToSocket ==
  /\ writeLoop
  /\ LET q == IF conn = "CONNECTED" THEN scheduled ELSE <<>>
     IN  /\ sending' = sending \o Batch(q)
         /\ writes' = writes \o WritesOf(Batch(q))
         /\ state' = [x \in Contexts |->
                        IF x \in ToSet(q) THEN "WRITE_SENDING" ELSE state[x]]
         /\ timers' = timers \cup (ToSet(q) \cap RR \cap Timed)
         /\ scheduled' = LeftScheduled(ToSet(q))
  /\ writeLoop' = FALSE
  /\ UNCHANGED <<conn, tracked, streams, first, closeLoop, calls,
                 done, broken, wire, peer>>

(* External: the next context of the first write is on the wire.  A socket *)
(* calls back as soon as a write is complete, other transports may defer.  *)
Transmit ==
  /\ writes # <<>> /\ ~broken
  /\ done + 1 < Len(Head(writes)) + (IF Deferred THEN 1 ELSE 0)
  /\ done' = done + 1
  /\ wire' = wire \cup {Head(writes)[done + 1]}
  /\ UNCHANGED <<client, sending, writes, broken, peer>>

(* The places in writeSendingQueue_ up to the first end of a batch, and    *)
(* the contexts there.                                                     *)
NextBatch == {i \in DOMAIN sending : EndsBefore(sending, i) = 0}
NextContexts == {sending[i].ctx : i \in NextBatch} \ {Dummy}

(* markNextSendingBatchAsSent(): the batch moves to writeSentQueue_.       *)
MarkNextSendingBatchAsSent ==
  sending' = SubSeq(sending, Cardinality(NextBatch) + 1, Len(sending))

(* The write completes: writeSuccess().  A request waits for its response. *)
SocketWriteSuccess ==
  /\ writes # <<>> /\ ~broken /\ done + 1 >= Len(Head(writes))
  /\ MarkNextSendingBatchAsSent
  /\ Finish(conn, Result(NextContexts \ RR, "ok"), NextContexts \cap RR,
            FALSE, None, {})
  /\ wire' = wire \cup ToSet(Head(writes))
  /\ writes' = Tail(writes) /\ done' = 0
  /\ UNCHANGED <<broken, peer>>

\* mutant: every request of a failed write counts as unsent
AbortAll(batch, bytesWritten) == {sending[i].ctx : i \in batch} \ {Dummy}

(* The contexts of a failed write that abortSentRequest() ends.            *)
Aborted(batch, bytesWritten) ==
  {sending[i].ctx : i \in {j \in batch : bytesWritten < sending[j].end}}
    \ {Dummy}

(* writeErr().  After the first failure the socket fails its other writes  *)
(* too, now or in closeNow().                                              *)
SocketWriteErr ==
  /\ writes # <<>> /\ done < Len(Head(writes))
  /\ MarkNextSendingBatchAsSent
  /\ LET aborted == Aborted(NextBatch, done)
     IN  Finish(conn, Result(aborted, "NOT_OPEN"), NextContexts \ aborted,
                TRUE, None, {})
  /\ writes' = Tail(writes) /\ done' = 0 /\ broken' = TRUE
  /\ UNCHANGED <<wire, peer>>
-----------------------------------------------------------------------------
(* The place of context x in writeSendingQueue_, and the queue without the *)
(* entry in place i.                                                       *)
PlaceOf(x) == CHOOSE i \in DOMAIN sending : sending[i].ctx = x
Without(i) ==
  [j \in 1..(Len(sending) - 1) |-> sending[IF j < i THEN j ELSE j + 1]]

\* mutant: no dummy keeps the end of the batch
RemoveWithoutMarker(x) == Without(PlaceOf(x))

(* removeFromWriteSendingQueue(): a dummy takes the place of the end of a  *)
(* batch.                                                                  *)
RemoveFromWriteSendingQueue(x) ==
  IF sending[PlaceOf(x)].last
    THEN [sending EXCEPT ![PlaceOf(x)].ctx = Dummy]
    ELSE Without(PlaceOf(x))

(* markAsResponded() of a request with a response, which may not have been *)
(* reported as written yet.                                                *)
MarkAsResponded(r, v) ==
  /\ sending' = IF state[r] = "WRITE_SENDING"
                  THEN RemoveFromWriteSendingQueue(r) ELSE sending
  /\ Finish(conn, Result({r}, v), {}, FALSE, None, {})

(* The server answers a request once, and only what it has received.       *)
Answers(r, p) ==
  /\ r \in wire /\ peer[r] = "none" /\ conn # "CLOSED"
  /\ peer' = [peer EXCEPT ![r] = p]

(* The whole response of request r arrives, a payload or an error frame;   *)
(* if the request is no longer known the frame is dropped.                 *)
Respond(r) ==
  /\ Answers(r, "done")
  /\ IF r \in tracked THEN MarkAsResponded(r, "response")
                      ELSE UNCHANGED <<client, sending>>
  /\ UNCHANGED socket

(* A frame of stream s, for which its consumer hears v.                    *)
StreamFrame(s, v, freed) ==
  /\ IF s \in streams
       THEN Finish(conn, None, {}, FALSE, Result({s}, v), freed)
       ELSE UNCHANGED client
  /\ UNCHANGED <<sending, socket>>

(* The first response of a stream: the stream opens.                       *)
FirstResponse(s) == Answers(s, "open") /\ StreamFrame(s, "response", {})

(* An error frame instead of the first response.                           *)
FirstError(s) == Answers(s, "done") /\ StreamFrame(s, "error", {s})

(* The stream completes or ends with an error.                             *)
StreamEnd(s) ==
  /\ peer[s] = "open" /\ conn # "CLOSED"
  /\ peer' = [peer EXCEPT ![s] = "done"]
  /\ StreamFrame(s, "streamEnd", {s})

(* An error frame CONNECTION_CLOSE on stream 0.  The scheduled writes fail *)
(* on a client that is CLOSING already.                                    *)
HandleConnectionClose ==
  /\ conn = "CONNECTED"
  /\ Finish("CLOSING", Result(ToSet(scheduled), "NOT_OPEN"), {}, FALSE,
            None, {})
  /\ UNCHANGED <<sending, socket, peer>>

(* Any other error on stream 0, a frame that breaks the contract, the end  *)
(* of the input, or the keep-alive watcher.                                *)
ConnectionError ==
  /\ conn \in {"CONNECTED", "CLOSING"}
  /\ Finish(conn, None, {}, TRUE, None, {})
  /\ UNCHANGED <<sending, socket, peer>>

\* mutant: the timer counts from the end of the write
TimeoutExpiredOnceSent(r) ==
  /\ r \in timers /\ state[r] = "WRITE_SENT"
  /\ MarkAsResponded(r, "TIMED_OUT")
  /\ UNCHANGED <<socket, peer>>

TimeoutExpired(r) ==
  /\ r \in timers
  /\ MarkAsResponded(r, "TIMED_OUT")
  /\ UNCHANGED <<socket, peer>>

(* FirstResponseTimeout::timeoutExpired().                                 *)
FirstResponseTimeout(s) ==
  /\ s \in first \cap Timed
  /\ StreamFrame(s, "TIMED_OUT", {})
  /\ UNCHANGED peer

Unfinished == {x \in Contexts : state[x] \notin {"NEW", "COMPLETE"}}

\* mutant: requests that were sent are not failed
ForgetSent == Unfinished \ Sent

(* The contexts that end with the client: failAllScheduledWrites(), the    *)
(* writes that the socket fails, failAllSentWrites().                      *)
EndedByClose == Unfinished

(* closeNowImpl(), after close().  The socket fails the writes it has, the *)
(* first with what it has written of it; what was written then fails with  *)
(* the client's error, and so do the streams.                              *)
CloseNowImpl ==
  LET unsent == ToSet(scheduled) \cup Aborted(NextBatch, done)
                  \cup Aborted(DOMAIN sending \ NextBatch, 0)
  IN  /\ Finish("CLOSED",
                [x \in EndedByClose |->
                   IF x \in unsent THEN "NOT_OPEN" ELSE "CLOSED"],
                {}, FALSE,
                [s \in streams |-> IF s \in first THEN "CLOSED"
                                                  ELSE "streamError"],
                streams)
      /\ sending' = <<>> /\ writes' = <<>> /\ done' = 0
      /\ UNCHANGED <<broken, wire, peer>>

\* mutant: the close waits for the socket
CloseLoopAfterWrites == closeLoop /\ writes = <<>> /\ CloseNowImpl

(* closeLoopCallback_ runs.                                                *)
CloseLoop == closeLoop /\ CloseNowImpl

(* The channel is closed by its user, or its event base is destroyed.      *)
CloseNow == conn # "CLOSED" /\ CloseNowImpl

Next ==
  \/ \E r \in Requests : Send(r)
  \/ \E s \in Streams : SendRequestN(s)
  \/ \E s \in Streams : Cancel(s)
  \/ WriteScheduledRequestsToSocket
  \/ Transmit
  \/ SocketWriteSuccess
  \/ SocketWriteErr
  \/ \E r \in RR : Respond(r)
  \/ \E s \in Streams : FirstResponse(s)
  \/ \E s \in Streams : FirstError(s)
  \/ \E s \in Streams : StreamEnd(s)
  \/ HandleConnectionClose
  \/ ConnectionError
  \/ \E r \in RR : TimeoutExpired(r)
  \/ \E s \in Streams : FirstResponseTimeout(s)
  \/ CloseLoop
  \/ CloseNow

Spec == Init /\ [][Next]_vars

(* The event base runs its loop callbacks and its timers.  Nothing is      *)
(* asked of the peer, of the socket or of the callers.                     *)
FairSpec ==
  /\ Spec
  /\ WF_vars(WriteScheduledRequestsToSocket)
  /\ WF_vars(CloseLoop)
  /\ \A r \in RR : WF_vars(TimeoutExpired(r))
  /\ \A s \in Streams : WF_vars(FirstResponseTimeout(s))
-----------------------------------------------------------------------------
Outcomes == Errors \cup {"ok", "response", "streamEnd", "streamError"}

Entries == [ctx : Contexts \cup {Dummy}, last : BOOLEAN, end : Nat \ {0}]

(* The fields have their types.                                            *)
TypeOK ==
  /\ conn \in {"CONNECTED", "CLOSING", "ERROR", "CLOSED"}
  /\ state \in [Contexts -> {"NEW", "WRITE_SCHEDULED", "WRITE_SENDING",
                                    "WRITE_SENT", "COMPLETE"}]
  /\ scheduled \in Seq(Contexts)
  /\ sending \in Seq(Entries)
  /\ tracked \subseteq RR /\ timers \subseteq RR
  /\ streams \subseteq Streams /\ first \subseteq Streams
  /\ writeLoop \in BOOLEAN /\ closeLoop \in BOOLEAN
  /\ calls \in [Requests -> Seq(Outcomes)]
  /\ writes \in Seq(Seq(Contexts))
  /\ done \in Nat /\ broken \in BOOLEAN /\ wire \subseteq Contexts
  /\ peer \in [Requests -> {"none", "open", "done"}]

Once(q, x) == Cardinality({i \in DOMAIN q : q[i] = x}) = 1

(* A context is in the queue of its state, once, and in no other; the      *)
(* request-response contexts that a response can reach are the ones not    *)
(* yet complete; a write loop is scheduled whenever there is something to  *)
(* write (the DCHECKs of RequestContextQueue).  writeSendingQueue_ has one *)
(* end of batch for every write the socket has not ended, and its n-th     *)
(* batch holds contexts of the n-th write: so the CHECKs "empty queue" and *)
(* "missing end of batch marker" never fail and a write callback never     *)
(* ends a request of another write.                                        *)
QueuesAgree ==
  LET queued == [i \in DOMAIN sending |-> sending[i].ctx]
  IN  /\ TypeOK
      /\ \A x \in Contexts :
           /\ (state[x] = "WRITE_SCHEDULED") <=> Once(scheduled, x)
           /\ (state[x] = "WRITE_SENDING") <=> Once(queued, x)
           /\ x \in timers => state[x] \in {"WRITE_SENDING", "WRITE_SENT"}
      /\ tracked = {r \in RR : state[r] \notin {"NEW", "COMPLETE"}}
      /\ scheduled # <<>> => writeLoop /\ conn = "CONNECTED"
      /\ EndsBefore(sending, Len(sending) + 1) = Len(writes)
      /\ sending # <<>> => sending[Len(sending)].last
      /\ \A i \in DOMAIN sending :
           \/ queued[i] = Dummy
           \/ queued[i] \in ToSet(writes[EndsBefore(sending, i) + 1])

(* A caller's callback is called at most once for a request, and a         *)
(* stream's consumer sees at most a first response and then one end.  A    *)
(* stream still waiting for its first response is in streams_ (the CHECK   *)
(* of FirstResponseTimeout, and the callback a late write error uses).     *)
CalledOnce ==
  /\ first \subseteq streams
  /\ \A r \in Requests :
       /\ Len(calls[r]) <= IF r \in Streams THEN 2 ELSE 1
       /\ Len(calls[r]) = 2 => /\ calls[r][1] = "response"
                               /\ calls[r][2] \in {"streamEnd", "streamError"}

(* A request reported as NOT_OPEN, which the callers take to be unsent and *)
(* safe to retry, was not written to the end; a oneway request reported as *)
(* written was.                                                            *)
UnsentMeansUnsent ==
  \A r \in Requests : \A i \in DOMAIN calls[r] :
    /\ calls[r][i] = "NOT_OPEN" => r \notin wire
    /\ calls[r][i] = "ok" => r \in wire

(* "CLOSING, there are active requests or close callback is scheduled":    *)
(* a client that only waits for its last requests never outlives them.     *)
(* "CLOSED, there are no active requests": every request handed to the     *)
(* client has had its callback, and nothing is left in a queue.            *)
ClosesWhenDrained ==
  /\ conn = "CLOSING" => Counted # {} \/ streams # {}
  /\ conn = "CLOSED" =>
       /\ \A x \in Contexts : state[x] \in {"NEW", "COMPLETE"}
       /\ \A r \in RR \cup FNF : state[r] = "COMPLETE" => calls[r] # <<>>
       /\ streams = {} /\ sending = <<>> /\ timers = {}

(* A request or a stream with a timeout gets its callback, whatever the    *)
(* server and the socket do: the timer starts with the write (a stream's   *)
(* with the call), and the write loop runs.                                *)
TimedRequestsAnswered ==
  \A r \in Timed :
    state[r] = "WRITE_SCHEDULED" ~> calls[r] # <<>>

(* A client that has met an error closes.                                  *)
ErrorCloses == conn = "ERROR" ~> conn = "CLOSED"
=============================================================================
