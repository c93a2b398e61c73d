# A TLA+ model of the fbthrift C++ runtime

The repository is a large RPC system: an IDL compiler, serialization
protocols, and runtimes for many languages. This project verifies the part
whose correctness depends on interleaving: the C++ runtime in
`thrift/lib/cpp2`, from the moment a client sends a request to its answer and
to the end of the stream it opens. Paths below are relative to
`thrift/lib/cpp2`.

## The system and its hard behaviours

A client puts requests on a Rocket connection (`transport/rocket/client`). On
the server the connection (`transport/rocket/server`) belongs to the IO thread
of a worker (`server/Cpp2Worker`). The Rocket handler refuses the request or
hands it to a resource pool. The pool puts it into a request pile, and a
concurrency controller schedules tasks on an executor that take requests from
the pile and run their handlers. The answer goes back to the IO thread, which
batches writes. A streaming answer leaves a producer behind, a coroutine or the
service's own threads, that feeds the connection through lock-free queues
(`async/`), as far as the client gives credit. Timers may answer first, and
either side may close.

| Component | State | Module | What is hard |
|---|---|---|---|
| `ParallelConcurrencyController` | two 32 bit counters in one word, a limit | `ParallelConcurrencyController` | lock-free loops, a limit read in the middle, wraparound, lost wakeups |
| `RoundRobinRequestPile` | a queue per bucket, a queue of buckets per priority | `RoundRobinRequestPile`, `RequestPile` | single-consumer queues without a lock, arming against a late push, limits counted apart from the queue |
| `ThriftRequestCore`, `RequestStateMachine`, admission, `Cpp2Worker` stop | two flags, two timers, the active count, a baton | `ThriftRequest` | IO thread against executor: two answers, a shed request that runs, a count that drifts, a join too early |
| `RocketClient` | three request queues, write batches, timers | `RocketClient` | partial writes, answers before the write completes, errors during a close, who is told what |
| `RocketServerConnection`, stream and sink callbacks | streams, write batches, buffered bytes, drain | `RocketServerConnection` | completion against write failure, back-pressure, credit timers, drain against late frames |
| `TwoWayBridge`, `AtomicQueue` | one atomic word per direction | `TwoWayBridge` | a consumer that goes to sleep while a message arrives |
| `ServerGeneratorStream` | bridge, credits, pause | `ServerGeneratorStream` | functions without a reference of their own; cancellation against a wakeup |
| `ServerPublisherStream` | two queues, credit buffer, call-once callback, reference count | `ServerPublisherStream` | publishing before, while and after the stream is established; complete against cancel |

`StreamContract` is what both kinds of stream promise their client.
`PROJECT.json` lists every component with what is left out of it, the hazards
at their lines, and for each definition the lines it models.

## Modules

* `ParallelConcurrencyController`: an asynchronous `ResourcePool` with this
  controller. One action is one atomic step. A compare-and-swap loop that looks
  only at `counters_` is a single step; `trySchedule` takes three (`Load`,
  `ReadLimit`, and one of `SwapTicket`, `SwapPending`, `GiveUp`, `SwapFails`),
  because it reads `executionLimit_` in between. A spurious failure of the weak
  exchange has the effect of loading later and is not a separate action. The
  relaxed store to `executionLimit_` waits in `stored` until `LimitVisible`.
  `Word` stands for 2^32. The pile is a set. `Expire` stands for every way in
  which a request stops being wanted. `RejectAsync` has no guard: a full bucket
  and the filter are both possible.
* `RequestPile`: what the controller may assume of a pile. Each request is
  handed out or discarded once, and a dequeue returns nothing only if every
  request arrived too late for it or another thread was busy with a bucket.
* `RoundRobinRequestPile`: the real pile, one step per atomic operation,
  shown to implement `RequestPile`. The folly queues are external and modelled
  from their use: `push` tells whether the queue was armed, `drive` reads one
  request (`setMaxReadAtOnce(1)`), `arm` succeeds on an empty queue only.
* `ThriftRequest`: the life of a request. Callbacks of one worker do not
  interleave with each other (`Busy`); they interleave with executor threads
  and other workers. `tryStartProcessing` takes two steps, the overload check
  and the increment take two, and `decActiveRequests` takes two. A relaxed read
  of a stale flag is an earlier read, which the model includes. Each worker has
  one connection; pending writes are part of the time between `Deliver` and
  `RequestComplete`. Methods that bypass the limit (`Bypass`) and a server that
  keeps no count (`Tracking`) are parameters. `RefuseFrame` and
  `RefuseByClosing` are the two ways to close the connection instead of
  answering; they lead to completions that no increment precedes (stages
  `stray` and `strayed`).
* `RocketClient`: `RequestContextQueue` with its three lists and the write
  batches of `RocketClient`, the write callbacks, timeouts, responses, streams
  with their first response and credits, `maybeScheduleClose`, `close` and
  `closeNow`. It is single-threaded; what interleaves are the event base's
  loop callbacks, timers, and socket callbacks.
* `RocketServerConnection`: requests in flight, the write batcher, the in-flight
  writes with their completion events, back-pressure and read pauses, refused
  frames,
  `RocketStreamClientCallback` and `RocketSinkClientCallback` with credit and
  chunk timers, draining, closing and the destructor. The answer (`Respond`,
  `FirstResponse`, `FirstResponseError`) and the end of the request's frame
  context (`DestroyRequest`) are separate steps: a task timeout answers while
  the handler goes on. `RefuseUnanswered` is a request whose object dies without
  an answer, because the connection is closed instead or because it is dropped;
  `Faulty` says to which requests that may happen.
* `TwoWayBridge`: the operators of `AtomicQueue` (push, wait, take, close),
  each of them one atomic exchange. The two stream modules use them.
* `ServerGeneratorStream`: the coroutine (`gen`), the connection's event base
  (`evb`) and the two queues between them. One step is one operation on a
  queue together with the local work that follows it.
* `ServerPublisherStream`: publishing threads, the thread that establishes the
  stream, the event base and the executor, over `encodeOrQueue_`, `queue_`, the
  credit buffer, `CallOnceFunction` and `refCount_`.
* `StreamContract`: items reach the client in the order in which each producer
  published them, none is lost or repeated, never more than was asked for, and
  the end comes after all of them. `ImplementsStream` of both stream modules
  is this specification under a refinement mapping.
* `*Proofs` hold the theorems; `MC*` modules and the `.cfg` files are the small
  instances.

## Runs

| Run | Shows | Bounds, distinct states |
|---|---|---|
| pool_parallel | execution tickets conserved, no stranded request, every queued request is dequeued, the executor comes to rest | 3 requests, one oneway, 2 threads, limit 1; 68,116 |
| pool_expiry | dequeue tickets with discarded requests, limit kept while it is raised | 3 requests, one oneway, 2 threads, limit 1 raised to 2 |
| piles | one consumer per bucket and none stranded, slots conserved, round robin, refinement of `RequestPile` | 5 requests, 2 threads, priorities of 2 and 1 buckets, limit 1, symmetry; 512,997 |
| requests | one answer, shed requests never run, active count and overshoot bounded, joined when drained, nothing starts late, every request answered, stop completes | 3 requests (one with both timers, one for a stream, one oneway that bypasses the limit), 2 workers, max requests 1; 126,286 |
| client_requests | queues agree with batches, one callback each, "unsent" is true, closed only drained, timed requests answered, errors close | a request, a oneway, a stream, two with timeouts; 57,014 |
| connection | one completion each, after its frames, clean close, handlers, credits and timers agree, back-pressure, draining ends | a request that may die unanswered, a oneway, a stream, a sink, 2 arrivals, egress limit of 2 frames; 320,644 |
| generator_stream | owners counted, credits conserved, refinement of `StreamContract`, no lost wakeup, bridge released | 3 items, 3 credits, 2 pauses; 24,351 |
| publisher_stream | owners counted, callback joined, credit whenever it processes, refinement of `StreamContract`, published items arrive, stream released | 2 publishers with 2 items each, 5 credits; 92,188 |

Why the bounds are enough. Two threads are enough for one to be overtaken
between two of its steps. Three requests in the pool allow one in a handler,
one in a dequeue and one arriving; `Word` is 8, small enough to wrap. In the
pile, five requests fill the three buckets (the limit of each is 1) and leave
two to be refused or to follow. Three requests on two workers let both workers
admit one on a stale count while a third completes. Three items are more than
one batch of a stream; the publisher run has a fifth credit because the end
needs one too. Of four kinds of request, any two meet each other's writes on
one connection, and an egress limit of two frames is crossed in both
directions.

Larger instances were run once without error: the pool with 3 threads (796,216
states, safety only) and the pile with six requests of which one is filtered
(2,020,842).

Deadlock is not checked where the system may properly stop: a pile without
callers, a server or a client without new requests, a stream whose client gives
no credit. The pool's runs do check it (`Idle` marks the proper end).

The passing pool runs have a pile of several buckets and never lower the limit.
For a single-bucket pile and a falling limit, tickets and the limit are covered
by the theorems, which hold for every `MultiBucket` and `NewLimits`;
`NoStrandedRequest` is proved for both kinds of pile while the limit stays.

Four runs are expected to fail. Each states what a comment or an assertion of
the code says:

* pool_limit_strand: raising the limit while a request is being enqueued can
  leave that request waiting although a slot is free. A comment in
  `trySchedule` accepts this race.
* client_fds: `writeScheduledRequestsToSocket` counts end offsets from the
  start of the batch, also after a request with file descriptors has split it
  into several writes. If a later write fails in part, a request that was
  written whole is reported as not sent
  (`transport/rocket/client/RocketClient.cpp:1498`).
* connection_destructor: streams that are open when the connection closes send
  an error frame each, whose write can still be in flight when
  `closeIfNeeded` destroys the connection; the destructor asserts that there is
  none (`transport/rocket/server/RocketServerConnection.cpp:296`).
* connection_refused_stream: a request for a stream or a sink that dies without
  an answer leaves its handler in `streams_`. Its frame context completes it,
  and `closeIfNeeded` completes it again with what is left there
  (`transport/rocket/server/RocketServerConnection.cpp:366`), although comments
  in `freeStream` and `onFirstResponseError` say which of the two has to. The
  other runs about completion live with this: in `connection` only the single
  request is `Faulty`, and in `requests` such a completion is one of the strays
  that `ActiveRequestsExact` allows for.

Other observations made while modelling, without a run of their own:

* `pendingDequeCalls` goes below zero, and wraps, when the pile discards
  requests through the expiration delegate, although
  `server/ParallelConcurrencyController.h:98` says that it counts queued
  requests. No code outside tests sets the delegate. `DequeueTickets` says what
  does hold.
* `requestCount` of the pile omits a priority while its only published bucket
  is held by a consumer (`server/RequestPileInterface.h:39`).
* A failing `enqueue` of a single-bucket queue raises `count_` for a moment and
  can make another one fail with a slot free; `SlotsConserved` shows that the
  slot is not lost.
* A quiescence callback that pauses reading, which only a test installs, makes
  `DCHECK(activePausedHandlers_ == 0)` of the destructor fail in the same way.
* `RocketServerConnection.h:258` says of DRAINING "Rejecting all new requests";
  `handleFrame` still accepts them in that state, and the model follows the
  code.
* A frame that is refused before there is a request completes without having
  been counted (`requestComplete()` comes with its frame context,
  `incActiveRequests()` only in `handleRequestCommon`). `decActiveRequests`
  stops at zero, so such a completion lowers the count only while other requests
  are active, and the limit then lets one more in. `ActiveRequestsExact` states
  the exact bound.

## Fairness

* Pool and piles: threads inside the pool continue and the executor runs its
  tasks. Arrival, expiry and limit changes are never assumed.
* Requests: event bases run what is posted to them, handlers return, a stopping
  server drops its connections. That handlers return is the one assumption
  about user code. No timer has to fire.
* Client: the event base runs its loop callbacks and timers. The server need
  not answer and the socket need not accept or fail a write; this is why only
  requests with a timeout are shown to be answered.
* Connection: the event base flushes batches and runs the drain timer, the
  socket ends writes, the service answers and lets go of the requests it was
  given, read pauses are resumed. The peer owes nothing.
* Streams: threads finish what they have begun, the executor and the event base
  run what was scheduled, the service's callback returns. Nobody has to
  publish, complete, give credit or cancel.

## Proofs

The theorems hold for every value of the constants: any number of threads,
requests, workers, publishers, items and credits.

The safety properties of the runs are all proved, as are the two refinements of
`StreamContract` and the refinement of `RequestPile`. Each proof has the same
plan: an inductive invariant `IInv` (or a second one on top of it), one lemma
per group of actions that it is preserved, and a last step that derives the
property. Most leaves are first-order and left to Zenon, which each proof
module makes the default with `USE`; the leaves that need arithmetic, records
or sequences cite SMT.

| Module | Theorems | Assumption |
|---|---|---|
| `ParallelConcurrencyControllerProofs` | `TypeCorrect`, `ExecutionTicketsConserved`, `DequeueTicketsConserved`, `LimitRespected`, `NoRequestStranded` | `PoolAssumption`: finite sets, `Word` larger than requests and threads together, positive initial limit |
| `RoundRobinRequestPileProofs` | `BucketHasOneConsumer`, `SlotsAlwaysConserved`, `ServedInTurn`, `PileKeepsItsPromise` | `PileAssumption`: finitely many threads, at least one priority, each with a bucket, every request placed in a bucket |
| `ThriftRequestProofs` | `OneAnswer`, `ShedRequestsNeverRun`, `ActiveRequestsCounted`, `JoinedOnceDrained`, `NothingStartsLate` | `RequestAssumption`: finite sets, every request has a worker |
| `RocketClientProofs` | `ClientCallsOnce`, `ClientDrains` | `ClientAssumption`, `ContextAssumption`: the kinds of requests and frames can be told apart |
| `RocketClientWriteProofs` | `ClientQueuesAgree`, `ClientUnsent` | the same |
| `RocketServerConnectionProofs` | `RequestsCompleteOnce`, `ReportsFollowWrites`, `ClosedConnectionsClean`, `FlowsAlwaysAgree`, `PausedUnderPressure` | `ConnectionAssumption`: the kinds of requests are disjoint, stream 0 is none of them, the buffer recovers at or below its threshold |
| `ServerGeneratorStreamProofs` | `BridgeOwnersCounted`, `CreditsAlwaysConserved`, `GeneratorKeepsContract` | `GeneratorAssumption`: the caps are numbers |
| `ServerPublisherStreamProofs` | `StreamOwnersCounted`, `CallbackAlwaysJoined`, `ProcessingAlwaysHasCredit`, `StreamKeepsContract` | `PublisherAssumption`: the completing publisher is one of them, thread names differ |

**Pool.** `LimitRespected` does not follow from conservation modulo `Word`,
since a counter that had wrapped would pass the test against the limit. `IInv`
therefore has `ExactTickets` (if every limit fits the counter,
`requestInExecution` is the number of tickets itself; otherwise there are fewer
requests than the limit), `LimitsBounded` (limits that threads have read or
stored are at most `maxLimit`) and what threads hold (`HandsHold`,
`PileIsQueued`, `IndexIsEnqueue`). A step moves one thread and at most one
request, so `Effects` compares the change of each counter with the change of a
sum of weights. `NoRequestStranded` adds `OneLimit` and `Served`: for every
request that waits there is a thread in `trySchedule` after a request finished
and bound to schedule or to try again, or else there are threads in
`trySchedule` for every ticket that is left. It assumes `NewLimits = {}`, that
is, nobody changes the limit; the run pool_limit_strand shows that it fails
otherwise.

**Pile.** `Hands` says what each thread has between two steps, `OwnOffer` that
no two threads enqueue the same request, `Contents` that a request is in one
place, `OneOwner` that a bucket is armed, published once or held by one thread.
`InTurn` follows the order of the index queue, `Slots` counts a bucket's
requests and the threads between its counter and its queue. For the refinement,
`Passed` says that a dequeue counts as missed whatever waits in a priority that
it has passed. Each step is shown to be a step of `RequestPile` or to change
nothing there.

**Requests.** `Answers` relates the two flags of `RequestStateMachine` to what
was sent and what ran, `Drain` the worker's baton to its connection and its
requests, `OneCallback` says that at most one request is inside a callback of a
worker. `Count` bounds `activeRequests_` from both sides: it is at most the
number of counted requests, and below it by at most one per stray completion.
A decrement that is skipped at zero keeps both: the count is then already below
the number of counted requests, or the completion is itself a stray. `Overshoot` gives the
bound on what the limit lets in: one stale admission per worker with limited
requests, and one per stray. `NoLateStart` is an action property and follows
from `Answers`.

**Client.** Every callback ends with `Finish`, so the proof shows once what
`Finish` does to the invariant for whatever an action may hand it (`Call`), and
then for each action that it is such a call. `IInv` has what is in which queue
(`InScheduled`, `InSending`), who can still be reached by a response or a
timeout (`Reachable`), what callers have heard (`Heard`), what the socket has
(`OnWire`), and the closed client (`Drained`). `QueuesAgree` needs `Marks` and
`Held` as well: `markNextSendingBatchAsSent` and `removeFromWriteSendingQueue`
shift entries, and every entry left behind stays with its write (`Follows`)
because a dummy takes the place of a removed end of batch. `UnsentMeansUnsent`
needs where in its write each context is (`SInv`: `Placed`, `Distinct`,
`Unwritten`) and `Reports`. It assumes `HasFds = {}`; the run client_fds shows
that it fails otherwise.

**Connection.** The state is one record `c`, and the handlers are compositions
of functions from records to records, so `Good` and `Pressure` are predicates on
a record and each function has a lemma. `Good` has the types, which requests
have a context and which a handler (`Life`), how far the connection is, what the
batches and writes owe, and what holds of an idle connection. The theorems
assume `Faulty \cap Flows = {}`: no stream or sink dies unanswered. Single and
oneway requests may.

**Generator.** `refCount_` is not the number of queue endpoints: a function
that runs for the client's side has no reference of its own. The proof counts
tokens, the places from which such a function can still run: there is at most
one (`Tokens \in 0..1`) and `refs = Tokens + GenRefs`. On top, `DInv` follows
items and credits from the coroutine to the client (`Data`, `Stages`,
`InOrder`, `Credited`).

**Publisher.** `IInv` says where threads may be while there is a publisher and
after (`Places`, `PublisherInv`), who runs the service's callback
(`CallbackInv`), that at most one party will wake the executor
(`WakeupInv`), and what is left to do for the client (`ClientInv`). On top,
`DInv` follows the line of items through `encodeOrQueue_`, the establishing
thread, `queue_` and the buffer (`Shape`, `Stations`, `InOrder`).

Only model-checked: liveness, in every module, since the prover does not treat
fairness and `ENABLED`. The inductive invariants were checked with TLC on the
instances of the runs before they were proved.

## Simplifications

* `RocketClient`: every serialized request has unit size; a write that
  completes inside the loop that issues it is treated as completing later;
  detaching and attaching, fragments, the buffering until the server's version
  is known, keep-alive and the inflight limit are left out; a stream sends one
  REQUEST_N; sinks and bidirectional streams, `closeNow` from inside a write
  callback and the wraparound of stream ids are not modelled.
* `RocketServerConnection`: sizes are counted in frames; setup, keep-alive,
  fragments, metadata push, stream headers and observers are left out; the
  socket's buffer callbacks come after each buffered or completed write;
  `ContractViolation` stands for every frame that makes the connection call
  `close()`; the drain in `dropConnection` fails its writes; the memory limit
  is per connection; `MaxHandles` caps read pauses. When a batch is split for
  file descriptors, `flushWritesWithFds` issues several writes in a loop and the
  socket may call back for one before the next is issued
  (`RocketServerConnection.cpp:231`); in the model all of them are issued
  first. `RefactoredRocketServerConnection`, which
  `RocketServerConnectionFactory` may choose instead, is not modelled.
* `ServerPublisherStream`: a compare-and-swap loop is its one successful
  exchange; completing with a value and with an error are one `End`; headers,
  logging, interactions and the multi-publisher map are left out (several
  publishing threads are what `ServerStreamMultiPublisher.h` has); the client's
  callback accepts every item, that is, the branch for `onStreamNext` returning
  false (`async/ServerPublisherStream.h:399`) is left out, as
  `RocketStreamClientCallback` always returns true; the service's callback does not complete the
  stream itself, as `async/ServerStream.h:64` demands; the check in
  `~ServerStreamPublisher` is the guard of `Drop`.
* `ServerGeneratorStream`: completion and error are one `End`; headers and
  logging are left out, interceptors are left out except that one may fail
  (`GenFail`); `fromProducerCallback` is not modelled. `Deliver` leaves out the
  branch for a client callback that returns false, which "in practice" it never
  does (`async/ServerGeneratorStreamBridge.cpp:118`), and the second
  `serverClose()` after an exception (`async/ServerGeneratorStreamBridge.h:119`),
  which finds the queue closed and changes nothing.
* `ThriftRequest`: of the injected faults only the connection's module has the
  dropped request, which is never answered; `EveryRequestAnswered` speaks of a
  server without it, and excepts the requests whose connection is closed
  instead. A connection closes when the worker stops, when the peer goes or
  when a request or frame is refused in that way. A oneway request is run even
  if its queue timeout has fired, as in the code, so `ShedNeverRuns` concerns
  answers.

## Not modelled

* Inline execution (`acceptSync`), compression on the CPU, interceptors.
* `TMConcurrencyController` (which dequeues before it schedules), the token
  bucket, which needs a clock, and the weighted queue: variants of modelled
  parts. The CPU and adaptive controllers are feedback loops over measured
  load; the models contain their effect, a limit that changes.
* The client stream bridge, the sink bridges, bidirectional streams,
  interactions, pooled and retrying channels.
* `fast_thrift`, a second transport beside Rocket.
* The compiler, the protocols and the type system translate data and share no
  state; the other languages' runtimes are separate programs. Formatting,
  logging, observers and statistics are left out everywhere.
