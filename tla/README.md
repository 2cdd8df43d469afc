# Verification of cxxmcp

cxxmcp is a C++17 SDK for the Model Context Protocol: JSON-RPC peers that act as
clients and servers over HTTP, WebSocket, standard streams and child processes. This
directory holds TLA+ models of it, the configurations TLC checks them with, and
theorems TLAPS proves about them. `PROJECT.json` maps every definition to the source
lines it stands for, and lists the runs, the mutants that show each property can
fail, the hazards and the theorems.

Paths below are relative to `src/sdk/` unless they begin with `docs/`, which is
`src/docs/`.

## The system and its parts

A **peer** (`include/cxxmcp/peer.hpp`) speaks JSON-RPC over a **transport**. On the
server, `serve_transport` receives messages and answers requests on threads of
their own; the handlers come from a **server** (`server/src/server.cpp`) with its
**registries**, **routers** and **task processor**. On the client, a request is run
by a worker of the request executor and is awaited through a **request handle**.
The **executor** (`core/include/cxxmcp/core/executor.hpp`) runs tasks and timers for
both. The **HTTP server transport** keeps the session table and the event streams,
the **HTTP client transport** follows a session and recovers it; stdio, process and
WebSocket transports do without sessions. A **service** owns a running peer. The
**auth** library obtains and verifies tokens. What travels between them is described
by the **protocol types** and their readers and writers.

| Part | Sources | Modules |
|------|---------|---------|
| task processor | `server/src/task_manager.cpp` | `TaskProcessor`, `TaskLifecycle` |
| executor and timers | `core/.../executor.hpp`, `timer_handle.hpp` | `Executor`, `WorkPool` |
| server receive loop, request threads | `include/cxxmcp/peer.hpp` | `ServerPeer` |
| HTTP event streams | `server/src/http_transport.cpp` | `SseStream` |
| HTTP session table | `server/src/http_transport.cpp` | `HttpSessions` |
| client requests, handles, tokens | `include/cxxmcp/{request,cancellation,peer}.hpp`, `core/.../async_result.hpp` | `ClientRequest` |
| HTTP client transport, session recovery | `client/src/http_transport.cpp`, `client/src/client.cpp` | `HttpClient` |
| Streamable HTTP client role transport | `client/src/http_transport.cpp` | `HttpNative` (extends `HttpClient`) |
| Streamable HTTP server role transport | `server/src/http_transport.cpp`, `transport_adapter.hpp` | `HttpServerRole` |
| child-process transport and client service | `client/src/process_stdio_transport.cpp`, `include/cxxmcp/service.hpp` | `ProcessStdio` |
| builder, server and peer configuration | `server/src/server.cpp`, `server/include`, `include/cxxmcp/peer.hpp` | `ServerSetup` |
| request and notification dispatch, capabilities | the same | `ServerDispatch` |
| registries, list caches, routers | `server/src/registry.cpp`, `router.hpp` | `Registry` |
| client handlers, typed calls, session client | `client/src/client.cpp`, `server/include/cxxmcp/server/peer.hpp` | `ClientApi` |
| the two sides together | | `Session` (composes the four above) |
| protocol types | `protocol/` | `Wire`, `WireTools`, `WireSession`, `WireForms`, `WireCapabilities` |
| JSON-RPC envelopes | `protocol/src/serialization.cpp` | `Envelope` |
| a value on its way through peers | | `Codec` (composes the six above) |
| OAuth client | `auth/.../lifecycle.hpp`, `client_orchestrator.hpp` | `Authorization` |

`MC*` modules give small instances, `*Proofs` modules hold the theorems.

The concurrent models make one action of each critical section, and one of each thing
done between two of them (a handler call, a write, a notification of a condition
variable). Payloads, header texts, schemas and logging are left out; an identifier is
a model value or a small number.

## The modules

### TaskProcessor

`tasks_` is the record map; `order_` is its ascending key sequence and needs no
variable. `submit_operation` is four steps: `InsertTask`, `FetchToken`, `Enqueue` or
`EnqueueFails`, `EraseRejected`. Workers take `StartOperation` and `Finish`; the
read and cancel methods refresh timeouts and trim in one step (`RefreshingCall`,
`cancel_task`); `EmitUpdate` calls a hook after the lock is released. `TaskLifecycle`
is the abstract life of a task: created once, ended once, its outcome kept until it
is forgotten. `ImplementsLifecycle` is the refinement.

### Executor

`queues_`, `timers_`, the worker threads and the timer thread. A waiting thread must
be notified before it looks at its predicate again, and notifications are steps
outside the lock, so lost wakeups would show. `WorkPool` is the abstract pool: a task
is accepted or refused and runs at most once, no more at a time than there are
workers. Accepted tasks that have not begun are given up in one step only, the one in
which `cancel_and_stop` is the first to stop the pool; timed ones lapse when they are
cancelled or when there is no room or no pool left for them at their deadline.

### ServerPeer

`msgs` is what clients sent; the loop is `LoopTop`, one `Receive...` action per kind
of message, and `LoopReturns` after the drain. A request thread goes through
`DispatchStarts`, `HandlerStarts`, `HandlerReturns`, `WorkerSends`, `WorkerFails` and
`finish_worker`. Both cancellation maps (the peer's and the server's) are modelled,
keyed as in the code by id alone, and the run has two sessions that use one id.

### SseStream

One session's queue, replay window and streams, and a client that loses its
connection and reconnects with Last-Event-ID. A lost connection may stay unnoticed.

### HttpSessions

`sessions_` with the initialized mark and the pending server-to-client requests. A
POST is admitted under the lock, handled without it and completed under it; DELETE
and stop abort pending requests; `send_request_to_session` registers, waits, times
out or takes its response.

### ClientRequest

A request's worker takes the request mutex, sends, and waits for the receive loop or
polls. Independently the handle is awaited, its timeout passes, and the token's
source is cancelled: setting the flag, collecting the callbacks and running them are
separate steps, as are `cancel_sent` and the send.

### HttpClient and HttpNative

A call posts with the session remembered at that moment, and its answer may come
much later: lost, challenged (token or nonce), 404, refused, parked (an event stream
that ends without the response), or fine, with a server request in the body. What
`HttpTransport::Impl::send` does with each is one action. A server request, from a body
or from the stream, is answered by a POST of its own, and the answer to that POST may
name a session too, which the transport then remembers. On top is either
`Client::send_rpc_request`, which initializes by itself on the first request and once
again after a 404, or the native transport: `send()` refuses an id in flight and runs a
request on a thread, which may fail to start, and a notification on the caller's; the
threads queue responses, server requests and notifications for `receive()`; a thread
that handles a server request waits until the peer sends the response, and one whose id
is pending already is answered with an error at once. `stop()` and `close()` run beside
the calls. The server opens sessions, ends them at will, and refuses as the server
transport of this repository does.

### HttpServerRole

The server's half of the same: a POST thread enters its request in a table under
session and id, queues it and waits. Whoever receives it answers: a peer on a thread per
request, naming the session if the request has one; the `ContractTransportAdapter` one
request after the other, without naming it, so that the response is looked for under
the session of the message received last and then under the id alone. Listening may
fail at any time, any number of threads may `close()`. The module has no run of its
own; its four properties are proved.

### ProcessStdio

Two transports on top of each other over a child process: request threads with their
pending entries and timeouts, the reader, the service loop, the answers to the child's
own requests, and any number of threads in `stop()`. `stop_mutex_` and `write_mutex_`
are modelled as locks; the child may read or not, answer, write unasked, and close
its stdout.

### ServerSetup, ServerDispatch, Registry, ClientApi, Session

What answers a request is decided by handler slots of three objects (builder, server,
server peer), by registries and by routers, each with several ways to set it.
`ServerSetup` has one action per way; `ServerDispatch` is the choice a request meets,
once for `Server::handle_request` and once for the copy in the peer, with the tasks a
tool call may become and the resource subscriptions a request changes, and the
capabilities advertised; `Registry` is a registry with its cached list; `ClientApi` is
the client's half, with the capability checks of the typed calls in both directions.
`Session` plays one group of methods at a time, with the newest configuration call as
history.

### Wire*, Envelope, Codec

A protocol type is described by its members: which are required, which have a default,
what null and a wrong type do, which keys are known, and what becomes of unknown ones,
separately for the reader and for the writer. Two C++ members may share a key
(`tool_annotations` and `annotations`, `typed_context` and `context`, `contents` and
`content`): both are read from it and the first that is set is written. A value the
C++ type cannot hold is changed as the type changes it: a `float` priority, an `int`
maxTokens, an array of one block. A member of another protocol type, or an array of
them, is as its own row leaves it. `Codec` takes a value an application built or edited,
or an object that differs in one member from the smallest or the fullest one or from a
combination the reader refuses, through `MaxHops` encodings and decodings. The two
properties name every type and member they do not cover (`KnownGap`, `Homeless`,
`Reshaped`).

### Authorization

`AuthorizationManager` with its state store and credential store, any of whose calls
may fail, and the flow of `OAuthClientOrchestrator::authorize`. One call is one step:
the class has no lock and is meant for one thread. The module has no run of its own;
its three properties are proved.

## The runs

| Run | Bounds | States | What it shows |
|-----|--------|--------|---------------|
| `task_processor` | 1 submitter, 1 caller, 1 worker, queue 1, 2 tasks, 2 ticks, keeps 1 | 108 k | outcomes agree with status; abandoned operations are signalled; no running task disappears; accepted tasks end; refines `TaskLifecycle` |
| `executor` | 2 tasks; 2 workers with 2 priorities, or 1 worker with deadlines 1 and 2; queue 1; 1 stopper | 259 k | refines `WorkPool`; no lost wakeup; stopping returns and leaves nothing queued or running |
| `server_peer` | 3 messages of 11 forms, 2 ids, 2 sessions, every way to end the loop | 440 k | the loop returns drained, every request answered once; cancellation reaches a running handler whose id is its own; closing ends serving |
| `sse_stream` | 3 events, queue 2 / 3 bytes, window 1, 2 GETs | 22 k | events read in order; an admitted resume is complete; queued events are written |
| `http_sessions` | 3 POSTs, 2 callers with 1 id, limit 1 | 103 k | every waiter can be reached; default session live; an accepted response is returned; calls return |
| `client_request` | 2 requests, 2 workers, queue 1, 1 start | 256 k | own responses; one cancellation; abandonment announced; await and stop release |
| `http_client` | 2 threads, 2 sessions, 2 ids each way, stream read while nothing is queued; lossy, guarded, asking or closing | 262 k | a request is handled at most once; stream and session stay together; calls end; stop returns |
| `process_stdio` | 4 scenes of at most 2 requests, 1 server request, 2 stoppers | 217 k | requests end; the child's requests are answered; a stop that meets the reader at rest returns and leaves nothing |
| `session` | 3 configuration calls, every group of methods | 579 k | the newest handler answers; capabilities tell what is served; both dispatchers agree; lists are complete; reverse calls are served |
| `codec` | every type, 2 hops | 472 k | what is written is read back; a relay keeps members |

The bounds are the smallest at which the cases meet: a queue of one is full with one
task; two tasks with one retained make trimming happen; a window of one and three
events make an event leave it; two callers with one id make registrations collide;
two GETs make an old stream meet a new one; two requests on one mutex make one wait
for the other; two sessions make a late answer meet a newer session; a handler, its
replacement and a removal are three configuration calls; the second hop reads what
the first wrote. In `http_client` one freedom of the outside is played at a time
(`weather`): answers are lost (`lossy`), challenged (`guarded`), carry server requests
(`asking`), or the transport is stopped as well (`closing`). Calls overlap as `MayCall`
says; a stream reopened for a session asks nothing while its predecessor is joined
(`BeingJoined`). `StreamFollowsSession` leaves out what follows overlapping calls, a
repeated `initialize()` and a new session that comes in while the answer to a posted
response is under way (`crossed`): there it is false. `NewestHandlerRuns` sets four
cases apart, which its comment lists with their lines.

Two runs end in a violation, each a place where the code does not do what the
repository says of it:

- `task_cancel_trimmed`: `cancel_task` copies its answer through a record its own
  trimming may have erased (`server/src/task_manager.cpp:431`).
- `process_stop`: `stop()` joins the reader with `stop_mutex_` held, and the reader
  takes `stop_mutex_` before each line and each reply
  (`client/src/process_stdio_transport.cpp:860`). `RestedStopReturns` in the run
  `process_stdio` is what does hold.

`CHECK_DEADLOCK FALSE` is set where the system may stop: all tasks handed over, the
transport closed, the bounded number of messages sent or calls made.

### Fairness

Weak fairness is assumed for threads that are inside a call: the scheduler runs them,
and handlers and operations return, which the SDK asks of them. Where a model has one
condition for all threads (`ThreadStep`), every behaviour takes finitely many thread
steps, so that weak fairness of the union and of each thread come to the same: no
thread can be passed over for ever. Nothing obliges a client to send, an application
to answer a server request, anybody to call, cancel or stop, or the clock to move; a
timed wait ends when its time has passed, and an HTTP request is answered or times
out; the receive loop of a native peer calls `receive()` again until it fails. No strong
fairness is used.

## What is proved

For every value of the constants allowed by the named assumptions, with any number of
threads, messages and sessions:

| Component | Proofs in | Theorems |
|-----------|-----------|----------|
| `TaskProcessor` | `TaskProcessorProofs` | `TypeCorrect`, `AbandonedOperationsAreSignalled`, `ProcessorImplementsLifecycle`, `NothingDisappears`, `ViewsAlwaysAgree` |
| `Executor` | `ExecutorProofs` | `StoppedIsQuiet`, `ExecutorIsWorkPool` |
| `ServerPeer` | `ServerPeerProofs` | `ServingReturnsDrained`, `CancellationArrives` |
| `SseStream` | `SseStreamProofs` | `EventsAreReadInOrder`, `ResumesAreComplete` |
| `HttpSessions` | `HttpSessionsProofs` | `DefaultIsLive`, `WaitersAreReachable`, `DeliveredIsReturned` |
| `ClientRequest` | `RoleProofs` | `TypeCorrect`, `ResponsesAreOwn`, `CancelledOnce`, `AbandonmentAnnounced`, `ErrorStays` |
| `HttpServerRole` | `RoleProofs` (as `H`) | `PostsGetTheirAnswer`, `PostsAreReachable`, `AnswersStay`, `ClosedIsEmpty` |
| `HttpClient` with `HttpNative` | `HttpNativeProofs` | `RequestsAreHandledOnce`, `StreamIsOfTheSession` |
| `ProcessStdio` | `ClientProofs` | `StopLeavesNothing` |
| `Authorization` | `ClientProofs` (as `A`) | `StateIsSpentOnce`, `RefreshIsNewest`, `UpgradeStartsFromStored` |

`RoleProofs` and `ClientProofs` each extend one component and hold another as an
instance over constants and variables of its own, so that `H!Spec` is the specification
of `HttpServerRole` for any values, and nothing of one component is assumed about the
other.

The arguments:

- **Task life cycle.** `Follows(old, new)` says of two record maps that each task was
  created, ended once or forgotten between them. Failing what has timed out, trimming,
  finishing and cancelling each follow, and two that follow in one step do so
  together; the refinement step is then a matter of naming the task that moved.
- **Signals to operations.** `AbandonedOperationSignalled` speaks of operations in the
  queue and with workers; it is not inductive, since the operation of a task that was
  ended early may still be in the hand of its submitter. `PlaceInv` says that a task is
  with one submitter, in one place of the queue or with one worker. `SignalInv` extends
  the claim to the submitter that is about to fetch the token: whoever ends a task
  before its operation does so under the lock and signals the token in the same step.
- **Views of a task.** Updates are collected under the lock and emitted later, by
  whichever thread collected them, in any order. `ReportInv` speaks of what is pending
  with any thread together with what was emitted: a start and an end are pending with
  one thread or emitted, once (`OnceInv`); the end pending or emitted is the one of the
  record (`TruthInv`); nothing is told of a task that does not exist yet and no start
  of one that is not queued (`QuietInv`). The last needs `PlaceInv`.
- **Event streams.** Let `Taken` be the number of the last event taken from the queue.
  `WindowInv` says that the replay window ends with `Taken` and the queue begins after
  it, both numbered without a gap. `BehindInv`: no stream holds an event newer than
  `Taken`. `AloneInv` and `PositionInv` concern a session whose streams never
  overlapped: one stream is open at most, and what it holds, its replay and the queue
  follow the last event the client read without a gap. What a GET replays is computed
  by a loop over the window (`Newer`); the lemma `NewerIsSuffix` says that it is the
  part of the window after the last event seen. It is proved by induction over the
  length of the window, from the least length at which the claim could fail
  (`LeastNatural`, which rests on the library's `WFMin`).
- **Executor.** `PoolInv` places every accepted task in exactly one of the queues, the
  timer heap, the timer thread's hand and a worker's, counts the running ones by the
  workers that hold them (lemma `RoomForOne`), and says which threads are left after each
  stage of stopping. The refinement maps a task's place to the pool's state, and the
  stopping flags to its mode, for which `DrainInv` is needed: draining is stopping.
- **Server peer.** `DrainInv` ties the count of active workers to the set of request
  threads not yet through `finish_worker`, and says that each received request is
  accounted for: answered, owed by its thread, or given up with an error recorded.
  `RegisteredInv` says that a registration is that of a request with its id, and that
  a running handler whose id no other request with a thread has is registered in the map
  its handler uses. For two requests with one id it is false, see below.
- **Client requests.** `OneCancellation` is not inductive: two threads could each be
  about to send. `CancelInv` says that a request in `cancel_sent` is *claimed*, that
  is, its cancellation was sent once or is owed by exactly one of the token callback
  and the awaiting thread; and that for any other nothing was sent, is owed, or was
  told to a caller. Claiming and recording the claim are one critical section.
- **HTTP sessions.** `DefaultSessionLive` is inductive on its own: whoever changes the
  table repairs the default under the same lock. `PendingInv` says that a waiting
  caller without a timeout is *in* a session's table under its key, `In(s, k, c)`, or
  its response is in the hand of one POST thread, and that no two callers share a place.
- **HTTP client transport.** `HandledOnce` is not inductive: a request that was handled
  might be sent again. `Once` adds that whatever may still be sent (on its way, just
  challenged or refused, or returned as *session terminated*) was not handled.
  `StreamFollowsSession` speaks of the time between calls; `FollowInv` says what holds
  during one, as long as it is the only one: the stream is that of the remembered
  session or there is none; there is one session that every answer under way names, to
  a call or to a posted response, unless it is the answer to an `initialize`
  (`InSession`, `PostedIn`); and while an `initialize` is under way there is no stream
  (`Tied`), since only a 404, which resets it, or the first request (`Untouched`,
  `Early`) leads there. `QueueInv` says that a queued response is that of a call that
  has left its thread. Both theorems assume that `None` is no session
  (`HttpClientAssumption`).
- **Process transport.** `CleanInv` follows the stages of `stop()` (`StageInv`): what
  is known to have ended after each join; `PromiseInv` says who still owes an answer
  to a waiting thread. The constants are assumed not to be places of the service loop
  (`ProcessStdioAssumption`).
- **HTTP server role transport.** `TableInv` says that a POST thread still to be
  answered is in exactly one place: the table, the hand of its own worker, or the hand
  of `close()`. `QueueInv` says that a request is received once, that its entry
  stays until its worker answers, unless the transport is closed, and that the adapter
  works on what it received last, which is why it finds the right entry without a
  name; `CloseInv` follows the stages of `close()`. The theorems assume that every
  request has a session or none has (`SessionsOrNone`): otherwise they are false, see
  below.
- **Authorization.** `SpentInv` says that a state was spent at most as often as it was
  stored, and less often while the store still has it. The other two properties, that
  the credential store holds what was received last unless a save has failed since,
  are inductive as they stand.

### Model-checked only

Liveness under fairness is beyond the prover: `AcceptedTaskEnds`, `QueuedEventWritten`,
`CallEnds` and the other leads-to properties. `Session` and `Codec` are left to TLC:
finite case distinctions in which the run is the proof for the given groups of methods
and types.

## Weak spots

Seen while reading and, where the part is modelled, reached by the models. They are no
runs of their own; where something does hold beside them, that is what is stated. Six
contradict a line of the repository, which the hazard of that place in `PROJECT.json`
names: a task whose timer was cancelled does run (`timer_handle.hpp:37`), the
session id given to an initialize with a progress token opens no session
(`http_transport.hpp:131`), the rate limiter is not called before every dispatch
(`rate_limit.hpp:36`), a cancellation is not scoped to its session
(`docs/request_lifecycle.md:133`), a second `shutdown` does not join
(`executor.hpp:162`), and the slot of an abandoned request stays
(`docs/request_lifecycle.md:40`).

*Executor and peer*
- a second `shutdown` returns before the workers are joined (`executor.hpp:166`);
- a timer cancelled after its entry was popped still runs (`executor.hpp:295`);
- cancellations and the initialized mark are kept per peer, not per session: one
  session's cancellation reaches another's request with that id (`peer.hpp:4206`,
  `docs/request_lifecycle.md:133`), one session's `initialized` admits all (`:4160`);
- a cancellation received before the request's thread has registered is lost (`:4238`);
- the server peer answers without asking the rate limiter (`:3446`, `rate_limit.hpp:36`);
- `set_handler` of the server peer drops the two members of an aggregate that take the
  context of the request (`:3226`), which `Server::set_handler` installs;
- after the last unsubscription a resource update goes to every transport again
  (`server/src/server.cpp:1284`);
- inbound requests run on the client's receive thread, so a handler that calls the
  same peer and waits never sees its response (`:1952`);
- a restarted receive loop clears stored responses (`:1949`);
- a handler that stops its own service waits for itself (`service.hpp:79`, `:103`);
- an abandoned request keeps the request mutex until it is answered or the transport
  closes; requests without a timeout wait behind it (`:2412`);
- an explicit cancel and a timeout send two notifications (`request.hpp:253`).

*HTTP server* (`server/src/http_transport.cpp`)
- a client that read only the priming event is refused although events wait (`:2002`);
- an initialize with a progress token gets a session id that is never entered (`:1807`);
- overlapping initialize requests exceed `max_sessions` (`:1664`);
- a session has a single progress sink (`:1908`);
- a call that timed out erases the entry of another call with its id (`:2374`);
- the native peer answers a request without a session (stateless, or a ping before
  `initialize`) by `send`, which can complete the request with that id of the session
  heard from last (`:3155`, `peer.hpp:4000`); stateless clients share their ids: the
  second of two equal ones is refused as a duplicate (`:3089`);
- responses to server-to-client requests are kept by id alone (`:2841`), for all
  sessions and callers;
- a transport whose listening failed counts as closed, so `close()` does not join its
  server thread (`:2864`).

*HTTP client* (`client/src/http_transport.cpp`, `client.cpp`)
- recovery repeats a request without `notifications/initialized` (`client.cpp:507`);
- two first requests both initialize, or the second goes ahead of it (`client.cpp:464`);
- a late 404 resets a newer session (`:475`), a late answer brings an old id back
  (`:811`), also the answer to a response posted in the old session (`:1103`);
- a receive stream whose handler meets a 404 would join its own thread (`:650`).

*Processes*
- the end of the child does not end `receive()`, and a request without a timeout then
  waits until `stop()`; `stop()` may report "transport is closed".

*Authorization*
- a code is exchanged under whatever client is configured by then;
- a failed save leaves `current_scopes_` changed;
- an exchange answered without a refresh token drops the stored one;
- `authorize()` registers a new client each time.

*Protocol types*
- a `resultType` that is not a string throws out of a decoder that returns its other
  faults as errors (`protocol/tool.hpp:978`);
- where two members share a key, setting the one that is not written, or clearing the
  one that is, has no effect (`protocol/tool.hpp:680`, `completion.hpp:246`,
  `sampling.hpp:656`);
- a block's `priority` passes through a `float` and comes out as another number
  (`annotations.hpp:253`).

## Not modelled

- **Stdio transports**: line framing over the process's own streams. The client side
  waits as `ProcessStdio` does; the server loop returns at a failing handler without
  joining its request threads (`server/src/stdio_transport.cpp:295`).
- **WebSocket transports**: the behaviour is that of the WebSocket library's callbacks
  and threads, which are outside the repository.
- **Transport adapters**: they forward; the state is in the transports. The receive
  loop of one of them is part of `HttpServerRole`.
- **Broadcast**: a sequential loop over a copied list, which ends at the first transport
  that fails (`server/src/server.cpp:1164`). The subscriptions are in `ServerDispatch`.
- **Authorization server and verification**: signatures, encodings and claims.
- **Results and errors**: value types without behaviour.

Inside the modelled parts: page cursors (`tasks/list`, the registries' lists, the
client's page loops), which shift when entries come or go between two pages;
`RequestHandle::cancel` by hand; inbound requests of the client peer; HTTP header
validation, the stateless mode, subscription streams, OAuth routes and listener
start-up of the HTTP server; event parsing, Last-Event-ID and the legacy SSE endpoint
of the HTTP client, and the counters of its role transport's health report;
`send()` before `start()` of the process transport; discovery, PKCE values and the
loopback receiver of the OAuth client; text of JSON, schemas and error wording.
