----------------------------- MODULE ServerPeer -----------------------------
(***************************************************************************)
(* Peer<RoleServer>::serve_transport: the receive loop of a server over    *)
(* one transport, and the threads it starts for requests.  The loop runs   *)
(* initialize, requests before the initialized notification, and all       *)
(* notifications itself; other requests run on detached threads, counted   *)
(* by WorkerState::active.                                                 *)
(*                                                                         *)
(* A transport carries the messages of one or more sessions (Streamable    *)
(* HTTP puts them all into one receive queue).  Messages are numbered in   *)
(* the order they arrive and a request is known by its number, so that two *)
(* requests with the same JSON-RPC id can be told apart.                   *)
(***************************************************************************)
EXTENDS Integers, FiniteSets, Sequences

CONSTANTS
  Sessions,
  Ids,                \* JSON-RPC request ids
  Messages,           \* the messages clients send
  RawContextHandler,  \* raw_request_context_handler_ is set
  MaxMessages         \* bound: messages sent in a behaviour

Requests == {"initialize", "ping", "call", "other"}
Notifications == {"initialized", "cancelled", "note"}
Types == Requests \cup Notifications \cup {"response"}

ASSUME ServerPeerAssumption ==
  /\ Messages \subseteq [type : Types, session : Sessions, id : Ids,
                         stateless : BOOLEAN]
  /\ RawContextHandler \in BOOLEAN
  /\ MaxMessages \in Nat

Numbers == 1..MaxMessages
Maps == {"peer", "server"}
None == 0

VARIABLES
  msgs,            \* the messages sent so far
  received,        \* how many of them the loop has received
  open,            \* the transport is not closed
  serviceCancelled,\* the service's cancellation token
  loop,            \* where the receive loop is
  result,          \* what serve_transport returns, or will after draining
  initialized,
  active, first_error, \* WorkerState
  worker,          \* where the thread of each request is
  cancellations,   \* peer_request_cancellations_ and Server's own map
  token,           \* requests whose present cancellation token is cancelled
  answers          \* responses sent for each request

vars == <<msgs, received, open, serviceCancelled, loop, result, initialized,
          active, first_error, worker, cancellations, token, answers>>

Live == {"spawned", "raw", "dispatch", "running", "handled", "failing", "finishing"}

Init ==
  /\ msgs = <<>>
  /\ received = 0
  /\ open = TRUE
  /\ serviceCancelled = FALSE
  /\ loop = "top"
  /\ result = "none"
  /\ initialized = FALSE
  /\ active = 0
  /\ first_error = FALSE
  /\ worker = [n \in Numbers |-> "none"]
  /\ cancellations = [m \in Maps |-> [id \in Ids |-> None]]
  /\ token = {}
  /\ answers = [n \in Numbers |-> 0]

-----------------------------------------------------------------------------
(* The clients and the owner of the service.                               *)

(* Request ids are generated by the client and not used again in a session.*)
FreshId(message) ==
  message.type \in Requests =>
    ~\E i \in 1..Len(msgs) : /\ msgs[i].type \in Requests
                            /\ msgs[i].id = message.id
                            /\ msgs[i].session = message.session

ClientSends(message) ==
  /\ open
  /\ Len(msgs) < MaxMessages
  /\ FreshId(message)
  /\ msgs' = Append(msgs, message)
  /\ UNCHANGED <<received, open, serviceCancelled, loop, result, initialized,
                 active, first_error, worker, cancellations, token, answers>>

(* The client disconnects, or stop() closes the transport.                 *)
TransportCloses ==
  /\ open
  /\ open' = FALSE
  /\ UNCHANGED <<msgs, received, serviceCancelled, loop, result, initialized,
                 active, first_error, worker, cancellations, token, answers>>

ServiceCancels ==
  /\ ~serviceCancelled
  /\ serviceCancelled' = TRUE
  /\ UNCHANGED <<msgs, received, open, loop, result, initialized, active,
                 first_error, worker, cancellations, token, answers>>

-----------------------------------------------------------------------------
(* The receive loop.                                                       *)

LoopTop ==
  /\ loop = "top"
  /\ IF serviceCancelled
     THEN loop' = "drain" /\ result' = "ok"
     ELSE loop' = "receive" /\ result' = result
  /\ UNCHANGED <<msgs, received, open, serviceCancelled, initialized, active,
                 first_error, worker, cancellations, token, answers>>

(* receive() returns an error, or the end of the stream.                   *)
ReceiveEnds ==
  /\ loop = "receive"
  /\ ~open
  /\ loop' = "drain"
  /\ result' \in {"ok", "error"}
  /\ UNCHANGED <<msgs, received, open, serviceCancelled, initialized, active,
                 first_error, worker, cancellations, token, answers>>

Next1 == received + 1

Receives(types) ==
  /\ loop = "receive"
  /\ received < Len(msgs)
  /\ msgs[Next1].type \in types
  /\ received' = Next1

Continue == loop' = "top" /\ result' = result
Leave == loop' = "drain" /\ result' = "error"

(* send_message: a closed transport refuses the message.                   *)
Send(n) == answers' = IF open THEN [answers EXCEPT ![n] = @ + 1] ELSE answers

AllowedBeforeInitialized(message) ==
  message.stateless \/ message.type \in {"initialize", "ping"}

RunInline(message) ==
  message.type = "initialize" \/ (~initialized /\ ~message.stateless)

(* A request that comes too early is answered with an error; one that runs *)
(* inline is answered by dispatch_message, which turns every failure into  *)
(* an error response.                                                      *)
ReceiveAnswered ==
  /\ Receives(Requests)
  /\ \/ ~initialized /\ ~AllowedBeforeInitialized(msgs[Next1])
     \/ RunInline(msgs[Next1])
  /\ Send(Next1)
  /\ IF open THEN Continue ELSE Leave
  /\ UNCHANGED <<msgs, open, serviceCancelled, initialized, active, first_error,
                 worker, cancellations, token>>

(* start_request_worker counts the thread before it exists; when the       *)
(* thread cannot be created the count is taken back and the loop ends.     *)
ReceiveSpawns ==
  /\ Receives(Requests)
  /\ initialized \/ AllowedBeforeInitialized(msgs[Next1])
  /\ ~RunInline(msgs[Next1])
  /\ \/ /\ Continue
        /\ worker' = [worker EXCEPT ![Next1] = "spawned"]
        /\ active' = active + 1
     \/ /\ Leave
        /\ UNCHANGED <<worker, active>>
  /\ UNCHANGED <<msgs, open, serviceCancelled, initialized, first_error,
                 cancellations, token, answers>>

\* Variant: only the peer's own map is looked at.
Cancelled_PeerOnly(id) == {cancellations["peer"][id]} \ {None}

(* cancel_peer_request and Server::cancel_request: every registration of   *)
(* the id, whoever made it.                                                *)
Cancelled(id) == {cancellations[m][id] : m \in Maps} \ {None}

(* Notifications run on the loop.  A handler that fails ends the loop.     *)
ReceiveNotification ==
  /\ Receives(Notifications)
  /\ LET message == msgs[Next1]
         early == ~initialized /\ ~message.stateless /\ message.type # "initialized"
     IN  \/ /\ early
            /\ Leave
            /\ UNCHANGED <<initialized, token>>
         \/ /\ ~early
            /\ token' = IF message.type = "cancelled"
                        THEN token \cup Cancelled(message.id) ELSE token
            /\ \/ /\ Continue
                  /\ initialized' = (initialized \/ message.type = "initialized")
               \/ /\ Leave
                  /\ UNCHANGED initialized
  /\ UNCHANGED <<msgs, open, serviceCancelled, active, first_error, worker,
                 cancellations, answers>>

(* A response has nobody waiting for it here and ends the loop.            *)
ReceiveResponse ==
  /\ Receives({"response"})
  /\ Leave
  /\ UNCHANGED <<msgs, open, serviceCancelled, initialized, active, first_error,
                 worker, cancellations, token, answers>>

\* Variant: the loop does not wait for its workers.
Drained_Never == TRUE

Drained == active = 0

FinalResult == IF first_error THEN "error" ELSE result

(* wait_for_workers, then the first error of a worker or the loop's own.   *)
LoopReturns ==
  /\ loop = "drain"
  /\ Drained
  /\ loop' = "returned"
  /\ result' = FinalResult
  /\ UNCHANGED <<msgs, received, open, serviceCancelled, initialized, active,
                 first_error, worker, cancellations, token, answers>>

-----------------------------------------------------------------------------
(* The thread of request n.                                                *)

MapOf(n) == IF msgs[n].type = "other" THEN "server" ELSE "peer"

Goes(n, from, to) ==
  /\ worker[n] = from
  /\ worker' = [worker EXCEPT ![n] = to]

(* A registration comes with a new token; what was cancelled before, in    *)
(* the raw handler, is forgotten.                                          *)
Begin(m, n) ==
  /\ cancellations' = [cancellations EXCEPT ![m][msgs[n].id] = n]
  /\ token' = token \ {n}

End(m, n) == cancellations' = [cancellations EXCEPT ![m][msgs[n].id] = None]

WorkerOnly == <<msgs, received, open, serviceCancelled, loop, result, initialized>>

(* Authentication, then the raw handler under a registration of its own.   *)
(* ping, and any refusal, is answered without a handler.                   *)
\* Variant: a request thread does not start dispatching once the loop leaves.
DispatchStarts_WhileServing(n) ==
  /\ worker[n] = "spawned"
  /\ loop # "drain"
  /\ \/ Goes(n, "spawned", "handled") /\ UNCHANGED <<cancellations, token>>
     \/ /\ msgs[n].type # "ping"
        /\ IF RawContextHandler
           THEN Goes(n, "spawned", "raw") /\ Begin("peer", n)
           ELSE Goes(n, "spawned", "dispatch") /\ UNCHANGED <<cancellations, token>>
  /\ UNCHANGED <<WorkerOnly, active, first_error, answers>>

DispatchStarts(n) ==
  /\ worker[n] = "spawned"
  /\ \/ Goes(n, "spawned", "handled") /\ UNCHANGED <<cancellations, token>>
     \/ /\ msgs[n].type # "ping"
        /\ IF RawContextHandler
           THEN Goes(n, "spawned", "raw") /\ Begin("peer", n)
           ELSE Goes(n, "spawned", "dispatch") /\ UNCHANGED <<cancellations, token>>
  /\ UNCHANGED <<WorkerOnly, active, first_error, answers>>

(* The raw handler answers, or leaves the request to the built-in methods. *)
RawReturns(n) ==
  /\ Goes(n, "raw", "handled") \/ Goes(n, "raw", "dispatch")
  /\ End("peer", n)
  /\ UNCHANGED <<WorkerOnly, active, first_error, token, answers>>

HandlerStarts(n) ==
  /\ Goes(n, "dispatch", "running")
  /\ Begin(MapOf(n), n)
  /\ UNCHANGED <<WorkerOnly, active, first_error, answers>>

(* The handler returns or throws; the registration is erased by id.        *)
HandlerReturns(n) ==
  /\ Goes(n, "running", "handled")
  /\ End(MapOf(n), n)
  /\ UNCHANGED <<WorkerOnly, active, first_error, token, answers>>

WorkerSends(n) ==
  /\ IF open THEN Goes(n, "handled", "finishing") ELSE Goes(n, "handled", "failing")
  /\ Send(n)
  /\ UNCHANGED <<WorkerOnly, active, first_error, cancellations, token>>

(* record_worker_error keeps the first error and closes the transport.     *)
WorkerFails(n) ==
  /\ Goes(n, "failing", "finishing")
  /\ first_error' = TRUE
  /\ open' = FALSE
  /\ UNCHANGED <<msgs, received, serviceCancelled, loop, result, initialized,
                 active, cancellations, token, answers>>

finish_worker(n) ==
  /\ Goes(n, "finishing", "finished")
  /\ active' = IF active > 0 THEN active - 1 ELSE active
  /\ UNCHANGED <<WorkerOnly, first_error, cancellations, token, answers>>

-----------------------------------------------------------------------------
LoopStep ==
  \/ LoopTop \/ ReceiveEnds \/ ReceiveAnswered \/ ReceiveSpawns
  \/ ReceiveNotification \/ ReceiveResponse \/ LoopReturns

WorkerStep(n) ==
  \/ DispatchStarts(n) \/ RawReturns(n) \/ HandlerStarts(n) \/ HandlerReturns(n)
  \/ WorkerSends(n) \/ WorkerFails(n) \/ finish_worker(n)

Next ==
  \/ \E message \in Messages : ClientSends(message)
  \/ TransportCloses
  \/ ServiceCancels
  \/ LoopStep
  \/ \E n \in Numbers : WorkerStep(n)

Spec == Init /\ [][Next]_vars

(* The loop and the started threads keep running and handlers return;      *)
(* clients owe nothing.  MaxMessages messages make for finitely many       *)
(* steps, so weak fairness of all threads together is that of each.        *)
Fairness == WF_vars(LoopStep \/ \E n \in Numbers : WorkerStep(n))

FairSpec == Spec /\ Fairness

-----------------------------------------------------------------------------
(* What serving a transport promises.                                      *)

LiveWorkers == {n \in Numbers : worker[n] \in Live}
ReceivedRequests == {n \in 1..received : msgs[n].type \in Requests}

\* serve_transport returns with no request thread left running.  When it
\* reports no error, every request it received has been answered exactly once:
\* a response that could not be sent is reported, whatever ended the loop.
ReturnsDrained ==
  loop = "returned" =>
    /\ LiveWorkers = {}
    /\ result = "ok" => \A n \in ReceivedRequests : answers[n] = 1

\* Another request with the id of request n has been given a thread.  Clients
\* do not repeat their ids, so it comes from another session.
SharesId(n) ==
  \E k \in Numbers \ {n} : worker[k] # "none" /\ msgs[k].id = msgs[n].id

\* A cancelled notification cancels the token of the handler, raw or built-in,
\* that runs for the request it names, and no token of a request with another
\* id.  The registrations are keyed by the id alone: a request that shares its
\* id with a request of another session may be missed, and is left out here.
CancelReachesHandler ==
  [][ReceiveNotification /\ msgs[Next1].type = "cancelled" /\ loop' # "drain" =>
       \A n \in Numbers :
         /\ n \in token' \ token => msgs[n].id = msgs[Next1].id
         /\ /\ worker[n] \in {"raw", "running"}
            /\ msgs[n].id = msgs[Next1].id
            /\ msgs[n].session = msgs[Next1].session
            /\ ~SharesId(n)
            => n \in token']_vars

\* Every request the loop takes from the transport is eventually answered,
\* unless the transport is closed or a thread could not be started.
RequestAnswered ==
  \A n \in Numbers :
    (n \in ReceivedRequests) ~> (answers[n] = 1 \/ ~open \/ loop = "returned")

\* Once the transport is closed the loop drains its workers and returns.
CloseEndsServing == (~open) ~> (loop = "returned")
=============================================================================
