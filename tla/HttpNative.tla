----------------------------- MODULE HttpNative -----------------------------
(***************************************************************************)
(* StreamableHttpClientTransport (client/src/http_transport.cpp): the      *)
(* message transport of a native peer, over the same HttpTransport.  A     *)
(* request runs on a thread of its own, its answer is queued for           *)
(* receive(); a server request, from a response body or from the stream,   *)
(* is queued as well and its thread waits until the peer sends the         *)
(* response, or until close().                                             *)
(***************************************************************************)
EXTENDS HttpClient, Sequences

CONSTANTS Ids,          \* JSON-RPC ids of the requests sent
          ServerIds,    \* JSON-RPC ids of the server's requests
          MaxInbound    \* bound: the stream is not read while so much is queued

VARIABLES
  closed_,
  in_flight_request_ids_,
  inbound_,             \* what receive() will return, oldest first
  receive_ended         \* the peer's receive loop is over

native == <<closed_, in_flight_request_ids_, inbound_, receive_ended>>
vars == <<options, transport, last_initialize_params_, call, server, closer,
          pending, crossed, native>>

InFlight(id) == id \in in_flight_request_ids_

(* send() of a request: refused when the id is in flight; otherwise a      *)
(* thread is started, or its start fails.                                  *)
Refused(c, kind, result) ==
  call' = [call EXCEPT ![c] = [at |-> "done", kind |-> kind, sending |-> "main",
                               recovered |-> FALSE, result |-> result, ran |-> 0]]

NativeSend(c, kind, id) ==
  /\ front = "native" /\ At(c, "idle") /\ MayCall
  /\ ~closed_
  /\ \/ /\ InFlight(id)
        /\ Refused(c, kind, "duplicate")
        /\ UNCHANGED <<in_flight_request_ids_, crossed>>
     \/ /\ ~InFlight(id)
        /\ call' = [call EXCEPT ![c] = NewCall(kind, "main", id)]
        /\ in_flight_request_ids_' = in_flight_request_ids_ \cup {id}
        /\ crossed' = (crossed \/ Running # {} \/ (kind = "initialize" /\ session_id # None))
     \/ /\ ~InFlight(id) /\ weather = "lossy"
        /\ call' = [call EXCEPT ![c] = [NewCall(kind, "main", id) EXCEPT !.at = "unstarted"]]
        /\ in_flight_request_ids_' = in_flight_request_ids_ \cup {id}
        /\ UNCHANGED crossed
  /\ UNCHANGED <<options, transport, last_initialize_params_, server, closer,
                 pending, closed_, inbound_, receive_ended>>

(* Without a thread the id is given back, under the mutex once more.       *)
forget_request_worker(c) ==
  /\ At(c, "unstarted")
  /\ in_flight_request_ids_' = in_flight_request_ids_ \ {call[c].id}
  /\ Refused(c, call[c].kind, "failed")
  /\ UNCHANGED <<options, transport, last_initialize_params_, server, closer,
                 pending, crossed, closed_, inbound_, receive_ended>>

(* send() of a notification runs on the caller's thread, and so outlives   *)
(* close() when it is under way.                                           *)
Notifies(c) == call[c].at # "idle" /\ call[c].kind = "initialized"

NativeNotify(c) ==
  /\ front = "native" /\ At(c, "idle") /\ MayCall
  /\ ~closed_
  /\ call' = [call EXCEPT ![c] = NewCall("initialized", "main", None)]
  /\ crossed' = (crossed \/ Running # {})
  /\ UNCHANGED <<options, transport, last_initialize_params_, server, closer,
                 pending, native>>

NotifyReturns(c) ==
  /\ front = "native" /\ At(c, "returned") /\ Notifies(c)
  /\ Ends(c)
  /\ UNCHANGED <<options, transport, last_initialize_params_, server, closer,
                 pending, crossed, native>>

WorkerFinishes(c) ==
  /\ front = "native" /\ At(c, "returned") /\ ~Notifies(c)
  /\ in_flight_request_ids_' = in_flight_request_ids_ \ {call[c].id}
  /\ Goes(c, "enqueue")
  /\ UNCHANGED <<options, transport, last_initialize_params_, server, closer,
                 pending, crossed, closed_, inbound_, receive_ended>>

(* Under the mutex; what comes after close() is dropped.                   *)
enqueue(m) == inbound_' = IF closed_ THEN inbound_ ELSE Append(inbound_, m)

Message(type, of) == [type |-> type, of |-> of]

WorkerEnqueues(c) ==
  /\ front = "native" /\ At(c, "enqueue")
  /\ enqueue(Message("response", c))
  /\ Leaves(c, IF closed_ THEN "done" ELSE "queued")
  /\ UNCHANGED <<options, transport, last_initialize_params_, server, closer,
                 pending, crossed, closed_, in_flight_request_ids_, receive_ended>>

-----------------------------------------------------------------------------
(* Server requests and notifications.  A thread that handles a request,    *)
(* that of a call or the stream of a session, waits for the peer; the ids  *)
(* of the waiting ones are the keys of pending_server_requests_.           *)

Waiting == {k \in DOMAIN pending : pending[k].at = "waiting"}
pending_server_requests_ == {pending[k].id : k \in Waiting}

(* After close(), and for an id that is pending, an error is answered.     *)
handle_server_request(k, id) ==
  IF closed_ \/ id \in pending_server_requests_
  THEN pending' = Added(k, Request("ready", id, None)) /\ UNCHANGED inbound_
  ELSE pending' = Added(k, Request("waiting", id, None)) /\ enqueue(Message("request", id))

BodyAsks(c, id) ==
  /\ front = "native" /\ At(c, "decode") /\ call[c].asks
  /\ handle_server_request(c, id)
  /\ Goes(c, "asked")
  /\ UNCHANGED <<options, transport, last_initialize_params_, server, closer,
                 crossed, closed_, in_flight_request_ids_, receive_ended>>

NativeStreamReads(s) ==
  front = "native" /\ StreamReads(s) /\ Len(inbound_) < MaxInbound

StreamAsks(s, id) ==
  /\ NativeStreamReads(s)
  /\ handle_server_request(s, id)
  /\ UNCHANGED <<options, transport, last_initialize_params_, call, server,
                 closer, crossed, closed_, in_flight_request_ids_, receive_ended>>

handle_server_notification(s) ==
  /\ NativeStreamReads(s)
  /\ enqueue(Message("notification", s))
  /\ UNCHANGED <<options, transport, last_initialize_params_, call, server,
                 closer, pending, crossed, closed_, in_flight_request_ids_, receive_ended>>

(* The peer, having received the request, sends the response.              *)
Asked(id) == \E i \in DOMAIN inbound_ : inbound_[i] = Message("request", id)

complete_server_request(k) ==
  /\ k \in Waiting /\ ~Asked(pending[k].id)
  /\ pending' = Added(k, Request("ready", pending[k].id, None))
  /\ UNCHANGED <<options, transport, last_initialize_params_, call, server,
                 closer, crossed, native>>

(* receive(), called in a loop: it returns what is queued.  A call after   *)
(* close() is refused, one that close() finds inside returns once more.    *)
receive ==
  /\ front = "native" /\ ~receive_ended
  /\ \/ /\ inbound_ # <<>>
        /\ inbound_' = Tail(inbound_)
        /\ receive_ended' = closed_
        /\ IF Head(inbound_).type = "response"
           THEN Goes(Head(inbound_).of, "done")
           ELSE UNCHANGED call
     \/ /\ closed_
        /\ receive_ended' = TRUE
        /\ UNCHANGED <<call, inbound_>>
  /\ UNCHANGED <<options, transport, last_initialize_params_, server, closer,
                 pending, crossed, closed_, in_flight_request_ids_>>

-----------------------------------------------------------------------------
(* close(): the waiting threads get an error, the transport is stopped,    *)
(* the request threads are joined.                                         *)

\* Variant: the threads that wait for the peer are not released.
Released_None == pending

Released ==
  [k \in DOMAIN pending |->
     IF k \in Waiting THEN Request("ready", pending[k].id, None) ELSE pending[k]]

Close ==
  /\ front = "native" /\ weather = "closing" /\ closer.at = "open"
  /\ closed_' = TRUE
  /\ pending' = Released
  /\ closer' = [closer EXCEPT !.at = "stop"]
  /\ UNCHANGED <<options, transport, last_initialize_params_, call, server,
                 crossed, in_flight_request_ids_, inbound_, receive_ended>>

CloseReturned ==
  /\ front = "native" /\ closer.at = "stopped"
  /\ \A c \in Running : Notifies(c)
  /\ closer' = [closer EXCEPT !.at = "closed"]
  /\ UNCHANGED <<options, transport, last_initialize_params_, call, server,
                 pending, crossed, native>>

-----------------------------------------------------------------------------
NativeInit ==
  /\ Init
  /\ closed_ = FALSE /\ in_flight_request_ids_ = {} /\ inbound_ = <<>>
  /\ receive_ended = FALSE

NativeStep ==
  \/ \E c \in Callers, kind \in AllKinds \ {"initialized"}, id \in Ids :
       kind \in Kinds[c] /\ NativeSend(c, kind, id)
  \/ \E c \in Callers : "initialized" \in Kinds[c] /\ NativeNotify(c)
  \/ \E c \in Callers :
       forget_request_worker(c) \/ NotifyReturns(c) \/ WorkerFinishes(c) \/ WorkerEnqueues(c)
  \/ \E c \in Callers, id \in ServerIds : BodyAsks(c, id)
  \/ \E s \in Sessions, id \in ServerIds : StreamAsks(s, id)
  \/ \E s \in Sessions : handle_server_notification(s)
  \/ \E k \in Waiting : complete_server_request(k)
  \/ receive
  \/ Close \/ CloseReturned

Next ==
  \/ ClientStep /\ UNCHANGED native
  \/ ServerStep /\ UNCHANGED native
  \/ NativeStep
Spec == NativeInit /\ [][Next]_vars

(* Threads run on, a POST is answered or times out, and the peer keeps     *)
(* calling receive(); the application need not answer server requests.     *)
CallStep(c) ==
  \/ (Transport(c) \/ Serve(c) \/ Front(c)) /\ UNCHANGED native
  \/ forget_request_worker(c) \/ WorkerFinishes(c) \/ WorkerEnqueues(c) \/ NotifyReturns(c)
  \/ \E id \in ServerIds : BodyAsks(c, id)
StopStep ==
  \/ (StopDeletes \/ StopResets \/ StopJoins) /\ UNCHANGED native
  \/ front = "native" /\ Stop /\ UNCHANGED native
  \/ CloseReturned
Fairness ==
  /\ \A c \in Callers : WF_vars(CallStep(c))
  /\ \A s \in Sessions : WF_vars(StreamPosts(s) /\ UNCHANGED native)
  /\ WF_vars(receive)
  /\ WF_vars(StopStep)
FairSpec == Spec /\ Fairness

-----------------------------------------------------------------------------
(* A request is handled by the server at most once: send() repeats it only *)
(* after answers that show it was not handled (404, 401 and the nonce      *)
(* challenge), never after an answer that was lost.                        *)
HandledOnce == \A c \in Callers : call[c].at # "idle" => call[c].ran <= 1

(* While calls do not overlap, initialize() is not repeated and no new     *)
(* session comes in while the answer to a response is under way, the       *)
(* receive stream, when no call is under way, is the one of the session    *)
(* that requests are sent in: recovery moves both together.                *)
StreamFollowsSession ==
  ~crossed /\ Running = {} => stream \in {None, session_id}

(* Every call ends: each repetition (404, 401, nonce, recovery) is allowed *)
(* once, and receive() returns what the thread of a native call queued     *)
(* unless the transport is closed before.  Only a server request the peer  *)
(* leaves unanswered can hold a call up.                                   *)
Ended(c) ==
  \/ call[c].at \in {"idle", "done"}
  \/ call[c].at = "queued" /\ closed_
CallEnds ==
  \A c \in Callers : ~Ended(c) ~> Ended(c) \/ Waiting # {}

(* close() and stop() return, although request threads and the stream's    *)
(* thread may be waiting for a response the peer never sends.              *)
StopReturns == (closer.at \in {"stop", "delete"}) ~> (closer.at = IF front = "native" THEN "closed" ELSE "stopped")

=============================================================================
