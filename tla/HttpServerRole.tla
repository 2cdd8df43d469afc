--------------------------- MODULE HttpServerRole ---------------------------
(***************************************************************************)
(* StreamableHttpServerTransport (server/src/http_transport.cpp): the      *)
(* message transport of a native server peer over HttpTransport.  A POST   *)
(* thread puts its request in a queue and waits until the response is sent *)
(* for it.  A peer receives requests and answers each on a thread of its   *)
(* own, naming the session if there is one; the ContractTransportAdapter   *)
(* of the legacy server answers one after the other, without naming it.    *)
(***************************************************************************)
EXTENDS Integers, Sequences, Functions

CONSTANTS Posts,       \* POST threads, one request each
          SessionOf,   \* the session of a request, "" for a stateless one,
          IdOf,        \* and its JSON-RPC id
          Sessions,
          Calls,       \* server-to-client requests
          CallId,
          Closers      \* threads that call close()

VARIABLES
  front,               \* "peer" or "adapter"
  server_thread_,      \* "none", "listening", "failing" (cannot listen), "failed", "ended"
  closed_, startup_error_,
  stopped,             \* HttpTransport::stop was called
  pending_client_requests_,
  inbound_,
  last_context_,       \* the session of the message received last, if any
  post,                \* POST thread -> "new", "waiting", "refused", "done"
  answer,              \* POST thread -> {} or {whose response, or "close"}
  reader,              \* the receive loop: "out" of receive(), "waiting", "ended"
  handling,            \* the request the adapter's loop is busy with
  worker,              \* request -> the thread that answers it
  target,              \* worker -> the POST thread whose entry it took
  call, waiter,        \* server-to-client requests: their threads, their callers
  reverse_responses_,
  closer, released     \* threads in close(), the waiting threads it took over

http == <<server_thread_, startup_error_, stopped>>
queue == <<inbound_, last_context_, reader, handling>>
answering == <<worker, target>>
reverse == <<call, waiter, reverse_responses_>>
vars == <<front, http, closed_, pending_client_requests_, queue, post, answer,
          answering, reverse, closer, released>>

pending_client_request_key(p) == <<SessionOf[p], IdOf[p]>>

ensure_started ==
  /\ server_thread_ = "none" /\ ~closed_
  /\ server_thread_' \in {"listening", "failing"}
  /\ UNCHANGED <<front, startup_error_, stopped, closed_, pending_client_requests_,
                 queue, post, answer, answering, reverse, closer, released>>

(* HttpTransport::start returns when its POST threads are through, with an *)
(* error unless it was stopped; the error is then written down.            *)
PostsThrough == \A p \in Posts : post[p] # "waiting"

ListenFails ==
  /\ server_thread_ \in {"listening", "failing"} /\ ~stopped /\ PostsThrough
  /\ server_thread_' = "failed"
  /\ UNCHANGED <<front, startup_error_, stopped, closed_, pending_client_requests_,
                 queue, post, answer, answering, reverse, closer, released>>

FailureNoted ==
  /\ server_thread_ = "failed"
  /\ server_thread_' = "ended"
  /\ startup_error_' = TRUE /\ closed_' = TRUE
  /\ UNCHANGED <<front, stopped, pending_client_requests_, queue, post, answer,
                 answering, reverse, closer, released>>

ListenEnds ==
  /\ server_thread_ \in {"listening", "failing"} /\ stopped /\ PostsThrough
  /\ server_thread_' = "ended"
  /\ UNCHANGED <<front, startup_error_, stopped, closed_, pending_client_requests_,
                 queue, post, answer, answering, reverse, closer, released>>

-----------------------------------------------------------------------------
(* POST threads.                                                           *)

handle_client_request(p) ==
  LET key == pending_client_request_key(p) IN
  /\ server_thread_ = "listening" /\ post[p] = "new"
  /\ IF closed_ \/ key \in DOMAIN pending_client_requests_
     THEN /\ post' = [post EXCEPT ![p] = "refused"]
          /\ UNCHANGED <<pending_client_requests_, inbound_>>
     ELSE /\ post' = [post EXCEPT ![p] = "waiting"]
          /\ pending_client_requests_' =
               [k \in DOMAIN pending_client_requests_ \cup {key} |->
                  IF k = key THEN p ELSE pending_client_requests_[k]]
          /\ inbound_' = Append(inbound_, [request |-> {p}, session |-> SessionOf[p]])
  /\ UNCHANGED <<front, http, closed_, last_context_, reader, handling, answer,
                 answering, reverse, closer, released>>

PostReturns(p) ==
  /\ post[p] = "waiting" /\ answer[p] # {}
  /\ post' = [post EXCEPT ![p] = "done"]
  /\ UNCHANGED <<front, http, closed_, pending_client_requests_, queue, answer,
                 answering, reverse, closer, released>>

handle_client_notification(s) ==
  /\ server_thread_ = "listening" /\ ~closed_
  /\ inbound_' = Append(inbound_, [request |-> {}, session |-> s])
  /\ UNCHANGED <<front, http, closed_, pending_client_requests_, last_context_,
                 reader, handling, post, answer, answering, reverse, closer, released>>

-----------------------------------------------------------------------------
(* The receive loop.  A loop may also end between two messages, for the    *)
(* reasons ServerPeer gives.                                               *)

ReceiveBegins ==
  /\ reader = "out" /\ handling = {}
  /\ server_thread_ # "none" /\ ~closed_
  /\ reader' = "waiting"
  /\ UNCHANGED <<front, http, closed_, pending_client_requests_, inbound_,
                 last_context_, handling, post, answer, answering, reverse,
                 closer, released>>

receive ==
  LET item == Head(inbound_) IN
  /\ reader = "waiting" /\ ~startup_error_ /\ inbound_ # <<>>
  /\ inbound_' = Tail(inbound_)
  /\ last_context_' = {item.session}
  /\ reader' = "out"
  /\ worker' = [p \in Posts |-> IF p \in item.request THEN "running" ELSE worker[p]]
  /\ handling' = IF front = "adapter" THEN item.request ELSE {}
  /\ UNCHANGED <<front, http, closed_, pending_client_requests_, post, answer,
                 target, reverse, closer, released>>

ReceiveEnds ==
  /\ reader = "waiting" /\ (startup_error_ \/ (closed_ /\ inbound_ = <<>>))
  /\ reader' = "ended"
  /\ last_context_' = IF startup_error_ THEN last_context_ ELSE {}
  /\ UNCHANGED <<front, http, closed_, pending_client_requests_, inbound_, handling,
                 post, answer, answering, reverse, closer, released>>

LoopEnds ==
  /\ reader = "out" /\ handling = {}
  /\ reader' = "ended"
  /\ UNCHANGED <<front, http, closed_, pending_client_requests_, inbound_,
                 last_context_, handling, post, answer, answering, reverse,
                 closer, released>>

-----------------------------------------------------------------------------
(* Answers.  The entry is taken under the mutex, the response set after    *)
(* it; without a session the entry is looked for under the session of the  *)
(* message received last, then under the id alone.                         *)

complete_client_request_for_session(p) ==
  {pending_client_request_key(p)} \cap DOMAIN pending_client_requests_

complete_client_request(p) ==
  LET here == {<<s, IdOf[p]>> : s \in last_context_} \cap DOMAIN pending_client_requests_
      same == {k \in DOMAIN pending_client_requests_ : k[2] = IdOf[p]}
  IN IF here # {} THEN here ELSE {k \in same : same = {k}}

Found(p) ==
  IF front = "peer" /\ SessionOf[p] # ""
  THEN complete_client_request_for_session(p)
  ELSE complete_client_request(p)

AnswerTakes(p) ==
  /\ worker[p] = "running"
  /\ \E k \in Found(p) :
       /\ target' = [target EXCEPT ![p] = pending_client_requests_[k]]
       /\ pending_client_requests_' =
            Restrict(pending_client_requests_, DOMAIN pending_client_requests_ \ {k})
  /\ worker' = [worker EXCEPT ![p] = "took"]
  /\ UNCHANGED <<front, http, closed_, queue, post, answer, reverse, closer, released>>

AnswerSet(p) ==
  /\ worker[p] = "took"
  /\ answer' = [answer EXCEPT ![target[p]] = {p}]
  /\ worker' = [worker EXCEPT ![p] = "done"]
  /\ handling' = handling \ {p}
  /\ UNCHANGED <<front, http, closed_, pending_client_requests_, inbound_,
                 last_context_, reader, post, target, reverse, closer, released>>

(* There is no such entry, or a peer's worker failed before it answered.   *)
AnswerFails(p) ==
  /\ worker[p] = "running" /\ (Found(p) = {} \/ front = "peer")
  /\ worker' = [worker EXCEPT ![p] = "failed"]
  /\ handling' = handling \ {p}
  /\ reader' = IF front = "adapter" THEN "ended" ELSE reader
  /\ UNCHANGED <<front, http, closed_, pending_client_requests_, inbound_,
                 last_context_, post, answer, target, reverse, closer, released>>

-----------------------------------------------------------------------------
(* Server-to-client requests: a thread each; the response is kept under    *)
(* the id until the caller fetches it.                                     *)

start_request_thread(c) ==
  /\ call[c] = "new" /\ server_thread_ # "none" /\ ~closed_
  /\ call' = [call EXCEPT ![c] = "sent"]
  /\ waiter' = [waiter EXCEPT ![c] = "waiting"]
  /\ UNCHANGED <<front, http, closed_, pending_client_requests_, queue, post, answer,
                 answering, reverse_responses_, closer, released>>

finish_request_worker(c) ==
  /\ call[c] = "sent"
  /\ call' = [call EXCEPT ![c] = "returned"]
  /\ UNCHANGED <<front, http, closed_, pending_client_requests_, queue, post, answer,
                 answering, waiter, reverse_responses_, closer, released>>

deliver_reverse_response(c) ==
  /\ call[c] = "returned"
  /\ call' = [call EXCEPT ![c] = "done"]
  /\ reverse_responses_' = Append(reverse_responses_, CallId[c])
  /\ UNCHANGED <<front, http, closed_, pending_client_requests_, queue, post, answer,
                 answering, waiter, closer, released>>

receive_response(c) ==
  /\ waiter[c] = "waiting"
  /\ \/ /\ closed_
        /\ waiter' = [waiter EXCEPT ![c] = "closed"]
        /\ UNCHANGED reverse_responses_
     \/ /\ ~closed_
        /\ \E i \in 1..Len(reverse_responses_) :
             /\ reverse_responses_[i] = CallId[c]
             /\ reverse_responses_' =
                  [j \in 1..Len(reverse_responses_) - 1 |->
                     reverse_responses_[IF j < i THEN j ELSE j + 1]]
        /\ waiter' = [waiter EXCEPT ![c] = "answered"]
  /\ UNCHANGED <<front, http, closed_, pending_client_requests_, queue, post, answer,
                 answering, call, closer, released>>

-----------------------------------------------------------------------------
(* close(): the first caller takes over the waiting threads, answers them, *)
(* stops HttpTransport and joins; every later one returns at once.  So     *)
(* does the first when listening has failed.                               *)

Close(c) ==
  /\ closer[c] = "out"
  /\ IF closed_
     THEN /\ closer' = [closer EXCEPT ![c] = "early"]
          /\ UNCHANGED <<closed_, pending_client_requests_, released>>
     ELSE /\ closed_' = TRUE
          /\ released' = Range(pending_client_requests_)
          /\ pending_client_requests_' = Restrict(pending_client_requests_, {})
          /\ closer' = [closer EXCEPT ![c] = "releasing"]
  /\ UNCHANGED <<front, http, queue, post, answer, answering, reverse>>

CloseReleases(c, p) ==
  /\ closer[c] = "releasing" /\ p \in released
  /\ answer' = [answer EXCEPT ![p] = {"close"}]
  /\ released' = released \ {p}
  /\ UNCHANGED <<front, http, closed_, pending_client_requests_, queue, post,
                 answering, reverse, closer>>

CloseStops(c) ==
  /\ closer[c] = "releasing" /\ released = {}
  /\ stopped' = TRUE
  /\ closer' = [closer EXCEPT ![c] = "joining"]
  /\ UNCHANGED <<front, server_thread_, startup_error_, closed_,
                 pending_client_requests_, queue, post, answer, answering, reverse,
                 released>>

CloseReturns(c) ==
  /\ closer[c] = "joining"
  /\ \A d \in Calls : call[d] \in {"new", "done"}
  /\ server_thread_ \in {"none", "ended"}
  /\ closer' = [closer EXCEPT ![c] = "closed"]
  /\ UNCHANGED <<front, http, closed_, pending_client_requests_, queue, post, answer,
                 answering, reverse, released>>

-----------------------------------------------------------------------------
Init ==
  /\ front \in {"peer", "adapter"}
  /\ server_thread_ = "none" /\ closed_ = FALSE /\ startup_error_ = FALSE
  /\ stopped = FALSE
  /\ pending_client_requests_ = <<>>
  /\ inbound_ = <<>> /\ last_context_ = {} /\ reader = "out" /\ handling = {}
  /\ post = [p \in Posts |-> "new"]
  /\ answer = [p \in Posts |-> {}]
  /\ worker = [p \in Posts |-> "none"]
  /\ target = [p \in Posts |-> p]
  /\ call = [c \in Calls |-> "new"] /\ waiter = [c \in Calls |-> "none"]
  /\ reverse_responses_ = <<>>
  /\ closer = [c \in Closers |-> "out"] /\ released = {}

PostStep(p) == handle_client_request(p) \/ PostReturns(p)
AnswerStep(p) == AnswerTakes(p) \/ AnswerSet(p) \/ AnswerFails(p)
LoopStep == ReceiveBegins \/ receive \/ ReceiveEnds \/ LoopEnds
CallStep(c) ==
  \/ start_request_thread(c) \/ finish_request_worker(c)
  \/ deliver_reverse_response(c) \/ receive_response(c)
CloseStep(c) ==
  \/ Close(c) \/ CloseStops(c) \/ CloseReturns(c)
  \/ \E p \in Posts : CloseReleases(c, p)

Next ==
  \/ ensure_started \/ ListenFails \/ FailureNoted \/ ListenEnds
  \/ \E p \in Posts : PostStep(p) \/ AnswerStep(p)
  \/ \E s \in Sessions : handle_client_notification(s)
  \/ LoopStep
  \/ \E c \in Calls : CallStep(c)
  \/ \E c \in Closers : CloseStep(c)

Spec == Init /\ [][Next]_vars

-----------------------------------------------------------------------------
(* Every request has a session, or none has.  A peer that serves both at   *)
(* once can hand a stateless request's response to the request with the    *)
(* same id in the session heard from last.                                 *)
SessionsOrNone ==
  \/ \A p \in Posts : SessionOf[p] # ""
  \/ (\A p \in Posts : SessionOf[p] = "") /\ Sessions \subseteq {""}

(* A POST is answered with the response made for its own request, or with  *)
(* the error of close(): also where the response does not name a session,  *)
(* and where a key is used again as soon as it is free.                    *)
AnswerIsOwn == \A p \in Posts : answer[p] \subseteq {p, "close"}

(* A POST thread that waits can be reached: it is in the table under its   *)
(* key, or its entry is with its worker, which is about to answer, or with *)
(* a close() that is still releasing.                                      *)
WaitingIsReachable ==
  \A p \in Posts : post[p] = "waiting" /\ answer[p] = {} =>
    \/ /\ pending_client_request_key(p) \in DOMAIN pending_client_requests_
       /\ pending_client_requests_[pending_client_request_key(p)] = p
    \/ worker[p] = "took" /\ target[p] = p
    \/ p \in released /\ \E c \in Closers : closer[c] = "releasing"

(* A response that was set is never replaced: not by close(), which may    *)
(* come while a worker holds the entry, nor by a second worker.            *)
AnswerStays == [][\A p \in Posts : answer[p] # {} => answer'[p] = answer[p]]_vars

(* The close() that shut the transport returns with no POST thread         *)
(* waiting, no server-to-client request under way and no server thread.    *)
CloseLeavesNothing ==
  (\E c \in Closers : closer[c] = "closed") =>
    /\ PostsThrough
    /\ \A d \in Calls : call[d] \in {"new", "done"}
    /\ server_thread_ \in {"none", "ended"}
=============================================================================
