---------------------------- MODULE HttpSessions ----------------------------
(***************************************************************************)
(* The session table of the Streamable HTTP server transport               *)
(* (HttpTransport, server/src/http_transport.cpp).  POST, DELETE, stop()   *)
(* and the threads that send requests to a client act on sessions_ under   *)
(* mutex_, one action per critical section; the protocol handler runs in   *)
(* between, without the lock.                                              *)
(*                                                                         *)
(* Headers, JSON and the stateless path decide whether a POST gets this    *)
(* far and are left out: every POST below has passed them.                 *)
(***************************************************************************)
EXTENDS Integers, FiniteSets, Functions

CONSTANTS MaxSessions,  \* max_sessions, 0 for no limit
          MaxPosts,     \* bound: POST requests that arrive
          Callers,      \* threads in send_request_to_session, one call each
          Keys,         \* JSON-RPC ids of server-to-client requests
          None          \* no session

ASSUME HttpSessionsAssumption ==
  /\ MaxSessions \in Nat
  /\ MaxPosts \in Nat
  /\ None \notin Nat

VARIABLES
  sessions_,            \* session id -> SessionState
  default_session_id_,
  next_session_id_,
  stopped_,
  timeouts,             \* option: request_timeout is positive
  post,                 \* the POST requests and how far their threads are
  caller                \* the calls of send_request_to_session

vars == <<sessions_, default_session_id_, next_session_id_, stopped_, timeouts,
          post, caller>>

Posts == 1..MaxPosts
SessionIds == 1..MaxPosts
Kinds == {"initialize", "initializeProgress", "initialized", "ping", "business", "response"}
NewPost == [at |-> "new"]
IdleCall == [at |-> "idle"]

Init ==
  /\ sessions_ = <<>>
  /\ default_session_id_ = None
  /\ next_session_id_ = 1
  /\ stopped_ = FALSE
  /\ timeouts \in BOOLEAN
  /\ post = [p \in Posts |-> NewPost]
  /\ caller = [c \in Callers |-> IdleCall]

Live(s) == s \in DOMAIN sessions_
Issued == 1..next_session_id_ - 1

(* A POST thread reaches the table, after stop() too: the listener only    *)
(* stops taking new connections.  Posts are numbered as they arrive.       *)
Arrives(p) == post[p] = NewPost /\ (p > 1 => post[p - 1] # NewPost)
Runs(p, kind, s) == post' = [post EXCEPT ![p] = [at |-> "handler", kind |-> kind, session |-> s]]
Answered(p, kind, s, status) ==
  post' = [post EXCEPT ![p] = [at |-> "done", kind |-> kind, session |-> s, status |-> status]]
Handles(p, kinds) == post[p].at = "handler" /\ post[p].kind \in kinds
Answers(p, status) == Answered(p, post[p].kind, post[p].session, status)

-----------------------------------------------------------------------------
(* POST initialize: the session limit is tested and an id drawn before the *)
(* handler runs; the session is entered after it.  With a progress token   *)
(* the answer is streamed, under the drawn id, and nothing is entered.     *)

NextId == next_session_id_ + 1

Initialize(p, kind) ==
  /\ Arrives(p)
  /\ IF MaxSessions # 0 /\ Cardinality(DOMAIN sessions_) >= MaxSessions
     THEN Answered(p, kind, None, "limit") /\ UNCHANGED next_session_id_
     ELSE Runs(p, kind, next_session_id_) /\ next_session_id_' = NextId
  /\ UNCHANGED <<sessions_, default_session_id_, stopped_, timeouts, caller>>

NewSession == [initialized |-> FALSE, pending_requests |-> <<>>]

InitializeReturns(p) ==
  /\ Handles(p, {"initialize"})
  /\ \/ /\ sessions_' = [s \in DOMAIN sessions_ \cup {post[p].session} |->
                           IF s = post[p].session THEN NewSession ELSE sessions_[s]]
        /\ default_session_id_' = post[p].session
        /\ Answers(p, "ok")
     \/ Answers(p, "error") /\ UNCHANGED <<sessions_, default_session_id_>>
  /\ UNCHANGED <<next_session_id_, stopped_, timeouts, caller>>

InitializeProgressReturns(p) ==
  /\ Handles(p, {"initializeProgress"})
  /\ Answers(p, "ok") \/ Answers(p, "error")
  /\ UNCHANGED <<sessions_, default_session_id_, next_session_id_, stopped_,
                 timeouts, caller>>

-----------------------------------------------------------------------------
(* POST of a notification or of a request in a session.  A "ping" request  *)
(* needs the session only, a "business" request or any other notification  *)
(* needs it initialized.                                                   *)

Initialized(p, s) ==
  /\ Arrives(p)
  /\ IF Live(s) THEN Runs(p, "initialized", s) ELSE Answered(p, "initialized", s, "stale")
  /\ UNCHANGED <<sessions_, default_session_id_, next_session_id_, stopped_,
                 timeouts, caller>>

Opened(s) == IF Live(s) THEN [sessions_ EXCEPT ![s].initialized = TRUE] ELSE sessions_

InitializedReturns(p) ==
  /\ Handles(p, {"initialized"})
  /\ \/ sessions_' = Opened(post[p].session) /\ Answers(p, "ok")
     \/ UNCHANGED sessions_ /\ Answers(p, "error")
  /\ UNCHANGED <<default_session_id_, next_session_id_, stopped_, timeouts, caller>>

Request(p, kind, s) ==
  /\ Arrives(p)
  /\ IF ~Live(s) THEN Answered(p, kind, s, "stale")
     ELSE IF kind # "ping" /\ ~sessions_[s].initialized
          THEN Answered(p, kind, s, "error")
          ELSE Runs(p, kind, s)
  /\ UNCHANGED <<sessions_, default_session_id_, next_session_id_, stopped_,
                 timeouts, caller>>

RequestReturns(p) ==
  /\ Handles(p, {"ping", "business"})
  /\ Answers(p, "ok")
  /\ UNCHANGED <<sessions_, default_session_id_, next_session_id_, stopped_,
                 timeouts, caller>>

-----------------------------------------------------------------------------
(* POST of a response: the pending request is taken out of the table, then *)
(* made ready under its own mutex.                                         *)

\* Variant: the answered request stays in the table.
Taken_Not(s, k) == sessions_

Taken(s, k) ==
  [sessions_ EXCEPT ![s].pending_requests = Restrict(@, DOMAIN @ \ {k})]

Response(p, s, k) ==
  /\ Arrives(p)
  /\ IF Live(s) /\ k \in DOMAIN sessions_[s].pending_requests
     THEN /\ post' = [post EXCEPT ![p] =
                        [at |-> "deliver", kind |-> "response", session |-> s,
                         to |-> sessions_[s].pending_requests[k]]]
          /\ sessions_' = Taken(s, k)
     ELSE Answered(p, "response", s, "error") /\ UNCHANGED sessions_
  /\ UNCHANGED <<default_session_id_, next_session_id_, stopped_, timeouts, caller>>

Deliver(p) ==
  /\ post[p].at = "deliver"
  /\ caller' = IF caller[post[p].to].at = "returned" THEN caller
               ELSE [caller EXCEPT ![post[p].to].response = TRUE]
  /\ post' = [post EXCEPT ![p].at = "delivered"]
  /\ UNCHANGED <<sessions_, default_session_id_, next_session_id_, stopped_, timeouts>>

-----------------------------------------------------------------------------
(* send_request_to_session.                                                *)

(* A stopped transport, an unknown session, an id that is pending already  *)
(* or a full event queue ends the call at once.                            *)
CallRefused(c) ==
  /\ caller[c] = IdleCall
  /\ caller' = [caller EXCEPT ![c] = [at |-> "returned", outcome |-> "refused"]]
  /\ UNCHANGED <<sessions_, default_session_id_, next_session_id_, stopped_,
                 timeouts, post>>

Call(c, s, k) ==
  /\ caller[c] = IdleCall
  /\ ~stopped_ /\ Live(s)
  /\ k \notin DOMAIN sessions_[s].pending_requests
  /\ sessions_' = [sessions_ EXCEPT ![s].pending_requests =
                     [j \in DOMAIN @ \cup {k} |-> IF j = k THEN c ELSE @[j]]]
  /\ caller' = [caller EXCEPT ![c] = [at |-> "waiting", session |-> s, key |-> k,
                                      response |-> FALSE, error |-> FALSE]]
  /\ UNCHANGED <<default_session_id_, next_session_id_, stopped_, timeouts, post>>

Ready(c) == caller[c].response \/ caller[c].error

\* Variant: an abort sets the error but not the ready flag.
Wakes_ResponseOnly(c) ==
  /\ caller[c].at = "waiting" /\ caller[c].response
  /\ caller' = [caller EXCEPT ![c] = [at |-> "returned", outcome |-> "response"]]
  /\ UNCHANGED <<sessions_, default_session_id_, next_session_id_, stopped_,
                 timeouts, post>>

Wakes(c) ==
  /\ caller[c].at = "waiting" /\ Ready(c)
  /\ caller' = [caller EXCEPT ![c] =
                  [at |-> "returned",
                   outcome |-> IF caller[c].error THEN "error" ELSE "response"]]
  /\ UNCHANGED <<sessions_, default_session_id_, next_session_id_, stopped_,
                 timeouts, post>>

Expires(c) ==
  /\ timeouts
  /\ caller[c].at = "waiting" /\ ~Ready(c)
  /\ caller' = [caller EXCEPT ![c].at = "expired"]
  /\ UNCHANGED <<sessions_, default_session_id_, next_session_id_, stopped_,
                 timeouts, post>>

(* The entry is erased by id, whoever registered it.                       *)
EraseExpired(c) ==
  /\ caller[c].at = "expired"
  /\ sessions_' = IF Live(caller[c].session)
                  THEN [sessions_ EXCEPT ![caller[c].session].pending_requests =
                          Restrict(@, DOMAIN @ \ {caller[c].key})]
                  ELSE sessions_
  /\ caller' = [caller EXCEPT ![c] = [at |-> "returned", outcome |-> "timeout"]]
  /\ UNCHANGED <<default_session_id_, next_session_id_, stopped_, timeouts, post>>

-----------------------------------------------------------------------------
(* DELETE and stop().                                                      *)

PendingIn(ids) == UNION {Range(sessions_[s].pending_requests) : s \in ids}

\* Variant: the waiting callers are not told.
Aborted_Not(ids) == caller

Aborted(ids) ==
  [c \in Callers |-> IF c \in PendingIn(ids) THEN [caller[c] EXCEPT !.error = TRUE]
                                             ELSE caller[c]]

\* Variant: the default session is left as it was.
DefaultAfterDelete_Kept(s, d) == d = default_session_id_

(* sessions_.begin() of an unordered map may be any remaining session.     *)
DefaultAfterDelete(s, d) ==
  IF default_session_id_ # s THEN d = default_session_id_
  ELSE IF DOMAIN sessions_ = {s} THEN d = None
  ELSE d \in DOMAIN sessions_ \ {s}

DeleteSession(s) ==
  /\ Live(s)
  /\ sessions_' = Restrict(sessions_, DOMAIN sessions_ \ {s})
  /\ caller' = Aborted({s})
  /\ \E d \in SessionIds \cup {None} : DefaultAfterDelete(s, d) /\ default_session_id_' = d
  /\ UNCHANGED <<next_session_id_, stopped_, timeouts, post>>

stop ==
  /\ ~stopped_
  /\ stopped_' = TRUE
  /\ caller' = Aborted(DOMAIN sessions_)
  /\ sessions_' = <<>>
  /\ default_session_id_' = None
  /\ UNCHANGED <<next_session_id_, timeouts, post>>

CallStep(c) == Wakes(c) \/ Expires(c) \/ EraseExpired(c)

Next ==
  \/ \E p \in Posts :
       \/ Initialize(p, "initialize") \/ Initialize(p, "initializeProgress")
       \/ InitializeReturns(p) \/ InitializeProgressReturns(p)
       \/ InitializedReturns(p) \/ RequestReturns(p) \/ Deliver(p)
       \/ \E s \in Issued :
            \/ Initialized(p, s) \/ Request(p, "ping", s) \/ Request(p, "business", s)
            \/ \E k \in Keys : Response(p, s, k)
  \/ \E c \in Callers :
       \/ CallRefused(c) \/ CallStep(c)
       \/ \E s \in Issued, k \in Keys : Call(c, s, k)
  \/ \E s \in SessionIds : DeleteSession(s)
  \/ stop

Spec == Init /\ [][Next]_vars

(* A thread that waits on a condition variable is woken, its timed wait    *)
(* ends, and a POST thread that has taken a pending request goes on.       *)
FairSpec ==
  /\ Spec
  /\ \A c \in Callers : WF_vars(CallStep(c))
  /\ \A p \in Posts : WF_vars(Deliver(p))

-----------------------------------------------------------------------------
(* What the session table promises.                                        *)

SessionState ==
  [initialized : BOOLEAN,
   pending_requests : UNION {[K -> Callers] : K \in SUBSET Keys}]

Waiting(c) == caller[c].at = "waiting" /\ ~Ready(c)

Registered(c) ==
  /\ Live(caller[c].session)
  /\ caller[c].key \in DOMAIN sessions_[caller[c].session].pending_requests
  /\ sessions_[caller[c].session].pending_requests[caller[c].key] = c

\* A caller that waits without a timeout can still be woken: its request is in
\* the table of its session, where a response, DELETE or stop() finds it, or a
\* POST thread has taken it and is about to make it ready.
WaiterReachable ==
  \A c \in Callers : Waiting(c) /\ ~timeouts =>
    Registered(c) \/ \E p \in Posts : post[p].at = "deliver" /\ post[p].to = c

\* The default session is one of the table, and there is one exactly when the
\* table is not empty, over initialize, DELETE and stop() in any order.
DefaultSessionLive ==
  IF DOMAIN sessions_ = {} THEN default_session_id_ = None
  ELSE default_session_id_ \in DOMAIN sessions_

\* A response the server has accepted is what its caller returns, unless that
\* call timed out first: a DELETE or stop() that comes later does not turn it
\* into an error.
AcceptedResponseReturned ==
  \A p \in Posts :
    post[p].at = "delivered" =>
      \/ caller[post[p].to].at \in {"waiting", "expired"}
         /\ caller[post[p].to].response /\ ~caller[post[p].to].error
      \/ caller[post[p].to].at = "returned"
         /\ caller[post[p].to].outcome \in {"response"} \cup (IF timeouts THEN {"timeout"} ELSE {})

\* A call returns once its session is deleted or the transport is stopped, and
\* with a timeout it returns in any case.
CallReturns ==
  \A c \in Callers :
    caller[c].at = "waiting" /\ (timeouts \/ ~Live(caller[c].session))
      ~> caller[c].at = "returned"
=============================================================================
