----------------------------- MODULE RoleProofs -----------------------------
(***************************************************************************)
(* Theorems about how a request finds its answer on the two sides:         *)
(* ClientRequest, for any set of requests, any options, pool and queue     *)
(* sizes; and HttpServerRole, for any POSTs, sessions, server calls and    *)
(* any number of threads that stop the role.  The components share names,  *)
(* so the second is an instance over variables of its own, declared where  *)
(* its part begins.                                                        *)
(***************************************************************************)
EXTENDS ClientRequest, Sequences, TLAPS

(* The places of the awaiting thread and what it carries.                  *)
TerminalErrors == {"timeout", "cancelled"}

Awaiters ==
  [at : {"idle", "waiting", "woken", "expired"}]
    \cup [at : {"failing", "sending", "leaving"}, error : TerminalErrors]
    \cup [at : {"returned"}, outcome : Requests \cup Errors \cup TerminalErrors]

(* The two threads that may owe the server a cancellation.                 *)
CallbackOwes(r) == observer[r] \in {"cancelAndSend", "send"}
AwaiterOwes(r) == awaiter[r].at = "sending"

(* Nobody has claimed the cancellation: nothing was sent, nothing is owed, *)
(* and nobody was told an error.                                           *)
Unclaimed(r) ==
  /\ cancels[r] = 0 /\ ~CallbackOwes(r) /\ ~AwaiterOwes(r)
  /\ terminal_error[r] = "none" /\ result[r] # "cancelled"
  /\ observer[r] # "cancel" /\ awaiter[r].at # "leaving"
  /\ awaiter[r].at = "returned" => awaiter[r].outcome \notin TerminalErrors

(* Somebody has: it was sent once, or exactly one thread owes it.          *)
Claimed(r) ==
  \/ cancels[r] = 1 /\ ~CallbackOwes(r) /\ ~AwaiterOwes(r)
  \/ cancels[r] = 0 /\ CallbackOwes(r) /\ ~AwaiterOwes(r)
  \/ cancels[r] = 0 /\ ~CallbackOwes(r) /\ AwaiterOwes(r)

(* Before the handle is returned nobody can have claimed anything.         *)
Private(r) == awaiter[r].at = "idle" /\ r \notin cancel_sent

CancelInv ==
  /\ awaiter \in [Requests -> Awaiters]
  /\ \A r \in Requests :
       /\ IF r \in cancel_sent THEN Claimed(r) ELSE Unclaimed(r)
       /\ work[r] = "new" => Private(r) /\ observer[r] = "off"
       /\ observer[r] = "pending" => Private(r)

IndInv == TypeOK /\ holder \in Requests \cup {None} /\ CancelInv /\ OwnResponse

-----------------------------------------------------------------------------
(* Type correctness.                                                       *)

\* The invariant holds in the initial state, where nothing was handed over.
LEMMA InitInv == Init => IndInv
<1> SUFFICES ASSUME Init PROVE IndInv
  OBVIOUS
<1>1. option \in [Requests -> SUBSET {"timeout", "token"}]
  BY ClientRequestAssumption DEF Init
<1>2. \A r \in Requests : work[r] \notin Inside
  BY DEF Init, Inside
<1>3. starts \in 0..MaxStarts
  BY ClientRequestAssumption DEF Init
<1>4. TypeOK
  BY <1>1, <1>2, <1>3, Zenon DEF Init, TypeOK, Errors
<1>5. [at |-> "idle"] \in Awaiters
  BY DEF Awaiters
<1>6. CancelInv
  BY <1>5 DEF Init, CancelInv, Unclaimed, CallbackOwes, AwaiterOwes, Private
<1> QED
  BY <1>4, <1>6 DEF Init, IndInv, OwnResponse, Errors

\* Every step preserves it.  The cancellation is claimed and the claim recorded
\* in one step, so the two threads that could send it never both do.
LEMMA StepInv == IndInv /\ [Next]_vars => IndInv'
<1> SUFFICES ASSUME IndInv, [Next]_vars PROVE IndInv'
  OBVIOUS
<1> USE ClientRequestAssumption
    DEF IndInv, TypeOK, CancelInv, OwnResponse, Awaiters, Unclaimed, Claimed,
        CallbackOwes, AwaiterOwes, Private, Errors, Inside, TerminalErrors,
        control, receive, handle
<1>1. ASSUME NEW r \in Requests, spawn(r) PROVE IndInv'
  BY <1>1 DEF spawn, Goes, Settled
<1>2. ASSUME NEW r \in Requests, Register(r) PROVE IndInv'
  BY <1>2 DEF Register, Controlled, Terminal, Settled, Sends
<1>3. ASSUME NEW r \in Requests, Unregister(r) PROVE IndInv'
  BY <1>3 DEF Unregister
<1>4. ASSUME NEW r \in Requests, CancelToken(r) PROVE IndInv'
  BY <1>4 DEF CancelToken
<1>5. ASSUME NEW r \in Requests, TakeCallbacks(r) PROVE IndInv'
  BY <1>5 DEF TakeCallbacks
<1>6. ASSUME NEW r \in Requests, CallbackControl(r) PROVE IndInv'
  BY <1>6 DEF CallbackControl, Controlled, Terminal, Claims
<1>7. ASSUME NEW r \in Requests, CallbackCancel(r) PROVE IndInv'
  BY <1>7 DEF CallbackCancel, Cancelled, Settled
<1>8. ASSUME NEW r \in Requests, CallbackSend(r) PROVE IndInv'
  BY <1>8 DEF CallbackSend, Sends
<1>9. ASSUME NEW r \in Requests, Await(r) PROVE IndInv'
  BY <1>9 DEF Await, Awaits, Returned
<1>10. ASSUME NEW r \in Requests, Wakes(r) PROVE IndInv'
  BY <1>10 DEF Wakes, Awaits
<1>11. ASSUME NEW r \in Requests, WokenReturns(r) PROVE IndInv'
  BY <1>11 DEF WokenReturns, Awaits, Returned
<1>12. ASSUME NEW r \in Requests, Expires(r) PROVE IndInv'
  BY <1>12 DEF Expires, Awaits
<1>13. ASSUME NEW r \in Requests, ExpiredReads(r) PROVE IndInv'
  BY <1>13 DEF ExpiredReads, Awaits, Returned
<1>14. ASSUME NEW r \in Requests, fail_terminal(r) PROVE IndInv'
  BY <1>14 DEF fail_terminal, Awaits, Controlled, Terminal, Claims
<1>15. ASSUME NEW r \in Requests, AwaiterSends(r) PROVE IndInv'
  BY <1>15 DEF AwaiterSends, Awaits, Sends
<1>16. ASSUME NEW r \in Requests, AwaiterLeaves(r) PROVE IndInv'
  BY <1>16 DEF AwaiterLeaves, Awaits, Returned
<1>17. ASSUME NEW r \in Requests, Take(r) PROVE IndInv'
  BY <1>17 DEF Take, Goes
<1>18. ASSUME NEW r \in Requests, SendRequest(r) PROVE IndInv'
  <2>1. CASE open
    <3>1. /\ holder = None /\ holder' = r /\ work' = [work EXCEPT ![r] = "sent"]
          /\ sent' = sent \cup {r}
          /\ UNCHANGED <<option, result, control, handle, responses, loop, starts, closed, wire, open>>
      BY <1>18, <2>1 DEF SendRequest, Goes
    <3>2. {q \in Requests : work'[q] \in Inside} = {r}
      BY <3>1
    <3>3. work[r] = "locking"
      BY <1>18 DEF SendRequest
    <3> QED
      BY <3>1, <3>2, <3>3
  <2>2. CASE ~open
    <3>1. /\ work[r] = "locking" /\ work' = [work EXCEPT ![r] = "done"]
          /\ holder = None /\ holder' = None
          /\ result' = [result EXCEPT ![r] = IF @ = "none" THEN "error" ELSE @]
          /\ UNCHANGED <<option, control, handle, responses, receive>>
      BY <1>18, <2>2 DEF SendRequest, Goes, Finish, HolderAfter, Settled
    <3>2. {q \in Requests : work'[q] \in Inside} = {}
      BY <3>1
    <3> QED
      BY <3>1, <3>2
  <2> QED
    BY <2>1, <2>2
<1>19. ASSUME NEW r \in Requests, native_receive_loop_active(r) PROVE IndInv'
  BY <1>19 DEF native_receive_loop_active, Goes
<1>20. ASSUME NEW r \in Requests, take_native_response(r) PROVE IndInv'
  BY <1>20 DEF take_native_response, Goes, Finish, HolderAfter, Settled
<1>21. ASSUME NEW r \in Requests, wait_native_response(r) PROVE IndInv'
  BY <1>21 DEF wait_native_response, WaitEnds, Goes, Finish, HolderAfter, Settled
<1>22. ASSUME NEW r \in Requests, PollReceives(r) PROVE IndInv'
  BY <1>22 DEF PollReceives, Answers, Goes, Finish, HolderAfter, Settled
<1>23. ASSUME NEW r \in Requests, PollCloses(r) PROVE IndInv'
  BY <1>23 DEF PollCloses, Goes, Finish, HolderAfter, Settled
<1>24. CASE start
  <2>1. starts' \in 0..MaxStarts
    BY <1>24 DEF start
  <2>2. closed' \in BOOLEAN /\ open' \in BOOLEAN
    BY <1>24, Zenon DEF start
  <2>3. UNCHANGED <<option, work, result, control, handle, holder, sent, wire>>
        /\ loop' = "running" /\ responses' = {}
    BY <1>24 DEF start
  <2> QED
    BY <2>1, <2>2, <2>3
<1>25. CASE store_native_response
  BY <1>25 DEF store_native_response
<1>26. CASE LoopEnds
  BY <1>26 DEF LoopEnds
<1>27. CASE Reply
  BY <1>27 DEF Reply
<1>28. CASE stop
  <2>1. open' \in BOOLEAN
    BY <1>28, Zenon DEF stop
  <2>2. UNCHANGED <<option, work, result, control, handle, holder, responses, loop,
                    starts, closed, sent, wire>>
    BY <1>28 DEF stop
  <2> QED
    BY <2>1, <2>2
<1>29. CASE UNCHANGED vars
  BY <1>29 DEF vars
<1> HIDE DEF IndInv
<1> QED
  BY <1>1, <1>2, <1>3, <1>4, <1>5, <1>6, <1>7, <1>8, <1>9, <1>10, <1>11, <1>12, <1>13,
     <1>14, <1>15, <1>16, <1>17, <1>18, <1>19, <1>20, <1>21, <1>22, <1>23, <1>24, <1>25,
     <1>26, <1>27, <1>28, <1>29 DEF Next, CancelStep, AwaitStep, WorkStep

\* Every behaviour of the model satisfies the inductive invariant.
THEOREM Inductive == Spec => []IndInv
<1>1. Init => IndInv
  BY InitInv
<1>2. IndInv /\ [Next]_vars => IndInv'
  BY StepInv
<1> QED
  BY <1>1, <1>2, PTL DEF Spec

\* The variables keep their types and the request mutex is held by the one
\* request that is on the wire.
THEOREM TypeCorrect == Spec => []TypeOK
<1>1. IndInv => TypeOK
  BY DEF IndInv
<1> QED
  BY <1>1, Inductive, PTL

\* A response never completes another request (send_native_request,
\* wait_native_response, take_native_response).
THEOREM ResponsesAreOwn == Spec => []OwnResponse
<1>1. IndInv => OwnResponse
  BY DEF IndInv
<1> QED
  BY <1>1, Inductive, PTL

\* Token and timeout send one cancellation between them: cancel_sent is set by
\* the thread that sends, in the critical section in which it decides to.
THEOREM CancelledOnce == Spec => []OneCancellation
<1>1. IndInv => OneCancellation
  BY DEF IndInv, CancelInv, OneCancellation, Claimed, Unclaimed
<1> QED
  BY <1>1, Inductive, PTL

\* Whoever is told of a timeout or a cancellation finds it claimed: it was
\* sent, or the token callback, the only other thread, owes it.
THEOREM AbandonmentAnnounced == Spec => []AbandonedIsAnnounced
<1>1. IndInv => AbandonedIsAnnounced
  BY DEF IndInv, CancelInv, AbandonedIsAnnounced, Claimed, Unclaimed, CallbackOwes,
         AwaiterOwes, TerminalErrors
<1> QED
  BY <1>1, Inductive, PTL

\* The first terminal error of a handle stays (fail_terminal and the token
\* callback overwrite nothing).
THEOREM ErrorStays == Spec => FirstErrorStays
<1>1. IndInv /\ [Next]_vars =>
        [\A r \in Requests : terminal_error[r] # "none" =>
           terminal_error'[r] = terminal_error[r]]_vars
  <2> SUFFICES ASSUME IndInv, Next, NEW r \in Requests, terminal_error[r] # "none"
               PROVE  terminal_error'[r] = terminal_error[r]
    OBVIOUS
  <2>1. terminal_error \in [Requests -> {"none", "timeout", "cancelled"}]
    BY DEF IndInv, TypeOK
  <2>2. ASSUME NEW q \in Requests, NEW e, Controlled(q, e)
        PROVE  terminal_error'[r] = terminal_error[r]
    BY <2>1, <2>2 DEF Controlled, Terminal
  <2>3. \/ UNCHANGED terminal_error
        \/ \E q \in Requests : Controlled(q, "cancelled") \/ Controlled(q, awaiter[q].error)
    BY ZenonT(30) DEF Next, spawn, Register, Unregister, CancelToken, CancelStep,
       TakeCallbacks,
           CallbackControl, CallbackCancel, CallbackSend, Await, AwaitStep, Wakes,
           WokenReturns, Expires, ExpiredReads, fail_terminal, AwaiterSends,
           AwaiterLeaves, WorkStep, Take, SendRequest, native_receive_loop_active,
           take_native_response, wait_native_response, PollReceives, PollCloses, start,
           store_native_response, LoopEnds, Reply, stop, control, handle, receive
  <2> QED
    BY <2>2, <2>3
<1> QED
  BY <1>1, Inductive, PTL DEF Spec, FirstErrorStays

-----------------------------------------------------------------------------
(* HttpServerRole.                                                         *)

CONSTANTS Posts, SessionOf, IdOf, Sessions, Calls, CallId, Closers

VARIABLES front, server_thread_, closed_, startup_error_, stopped,
          pending_client_requests_, inbound_, last_context_, post, answer, reader,
          handling, worker, target, call, waiter, reverse_responses_, closer, released

H == INSTANCE HttpServerRole

Key(p) == H!pending_client_request_key(p)
Open(p) == post[p] = "waiting" /\ answer[p] = {}
Registered(p) ==
  /\ Key(p) \in DOMAIN pending_client_requests_
  /\ pending_client_requests_[Key(p)] = p
Stages == {"releasing", "joining", "closed"}
Heard == Sessions \cup {SessionOf[p] : p \in Posts}
Items == [request : SUBSET Posts, session : Heard]

StateType ==
  /\ front \in {"peer", "adapter"}
  /\ post \in [Posts -> {"new", "waiting", "refused", "done"}]
  /\ worker \in [Posts -> {"none", "running", "took", "done", "failed"}]
  /\ target \in [Posts -> Posts]
  /\ answer \in [Posts -> SUBSET (Posts \cup {"close"})]
  /\ closer \in [Closers -> Stages \cup {"out", "early"}]
  /\ call \in [Calls -> {"new", "sent", "returned", "done"}]
  /\ inbound_ \in Seq(Items) /\ last_context_ \subseteq Heard
  /\ released \subseteq Posts

(* An open request is in the table, with its worker or with close(), and   *)
(* in one of them only.  A worker that took an entry took its own.         *)
TableInv ==
  /\ \A k \in DOMAIN pending_client_requests_ :
       pending_client_requests_[k] \in Posts /\ Key(pending_client_requests_[k]) = k
  /\ \A p \in Posts : Registered(p) => Open(p) /\ worker[p] # "took" /\ p \notin released
  /\ \A p \in released : Open(p) /\ worker[p] # "took"
  /\ \A p \in Posts : worker[p] = "took" => target[p] = p /\ Open(p)
  /\ \A p \in Posts : Open(p) => Registered(p) \/ worker[p] = "took" \/ p \in released
  /\ closed_ => DOMAIN pending_client_requests_ = {}
  /\ H!AnswerIsOwn

(* A request is received once.  Until its worker answers, its entry stays  *)
(* in the table, unless the transport is closed.                           *)
InboundInv ==
  /\ \A i \in 1..Len(inbound_) : \A p \in inbound_[i].request :
       /\ inbound_[i].request = {p} /\ inbound_[i].session = SessionOf[p]
       /\ worker[p] = "none" /\ post[p] # "new"
       /\ Registered(p) \/ closed_
  /\ \A i, j \in 1..Len(inbound_) :
       inbound_[i].request \cap inbound_[j].request # {} => i = j

(* The adapter works on what it received last.                             *)
WorkInv ==
  /\ \A p \in Posts : post[p] = "new" => worker[p] = "none" /\ answer[p] = {}
  /\ \A p \in Posts : worker[p] = "running" =>
       /\ Registered(p) \/ closed_
       /\ front # "peer" => handling = {p} /\ last_context_ = {SessionOf[p]}
  /\ reader = "waiting" => handling = {}

QueueInv == InboundInv /\ WorkInv

(* What is known at each stage of close().                                 *)
CloseInv ==
  /\ \A c, d \in Closers : closer[c] \in Stages /\ closer[d] \in Stages => c = d
  /\ \A c \in Closers : closer[c] \in Stages => closed_
  /\ released # {} => \E c \in Closers : closer[c] = "releasing"
  /\ server_thread_ \in {"none", "failing"} => \A p \in Posts : post[p] = "new"
  /\ server_thread_ \in {"none", "listening", "failing", "failed", "ended"}
  /\ server_thread_ \in {"failed", "ended"} => H!PostsThrough
  /\ H!CloseLeavesNothing

RoleInv == StateType /\ TableInv /\ QueueInv /\ CloseInv

-----------------------------------------------------------------------------
\* The queue holds requests of POST threads.
LEMMA QueuedPosts ==
  ASSUME StateType
  PROVE  \A i \in 1..Len(inbound_) : inbound_[i].request \subseteq Posts
<1>1. \A i \in 1..Len(inbound_) : inbound_[i] \in Items
  BY DEF StateType
<1>2. \A x \in Items : x.request \subseteq Posts
  BY Zenon DEF Items
<1> QED
  BY <1>1, <1>2, Zenon

\* The queue is left alone by a step that leaves what waits in it waiting.
LEMMA InboundStays ==
  ASSUME StateType, InboundInv, inbound_' = inbound_,
         \A p \in Posts :
           worker[p] = "none" /\ post[p] # "new" /\ (Registered(p) \/ closed_) =>
             worker'[p] = "none" /\ post'[p] # "new" /\ (Registered(p)' \/ closed_')
  PROVE  InboundInv'
<1>1. ASSUME NEW i \in 1..Len(inbound_), NEW p \in inbound_[i].request
      PROVE  /\ inbound_[i].request = {p} /\ inbound_[i].session = SessionOf[p]
             /\ worker'[p] = "none" /\ post'[p] # "new"
             /\ Registered(p)' \/ closed_'
  <2>1. p \in Posts
    BY QueuedPosts, Zenon
  <2>2. /\ inbound_[i].request = {p} /\ inbound_[i].session = SessionOf[p]
        /\ worker[p] = "none" /\ post[p] # "new" /\ (Registered(p) \/ closed_)
    BY Zenon DEF InboundInv
  <2> QED
    BY <2>1, <2>2, Zenon
<1>2. \A i, j \in 1..Len(inbound_) :
        inbound_[i].request \cap inbound_[j].request # {} => i = j
  BY Zenon DEF InboundInv
<1> QED
  BY <1>1, <1>2 DEF InboundInv

\* The table is left alone by a step that leaves the requests alone.
LEMMA TableStays ==
  ASSUME TableInv,
         UNCHANGED <<pending_client_requests_, post, answer, worker, target, released>>,
         closed_' => closed_ \/ DOMAIN pending_client_requests_ = {}
  PROVE  TableInv'
<1>1. \A p : (Open(p)' <=> Open(p)) /\ (Registered(p)' <=> Registered(p))
  BY Zenon DEF Open, Registered
<1>2. \A k \in DOMAIN pending_client_requests_ :
        pending_client_requests_[k] \in Posts /\ Key(pending_client_requests_[k]) = k
  BY Zenon DEF TableInv
<1>3. (\A k \in DOMAIN pending_client_requests_ :
         pending_client_requests_[k] \in Posts /\ Key(pending_client_requests_[k]) = k)'
  BY <1>2, Zenon DEF Key, H!pending_client_request_key
<1>4. /\ \A p \in Posts : Registered(p) => Open(p) /\ worker[p] # "took" /\ p \notin released
      /\ \A p \in released : Open(p) /\ worker[p] # "took"
  BY Zenon DEF TableInv
<1>5. /\ \A p \in Posts : worker[p] = "took" => target[p] = p /\ Open(p)
      /\ \A p \in Posts : Open(p) => Registered(p) \/ worker[p] = "took" \/ p \in released
  BY Zenon DEF TableInv
<1>6. (closed_ => DOMAIN pending_client_requests_ = {})' /\ H!AnswerIsOwn'
  BY Zenon DEF TableInv, H!AnswerIsOwn
<1> QED
  BY <1>1, <1>3, <1>4, <1>5, <1>6, Zenon DEF TableInv

\* The queue and the workers are left alone by a step that touches neither.
LEMMA QueueStays ==
  ASSUME StateType, QueueInv, closed_ => closed_',
         UNCHANGED <<front, pending_client_requests_, inbound_, last_context_, reader,
                     handling, post, answer, worker>>
  PROVE  QueueInv'
<1>1. \A p : Registered(p)' <=> Registered(p)
  BY Zenon DEF Registered
<1>2. InboundInv'
  BY <1>1, InboundStays, Zenon DEF QueueInv
<1>3. WorkInv'
  BY <1>1, Zenon DEF QueueInv, WorkInv
<1> QED
  BY <1>2, <1>3, Zenon DEF QueueInv

\* Nothing has been received yet.
LEMMA RoleInit == H!Init => RoleInv
<1> SUFFICES ASSUME H!Init PROVE RoleInv
  BY Zenon
<1>1. StateType
  BY DEF H!Init, StateType, Stages
<1>2. TableInv
  BY DEF H!Init, TableInv, Open, Registered, H!AnswerIsOwn
<1>3. QueueInv
  BY DEF H!Init, QueueInv, InboundInv, WorkInv
<1>4. CloseInv
  BY Zenon DEF H!Init, CloseInv, Stages, H!CloseLeavesNothing, H!PostsThrough
<1> QED
  BY <1>1, <1>2, <1>3, <1>4, Zenon DEF RoleInv

\* A thread that answers finds the entry of its own request, or none.
LEMMA FoundIsOwn ==
  ASSUME H!SessionsOrNone, RoleInv, NEW p \in Posts, worker[p] = "running", NEW k \in H!Found(p)
  PROVE  k = Key(p) /\ Registered(p)
<1>1. k \in DOMAIN pending_client_requests_
  BY Zenon DEF H!Found, H!complete_client_request_for_session, H!complete_client_request
<1>2. Registered(p)
  BY <1>1, Zenon DEF RoleInv, TableInv, QueueInv, InboundInv, WorkInv
<1>3. CASE front = "peer" /\ SessionOf[p] # ""
  BY <1>2, <1>3, Zenon DEF H!Found, H!complete_client_request_for_session, Key
<1>4. CASE front # "peer"
  <2>1. last_context_ = {SessionOf[p]}
    BY <1>4, Zenon DEF RoleInv, QueueInv, InboundInv, WorkInv
  <2>2. {<<s, IdOf[p]>> : s \in last_context_} = {Key(p)}
    BY <2>1, Zenon DEF Key, H!pending_client_request_key
  <2>3. Key(p) \in DOMAIN pending_client_requests_
    BY <1>2, Zenon DEF Registered
  <2> QED
    BY <1>2, <1>4, <2>2, <2>3, Zenon DEF H!Found, H!complete_client_request
<1>5. CASE front = "peer" /\ SessionOf[p] = ""
  <2>1. \A q \in Posts : SessionOf[q] = ""
    BY <1>5, Zenon DEF H!SessionsOrNone
  <2>2. last_context_ \subseteq {""}
    BY <1>5, <2>1, Zenon DEF H!SessionsOrNone, RoleInv, StateType, Heard
  <2>3. CASE k \in {<<s, IdOf[p]>> : s \in last_context_}
    BY <1>2, <1>5, <2>2, <2>3, Zenon DEF Key, H!pending_client_request_key
  <2>4. CASE k[2] = IdOf[p]
    <3>1. PICK q \in Posts : Key(q) = k
      BY <1>1, Zenon DEF RoleInv, TableInv
    <3> QED
      BY <1>2, <1>5, <2>1, <2>4, <3>1, Zenon DEF Key, H!pending_client_request_key
  <2> QED
    BY <1>5, <2>3, <2>4, Zenon DEF H!Found, H!complete_client_request
<1> QED
  BY <1>3, <1>4, <1>5, Zenon

-----------------------------------------------------------------------------
\* Start-up and the end of listening.
LEMMA ListenKeeps ==
  ASSUME RoleInv, H!ensure_started \/ H!ListenFails \/ H!FailureNoted \/ H!ListenEnds
  PROVE  RoleInv'
<1> USE DEF RoleInv, H!http, H!queue, H!answering, H!reverse
<1>1. StateType'
  BY Zenon DEF StateType, H!ensure_started, H!ListenFails, H!FailureNoted, H!ListenEnds
<1>2. ASSUME H!FailureNoted, NEW k \in DOMAIN pending_client_requests_ PROVE FALSE
  <2>1. PICK p \in Posts : p = pending_client_requests_[k] /\ Key(p) = k
    BY Zenon DEF TableInv
  <2>2. Registered(p)
    BY <2>1, Zenon DEF Registered
  <2>3. post[p] = "waiting"
    BY <2>2, Zenon DEF TableInv, Open
  <2> QED
    BY <1>2, <2>3, Zenon DEF H!FailureNoted, CloseInv, H!PostsThrough
<1>3. /\ UNCHANGED <<front, pending_client_requests_, inbound_, last_context_, reader,
                     handling, post, answer, worker, target, released>>
      /\ closed_' = closed_ \/ (closed_' = TRUE /\ H!FailureNoted)
  BY Zenon DEF H!ensure_started, H!ListenFails, H!FailureNoted, H!ListenEnds
<1>4. H!FailureNoted => DOMAIN pending_client_requests_ = {}
  BY <1>2, Zenon
<1>6. TableInv'
  BY <1>3, <1>4, TableStays
<1>7. QueueInv'
  BY <1>3, QueueStays
<1>5. CloseInv'
  BY DEF CloseInv, H!PostsThrough, H!CloseLeavesNothing, Stages, StateType,
     H!ensure_started,
         H!ListenFails, H!FailureNoted, H!ListenEnds
<1> QED
  BY <1>1, <1>5, <1>6, <1>7, Zenon

\* A POST thread registers its request, or is refused.
LEMMA RegisterKeeps ==
  ASSUME RoleInv, NEW p \in Posts, H!handle_client_request(p)
  PROVE  RoleInv'
<1> USE DEF RoleInv, H!http, H!answering, H!reverse
<1> DEFINE item == [request |-> {p}, session |-> SessionOf[p]]
<1>1. post[p] = "new" /\ worker[p] = "none" /\ answer[p] = {} /\ p \notin released
      /\ server_thread_ = "listening"
  BY Zenon DEF H!handle_client_request, QueueInv, InboundInv, WorkInv, TableInv, Open
<1>2. CASE closed_ \/ Key(p) \in DOMAIN pending_client_requests_
  <2>1. /\ post' = [post EXCEPT ![p] = "refused"]
        /\ UNCHANGED <<front, H!http, closed_, inbound_, last_context_, reader, handling, answer,
                       H!answering, H!reverse, closer, released, pending_client_requests_>>
    BY <1>2, Zenon DEF H!handle_client_request, Key
  <2>2. StateType'
    BY <2>1, Zenon DEF StateType
  <2>3. TableInv'
    BY <1>1, <2>1 DEF TableInv, Open, Registered, H!AnswerIsOwn, StateType
  <2>4. QueueInv'
    <3>1. InboundInv'
      BY <2>1, InboundStays, Zenon DEF QueueInv, Registered, StateType
    <3>2. WorkInv'
      BY <2>1 DEF QueueInv, WorkInv, Registered, StateType
    <3> QED
      BY <3>1, <3>2, Zenon DEF QueueInv
  <2>5. CloseInv'
    BY <1>1, <2>1, Zenon DEF CloseInv, H!PostsThrough, H!CloseLeavesNothing, StateType
  <2> QED
    BY <2>2, <2>3, <2>4, <2>5, Zenon
<1>3. CASE ~closed_ /\ Key(p) \notin DOMAIN pending_client_requests_
  <2>1. /\ post' = [post EXCEPT ![p] = "waiting"]
        /\ pending_client_requests_' =
             [k \in DOMAIN pending_client_requests_ \cup {Key(p)} |->
                IF k = Key(p) THEN p ELSE pending_client_requests_[k]]
        /\ inbound_' = Append(inbound_, item)
        /\ UNCHANGED <<front, H!http, closed_, last_context_, reader, handling, answer,
                       H!answering, H!reverse, closer, released>>
    BY <1>3, Zenon DEF H!handle_client_request, Key
  <2>2. item \in Items
    BY Zenon DEF Items, Heard
  <2>3. StateType'
    BY <2>1, <2>2 DEF StateType
  <2>4. \A q \in Posts : Registered(q) => Registered(q)'
    BY <1>3, <2>1, Zenon DEF Registered, Key, H!pending_client_request_key
  <2>5. Registered(p)' /\ Open(p)'
    BY <1>1, <2>1, Zenon DEF Registered, Open, Key, H!pending_client_request_key, StateType
  <2>6. \A q \in Posts : q # p => (Open(q)' <=> Open(q))
    BY <2>1, Zenon DEF Open, StateType
  <2>7. TableInv'
    <3>1. ASSUME NEW k \in DOMAIN pending_client_requests_'
          PROVE  pending_client_requests_'[k] \in Posts /\ Key(pending_client_requests_'[k]) = k
      <4>1. CASE k = Key(p)
        BY <2>1, <4>1, Zenon
      <4>2. CASE k # Key(p)
        BY <2>1, <4>2, Zenon DEF TableInv
      <4> QED
        BY <4>1, <4>2, Zenon
    <3>6. ASSUME NEW q \in Posts, Registered(q)'
          PROVE  Open(q)' /\ worker'[q] # "took" /\ q \notin released'
      <4>1. CASE q = p
        BY <1>1, <2>1, <2>5, <4>1, Zenon
      <4>2. CASE q # p
        <5>1. Registered(q)
          BY <2>1, <3>6, <4>2, Zenon DEF Registered, Key, H!pending_client_request_key
        <5> QED
          BY <2>1, <2>6, <4>2, <5>1, Zenon DEF TableInv
      <4> QED
        BY <4>1, <4>2, Zenon
    <3>2. \A q \in released' : Open(q)' /\ worker'[q] # "took"
      BY <1>1, <2>1, <2>6, Zenon DEF TableInv, StateType
    <3>3. \A q \in Posts : worker'[q] = "took" => target'[q] = q /\ Open(q)'
      BY <1>1, <2>1, <2>6, Zenon DEF TableInv
    <3>4. \A q \in Posts : Open(q)' => Registered(q)' \/ worker'[q] = "took" \/ q \in released'
      BY <2>1, <2>4, <2>5, <2>6, Zenon DEF TableInv
    <3>5. ~closed_' /\ H!AnswerIsOwn'
      BY <1>3, <2>1, Zenon DEF TableInv, H!AnswerIsOwn
    <3> QED
      BY <3>1, <3>2, <3>3, <3>4, <3>5, <3>6, Zenon
         DEF TableInv, Key, H!pending_client_request_key
  <2>8. QueueInv'
    <3>1. /\ Len(inbound_') = Len(inbound_) + 1 /\ Len(inbound_) \in Nat
          /\ \A i \in 1..Len(inbound_) : inbound_'[i] = inbound_[i]
          /\ inbound_'[Len(inbound_) + 1] = item
      BY <2>1, <2>2 DEF StateType
    <3>2. \A i \in 1..Len(inbound_) : p \notin inbound_[i].request
      BY <1>1, Zenon DEF QueueInv, InboundInv, WorkInv
    <3>3. \A q \in Posts : post'[q] = "new" => worker'[q] = "none" /\ answer'[q] = {}
      BY <2>1 DEF QueueInv, InboundInv, WorkInv, StateType
    <3>4. ASSUME NEW i \in 1..Len(inbound_'), NEW q \in inbound_'[i].request
          PROVE  /\ inbound_'[i].request = {q} /\ inbound_'[i].session = SessionOf[q]
                 /\ worker'[q] = "none" /\ post'[q] # "new"
                 /\ Registered(q)' \/ closed_'
      <4>1. CASE i = Len(inbound_) + 1
        <5>1. q = p /\ inbound_'[i] = item
          BY <3>1, <3>4, <4>1
        <5>2. worker'[p] = "none" /\ post'[p] # "new"
          BY <1>1, <2>1, Zenon DEF StateType
        <5> QED
          BY <2>5, <5>1, <5>2
      <4>2. CASE i # Len(inbound_) + 1
        <5>1. i \in 1..Len(inbound_) /\ inbound_'[i] = inbound_[i] /\ q \in inbound_[i].request
          BY <3>1, <4>2
        <5>2. q \in Posts
          BY <5>1, QueuedPosts, Zenon
        <5>3. /\ inbound_[i].request = {q} /\ inbound_[i].session = SessionOf[q]
              /\ worker[q] = "none" /\ post[q] # "new" /\ (Registered(q) \/ closed_)
          BY <5>1, Zenon DEF QueueInv, InboundInv
        <5> QED
          BY <2>1, <2>4, <5>1, <5>2, <5>3, Zenon DEF StateType
      <4> QED
        BY <4>1, <4>2, Zenon
    <3>5. ASSUME NEW i \in 1..Len(inbound_'), NEW j \in 1..Len(inbound_'),
                 inbound_'[i].request \cap inbound_'[j].request # {}
          PROVE  i = j
      <4>1. CASE i \in 1..Len(inbound_) /\ j \in 1..Len(inbound_)
        BY <3>1, <3>5, <4>1, Zenon DEF QueueInv, InboundInv, WorkInv
      <4>2. CASE i = Len(inbound_) + 1 /\ j \in 1..Len(inbound_)
        BY <3>1, <3>2, <3>5, <4>2
      <4>3. CASE j = Len(inbound_) + 1 /\ i \in 1..Len(inbound_)
        BY <3>1, <3>2, <3>5, <4>3
      <4> QED
        BY <3>1, <4>1, <4>2, <4>3
    <3>6. \A q \in Posts : worker'[q] = "running" =>
            /\ Registered(q)' \/ closed_'
            /\ front' # "peer" => handling' = {q} /\ last_context_' = {SessionOf[q]}
      BY <2>1, <2>4, Zenon DEF QueueInv, InboundInv, WorkInv
    <3>7. reader' = "waiting" => handling' = {}
      BY <2>1, Zenon DEF QueueInv, InboundInv, WorkInv
    <3> QED
      BY <3>3, <3>4, <3>5, <3>6, <3>7, Zenon DEF QueueInv, InboundInv, WorkInv
  <2>9. CloseInv'
    BY <1>1, <1>3, <2>1, Zenon DEF CloseInv, H!PostsThrough, H!CloseLeavesNothing,
       StateType, Stages
  <2> QED
    BY <2>3, <2>7, <2>8, <2>9, Zenon
<1> QED
  BY <1>2, <1>3, Zenon

\* A POST thread that was answered returns.
LEMMA ReturnKeeps ==
  ASSUME RoleInv, NEW p \in Posts, H!PostReturns(p)
  PROVE  RoleInv'
<1> USE DEF RoleInv, H!http, H!queue, H!answering, H!reverse
<1>1. /\ post[p] = "waiting" /\ answer[p] # {}
      /\ post' = [post EXCEPT ![p] = "done"]
      /\ UNCHANGED <<front, H!http, closed_, pending_client_requests_, H!queue, answer,
                     H!answering, H!reverse, closer, released>>
  BY Zenon DEF H!PostReturns
<1>2. StateType'
  BY <1>1, Zenon DEF StateType
<1>3. \A q \in Posts : Open(q)' <=> Open(q)
  BY <1>1, Zenon DEF Open, StateType
<1>4. TableInv'
  BY <1>1, <1>3, Zenon DEF TableInv, Registered, H!AnswerIsOwn, StateType
<1>5. QueueInv'
  <2>1. InboundInv'
    BY <1>1, InboundStays, Zenon DEF QueueInv, Registered, StateType
  <2>2. WorkInv'
    BY <1>1, Zenon DEF QueueInv, WorkInv, Registered, StateType
  <2> QED
    BY <2>1, <2>2, Zenon DEF QueueInv
<1>6. CloseInv'
  BY <1>1, Zenon DEF CloseInv, H!PostsThrough, H!CloseLeavesNothing, StateType
<1> QED
  BY <1>2, <1>4, <1>5, <1>6, Zenon

\* A notification joins the queue.
LEMMA NotificationKeeps ==
  ASSUME RoleInv, NEW s \in Sessions, H!handle_client_notification(s)
  PROVE  RoleInv'
<1> USE DEF RoleInv, H!http, H!answering, H!reverse
<1> DEFINE item == [request |-> {}, session |-> s]
<1>1. /\ inbound_' = Append(inbound_, item)
      /\ UNCHANGED <<front, H!http, closed_, pending_client_requests_, last_context_,
                     reader, handling, post, answer, H!answering, H!reverse, closer, released>>
  BY Zenon DEF H!handle_client_notification
<1>2. item \in Items
  BY Zenon DEF Items, Heard
<1>3. StateType'
  BY <1>1, <1>2 DEF StateType
<1>4. TableInv'
  BY <1>1, Zenon DEF TableInv, Open, Registered, H!AnswerIsOwn
<1>5. QueueInv'
  <2>1. /\ Len(inbound_') = Len(inbound_) + 1 /\ Len(inbound_) \in Nat
        /\ \A i \in 1..Len(inbound_) : inbound_'[i] = inbound_[i]
        /\ inbound_'[Len(inbound_) + 1].request = {}
    BY <1>1, <1>2 DEF StateType
  <2>2. \A i \in 1..Len(inbound_') : inbound_'[i].request # {} =>
          i \in 1..Len(inbound_) /\ inbound_'[i] = inbound_[i]
    BY <2>1
  <2> QED
    BY <1>1, <2>2 DEF QueueInv, InboundInv, WorkInv, Registered
<1>6. CloseInv'
  BY <1>1, Zenon DEF CloseInv, H!PostsThrough, H!CloseLeavesNothing
<1> QED
  BY <1>3, <1>4, <1>5, <1>6, Zenon

-----------------------------------------------------------------------------
\* The loop takes the message at the head of the queue.
LEMMA ReceiveKeeps ==
  ASSUME RoleInv, H!receive
  PROVE  RoleInv'
<1> USE DEF RoleInv, H!http, H!reverse
<1> DEFINE item == Head(inbound_)
<1>1. /\ reader = "waiting" /\ inbound_ # <<>>
      /\ inbound_' = Tail(inbound_)
      /\ last_context_' = {item.session}
      /\ reader' = "out"
      /\ worker' = [p \in Posts |-> IF p \in item.request THEN "running" ELSE worker[p]]
      /\ handling' = IF front = "adapter" THEN item.request ELSE {}
      /\ UNCHANGED <<front, H!http, closed_, pending_client_requests_, post, answer,
                     target, H!reverse, closer, released>>
  BY Zenon DEF H!receive
<1>2. /\ item = inbound_[1] /\ item \in Items /\ 1 \in 1..Len(inbound_)
      /\ Len(inbound_) \in Nat /\ Len(inbound_') = Len(inbound_) - 1
      /\ \A i \in 1..Len(inbound_') : i + 1 \in 1..Len(inbound_) /\ inbound_'[i] = inbound_[i + 1]
  BY <1>1 DEF StateType
<1>3. StateType'
  BY <1>1, <1>2 DEF StateType, Items
<1>4. \A p \in item.request :
        /\ p \in Posts /\ item.request = {p} /\ item.session = SessionOf[p]
        /\ worker[p] = "none" /\ post[p] # "new" /\ (Registered(p) \/ closed_)
  BY <1>2 DEF QueueInv, InboundInv, WorkInv, Items
<1>5. \A p \in Posts : /\ worker[p] = "took" <=> worker'[p] = "took"
                       /\ Open(p) <=> Open(p)'
                       /\ Registered(p) <=> Registered(p)'
  BY <1>1, <1>4, Zenon DEF Open, Registered
<1>6. TableInv'
  BY <1>1, <1>5, Zenon DEF TableInv, H!AnswerIsOwn, StateType
<1>7. QueueInv'
  <2>1. \A p \in Posts : post'[p] = "new" => worker'[p] = "none" /\ answer'[p] = {}
    BY <1>1, <1>4, Zenon DEF QueueInv, InboundInv, WorkInv
  <2>2. ASSUME NEW i \in 1..Len(inbound_')
        PROVE  inbound_'[i].request \cap item.request = {}
    <3>1. i + 1 \in 1..Len(inbound_) /\ i + 1 # 1 /\ inbound_'[i] = inbound_[i + 1]
      BY <1>2
    <3> QED
      BY <1>2, <3>1, Zenon DEF QueueInv, InboundInv, WorkInv
  <2>3. ASSUME NEW i \in 1..Len(inbound_'), NEW p \in inbound_'[i].request
        PROVE  /\ inbound_'[i].request = {p} /\ inbound_'[i].session = SessionOf[p]
               /\ worker'[p] = "none" /\ post'[p] # "new"
               /\ Registered(p)' \/ closed_'
    <3>1. i + 1 \in 1..Len(inbound_) /\ inbound_'[i] = inbound_[i + 1]
      BY <1>2, Zenon
    <3>2. p \in Posts /\ p \notin item.request
      BY <2>2, <3>1, QueuedPosts, Zenon
    <3> QED
      BY <1>1, <1>5, <3>1, <3>2 DEF QueueInv, InboundInv, WorkInv
  <2>4. \A i, j \in 1..Len(inbound_') :
          inbound_'[i].request \cap inbound_'[j].request # {} => i = j
    <3>1. \A i, j \in 1..Len(inbound_) :
            inbound_[i].request \cap inbound_[j].request # {} => i = j
      BY Zenon DEF QueueInv, InboundInv
    <3> SUFFICES ASSUME NEW i \in 1..Len(inbound_'), NEW j \in 1..Len(inbound_'),
                        inbound_'[i].request \cap inbound_'[j].request # {}
                 PROVE  i = j
      BY Zenon
    <3>2. /\ i + 1 \in 1..Len(inbound_) /\ inbound_'[i] = inbound_[i + 1]
          /\ j + 1 \in 1..Len(inbound_) /\ inbound_'[j] = inbound_[j + 1]
      BY <1>2, Zenon
    <3>3. i + 1 = j + 1
      BY <3>1, <3>2, Zenon
    <3> QED
      BY <3>2, <3>3
  <2>5. ASSUME NEW p \in Posts, worker'[p] = "running"
        PROVE  /\ Registered(p)' \/ closed_'
               /\ front' # "peer" => handling' = {p} /\ last_context_' = {SessionOf[p]}
    <3>1. CASE p \in item.request
      <4>1. item.request = {p} /\ item.session = SessionOf[p] /\ (Registered(p) \/ closed_)
        BY <1>4, <3>1, Zenon
      <4> QED
        BY <1>1, <1>5, <4>1, Zenon DEF StateType
    <3>2. CASE p \notin item.request
      BY <1>1, <1>5, <2>5, <3>2, Zenon DEF QueueInv, WorkInv
    <3> QED
      BY <3>1, <3>2, Zenon
  <2>6. reader' # "waiting"
    BY <1>1, Zenon
  <2> QED
    BY <2>1, <2>3, <2>4, <2>5, <2>6, Zenon DEF QueueInv, InboundInv, WorkInv
<1>8. CloseInv'
  BY <1>1, Zenon DEF CloseInv, H!PostsThrough, H!CloseLeavesNothing
<1> QED
  BY <1>3, <1>6, <1>7, <1>8, Zenon

\* The other steps of the loop move nothing but the loop.
LEMMA LoopKeeps ==
  ASSUME RoleInv, H!ReceiveBegins \/ H!ReceiveEnds \/ H!LoopEnds
  PROVE  RoleInv'
<1> USE DEF RoleInv, H!http, H!answering, H!reverse
<1>1. /\ reader' # "waiting" \/ handling' = {}
      /\ last_context_' = last_context_ \/ (handling' = {} /\ last_context_' = {})
      /\ UNCHANGED <<front, H!http, closed_, pending_client_requests_, inbound_, handling,
                     post, answer, H!answering, H!reverse, closer, released>>
  BY Zenon DEF H!ReceiveBegins, H!ReceiveEnds, H!LoopEnds, QueueInv, InboundInv, WorkInv
<1>2. StateType'
  BY <1>1, Zenon DEF StateType
<1>3. TableInv'
  BY <1>1, Zenon DEF TableInv, Open, Registered, H!AnswerIsOwn
<1>4. QueueInv'
  <2>1. InboundInv'
    BY <1>1, InboundStays, Zenon DEF QueueInv, Registered
  <2>2. WorkInv'
    BY <1>1, Zenon DEF QueueInv, WorkInv, Registered
  <2> QED
    BY <2>1, <2>2, Zenon DEF QueueInv
<1>5. CloseInv'
  BY <1>1, Zenon DEF CloseInv, H!PostsThrough, H!CloseLeavesNothing
<1> QED
  BY <1>2, <1>3, <1>4, <1>5, Zenon

-----------------------------------------------------------------------------
\* A worker takes the entry of its request out of the table.
LEMMA TakeKeeps ==
  ASSUME H!SessionsOrNone, RoleInv, NEW p \in Posts, H!AnswerTakes(p)
  PROVE  RoleInv'
<1> USE DEF RoleInv, H!http, H!queue, H!reverse
<1>1. /\ worker[p] = "running"
      /\ worker' = [worker EXCEPT ![p] = "took"]
      /\ UNCHANGED <<front, H!http, closed_, H!queue, post, answer, H!reverse, closer, released>>
  BY Zenon DEF H!AnswerTakes
<1>2. PICK k \in H!Found(p) :
        /\ target' = [target EXCEPT ![p] = pending_client_requests_[k]]
        /\ pending_client_requests_' =
             H!Restrict(pending_client_requests_, DOMAIN pending_client_requests_ \ {k})
  BY Zenon DEF H!AnswerTakes
<1>3. k = Key(p) /\ Registered(p)
  BY <1>1, FoundIsOwn, Zenon
<1>4. /\ target'[p] = p /\ \A q \in Posts : q # p => target'[q] = target[q]
      /\ target' \in [Posts -> Posts]
  BY <1>2, <1>3 DEF Registered, StateType
<1>5. /\ DOMAIN pending_client_requests_' = DOMAIN pending_client_requests_ \ {Key(p)}
      /\ \A j \in DOMAIN pending_client_requests_' :
           pending_client_requests_'[j] = pending_client_requests_[j]
  BY <1>2, <1>3, Zenon DEF H!Restrict
<1>6. \A q \in Posts : q # p => (Registered(q) <=> Registered(q)')
  BY <1>3, <1>5, Zenon DEF Registered, Key, H!pending_client_request_key
<1>7. \A q \in Posts : Open(q) <=> Open(q)'
  BY <1>1, Zenon DEF Open
<1>8. /\ worker'[p] = "took" /\ \A q \in Posts : q # p => worker'[q] = worker[q]
      /\ Open(p) /\ p \notin released
  BY <1>1, <1>3 DEF StateType, TableInv, Registered
<1>9. StateType'
  BY <1>1, <1>4, Zenon DEF StateType
<1>10. TableInv'
  <2>1. \A j \in DOMAIN pending_client_requests_' :
          pending_client_requests_'[j] \in Posts /\ Key(pending_client_requests_'[j]) = j
    BY <1>5, Zenon DEF TableInv
  <2>6. ASSUME NEW q \in Posts, Registered(q)'
        PROVE  Open(q)' /\ worker'[q] # "took" /\ q \notin released'
    <3>1. q # p
      BY <1>5, <2>6, Zenon DEF Registered, Key, H!pending_client_request_key
    <3> QED
      BY <1>1, <1>6, <1>7, <1>8, <2>6, <3>1, Zenon DEF TableInv
  <2>2. \A q \in released' : Open(q)' /\ worker'[q] # "took"
    BY <1>1, <1>7, <1>8 DEF TableInv, StateType
  <2>3. \A q \in Posts : worker'[q] = "took" => target'[q] = q /\ Open(q)'
    BY <1>4, <1>7, <1>8, Zenon DEF TableInv
  <2>4. \A q \in Posts : Open(q)' => Registered(q)' \/ worker'[q] = "took" \/ q \in released'
    BY <1>1, <1>6, <1>7, <1>8, Zenon DEF TableInv
  <2>5. (closed_' => DOMAIN pending_client_requests_' = {}) /\ H!AnswerIsOwn'
    BY <1>1, <1>5, Zenon DEF TableInv, H!AnswerIsOwn
  <2> QED
    BY <2>1, <2>2, <2>3, <2>4, <2>5, <2>6, Zenon
       DEF TableInv, Key, H!pending_client_request_key
<1>11. QueueInv'
  <2>1. InboundInv'
    BY <1>1, <1>6, <1>8, InboundStays, Zenon DEF QueueInv
  <2>2. WorkInv'
    BY <1>1, <1>6, <1>8, Zenon DEF QueueInv, WorkInv
  <2> QED
    BY <2>1, <2>2, Zenon DEF QueueInv
<1>12. CloseInv'
  BY <1>1, Zenon DEF CloseInv, H!PostsThrough, H!CloseLeavesNothing
<1> QED
  BY <1>9, <1>10, <1>11, <1>12, Zenon

\* A worker sets the response of the request it took.
LEMMA SetKeeps ==
  ASSUME RoleInv, NEW p \in Posts, H!AnswerSet(p)
  PROVE  RoleInv'
<1> USE DEF RoleInv, H!http, H!reverse
<1>1. /\ worker[p] = "took"
      /\ answer' = [answer EXCEPT ![target[p]] = {p}]
      /\ worker' = [worker EXCEPT ![p] = "done"]
      /\ handling' = handling \ {p}
      /\ UNCHANGED <<front, H!http, closed_, pending_client_requests_, inbound_,
                     last_context_, reader, post, target, H!reverse, closer, released>>
  BY Zenon DEF H!AnswerSet
<1>2. target[p] = p /\ Open(p)
  BY <1>1, Zenon DEF TableInv
<1>3. StateType'
  BY <1>1, <1>2, Zenon DEF StateType
<1>4. /\ answer'[p] = {p} /\ worker'[p] = "done"
      /\ \A q \in Posts : q # p => answer'[q] = answer[q] /\ worker'[q] = worker[q]
  BY <1>1, <1>2, Zenon DEF StateType
<1>5. /\ ~Open(p)' /\ \A q \in Posts : q # p => (Open(q)' <=> Open(q))
      /\ \A q \in Posts : Registered(q)' <=> Registered(q)
  BY <1>1, <1>4, Zenon DEF Open, Registered
<1>6. ~Registered(p) /\ p \notin released
  BY <1>1, Zenon DEF TableInv, Registered
<1>7. TableInv'
  <2>1. ASSUME NEW q \in Posts, Registered(q)'
        PROVE  Open(q)' /\ worker'[q] # "took" /\ q \notin released'
    <3>1. q # p /\ Registered(q)
      BY <1>5, <1>6, <2>1, Zenon
    <3>2. Open(q) /\ worker[q] # "took" /\ q \notin released
      BY <3>1, Zenon DEF TableInv
    <3> QED
      BY <1>1, <1>4, <1>5, <3>1, <3>2, Zenon
  <2>2. ASSUME NEW q \in released' PROVE Open(q)' /\ worker'[q] # "took"
    <3>1. q \in released /\ q \in Posts /\ q # p
      BY <1>1, <1>6, Zenon DEF StateType
    <3>2. Open(q) /\ worker[q] # "took"
      BY <3>1, Zenon DEF TableInv
    <3> QED
      BY <1>4, <1>5, <3>1, <3>2, Zenon
  <2>3. \A q \in Posts : worker'[q] = "took" => target'[q] = q /\ Open(q)'
    BY <1>1, <1>4, <1>5, Zenon DEF TableInv
  <2>4. \A q \in Posts : Open(q)' => Registered(q)' \/ worker'[q] = "took" \/ q \in released'
    BY <1>1, <1>4, <1>5, Zenon DEF TableInv
  <2>5. H!AnswerIsOwn'
    BY <1>4 DEF TableInv, H!AnswerIsOwn
  <2> QED
    BY <1>1, <2>1, <2>2, <2>3, <2>4, <2>5, Zenon DEF TableInv
<1>8. QueueInv'
  <2>1. post[p] # "new"
    BY <1>2, Zenon DEF Open
  <2>2. InboundInv'
    BY <1>1, <1>4, <1>5, <2>1, InboundStays, Zenon DEF QueueInv
  <2>3. WorkInv'
    BY <1>1, <1>4, <1>5, <2>1 DEF QueueInv, WorkInv
  <2> QED
    BY <2>2, <2>3, Zenon DEF QueueInv
<1>9. CloseInv'
  BY <1>1, Zenon DEF CloseInv, H!PostsThrough, H!CloseLeavesNothing
<1> QED
  BY <1>3, <1>7, <1>8, <1>9, Zenon

\* A worker that fails leaves the entry where it is.
LEMMA FailKeeps ==
  ASSUME RoleInv, NEW p \in Posts, H!AnswerFails(p)
  PROVE  RoleInv'
<1> USE DEF RoleInv, H!http, H!reverse
<1>1. /\ worker[p] = "running"
      /\ worker' = [worker EXCEPT ![p] = "failed"]
      /\ handling' = handling \ {p}
      /\ reader' = reader \/ reader' = "ended"
      /\ UNCHANGED <<front, H!http, closed_, pending_client_requests_, inbound_,
                     last_context_, post, answer, target, H!reverse, closer, released>>
  BY Zenon DEF H!AnswerFails
<1>2. StateType'
  BY <1>1, Zenon DEF StateType
<1>3. /\ worker'[p] = "failed" /\ \A q \in Posts : q # p => worker'[q] = worker[q]
      /\ \A q \in Posts : (Open(q)' <=> Open(q)) /\ (Registered(q)' <=> Registered(q))
  BY <1>1, Zenon DEF Open, Registered, StateType
<1>4. TableInv'
  <2>1. \A q \in Posts : worker'[q] = "took" <=> worker[q] = "took"
    BY <1>1, <1>3, Zenon
  <2>2. \A q \in Posts : Registered(q)' => Open(q)' /\ worker'[q] # "took" /\ q \notin released'
    BY <1>1, <1>3, <2>1, Zenon DEF TableInv
  <2>3. ASSUME NEW q \in released' PROVE Open(q)' /\ worker'[q] # "took"
    <3>1. q \in released /\ q \in Posts
      BY <1>1, Zenon DEF StateType
    <3>2. Open(q) /\ worker[q] # "took"
      BY <3>1, Zenon DEF TableInv
    <3> QED
      BY <1>3, <2>1, <3>1, <3>2, Zenon
  <2>4. \A q \in Posts : worker'[q] = "took" => target'[q] = q /\ Open(q)'
    BY <1>1, <1>3, <2>1, Zenon DEF TableInv
  <2>5. \A q \in Posts : Open(q)' => Registered(q)' \/ worker'[q] = "took" \/ q \in released'
    BY <1>1, <1>3, <2>1, Zenon DEF TableInv
  <2> QED
    BY <1>1, <2>2, <2>3, <2>4, <2>5, Zenon DEF TableInv, H!AnswerIsOwn
<1>5. QueueInv'
  <2>1. InboundInv'
    BY <1>1, <1>3, InboundStays, Zenon DEF QueueInv
  <2>2. WorkInv'
    BY <1>1, <1>3, Zenon DEF QueueInv, WorkInv
  <2> QED
    BY <2>1, <2>2, Zenon DEF QueueInv
<1>6. CloseInv'
  BY <1>1, Zenon DEF CloseInv, H!PostsThrough, H!CloseLeavesNothing
<1> QED
  BY <1>2, <1>4, <1>5, <1>6, Zenon

-----------------------------------------------------------------------------
\* Server-to-client requests touch nothing of the POST threads, and none is
\* started once the transport is closed.
LEMMA CallKeeps ==
  ASSUME RoleInv, NEW c \in Calls, H!CallStep(c)
  PROVE  RoleInv'
<1> USE DEF RoleInv, H!http, H!queue, H!answering
<1>1. /\ UNCHANGED <<front, H!http, closed_, pending_client_requests_, H!queue, post, answer,
                     H!answering, closer, released>>
      /\ \/ UNCHANGED call
         \/ call[c] = "new" /\ ~closed_ /\ call' = [call EXCEPT ![c] = "sent"]
         \/ call[c] = "sent" /\ call' = [call EXCEPT ![c] = "returned"]
         \/ call[c] = "returned" /\ call' = [call EXCEPT ![c] = "done"]
  BY Zenon DEF H!CallStep, H!start_request_thread, H!finish_request_worker,
         H!deliver_reverse_response, H!receive_response
<1>2. StateType'
  BY <1>1, Zenon DEF StateType
<1>3. TableInv'
  BY <1>1, TableStays, Zenon
<1>4. QueueInv'
  BY <1>1, QueueStays, Zenon
<1>5. CloseInv'
  BY <1>1, Zenon DEF CloseInv, H!PostsThrough, H!CloseLeavesNothing, Stages, StateType
<1> QED
  BY <1>2, <1>3, <1>4, <1>5, Zenon

\* The first close() takes over the table, a later one changes nothing.
LEMMA CloseKeeps ==
  ASSUME RoleInv, NEW c \in Closers, H!Close(c)
  PROVE  RoleInv'
<1> USE DEF RoleInv, H!http, H!queue, H!answering, H!reverse
<1>1. closer[c] = "out" /\ UNCHANGED <<front, H!http, H!queue, post, answer, H!answering, H!reverse>>
  BY Zenon DEF H!Close
<1>2. CASE closed_
  <2>1. /\ closer' = [closer EXCEPT ![c] = "early"]
        /\ UNCHANGED <<closed_, pending_client_requests_, released>>
    BY <1>2, Zenon DEF H!Close
  <2>2. StateType'
    BY <1>1, <2>1, Zenon DEF StateType
  <2>3. TableInv'
    BY <1>1, <2>1, TableStays, Zenon
  <2>5. QueueInv'
    BY <1>1, <2>1, QueueStays, Zenon
  <2>4. CloseInv'
    <3>1. closer'[c] = "early" /\ \A d \in Closers : d # c => closer'[d] = closer[d]
      BY <2>1, Zenon DEF StateType
    <3>2. H!CloseLeavesNothing' /\ (H!PostsThrough' <=> H!PostsThrough)
      BY <1>1, <3>1, Zenon DEF CloseInv, H!PostsThrough, H!CloseLeavesNothing
    <3>3. released' # {} => \E d \in Closers : closer'[d] = "releasing"
      BY <1>1, <2>1, <3>1, Zenon DEF CloseInv
    <3> QED
      BY <1>1, <2>1, <3>1, <3>2, <3>3, Zenon DEF CloseInv, Stages
  <2> QED
    BY <2>2, <2>3, <2>4, <2>5, Zenon
<1>3. CASE ~closed_
  <2>1. /\ closed_' = TRUE
        /\ released' = H!Range(pending_client_requests_)
        /\ pending_client_requests_' = H!Restrict(pending_client_requests_, {})
        /\ closer' = [closer EXCEPT ![c] = "releasing"]
    BY <1>3, Zenon DEF H!Close
  <2>2. \A p : p \in released' <=> p \in Posts /\ Registered(p)
    <3>1. ASSUME NEW p \in released' PROVE p \in Posts /\ Registered(p)
      <4>1. PICK k \in DOMAIN pending_client_requests_ : p = pending_client_requests_[k]
        BY <2>1, Zenon DEF H!Range
      <4> QED
        BY <4>1, Zenon DEF TableInv, Registered
    <3>2. ASSUME NEW p \in Posts, Registered(p) PROVE p \in released'
      BY <2>1, <3>2, Zenon DEF H!Range, Registered
    <3> QED
      BY <3>1, <3>2, Zenon
  <2>3. DOMAIN pending_client_requests_' = {} /\ released = {}
    BY <1>3, <2>1, Zenon DEF H!Restrict, CloseInv, Stages
  <2>4. StateType'
    BY <1>1, <2>1, <2>2, Zenon DEF StateType, Stages
  <2>5. \A p \in Posts : (Open(p)' <=> Open(p)) /\ worker'[p] = worker[p]
    BY <1>1, Zenon DEF Open
  <2>6. TableInv'
    BY <1>1, <2>2, <2>3, <2>5, Zenon DEF TableInv, H!AnswerIsOwn, Registered
  <2>7. QueueInv'
    <3>1. InboundInv'
      BY <1>1, <2>1, InboundStays, Zenon DEF QueueInv
    <3>2. WorkInv'
      BY <1>1, <2>1, Zenon DEF QueueInv, WorkInv
    <3> QED
      BY <3>1, <3>2, Zenon DEF QueueInv
  <2>8. CloseInv'
    <3>1. closer'[c] = "releasing" /\ \A d \in Closers : d # c => closer'[d] = closer[d]
      BY <2>1, Zenon DEF StateType
    <3>2. \A d \in Closers : closer[d] \notin Stages
      BY <1>3, Zenon DEF CloseInv
    <3>3. H!CloseLeavesNothing' /\ (H!PostsThrough' <=> H!PostsThrough)
      BY <1>1, <3>1, <3>2, Zenon DEF CloseInv, H!PostsThrough, H!CloseLeavesNothing, Stages
    <3> QED
      BY <1>1, <2>1, <3>1, <3>2, <3>3, Zenon DEF CloseInv
  <2> QED
    BY <2>4, <2>6, <2>7, <2>8, Zenon
<1> QED
  BY <1>2, <1>3, Zenon

\* close() answers a request that nobody else can answer any more.
LEMMA ReleaseKeeps ==
  ASSUME RoleInv, NEW c \in Closers, NEW p \in Posts, H!CloseReleases(c, p)
  PROVE  RoleInv'
<1> USE DEF RoleInv, H!http, H!queue, H!answering, H!reverse
<1>1. /\ closer[c] = "releasing" /\ p \in released
      /\ answer' = [answer EXCEPT ![p] = {"close"}]
      /\ released' = released \ {p}
      /\ UNCHANGED <<front, H!http, closed_, pending_client_requests_, H!queue, post,
                     H!answering, H!reverse, closer>>
  BY Zenon DEF H!CloseReleases
<1>2. StateType'
  BY <1>1, Zenon DEF StateType
<1>3. /\ answer'[p] = {"close"} /\ ~Open(p)'
      /\ \A q \in Posts : q # p => answer'[q] = answer[q] /\ (Open(q)' <=> Open(q))
      /\ \A q \in Posts : Registered(q)' <=> Registered(q)
  BY <1>1, Zenon DEF Open, Registered, StateType
<1>4. Open(p) /\ worker[p] # "took" /\ ~Registered(p)
  BY <1>1, Zenon DEF TableInv
<1>5. TableInv'
  <2>1. \A q \in Posts : Registered(q)' => Open(q)' /\ worker'[q] # "took" /\ q \notin released'
    BY <1>1, <1>3, <1>4, Zenon DEF TableInv
  <2>2. \A q \in released' : Open(q)' /\ worker'[q] # "took"
    BY <1>1, <1>3, Zenon DEF TableInv, StateType
  <2>3. \A q \in Posts : worker'[q] = "took" => target'[q] = q /\ Open(q)'
    BY <1>1, <1>3, <1>4, Zenon DEF TableInv
  <2>4. \A q \in Posts : Open(q)' => Registered(q)' \/ worker'[q] = "took" \/ q \in released'
    BY <1>1, <1>3, Zenon DEF TableInv
  <2>5. H!AnswerIsOwn'
    BY <1>1, <1>3, Zenon DEF TableInv, H!AnswerIsOwn
  <2> QED
    BY <1>1, <2>1, <2>2, <2>3, <2>4, <2>5, Zenon DEF TableInv
<1>6. QueueInv'
  <2>1. post[p] # "new"
    BY <1>4, Zenon DEF Open
  <2>2. InboundInv'
    BY <1>1, <1>3, <2>1, InboundStays, Zenon DEF QueueInv
  <2>3. WorkInv'
    BY <1>1, <1>3, <2>1, Zenon DEF QueueInv, WorkInv
  <2> QED
    BY <2>2, <2>3, Zenon DEF QueueInv
<1>7. CloseInv'
  BY <1>1, Zenon DEF CloseInv, H!PostsThrough, H!CloseLeavesNothing
<1> QED
  BY <1>2, <1>5, <1>6, <1>7, Zenon

\* close() goes on to stop and to join.
LEMMA JoinKeeps ==
  ASSUME RoleInv, NEW c \in Closers, H!CloseStops(c) \/ H!CloseReturns(c)
  PROVE  RoleInv'
<1> USE DEF RoleInv, H!http, H!queue, H!answering, H!reverse
<1>1. /\ UNCHANGED <<front, server_thread_, startup_error_, closed_, pending_client_requests_,
                     H!queue, post, answer, H!answering, H!reverse, released>>
      /\ \/ /\ closer[c] = "releasing" /\ released = {}
            /\ closer' = [closer EXCEPT ![c] = "joining"]
         \/ /\ closer[c] = "joining"
            /\ \A d \in Calls : call[d] \in {"new", "done"}
            /\ server_thread_ \in {"none", "ended"}
            /\ closer' = [closer EXCEPT ![c] = "closed"]
  BY Zenon DEF H!CloseStops, H!CloseReturns
<1>2. StateType'
  BY <1>1, Zenon DEF StateType, Stages
<1>3. TableInv'
  BY <1>1, TableStays, Zenon
<1>5. QueueInv'
  BY <1>1, QueueStays, Zenon
<1>4. CloseInv'
  <2>1. /\ closer[c] \in Stages /\ closer'[c] \in Stages
        /\ \A d \in Closers \ {c} : closer'[d] = closer[d]
    BY <1>1, Zenon DEF Stages, StateType
  <2>2. \A d, e \in Closers : closer'[d] \in Stages /\ closer'[e] \in Stages => d = e
    BY <2>1, Zenon DEF CloseInv
  <2>3. closed_'
    BY <1>1, <2>1, Zenon DEF CloseInv
  <2>4. released' # {} => \E d \in Closers : closer'[d] = "releasing"
    <3>1. ASSUME released # {} PROVE \E d \in Closers : d # c /\ closer[d] = "releasing"
      BY <1>1, <2>1, <3>1, Zenon DEF CloseInv, Stages
    <3> QED
      BY <1>1, <2>1, <3>1, Zenon
  <2>5. H!PostsThrough' <=> H!PostsThrough
    BY <1>1, Zenon DEF H!PostsThrough
  <2>6. H!CloseLeavesNothing'
    <3>1. ASSUME NEW d \in Closers, closer'[d] = "closed" PROVE d = c
      BY <2>1, <2>2, <3>1, Zenon DEF Stages
    <3>2. ASSUME closer'[c] = "closed"
          PROVE  /\ server_thread_ \in {"none", "ended"}
                 /\ \A d \in Calls : call[d] \in {"new", "done"}
      BY <1>1, <3>2, Zenon DEF StateType
    <3>3. ASSUME server_thread_ \in {"none", "ended"} PROVE H!PostsThrough
      BY <3>3, Zenon DEF CloseInv, H!PostsThrough
    <3> QED
      BY <1>1, <2>5, <3>1, <3>2, <3>3, Zenon DEF H!CloseLeavesNothing
  <2> QED
    BY <1>1, <2>2, <2>3, <2>4, <2>5, <2>6, Zenon DEF CloseInv
<1> QED
  BY <1>2, <1>3, <1>4, <1>5, Zenon

\* Every step keeps the invariant.
LEMMA RoleStep ==
  ASSUME H!SessionsOrNone PROVE RoleInv /\ [H!Next]_(H!vars) => RoleInv'
<1> SUFFICES ASSUME RoleInv, [H!Next]_(H!vars) PROVE RoleInv'
  BY Zenon
<1>1. CASE UNCHANGED H!vars
  <2> USE <1>1 DEF H!vars, H!http, H!queue, H!answering, H!reverse, RoleInv
  <2>1. StateType'
    BY Zenon DEF StateType
  <2>2. TableInv'
    BY TableStays, Zenon
  <2>3. QueueInv'
    BY QueueStays, Zenon
  <2>4. CloseInv'
    BY Zenon DEF CloseInv, H!PostsThrough, H!CloseLeavesNothing
  <2> QED
    BY <2>1, <2>2, <2>3, <2>4, Zenon
<1>2. CASE H!Next
  BY <1>2, ListenKeeps, RegisterKeeps, ReturnKeeps, NotificationKeeps, ReceiveKeeps,
     LoopKeeps,
     TakeKeeps, SetKeeps, FailKeeps, CallKeeps, CloseKeeps, ReleaseKeeps, JoinKeeps, Zenon
     DEF H!Next, H!PostStep, H!AnswerStep, H!LoopStep, H!CloseStep
<1> QED
  BY <1>1, <1>2, Zenon

-----------------------------------------------------------------------------
(* A POST thread returns the response to its own request or the error of   *)
(* close(), whichever front answers and however keys are used again.       *)
THEOREM PostsGetTheirAnswer ==
  ASSUME H!SessionsOrNone PROVE H!Spec => []H!AnswerIsOwn
<1>1. RoleInv => H!AnswerIsOwn
  BY Zenon DEF RoleInv, TableInv
<1> QED
  BY <1>1, RoleInit, RoleStep, PTL DEF H!Spec

(* handle_client_request never waits for a response nobody can set.        *)
THEOREM PostsAreReachable ==
  ASSUME H!SessionsOrNone PROVE H!Spec => []H!WaitingIsReachable
<1>1. ASSUME RoleInv, NEW p \in Posts, Open(p)
      PROVE  \/ Registered(p)
             \/ worker[p] = "took" /\ target[p] = p
             \/ p \in released /\ \E c \in Closers : closer[c] = "releasing"
  BY <1>1, Zenon DEF RoleInv, TableInv, CloseInv
<1>2. RoleInv => H!WaitingIsReachable
  BY <1>1, Zenon DEF H!WaitingIsReachable, Open, Registered, Key
<1> QED
  BY <1>2, RoleInit, RoleStep, PTL DEF H!Spec

(* A response that was set is the one the POST thread returns.             *)
THEOREM AnswersStay ==
  ASSUME H!SessionsOrNone PROVE H!Spec => H!AnswerStays
<1>1. ASSUME RoleInv, [H!Next]_(H!vars), NEW p \in Posts, answer[p] # {}
      PROVE  answer'[p] = answer[p]
  <2>1. ASSUME NEW q \in Posts, H!AnswerSet(q) PROVE answer'[p] = answer[p]
    <3>1. worker[q] = "took" /\ answer' = [answer EXCEPT ![target[q]] = {q}]
      BY <2>1, Zenon DEF H!AnswerSet
    <3>2. target[q] = q /\ answer[q] = {}
      BY <1>1, <3>1, Zenon DEF RoleInv, TableInv, Open
    <3> QED
      BY <1>1, <3>1, <3>2
  <2>2. ASSUME NEW c \in Closers, NEW q \in Posts, H!CloseReleases(c, q) PROVE answer'[p] = answer[p]
    <3>1. q \in released /\ answer' = [answer EXCEPT ![q] = {"close"}]
      BY <2>2, Zenon DEF H!CloseReleases
    <3>2. answer[q] = {}
      BY <1>1, <3>1, Zenon DEF RoleInv, TableInv, Open
    <3> QED
      BY <1>1, <3>1, <3>2
  <2>3. \/ \E q \in Posts : H!AnswerSet(q)
        \/ \E c \in Closers, q \in Posts : H!CloseReleases(c, q)
        \/ UNCHANGED answer
    BY <1>1, Zenon DEF H!Next, H!vars, H!PostStep, H!AnswerStep, H!LoopStep, H!CallStep,
         H!CloseStep, H!ensure_started, H!ListenFails, H!FailureNoted, H!ListenEnds,
         H!handle_client_request, H!PostReturns, H!handle_client_notification, H!ReceiveBegins,
         H!receive, H!ReceiveEnds, H!LoopEnds, H!AnswerTakes, H!AnswerFails,
         H!start_request_thread, H!finish_request_worker, H!deliver_reverse_response,
         H!receive_response, H!Close, H!CloseStops, H!CloseReturns
  <2> QED
    BY <2>1, <2>2, <2>3, Zenon
<1>2. RoleInv /\ [H!Next]_(H!vars) => [\A p \in Posts : answer[p] # {} => answer'[p] = answer[p]]_(H!vars)
  BY <1>1, Zenon
<1> QED
  BY <1>2, RoleInit, RoleStep, PTL DEF H!Spec, H!AnswerStays

(* The close() that shut the transport leaves no thread of it behind.      *)
THEOREM ClosedIsEmpty ==
  ASSUME H!SessionsOrNone PROVE H!Spec => []H!CloseLeavesNothing
<1>1. RoleInv => H!CloseLeavesNothing
  BY Zenon DEF RoleInv, CloseInv
<1> QED
  BY <1>1, RoleInit, RoleStep, PTL DEF H!Spec
=============================================================================
