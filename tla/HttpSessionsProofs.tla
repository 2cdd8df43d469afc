------------------------- MODULE HttpSessionsProofs -------------------------
(***************************************************************************)
(* Theorems about HttpSessions, for any session limit, any number of POSTs *)
(* and callers and any set of request ids.                                 *)
(***************************************************************************)
EXTENDS HttpSessions, TLAPS

\* The default session is in the table whenever the table is not empty: only
\* initialize, DELETE and stop() touch either, and each sets both.
THEOREM DefaultIsLive == Spec => []DefaultSessionLive
<1>1. Init => DefaultSessionLive
  BY DEF Init, DefaultSessionLive
<1>2. DefaultSessionLive /\ [Next]_vars => DefaultSessionLive'
  <2> SUFFICES ASSUME DefaultSessionLive, [Next]_vars PROVE DefaultSessionLive'
    BY Zenon
  <2>1. CASE UNCHANGED <<DOMAIN sessions_, default_session_id_>>
    BY <2>1, Zenon DEF DefaultSessionLive
  <2>2. ASSUME NEW p \in Posts, InitializeReturns(p) PROVE DefaultSessionLive'
    BY <2>2, Zenon DEF InitializeReturns, DefaultSessionLive
  <2>3. ASSUME NEW s \in SessionIds, DeleteSession(s) PROVE DefaultSessionLive'
    BY <2>3, Zenon DEF DeleteSession, DefaultAfterDelete, DefaultSessionLive, Restrict
  <2>4. CASE stop
    BY <2>4 DEF stop, DefaultSessionLive
  <2>5. ASSUME NEW p \in Posts, NEW s, NEW k, Response(p, s, k)
        PROVE  UNCHANGED <<DOMAIN sessions_, default_session_id_>>
    BY <2>5, Zenon DEF Response, Taken
  <2>6. ASSUME NEW p \in Posts, InitializedReturns(p)
        PROVE  UNCHANGED <<DOMAIN sessions_, default_session_id_>>
    BY <2>6, Zenon DEF InitializedReturns, Opened
  <2>7. ASSUME NEW c \in Callers, NEW s, NEW k, Call(c, s, k)
        PROVE  UNCHANGED <<DOMAIN sessions_, default_session_id_>>
    BY <2>7, Zenon DEF Call
  <2>8. ASSUME NEW c \in Callers, EraseExpired(c)
        PROVE  UNCHANGED <<DOMAIN sessions_, default_session_id_>>
    BY <2>8, Zenon DEF EraseExpired
  <2> QED
    BY <2>1, <2>2, <2>3, <2>4, <2>5, <2>6, <2>7, <2>8, Zenon
    DEF Next, vars, CallStep, Initialize, InitializeProgressReturns, Initialized,
        Request, RequestReturns, Deliver, CallRefused, Wakes, Expires
<1> QED
  BY <1>1, <1>2, PTL DEF Spec

-----------------------------------------------------------------------------
(* Pending requests.  The table is seen as a relation between a session, a *)
(* request id and the caller that waits for the answer.                    *)

In(s, k, c) ==
  /\ s \in DOMAIN sessions_
  /\ k \in DOMAIN sessions_[s].pending_requests
  /\ sessions_[s].pending_requests[k] = c

OpenCall == [at : {"waiting", "expired"}, session : Nat, key : Keys,
             response : BOOLEAN, error : BOOLEAN]

TableType ==
  /\ next_session_id_ \in Nat \ {0}
  /\ timeouts \in BOOLEAN
  /\ DOMAIN sessions_ \subseteq Issued
  /\ \A s \in DOMAIN sessions_ : sessions_[s] \in SessionState
  /\ sessions_ = [s \in DOMAIN sessions_ |-> sessions_[s]]
  /\ caller \in [Callers -> {IdleCall} \cup OpenCall
                    \cup [at : {"returned"}, outcome : {"refused", "response", "error", "timeout"}]]
  /\ DOMAIN post = Posts

(* A caller in the table waits for just this answer and has none yet.      *)
EntryInv ==
  \A s, k, c : In(s, k, c) =>
    /\ c \in Callers /\ caller[c].at \in {"waiting", "expired"}
    /\ caller[c].session = s /\ caller[c].key = k
    /\ caller[c].response = FALSE /\ caller[c].error = FALSE

(* A caller whose request a POST thread has taken out is out of everyone   *)
(* else's reach; only its own timeout can end its wait.                    *)
DeliverInv ==
  /\ \A p \in Posts : post[p].at = "deliver" =>
       /\ post[p].to \in Callers
       /\ \A s, k : ~In(s, k, post[p].to)
       /\ \/ /\ caller[post[p].to].at \in {"waiting", "expired"}
             /\ caller[post[p].to].response = FALSE /\ caller[post[p].to].error = FALSE
          \/ /\ caller[post[p].to].at = "returned" /\ timeouts = TRUE
             /\ caller[post[p].to].outcome = "timeout"
  /\ \A p, q \in Posts :
       post[p].at = "deliver" /\ post[q].at = "deliver" /\ post[p].to = post[q].to => p = q

DeliveredInv ==
  \A p \in Posts : post[p].at = "delivered" =>
    /\ post[p].to \in Callers
    /\ \/ /\ caller[post[p].to].at \in {"waiting", "expired"}
          /\ caller[post[p].to].response = TRUE /\ caller[post[p].to].error = FALSE
       \/ caller[post[p].to].at = "returned" /\ caller[post[p].to].outcome = "response"
       \/ /\ caller[post[p].to].at = "returned" /\ timeouts = TRUE
          /\ caller[post[p].to].outcome = "timeout"

WaiterInv ==
  /\ \A c \in Callers : caller[c].at = "expired" => timeouts = TRUE
  /\ \A c \in Callers :
       timeouts = FALSE /\ caller[c].at = "waiting"
         /\ caller[c].response = FALSE /\ caller[c].error = FALSE =>
       \/ In(caller[c].session, caller[c].key, c)
       \/ \E p \in Posts : post[p].at = "deliver" /\ post[p].to = c

(* A session id drawn by initialize is nobody else's.                      *)
Drawn(p) == post[p].at = "handler" /\ post[p].kind = "initialize"

DrawnInv ==
  /\ \A p \in Posts : Drawn(p) =>
       post[p].session \in Issued /\ post[p].session \notin DOMAIN sessions_
  /\ \A p, q \in Posts : Drawn(p) /\ Drawn(q) /\ post[p].session = post[q].session => p = q

PendingInv ==
  TableType /\ EntryInv /\ DeliverInv /\ DeliveredInv /\ WaiterInv /\ DrawnInv

\* Initially there is no session and no call.
LEMMA PendingInit == Init => PendingInv
<1> SUFFICES ASSUME Init PROVE PendingInv
  BY Zenon
<1>1. TableType
  BY DEF Init, TableType
<1>2. EntryInv /\ DeliverInv /\ DeliveredInv /\ WaiterInv /\ DrawnInv
  BY DEF Init, EntryInv, In, DeliverInv, DeliveredInv, WaiterInv, DrawnInv, Drawn,
         NewPost, IdleCall
<1> QED
  BY <1>1, <1>2, Zenon DEF PendingInv

\* The callers of a set of sessions, as the relation tells them.
LEMMA PendingRelation ==
  ASSUME PendingInv, NEW ids \in SUBSET DOMAIN sessions_, NEW c
  PROVE  c \in PendingIn(ids) <=> \E s \in ids : \E k : In(s, k, c)
  BY DEF PendingIn, In, Range

Same == \A s, k, c : In(s, k, c)' <=> In(s, k, c)

\* A POST that neither takes nor delivers a response leaves the waits alone.
LEMMA PostKeeps ==
  ASSUME PendingInv, Same, UNCHANGED <<caller, timeouts>>,
         NEW p \in Posts, post[p].at \notin {"deliver", "delivered"},
         post'[p].at \notin {"deliver", "delivered"},
         \A q \in Posts \ {p} : post'[q] = post[q]
  PROVE  EntryInv' /\ DeliverInv' /\ DeliveredInv' /\ WaiterInv'
<1>2. \A q \in Posts : post'[q].at \in {"deliver", "delivered"} => post'[q] = post[q]
  BY Zenon
<1>3. \A q \in Posts : post[q].at \in {"deliver", "delivered"} => post'[q] = post[q]
  BY Zenon
<1>4. EntryInv'
  BY DEF PendingInv, EntryInv, Same
<1>5. DeliverInv'
  BY <1>2 DEF PendingInv, DeliverInv, Same
<1>6. DeliveredInv'
  BY <1>2 DEF PendingInv, DeliveredInv
<1>7. WaiterInv'
  BY <1>3 DEF PendingInv, WaiterInv, Same
<1> QED
  BY <1>4, <1>5, <1>6, <1>7, Zenon

\* The POSTs that end in the table or in a handler.
LEMMA PostStep ==
  ASSUME PendingInv, NEW p \in Posts,
         \/ Initialize(p, "initialize") \/ Initialize(p, "initializeProgress")
         \/ InitializeReturns(p) \/ InitializeProgressReturns(p)
         \/ InitializedReturns(p) \/ RequestReturns(p)
         \/ \E s \in Issued : \/ Initialized(p, s) \/ Request(p, "ping", s)
                              \/ Request(p, "business", s)
  PROVE  PendingInv'
<1>1. UNCHANGED <<caller, timeouts>>
  BY Zenon DEF Initialize, InitializeReturns, InitializeProgressReturns, InitializedReturns,
         RequestReturns, Initialized, Request
<1>2. post[p].at \in {"new", "handler"}
  <2>1. Arrives(p) \/ \E kinds : Handles(p, kinds)
    BY Zenon DEF Initialize, InitializeReturns, InitializeProgressReturns,
       InitializedReturns,
           RequestReturns, Initialized, Request
  <2> QED
    BY <2>1 DEF Arrives, NewPost, Handles
<1>3. /\ post'[p].at \in {"handler", "done"} /\ DOMAIN post' = Posts
      /\ \A q \in Posts \ {p} : post'[q] = post[q]
  <2> DEFINE Goal == /\ post'[p].at \in {"handler", "done"} /\ DOMAIN post' = Posts
                     /\ \A q \in Posts \ {p} : post'[q] = post[q]
  <2>1. ASSUME NEW kind, NEW s, Runs(p, kind, s) PROVE Goal
    BY <2>1, Zenon DEF Runs, PendingInv, TableType
  <2>2. ASSUME NEW kind, NEW s, NEW status, Answered(p, kind, s, status) PROVE Goal
    BY <2>2, Zenon DEF Answered, PendingInv, TableType
  <2>3. ASSUME NEW status, Answers(p, status) PROVE Goal
    BY <2>2, <2>3, Zenon DEF Answers
  <2> HIDE DEF Goal
  <2>4. ASSUME NEW kind, Initialize(p, kind) PROVE Goal
    BY <2>1, <2>2, <2>4, Zenon DEF Initialize
  <2>5. ASSUME InitializeReturns(p) \/ InitializeProgressReturns(p) PROVE Goal
    BY <2>3, <2>5, Zenon DEF InitializeReturns, InitializeProgressReturns
  <2>6. ASSUME InitializedReturns(p) \/ RequestReturns(p) PROVE Goal
    BY <2>3, <2>6, Zenon DEF InitializedReturns, RequestReturns
  <2>7. ASSUME NEW s, Initialized(p, s) PROVE Goal
    BY <2>1, <2>2, <2>7, Zenon DEF Initialized
  <2>8. ASSUME NEW s, NEW kind, Request(p, kind, s) PROVE Goal
    BY <2>1, <2>2, <2>8, Zenon DEF Request
  <2>9. Goal
    BY <2>4, <2>5, <2>6, <2>7, <2>8, Zenon
  <2> QED
    BY <2>9, Zenon DEF Goal
<1>5. ASSUME Same, TableType', DrawnInv' PROVE PendingInv'
  BY <1>1, <1>2, <1>3, <1>5, PostKeeps, Zenon DEF PendingInv
<1>6. ASSUME UNCHANGED sessions_ PROVE Same
  BY <1>6, Zenon DEF Same, In
<1>7. ASSUME UNCHANGED <<sessions_, next_session_id_>>, ~Drawn(p)' PROVE PendingInv'
  <2>1. TableType'
    BY <1>1, <1>3, <1>7, Zenon DEF PendingInv, TableType, Issued
  <2>2. DrawnInv'
    BY <1>3, <1>7 DEF PendingInv, DrawnInv, Drawn, Issued
  <2> QED
    BY <1>5, <1>6, <1>7, <2>1, <2>2, Zenon
<1>8. ASSUME NEW kind \in {"initialize", "initializeProgress"}, Initialize(p, kind)
      PROVE  PendingInv'
  <2>1. CASE UNCHANGED next_session_id_ /\ Answered(p, kind, None, "limit")
    BY <1>3, <1>7, <1>8, <2>1, Zenon DEF Initialize, Answered, Drawn, PendingInv, TableType
  <2>2. CASE Runs(p, kind, next_session_id_) /\ next_session_id_' = NextId
    <3>1. UNCHANGED sessions_
      BY <1>8, Zenon DEF Initialize
    <3>2. /\ next_session_id_ \in Nat \ {0} /\ next_session_id_' = next_session_id_ + 1
          /\ next_session_id_ \in Issued' /\ Issued \subseteq Issued'
          /\ next_session_id_ \notin Issued
      BY <2>2 DEF PendingInv, TableType, NextId, Issued
    <3>3. post'[p].session = next_session_id_
      BY <2>2, Zenon DEF Runs, PendingInv, TableType
    <3>4. TableType'
      BY <1>1, <1>3, <3>1, <3>2 DEF PendingInv, TableType
    <3>5. DrawnInv'
      BY <1>3, <3>1, <3>2, <3>3 DEF PendingInv, DrawnInv, Drawn, TableType
    <3> QED
      BY <1>5, <1>6, <3>1, <3>4, <3>5, Zenon
  <2> QED
    BY <1>8, <2>1, <2>2, Zenon DEF Initialize
<1>9. CASE InitializeReturns(p)
  <2>1. ~Drawn(p)' /\ Drawn(p) /\ UNCHANGED next_session_id_
    BY <1>9 DEF InitializeReturns, Handles, Answers, Answered, Drawn, PendingInv, TableType
  <2>2. CASE UNCHANGED sessions_
    BY <1>7, <2>1, <2>2, Zenon
  <2>3. CASE sessions_' = [s \in DOMAIN sessions_ \cup {post[p].session} |->
                             IF s = post[p].session THEN NewSession ELSE sessions_[s]]
    <3>1. PICK n \in Issued : n = post[p].session /\ n \notin DOMAIN sessions_
      BY <2>1, Zenon DEF PendingInv, DrawnInv
    <3>2. /\ DOMAIN sessions_' = DOMAIN sessions_ \cup {n} /\ sessions_'[n] = NewSession
          /\ \A s \in DOMAIN sessions_ : sessions_'[s] = sessions_[s]
          /\ sessions_' = [s \in DOMAIN sessions_' |-> sessions_'[s]]
      BY <2>3, <3>1, Zenon
    <3>3. NewSession \in SessionState /\ DOMAIN NewSession.pending_requests = {}
      <4>1. DOMAIN <<>> = {}
        OBVIOUS
      <4>2. <<>> \in [{} -> Callers]
        BY <4>1
      <4> QED
        BY <4>1, <4>2, Zenon DEF NewSession, SessionState
    <3>4. Same
      BY <3>1, <3>2, <3>3, Zenon DEF Same, In
    <3>5. TableType'
      BY <1>1, <1>3, <2>1, <3>1, <3>2, <3>3, Zenon DEF PendingInv, TableType, Issued
    <3>6. DrawnInv'
      BY <1>3, <2>1, <3>1, <3>2 DEF PendingInv, DrawnInv, Drawn, Issued
    <3> QED
      BY <1>5, <3>4, <3>5, <3>6, Zenon
  <2> QED
    BY <1>9, <2>2, <2>3, Zenon DEF InitializeReturns
<1>10. CASE InitializedReturns(p)
  <2>1. ~Drawn(p)' /\ UNCHANGED next_session_id_
    BY <1>10 DEF InitializedReturns, Answers, Answered, Drawn, PendingInv, TableType
  <2>2. CASE UNCHANGED sessions_
    BY <1>7, <2>1, <2>2, Zenon
  <2>3. ASSUME NEW n \in DOMAIN sessions_, sessions_' = [sessions_ EXCEPT ![n].initialized = TRUE]
        PROVE  PendingInv'
    <3>1. /\ DOMAIN sessions_' = DOMAIN sessions_
          /\ sessions_' = [s \in DOMAIN sessions_' |-> sessions_'[s]]
          /\ \A s \in DOMAIN sessions_ : s # n => sessions_'[s] = sessions_[s]
          /\ sessions_'[n] = [sessions_[n] EXCEPT !.initialized = TRUE]
      BY <2>3, Zenon
    <3>2. sessions_[n] \in SessionState
      BY Zenon DEF PendingInv, TableType
    <3>3. /\ sessions_'[n] \in SessionState
          /\ sessions_'[n].pending_requests = sessions_[n].pending_requests
      BY <3>1, <3>2, Zenon DEF SessionState
    <3>4. Same
      BY <3>1, <3>3, Zenon DEF Same, In
    <3>5. TableType'
      BY <1>1, <1>3, <2>1, <3>1, <3>3, Zenon DEF PendingInv, TableType, Issued
    <3>6. DrawnInv'
      BY <1>3, <2>1, <3>1 DEF PendingInv, DrawnInv, Drawn, Issued
    <3> QED
      BY <1>5, <3>4, <3>5, <3>6, Zenon
  <2> QED
    BY <1>10, <2>2, <2>3, Zenon DEF InitializedReturns, Opened, Live
<1>11. CASE InitializeProgressReturns(p) \/ RequestReturns(p)
  <2>1. ~Drawn(p)'
    BY <1>11 DEF InitializeProgressReturns, RequestReturns, Answers, Answered, Drawn,
                 PendingInv, TableType
  <2> QED
    BY <1>7, <1>11, <2>1, Zenon DEF InitializeProgressReturns, RequestReturns
<1>12. ASSUME NEW s \in Issued,
              Initialized(p, s) \/ Request(p, "ping", s) \/ Request(p, "business", s)
       PROVE  PendingInv'
  <2>1. ~Drawn(p)'
    BY <1>12 DEF Initialized, Request, Runs, Answered, Drawn, PendingInv, TableType
  <2> QED
    BY <1>7, <1>12, <2>1, Zenon DEF Initialized, Request
<1> QED
  BY <1>8, <1>9, <1>10, <1>11, <1>12, Zenon

\* Replacing the pending requests of one session changes nothing else.
LEMMA PendingReplaced ==
  ASSUME PendingInv, NEW n \in DOMAIN sessions_,
         NEW K \in SUBSET Keys, NEW g \in [K -> Callers],
         sessions_' = [sessions_ EXCEPT ![n].pending_requests = g]
  PROVE  /\ DOMAIN sessions_' = DOMAIN sessions_
         /\ sessions_' = [s \in DOMAIN sessions_' |-> sessions_'[s]]
         /\ \A s \in DOMAIN sessions_' : sessions_'[s] \in SessionState
         /\ \A s, k, c : In(s, k, c)' <=>
              IF s = n THEN k \in K /\ g[k] = c ELSE In(s, k, c)
<1>1. sessions_[n] \in SessionState
  BY Zenon DEF PendingInv, TableType
<1>2. /\ DOMAIN sessions_' = DOMAIN sessions_
      /\ sessions_' = [s \in DOMAIN sessions_' |-> sessions_'[s]]
      /\ \A s \in DOMAIN sessions_ : s # n => sessions_'[s] = sessions_[s]
      /\ sessions_'[n] = [sessions_[n] EXCEPT !.pending_requests = g]
  BY Zenon
<1>3. sessions_'[n] \in SessionState /\ sessions_'[n].pending_requests = g
  BY <1>1, <1>2 DEF SessionState
<1>4. \A s \in DOMAIN sessions_' : sessions_'[s] \in SessionState
  BY <1>2, <1>3, Zenon DEF PendingInv, TableType
<1>5. \A s, k, c : In(s, k, c)' <=> IF s = n THEN k \in K /\ g[k] = c ELSE In(s, k, c)
  BY <1>2, <1>3, Zenon DEF In
<1> QED
  BY <1>2, <1>4, <1>5, Zenon

\* Taking one request out of the table, as a response and a timeout do.
LEMMA PendingRemoved ==
  ASSUME PendingInv, NEW n \in DOMAIN sessions_, NEW j,
         sessions_' = [sessions_ EXCEPT ![n].pending_requests = Restrict(@, DOMAIN @ \ {j})]
  PROVE  /\ DOMAIN sessions_' = DOMAIN sessions_
         /\ sessions_' = [s \in DOMAIN sessions_' |-> sessions_'[s]]
         /\ \A s \in DOMAIN sessions_' : sessions_'[s] \in SessionState
         /\ \A s, k, c : In(s, k, c)' <=> In(s, k, c) /\ ~(s = n /\ k = j)
<1>1. sessions_[n] \in SessionState
  BY Zenon DEF PendingInv, TableType
<1>2. PICK h : h = sessions_[n].pending_requests
  BY Zenon
<1>3. DOMAIN h \in SUBSET Keys /\ h \in [DOMAIN h -> Callers]
  BY <1>1, <1>2, Zenon DEF SessionState
<1>4. PICK K : K = DOMAIN h \ {j}
  BY Zenon
<1>5. PICK g : g = Restrict(h, K)
  BY Zenon
<1>6. K \in SUBSET Keys /\ g \in [K -> Callers] /\ \A k \in K : g[k] = h[k]
  BY <1>3, <1>4, <1>5, Zenon DEF Restrict
<1>7. sessions_' = [sessions_ EXCEPT ![n].pending_requests = g]
  BY <1>2, <1>4, <1>5, Zenon
<1>8. \A s, k, c : In(s, k, c)' <=> IF s = n THEN k \in K /\ g[k] = c ELSE In(s, k, c)
  BY <1>6, <1>7, PendingReplaced, Zenon
<1>9. \A k, c : In(n, k, c) <=> k \in DOMAIN h /\ h[k] = c
  BY <1>2, Zenon DEF In
<1>10. \A s, k, c : In(s, k, c)' <=> In(s, k, c) /\ ~(s = n /\ k = j)
  BY <1>4, <1>6, <1>8, <1>9, Zenon
<1> QED
  BY <1>6, <1>7, <1>10, PendingReplaced, Zenon

\* A response is matched with a pending request, or refused.
LEMMA ResponseStep ==
  ASSUME PendingInv, NEW p \in Posts, NEW n \in Issued, NEW j \in Keys, Response(p, n, j)
  PROVE  PendingInv'
<1>1. UNCHANGED <<next_session_id_, timeouts, caller>> /\ post[p].at = "new"
  BY DEF Response, Arrives, NewPost
<1>2. CASE Live(n) /\ j \in DOMAIN sessions_[n].pending_requests
  <2>1. PICK d : d = sessions_[n].pending_requests[j] /\ In(n, j, d)
    BY <1>2, Zenon DEF In, Live
  <2>2. /\ d \in Callers /\ caller[d].at \in {"waiting", "expired"}
        /\ caller[d].session = n /\ caller[d].key = j
        /\ caller[d].response = FALSE /\ caller[d].error = FALSE
    BY <2>1 DEF PendingInv, EntryInv
  <2>3. /\ post'[p] = [at |-> "deliver", kind |-> "response", session |-> n, to |-> d]
        /\ DOMAIN post' = Posts /\ \A q \in Posts \ {p} : post'[q] = post[q]
    BY <1>2, <2>1, Zenon DEF Response, PendingInv, TableType
  <2>4. sessions_' = [sessions_ EXCEPT ![n].pending_requests = Restrict(@, DOMAIN @ \ {j})]
    BY <1>2, Zenon DEF Response, Taken
  <2>5. n \in DOMAIN sessions_
    BY <1>2, Zenon DEF Live
  <2>6. /\ DOMAIN sessions_' = DOMAIN sessions_
        /\ sessions_' = [s \in DOMAIN sessions_' |-> sessions_'[s]]
        /\ \A s \in DOMAIN sessions_' : sessions_'[s] \in SessionState
        /\ \A s, k, c : In(s, k, c)' <=> In(s, k, c) /\ ~(s = n /\ k = j)
    BY <2>4, <2>5, PendingRemoved, Zenon
  <2>7. \A s, k : ~In(s, k, d)'
    BY <2>2, <2>6 DEF PendingInv, EntryInv
  <2>8. TableType'
    BY <1>1, <2>3, <2>6, Zenon DEF PendingInv, TableType, Issued
  <2>9. EntryInv'
    BY <1>1, <2>6 DEF PendingInv, EntryInv
  <2>10. \A q \in Posts : post[q].at = "deliver" => post[q].to # d
    BY <2>1, Zenon DEF PendingInv, DeliverInv
  <2>11. DeliverInv'
    BY <1>1, <2>2, <2>3, <2>6, <2>7, <2>10 DEF PendingInv, DeliverInv
  <2>12. DeliveredInv'
    <3>1. \A q \in Posts : post'[q].at = "delivered" =>
            post'[q] = post[q] /\ post[q].at = "delivered"
      BY <2>3
    <3> QED
      BY <1>1, <3>1 DEF PendingInv, DeliveredInv
  <2>13. WaiterInv'
    <3>1. ASSUME NEW c \in Callers, In(caller[c].session, caller[c].key, c), c # d
          PROVE  In(caller[c].session, caller[c].key, c)'
      <4>1. PICK s, k : s = caller[c].session /\ k = caller[c].key
        BY Zenon
      <4>2. In(s, k, c) /\ ~(s = n /\ k = j)
        BY <2>1, <3>1, <4>1, Zenon DEF In
      <4>3. In(s, k, c)'
        BY <2>6, <4>2, Zenon
      <4> QED
        BY <1>1, <4>1, <4>3, Zenon
    <3>2. \A q \in Posts : post[q].at = "deliver" => post'[q] = post[q]
      BY <1>1, <2>3, Zenon
    <3> QED
      BY <1>1, <2>3, <3>1, <3>2 DEF PendingInv, WaiterInv
  <2>14. DrawnInv'
    BY <1>1, <2>3, <2>6 DEF PendingInv, DrawnInv, Drawn, Issued
  <2> QED
    BY <2>8, <2>9, <2>11, <2>12, <2>13, <2>14, Zenon DEF PendingInv
<1>3. CASE ~(Live(n) /\ j \in DOMAIN sessions_[n].pending_requests)
  <2>1. /\ post'[p].at = "done" /\ UNCHANGED sessions_
        /\ DOMAIN post' = Posts /\ \A q \in Posts \ {p} : post'[q] = post[q]
    BY <1>3 DEF Response, Answered, PendingInv, TableType
  <2>2. Same
    BY <2>1, Zenon DEF Same, In
  <2>3. TableType'
    BY <1>1, <2>1, Zenon DEF PendingInv, TableType, Issued
  <2>4. DrawnInv'
    BY <1>1, <2>1 DEF PendingInv, DrawnInv, Drawn, Issued
  <2> QED
    BY <1>1, <2>1, <2>2, <2>3, <2>4, PostKeeps, Zenon DEF PendingInv
<1> QED
  BY <1>2, <1>3, Zenon

\* The POST thread makes the request ready that it took out of the table.
LEMMA DeliverStep ==
  ASSUME PendingInv, NEW p \in Posts, Deliver(p)
  PROVE  PendingInv'
<1>1. PICK d \in Callers : /\ d = post[p].to /\ post[p].at = "deliver"
                          /\ \A s, k : ~In(s, k, d)
  BY Zenon DEF Deliver, PendingInv, DeliverInv
<1>2. UNCHANGED <<sessions_, next_session_id_, timeouts>> /\ Same
  BY Zenon DEF Deliver, Same, In
<1>3. /\ post'[p].at = "delivered" /\ post'[p].to = d /\ DOMAIN post' = Posts
      /\ \A q \in Posts \ {p} : post'[q] = post[q]
  BY <1>1 DEF Deliver, PendingInv, TableType
<1>4. /\ caller' \in [Callers -> {IdleCall} \cup OpenCall
            \cup [at : {"returned"}, outcome : {"refused", "response", "error", "timeout"}]]
      /\ \A c \in Callers \ {d} : caller'[c] = caller[c]
      /\ \/ /\ caller[d].at \in {"waiting", "expired"} /\ caller'[d].at = caller[d].at
            /\ caller'[d].response = TRUE /\ caller'[d].error = FALSE
         \/ /\ caller'[d] = caller[d] /\ caller[d].at = "returned" /\ timeouts = TRUE
            /\ caller[d].outcome = "timeout"
  <2>1. caller \in [Callers -> {IdleCall} \cup OpenCall
          \cup [at : {"returned"}, outcome : {"refused", "response", "error", "timeout"}]]
    BY Zenon DEF PendingInv, TableType
  <2>2. CASE caller[d].at = "returned"
    BY <1>1, <2>1, <2>2, Zenon DEF Deliver, PendingInv, DeliverInv
  <2>3. CASE caller[d].at # "returned"
    <3>1. caller[d].at \in {"waiting", "expired"} /\ caller[d].error = FALSE
      BY <1>1, <2>3, Zenon DEF PendingInv, DeliverInv
    <3>2. caller[d] \in OpenCall
      BY <2>1, <3>1 DEF IdleCall
    <3>3. caller' = [caller EXCEPT ![d].response = TRUE]
      BY <1>1, <2>3, Zenon DEF Deliver
    <3>4. caller'[d] = [caller[d] EXCEPT !.response = TRUE]
      BY <2>1, <3>3, Zenon
    <3>5. /\ caller'[d] \in OpenCall /\ caller'[d].at = caller[d].at
          /\ caller'[d].response = TRUE /\ caller'[d].error = FALSE
      BY <3>1, <3>2, <3>4, Zenon DEF OpenCall
    <3> QED
      BY <2>1, <3>1, <3>3, <3>5, Zenon
  <2> QED
    BY <2>2, <2>3, Zenon
<1>5. TableType'
  BY <1>2, <1>3, <1>4, Zenon DEF PendingInv, TableType, Issued
<1>6. EntryInv'
  BY <1>1, <1>2, <1>4 DEF PendingInv, EntryInv, Same
<1>7. \A q \in Posts \ {p} : post[q].at = "deliver" => post[q].to # d
  BY <1>1, Zenon DEF PendingInv, DeliverInv
<1>8. DeliverInv'
  <2>1. ASSUME NEW q \in Posts, post'[q].at = "deliver"
        PROVE  /\ q # p /\ post'[q] = post[q] /\ post[q].at = "deliver"
               /\ post[q].to \in Callers \ {d} /\ caller'[post[q].to] = caller[post[q].to]
    BY <1>3, <1>4, <1>7, <2>1 DEF PendingInv, DeliverInv
  <2> QED
    BY <1>2, <2>1 DEF PendingInv, DeliverInv, Same
<1>9. DeliveredInv'
  <2>1. ASSUME NEW q \in Posts, q # p, post'[q].at = "delivered"
        PROVE  post'[q] = post[q] /\ post[q].at = "delivered"
    BY <1>3, <2>1, Zenon
  <2>2. \/ /\ caller'[d].at \in {"waiting", "expired"}
           /\ caller'[d].response = TRUE /\ caller'[d].error = FALSE
        \/ caller'[d].at = "returned" /\ timeouts' = TRUE /\ caller'[d].outcome = "timeout"
    BY <1>2, <1>4, Zenon
  <2>3. ASSUME NEW q \in Posts, post'[q].at = "delivered"
        PROVE  /\ post'[q].to \in Callers
               /\ post'[q].to # d => /\ post[q].to = post'[q].to /\ post[q].at = "delivered"
                                    /\ caller'[post[q].to] = caller[post[q].to]
    BY <1>3, <1>4, <2>1, <2>3 DEF PendingInv, DeliveredInv
  <2> QED
    BY <1>2, <2>2, <2>3 DEF PendingInv, DeliveredInv
<1>10. WaiterInv'
  <2>1. \A c \in Callers \ {d} : In(caller[c].session, caller[c].key, c) =>
          In(caller[c].session, caller[c].key, c)'
    BY <1>2, <1>4, Zenon DEF In
  <2>2. \A c \in Callers : caller'[c].at = "expired" => timeouts' = TRUE
    BY <1>1, <1>2, <1>4 DEF PendingInv, WaiterInv
  <2>3. ASSUME NEW c \in Callers, timeouts' = FALSE, caller'[c].at = "waiting",
               caller'[c].response = FALSE, caller'[c].error = FALSE
        PROVE  \/ In(caller[c].session, caller[c].key, c)'
               \/ \E q \in Posts : post'[q].at = "deliver" /\ post'[q].to = c
    <3>1. c # d /\ caller'[c] = caller[c] /\ timeouts = FALSE
      BY <1>2, <1>4, <2>3, Zenon
    <3>2. \/ In(caller[c].session, caller[c].key, c)
          \/ \E q \in Posts : post[q].at = "deliver" /\ post[q].to = c
      BY <2>3, <3>1, Zenon DEF PendingInv, WaiterInv
    <3>3. \A q \in Posts : post[q].at = "deliver" /\ post[q].to = c => post'[q] = post[q]
      BY <1>1, <1>3, <3>1, Zenon
    <3> QED
      BY <2>1, <3>1, <3>2, <3>3, Zenon
  <2> QED
    BY <2>2, <2>3, Zenon DEF WaiterInv
<1>11. DrawnInv'
  BY <1>1, <1>2, <1>3 DEF PendingInv, DrawnInv, Drawn, Issued
<1> QED
  BY <1>5, <1>6, <1>8, <1>9, <1>10, <1>11, Zenon DEF PendingInv

\* Nobody delivers to a caller that has not called.
LEMMA AddresseeIsIn ==
  ASSUME PendingInv
  PROVE  \A p \in Posts : post[p].at \in {"deliver", "delivered"} =>
           caller[post[p].to] # IdleCall
<1>1. \A p \in Posts : post[p].at = "deliver" => caller[post[p].to].at # "idle"
  BY Zenon DEF PendingInv, DeliverInv
<1>2. \A p \in Posts : post[p].at = "delivered" => caller[post[p].to].at # "idle"
  BY Zenon DEF PendingInv, DeliveredInv
<1> QED
  BY <1>1, <1>2 DEF IdleCall

\* Steps of one caller that has no entry in the table afterwards, or keeps it.
LEMMA CallerKeeps ==
  ASSUME PendingInv, NEW d \in Callers,
         UNCHANGED <<next_session_id_, timeouts, post>>,
         DOMAIN sessions_' = DOMAIN sessions_,
         sessions_' = [s \in DOMAIN sessions_' |-> sessions_'[s]],
         \A s \in DOMAIN sessions_' : sessions_'[s] \in SessionState,
         caller' \in [Callers -> {IdleCall} \cup OpenCall
           \cup [at : {"returned"}, outcome : {"refused", "response", "error", "timeout"}]],
         \A c \in Callers \ {d} : caller'[c] = caller[c],
         EntryInv',
         \A s, k : \A c \in Callers \ {d} : In(s, k, c)' => In(s, k, c),
         timeouts = FALSE =>
           \A s, k : \A c \in Callers \ {d} : In(s, k, c) => In(s, k, c)',
         caller[d] # IdleCall => \A s, k : In(s, k, d)' => In(s, k, d),
         \/ caller[d] = IdleCall
         \/ /\ caller[d].at = "waiting" /\ caller[d].response = TRUE /\ caller[d].error = FALSE
            /\ caller'[d].at = "returned" /\ caller'[d].outcome = "response"
         \/ /\ caller[d].at = "waiting" /\ caller[d].error = TRUE
            /\ caller'[d].at = "returned" /\ caller'[d].outcome = "error"
         \/ /\ caller[d].at = "waiting" /\ caller'[d].at = "expired" /\ timeouts = TRUE
            /\ caller'[d].response = caller[d].response /\ caller'[d].error = caller[d].error
         \/ /\ caller[d].at = "expired" /\ caller'[d].at = "returned"
            /\ caller'[d].outcome = "timeout",
         caller[d] = IdleCall =>
           \/ caller'[d].at = "returned"
           \/ /\ caller'[d].at = "waiting"
              /\ In(caller[d].session, caller[d].key, d)'
  PROVE  PendingInv'
<1>1. TableType'
  BY Zenon DEF PendingInv, TableType, Issued
<1>2. \A p \in Posts : post[p].at \in {"deliver", "delivered"} => caller[post[p].to] # IdleCall
  BY AddresseeIsIn, Zenon
<1>3. caller[d].at = "expired" => timeouts = TRUE
  BY Zenon DEF PendingInv, WaiterInv
<1>4. DeliverInv'
  <2>1. ASSUME NEW p \in Posts, post[p].at = "deliver"
        PROVE  /\ post[p].to \in Callers
               /\ \A s, k : ~In(s, k, post[p].to)'
               /\ \/ /\ caller'[post[p].to].at \in {"waiting", "expired"}
                     /\ caller'[post[p].to].response = FALSE /\ caller'[post[p].to].error = FALSE
                  \/ /\ caller'[post[p].to].at = "returned" /\ timeouts = TRUE
                     /\ caller'[post[p].to].outcome = "timeout"
    <3>1. PICK e \in Callers : e = post[p].to
      BY <2>1, Zenon DEF PendingInv, DeliverInv
    <3>2. /\ caller[e] # IdleCall /\ \A s, k : ~In(s, k, e)
          /\ \/ /\ caller[e].at \in {"waiting", "expired"}
                /\ caller[e].response = FALSE /\ caller[e].error = FALSE
             \/ caller[e].at = "returned" /\ timeouts = TRUE /\ caller[e].outcome = "timeout"
      BY <1>2, <2>1, <3>1, Zenon DEF PendingInv, DeliverInv
    <3>3. \A s, k : ~In(s, k, e)'
      BY <3>2
    <3>4. \/ /\ caller'[e].at \in {"waiting", "expired"}
             /\ caller'[e].response = FALSE /\ caller'[e].error = FALSE
          \/ caller'[e].at = "returned" /\ timeouts = TRUE /\ caller'[e].outcome = "timeout"
      BY <1>3, <3>2, Zenon
    <3>5. \A s, k : ~In(s, k, post[p].to)'
      BY <3>1, <3>3 DEF In
    <3> QED
      BY <3>1, <3>4, <3>5, Zenon
  <2>2. \A p, q \in Posts : post'[p].at = "deliver" /\ post'[q].at = "deliver"
          /\ post'[p].to = post'[q].to => p = q
    BY DEF PendingInv, DeliverInv
  <2>3. timeouts' = timeouts /\ post' = post
    BY Zenon
  <2> QED
    BY <2>1, <2>2, <2>3, Zenon DEF DeliverInv
<1>5. DeliveredInv'
  <2>1. SUFFICES ASSUME NEW p \in Posts, post[p].at = "delivered"
        PROVE  \/ /\ caller'[post[p].to].at \in {"waiting", "expired"}
                  /\ caller'[post[p].to].response = TRUE /\ caller'[post[p].to].error = FALSE
               \/ /\ caller'[post[p].to].at = "returned"
                  /\ caller'[post[p].to].outcome = "response"
               \/ /\ caller'[post[p].to].at = "returned" /\ timeouts = TRUE
                  /\ caller'[post[p].to].outcome = "timeout"
    BY Zenon DEF PendingInv, DeliveredInv
  <2>2. PICK e \in Callers : e = post[p].to
    BY <2>1, Zenon DEF PendingInv, DeliveredInv
  <2>3. \/ /\ caller[e].at \in {"waiting", "expired"}
           /\ caller[e].response = TRUE /\ caller[e].error = FALSE
        \/ caller[e].at = "returned" /\ caller[e].outcome = "response"
        \/ caller[e].at = "returned" /\ timeouts = TRUE /\ caller[e].outcome = "timeout"
    BY <2>1, <2>2, Zenon DEF PendingInv, DeliveredInv
  <2> QED
    BY <1>2, <1>3, <2>1, <2>2, <2>3
<1>6. WaiterInv'
  <2>1. \A c \in Callers : caller'[c].at = "expired" => timeouts = TRUE
    BY DEF PendingInv, WaiterInv
  <2>2. ASSUME NEW c \in Callers, c # d, timeouts = FALSE,
               In(caller[c].session, caller[c].key, c)
        PROVE  In(caller[c].session, caller[c].key, c)'
    <3>1. PICK s, k : s = caller[c].session /\ k = caller[c].key
      BY Zenon
    <3>2. caller'[c].session = s /\ caller'[c].key = k /\ In(s, k, c)'
      BY <2>2, <3>1, Zenon
    <3> QED
      BY <3>2, Zenon
  <2>3. ASSUME NEW c \in Callers, timeouts = FALSE, caller'[c].at = "waiting",
               caller'[c].response = FALSE, caller'[c].error = FALSE
        PROVE  \/ In(caller[c].session, caller[c].key, c)'
               \/ \E p \in Posts : post'[p].at = "deliver" /\ post'[p].to = c
    <3>1. CASE c = d
      BY <2>3, <3>1, Zenon
    <3>2. CASE c # d
      BY <2>2, <2>3, <3>2, Zenon DEF PendingInv, WaiterInv
    <3> QED
      BY <3>1, <3>2, Zenon
  <2> QED
    BY <2>1, <2>3, Zenon DEF WaiterInv
<1>7. DrawnInv'
  BY DEF PendingInv, DrawnInv, Drawn, Issued
<1> QED
  BY <1>1, <1>4, <1>5, <1>6, <1>7, Zenon DEF PendingInv

\* The steps of a caller.
LEMMA CallerStep ==
  ASSUME PendingInv, NEW d \in Callers,
         CallRefused(d) \/ CallStep(d) \/ \E s \in Issued, k \in Keys : Call(d, s, k)
  PROVE  PendingInv'
<1> DEFINE Callings == {IdleCall} \cup OpenCall
             \cup [at : {"returned"}, outcome : {"refused", "response", "error", "timeout"}]
<1>1. caller \in [Callers -> Callings] /\ TableType
  BY Zenon DEF PendingInv, TableType
<1>2. UNCHANGED <<next_session_id_, timeouts, post>>
  BY Zenon DEF CallRefused, CallStep, Wakes, Expires, EraseExpired, Call
<1>3. \A s, k : In(s, k, d) =>
        /\ caller[d].at \in {"waiting", "expired"} /\ caller[d].session = s /\ caller[d].key = k
        /\ caller[d].response = FALSE /\ caller[d].error = FALSE
  BY DEF PendingInv, EntryInv
<1>4. ASSUME UNCHANGED sessions_
      PROVE  /\ DOMAIN sessions_' = DOMAIN sessions_
             /\ sessions_' = [s \in DOMAIN sessions_' |-> sessions_'[s]]
             /\ \A s \in DOMAIN sessions_' : sessions_'[s] \in SessionState
             /\ \A s, k, c : In(s, k, c)' <=> In(s, k, c)
  BY <1>1, <1>4, Zenon DEF TableType, In
<1>5. CASE CallRefused(d)
  <2>1. /\ caller[d] = IdleCall /\ UNCHANGED sessions_
        /\ caller' = [caller EXCEPT ![d] = [at |-> "returned", outcome |-> "refused"]]
    BY <1>5, Zenon DEF CallRefused
  <2>2. /\ caller' \in [Callers -> Callings] /\ \A c \in Callers \ {d} : caller'[c] = caller[c]
        /\ caller'[d] = [at |-> "returned", outcome |-> "refused"]
    BY <1>1, <2>1, Zenon
  <2>3. \A s, k : ~In(s, k, d)
    BY <1>3, <2>1 DEF IdleCall
  <2>4. EntryInv'
    BY <1>4, <2>1, <2>2, <2>3 DEF PendingInv, EntryInv
  <2> QED
    BY <1>2, <1>4, <2>1, <2>2, <2>4, CallerKeeps, Zenon
<1>6. CASE Wakes(d)
  <2>1. /\ caller[d].at = "waiting" /\ UNCHANGED sessions_
        /\ caller[d].response \/ caller[d].error
        /\ caller' = [caller EXCEPT ![d] = [at |-> "returned",
                        outcome |-> IF caller[d].error THEN "error" ELSE "response"]]
    BY <1>6, Zenon DEF Wakes, Ready
  <2>2. caller[d] \in OpenCall
    BY <1>1, <2>1 DEF IdleCall
  <2>3. caller[d].response \in BOOLEAN /\ caller[d].error \in BOOLEAN
    BY <2>2, Zenon DEF OpenCall
  <2>4. /\ caller' \in [Callers -> Callings] /\ \A c \in Callers \ {d} : caller'[c] = caller[c]
        /\ caller'[d] = [at |-> "returned",
                         outcome |-> IF caller[d].error THEN "error" ELSE "response"]
    BY <1>1, <2>1, Zenon
  <2>5. \/ /\ caller[d].response = TRUE /\ caller[d].error = FALSE
           /\ caller'[d].at = "returned" /\ caller'[d].outcome = "response"
        \/ /\ caller[d].error = TRUE
           /\ caller'[d].at = "returned" /\ caller'[d].outcome = "error"
    <3>1. CASE caller[d].error = TRUE
      BY <2>4, <3>1
    <3>2. CASE caller[d].error = FALSE
      BY <2>1, <2>3, <2>4, <3>2, Zenon
    <3> QED
      BY <2>3, <3>1, <3>2, Zenon
  <2>6. \A s, k : ~In(s, k, d)
    BY <1>3, <2>5, Zenon
  <2>7. EntryInv'
    BY <1>4, <2>1, <2>4, <2>6 DEF PendingInv, EntryInv
  <2>8. caller[d] # IdleCall
    BY <2>1 DEF IdleCall
  <2> QED
    BY <1>2, <1>4, <2>1, <2>4, <2>5, <2>7, <2>8, CallerKeeps, Zenon
<1>7. CASE Expires(d)
  <2>1. /\ caller[d].at = "waiting" /\ UNCHANGED sessions_ /\ timeouts = TRUE
        /\ caller' = [caller EXCEPT ![d].at = "expired"]
    <3>1. timeouts \in BOOLEAN
      BY <1>1, Zenon DEF TableType
    <3> QED
      BY <1>7, <3>1, Zenon DEF Expires
  <2>2. caller[d] \in OpenCall /\ caller[d] # IdleCall
    BY <1>1, <2>1 DEF IdleCall
  <2>3. caller'[d] = [caller[d] EXCEPT !.at = "expired"]
    BY <1>1, <2>1, Zenon
  <2>4. /\ caller'[d] \in OpenCall /\ caller'[d].at = "expired"
        /\ caller'[d].session = caller[d].session /\ caller'[d].key = caller[d].key
        /\ caller'[d].response = caller[d].response /\ caller'[d].error = caller[d].error
    BY <2>2, <2>3, Zenon DEF OpenCall
  <2>5. caller' \in [Callers -> Callings] /\ \A c \in Callers \ {d} : caller'[c] = caller[c]
    BY <1>1, <2>1, <2>4, Zenon
  <2>6. EntryInv'
    BY <1>4, <2>1, <2>4, <2>5 DEF PendingInv, EntryInv
  <2> QED
    BY <1>2, <1>4, <2>1, <2>2, <2>4, <2>5, <2>6, CallerKeeps, Zenon
<1>8. CASE EraseExpired(d)
  <2>1. /\ caller[d].at = "expired" /\ timeouts = TRUE
        /\ caller' = [caller EXCEPT ![d] = [at |-> "returned", outcome |-> "timeout"]]
    BY <1>8, Zenon DEF EraseExpired, PendingInv, WaiterInv
  <2>2. PICK n, j : n = caller[d].session /\ j = caller[d].key
    BY Zenon
  <2>3. /\ caller' \in [Callers -> Callings] /\ \A c \in Callers \ {d} : caller'[c] = caller[c]
        /\ caller'[d] = [at |-> "returned", outcome |-> "timeout"]
    BY <1>1, <2>1, Zenon
  <2>4. /\ DOMAIN sessions_' = DOMAIN sessions_
        /\ sessions_' = [s \in DOMAIN sessions_' |-> sessions_'[s]]
        /\ \A s \in DOMAIN sessions_' : sessions_'[s] \in SessionState
        /\ \A s, k, c : In(s, k, c)' <=> In(s, k, c) /\ ~(s = n /\ k = j)
    <3>1. CASE n \in DOMAIN sessions_
      <4>1. sessions_' = [sessions_ EXCEPT ![n].pending_requests = Restrict(@, DOMAIN @ \ {j})]
        BY <1>8, <2>2, <3>1, Zenon DEF EraseExpired, Live
      <4> QED
        BY <3>1, <4>1, PendingRemoved, Zenon
    <3>2. CASE n \notin DOMAIN sessions_
      <4>1. UNCHANGED sessions_
        BY <1>8, <2>2, <3>2, Zenon DEF EraseExpired, Live
      <4>2. \A k, c : ~In(n, k, c)
        BY <3>2, Zenon DEF In
      <4> QED
        BY <1>4, <4>1, <4>2, Zenon
    <3> QED
      BY <3>1, <3>2, Zenon
  <2>5. \A s, k : ~In(s, k, d)'
    BY <1>3, <2>2, <2>4
  <2>6. EntryInv'
    BY <2>3, <2>4, <2>5 DEF PendingInv, EntryInv
  <2>7. caller[d] # IdleCall
    BY <2>1 DEF IdleCall
  <2> QED
    BY <1>2, <2>1, <2>3, <2>4, <2>6, <2>7, CallerKeeps, Zenon
<1>9. ASSUME NEW n \in Issued, NEW j \in Keys, Call(d, n, j) PROVE PendingInv'
  <2>1. /\ caller[d] = IdleCall /\ n \in DOMAIN sessions_ /\ ~\E c : In(n, j, c)
        /\ caller' = [caller EXCEPT ![d] = [at |-> "waiting", session |-> n, key |-> j,
                                            response |-> FALSE, error |-> FALSE]]
    BY <1>9, Zenon DEF Call, Live, In
  <2>2. PICK h : h = sessions_[n].pending_requests
    BY Zenon
  <2>3. DOMAIN h \in SUBSET Keys /\ h \in [DOMAIN h -> Callers]
    BY <1>1, <2>1, <2>2 DEF TableType, SessionState
  <2>4. PICK K : K = DOMAIN h \cup {j}
    BY Zenon
  <2>5. PICK g : g = [k \in K |-> IF k = j THEN d ELSE h[k]]
    BY Zenon
  <2>6. K \in SUBSET Keys /\ g \in [K -> Callers]
    BY <2>3, <2>4, <2>5, Zenon
  <2>7. sessions_' = [sessions_ EXCEPT ![n].pending_requests = g]
    BY <1>9, <2>2, <2>4, <2>5, Zenon DEF Call
  <2>8. /\ DOMAIN sessions_' = DOMAIN sessions_
        /\ sessions_' = [s \in DOMAIN sessions_' |-> sessions_'[s]]
        /\ \A s \in DOMAIN sessions_' : sessions_'[s] \in SessionState
        /\ \A s, k, c : In(s, k, c)' <=> IF s = n THEN k \in K /\ g[k] = c ELSE In(s, k, c)
    BY <2>1, <2>6, <2>7, PendingReplaced, Zenon
  <2>9. \A k, c : In(n, k, c) <=> k \in DOMAIN h /\ h[k] = c
    BY <2>1, <2>2, Zenon DEF In
  <2>10. \A s, k, c : In(s, k, c)' <=> In(s, k, c) \/ (s = n /\ k = j /\ c = d)
    <3>1. j \notin DOMAIN h
      BY <2>1, <2>9, Zenon
    <3>2. \A k, c : k \in K /\ g[k] = c <=> (k \in DOMAIN h /\ h[k] = c) \/ (k = j /\ c = d)
      BY <2>4, <2>5, <3>1, Zenon
    <3>3. \A k, c : In(n, k, c)' <=> In(n, k, c) \/ (k = j /\ c = d)
      BY <2>8, <2>9, <3>2, Zenon
    <3>4. \A s, k, c : s # n => (In(s, k, c)' <=> In(s, k, c))
      BY <2>8, Zenon
    <3> QED
      BY <3>3, <3>4, Zenon
  <2>11. /\ \A c \in Callers \ {d} : caller'[c] = caller[c]
         /\ caller'[d] = [at |-> "waiting", session |-> n, key |-> j,
                          response |-> FALSE, error |-> FALSE]
    BY <1>1, <2>1, Zenon
  <2>12. caller' \in [Callers -> Callings]
    <3>1. n \in Nat
      BY <1>1 DEF TableType, Issued
    <3>2. caller'[d] \in OpenCall
      BY <2>11, <3>1 DEF OpenCall
    <3> QED
      BY <1>1, <2>1, <2>11, <3>2, Zenon
  <2>13. \A s, k : ~In(s, k, d)
    BY <1>3, <2>1 DEF IdleCall
  <2>14. EntryInv'
    BY <2>10, <2>11, <2>13 DEF PendingInv, EntryInv
  <2>15. In(caller[d].session, caller[d].key, d)'
    <3>1. In(n, j, d)' /\ caller'[d].session = n /\ caller'[d].key = j
      BY <2>10, <2>11
    <3> QED
      BY <3>1, Zenon
  <2>16. \A s, k : \A c \in Callers \ {d} : In(s, k, c)' <=> In(s, k, c)
    BY <2>10, Zenon
  <2>17. caller'[d].at = "waiting" /\ caller[d] = IdleCall
    BY <2>1, <2>11
  <2>18. \A c \in Callers \ {d} : caller'[c] = caller[c]
    BY <2>11, Zenon
  <2> HIDE DEF Callings
  <2> QED
    BY <1>2, <2>8, <2>12, <2>14, <2>15, <2>16, <2>17, <2>18, CallerKeeps, Zenon DEF Callings
<1> QED
  BY <1>5, <1>6, <1>7, <1>8, <1>9, Zenon DEF CallStep

\* DELETE and stop() take sessions away and tell their callers.
LEMMA AbortStep ==
  ASSUME PendingInv, NEW ids \in SUBSET DOMAIN sessions_,
         sessions_' = Restrict(sessions_, DOMAIN sessions_ \ ids),
         caller' = Aborted(ids), UNCHANGED <<next_session_id_, timeouts, post>>
  PROVE  PendingInv'
<1>1. /\ DOMAIN sessions_' = DOMAIN sessions_ \ ids
      /\ sessions_' = [s \in DOMAIN sessions_' |-> sessions_'[s]]
      /\ \A s \in DOMAIN sessions_' : sessions_'[s] = sessions_[s]
  BY Zenon DEF Restrict
<1>2. \A s, k, c : In(s, k, c)' <=> In(s, k, c) /\ s \notin ids
  BY <1>1, Zenon DEF In
<1>3. \A c \in Callers : c \in PendingIn(ids) <=> \E s \in ids : \E k : In(s, k, c)
  BY PendingRelation, Zenon
<1>4. \A c \in Callers \ PendingIn(ids) : caller'[c] = caller[c]
  BY Zenon DEF Aborted
<1>5. ASSUME NEW c \in Callers, c \in PendingIn(ids)
      PROVE  /\ caller[c] \in OpenCall /\ caller[c].session \in ids
             /\ caller[c].response = FALSE /\ caller[c].error = FALSE
             /\ caller'[c] \in OpenCall /\ caller'[c].at = caller[c].at
             /\ caller'[c].error = TRUE
  <2>1. /\ caller[c].at \in {"waiting", "expired"} /\ caller[c].session \in ids
        /\ caller[c].response = FALSE /\ caller[c].error = FALSE
    BY <1>3, <1>5 DEF PendingInv, EntryInv
  <2>2. caller[c] \in OpenCall
    BY <2>1 DEF PendingInv, TableType, IdleCall
  <2>3. caller'[c] = [caller[c] EXCEPT !.error = TRUE]
    BY <1>5, Zenon DEF Aborted
  <2>4. /\ caller'[c] \in OpenCall /\ caller'[c].at = caller[c].at
        /\ caller'[c].error = TRUE
    BY <2>2, <2>3, Zenon DEF OpenCall
  <2> QED
    BY <2>1, <2>2, <2>4, Zenon
<1>6. TableType'
  <2>1. caller' \in [Callers -> {IdleCall} \cup OpenCall
          \cup [at : {"returned"}, outcome : {"refused", "response", "error", "timeout"}]]
    <3>1. caller' = [c \in Callers |-> caller'[c]]
      BY Zenon DEF Aborted
    <3>2. \A c \in Callers : caller'[c] \in {IdleCall} \cup OpenCall
            \cup [at : {"returned"}, outcome : {"refused", "response", "error", "timeout"}]
      <4> TAKE c \in Callers
      <4>1. CASE c \in PendingIn(ids)
        BY <1>5, <4>1, Zenon
      <4>2. CASE c \notin PendingIn(ids)
        BY <1>4, <4>2, Zenon DEF PendingInv, TableType
      <4> QED
        BY <4>1, <4>2, Zenon
    <3> QED
      BY <3>1, <3>2, Zenon
  <2> QED
    BY <1>1, <2>1, Zenon DEF PendingInv, TableType, Issued
<1>7. \A s, k, c : In(s, k, c)' => c \in Callers \ PendingIn(ids)
  BY <1>2, <1>3 DEF PendingInv, EntryInv
<1>8. EntryInv'
  <2>1. ASSUME NEW s, NEW k, NEW c, In(s, k, c)'
        PROVE  c \in Callers /\ In(s, k, c) /\ caller'[c] = caller[c]
    BY <1>2, <1>4, <1>7, <2>1, Zenon
  <2> QED
    BY <2>1 DEF PendingInv, EntryInv
<1>9. \A p \in Posts : post[p].at = "deliver" => post[p].to \in Callers \ PendingIn(ids)
  BY <1>3, Zenon DEF PendingInv, DeliverInv
<1>10. DeliverInv'
  BY <1>2, <1>4, <1>9 DEF PendingInv, DeliverInv
<1>11. \A p \in Posts : post[p].at = "delivered" => post[p].to \in Callers \ PendingIn(ids)
  <2> SUFFICES ASSUME NEW p \in Posts, post[p].at = "delivered"
               PROVE  post[p].to \in Callers \ PendingIn(ids)
    BY Zenon
  <2>1. PICK e \in Callers : e = post[p].to
    BY Zenon DEF PendingInv, DeliveredInv
  <2>2. caller[e].at = "returned" \/ caller[e].response = TRUE
    BY <2>1, Zenon DEF PendingInv, DeliveredInv
  <2>3. \A s, k : ~In(s, k, e)
    BY <2>2, Zenon DEF PendingInv, EntryInv
  <2> QED
    BY <1>3, <2>1, <2>3, Zenon
<1>12. DeliveredInv'
  BY <1>4, <1>11 DEF PendingInv, DeliveredInv
<1>13. WaiterInv'
  <2>1. \A c \in Callers : caller'[c].at = caller[c].at
    BY <1>4, <1>5, Zenon
  <2>2. ASSUME NEW c \in Callers, timeouts = FALSE, caller'[c].at = "waiting",
               caller'[c].response = FALSE, caller'[c].error = FALSE
        PROVE  \/ In(caller[c].session, caller[c].key, c)'
               \/ \E p \in Posts : post'[p].at = "deliver" /\ post'[p].to = c
    <3>1. c \notin PendingIn(ids) /\ caller'[c] = caller[c]
      BY <1>4, <1>5, <2>2, Zenon
    <3>2. PICK s, k : s = caller[c].session /\ k = caller[c].key
      BY Zenon
    <3>3. In(s, k, c) => In(s, k, c)'
      BY <1>2, <1>3, <3>1 DEF In
    <3>4. In(s, k, c) \/ \E p \in Posts : post[p].at = "deliver" /\ post[p].to = c
      BY <2>2, <3>1, <3>2, Zenon DEF PendingInv, WaiterInv
    <3>5. In(s, k, c)' => In(caller[c].session, caller[c].key, c)'
      BY <3>1, <3>2, Zenon
    <3> QED
      BY <3>3, <3>4, <3>5, Zenon
  <2>3. timeouts' = timeouts /\ post' = post
    BY Zenon
  <2>4. \A c \in Callers : caller'[c].at = "expired" => timeouts = TRUE
    BY <2>1, Zenon DEF PendingInv, WaiterInv
  <2> QED
    BY <2>2, <2>3, <2>4, Zenon DEF WaiterInv
<1>14. DrawnInv'
  BY <1>1, Zenon DEF PendingInv, DrawnInv, Drawn, Issued
<1> QED
  BY <1>6, <1>8, <1>10, <1>12, <1>13, <1>14, Zenon DEF PendingInv

\* Every step of the transport keeps the invariant.
LEMMA PendingStep == PendingInv /\ [Next]_vars => PendingInv'
<1> SUFFICES ASSUME PendingInv, [Next]_vars PROVE PendingInv'
  BY Zenon
<1>1. ASSUME NEW n \in SessionIds, DeleteSession(n) PROVE PendingInv'
  <2>1. {n} \in SUBSET DOMAIN sessions_
    BY <1>1, Zenon DEF DeleteSession, Live
  <2>2. /\ sessions_' = Restrict(sessions_, DOMAIN sessions_ \ {n}) /\ caller' = Aborted({n})
        /\ UNCHANGED <<next_session_id_, timeouts, post>>
    BY <1>1, Zenon DEF DeleteSession
  <2> QED
    BY <2>1, <2>2, AbortStep, Zenon
<1>2. CASE stop
  <2>1. DOMAIN sessions_ \in SUBSET DOMAIN sessions_
    BY Zenon
  <2>2. sessions_' = Restrict(sessions_, DOMAIN sessions_ \ DOMAIN sessions_)
    BY <1>2 DEF stop, Restrict
  <2>3. caller' = Aborted(DOMAIN sessions_) /\ UNCHANGED <<next_session_id_, timeouts, post>>
    BY <1>2, Zenon DEF stop
  <2> QED
    BY <2>1, <2>2, <2>3, AbortStep, Zenon
<1>3. CASE UNCHANGED vars
  <2>1. Same /\ UNCHANGED <<sessions_, next_session_id_, timeouts, post, caller>>
    BY <1>3, Zenon DEF vars, Same, In
  <2>2. TableType' /\ DrawnInv'
    BY <2>1 DEF PendingInv, TableType, DrawnInv, Drawn, Issued
  <2>3. EntryInv'
    BY <2>1 DEF PendingInv, EntryInv, Same
  <2>4. DeliverInv' /\ DeliveredInv'
    BY <2>1 DEF PendingInv, DeliverInv, DeliveredInv, Same
  <2>5. WaiterInv'
    BY <2>1, Zenon DEF PendingInv, WaiterInv, Same
  <2> QED
    BY <2>2, <2>3, <2>4, <2>5, Zenon DEF PendingInv
<1> QED
  BY <1>1, <1>2, <1>3, PostStep, ResponseStep, DeliverStep, CallerStep, Zenon DEF Next

\* No caller of send_request_to_session waits for ever unseen: without a
\* timeout its request is in the table of a live session, or a POST thread is
\* about to hand it the response.
THEOREM WaitersAreReachable == Spec => []WaiterReachable
<1>1. PendingInv => WaiterReachable
  <2> SUFFICES ASSUME PendingInv, NEW c \in Callers, Waiting(c), ~timeouts
               PROVE  \/ Registered(c)
                      \/ \E p \in Posts : post[p].at = "deliver" /\ post[p].to = c
    BY Zenon DEF WaiterReachable
  <2>1. caller[c].at = "waiting" /\ ~caller[c].response /\ ~caller[c].error
    BY Zenon DEF Waiting, Ready
  <2>2. caller[c] \in OpenCall
    BY <2>1 DEF PendingInv, TableType, IdleCall
  <2>3. caller[c].response = FALSE /\ caller[c].error = FALSE
    BY <2>1, <2>2, Zenon DEF OpenCall
  <2>4. timeouts = FALSE
    BY Zenon DEF PendingInv, TableType
  <2> QED
    BY <2>1, <2>3, <2>4, Zenon DEF PendingInv, WaiterInv, In, Registered, Live
<1> QED
  BY <1>1, PendingInit, PendingStep, PTL DEF Spec

\* A response that a POST thread has delivered is what the caller returns,
\* whatever DELETE, stop() and other calls do meanwhile; only the caller's own
\* timeout comes before it.
THEOREM DeliveredIsReturned == Spec => []AcceptedResponseReturned
<1>1. PendingInv => AcceptedResponseReturned
  BY Zenon DEF PendingInv, DeliveredInv, AcceptedResponseReturned
<1> QED
  BY <1>1, PendingInit, PendingStep, PTL DEF Spec
=============================================================================
