-------------------------- MODULE HttpNativeProofs --------------------------
(***************************************************************************)
(* Theorems about HttpClient and HttpNative, for any number of calls,      *)
(* sessions and request ids.                                               *)
(***************************************************************************)
EXTENDS HttpNative, TLAPS

Fields == {"at", "kind", "sending", "recovered", "tried", "result", "ran",
           "header", "status", "session", "asks", "joins"}
Over == {"idle", "unstarted", "queued", "done"}
Gone == {"queued", "done"}
Sendings == {"main", "lazy", "again", "version"}

(* What the record of a call has at least.                                 *)
Shaped(r) ==
  /\ r.at = "idle" => r = Idle
  /\ r.at # "idle" => {"at", "ran"} \subseteq DOMAIN r
  /\ r.at \notin Over => Fields \subseteq DOMAIN r /\ r.sending \in Sendings

ShapeInv == DOMAIN call = Callers /\ \A c \in Callers : Shaped(call[c])

(* The server knows sessions it has opened only.                           *)
LiveInv == DOMAIN live \subseteq Sessions /\ issued \in Nat

(* A queued response is that of a call.                                    *)
Messages ==
  [type : {"response"}, of : Callers] \cup [type : {"request"}, of : ServerIds]
    \cup [type : {"notification"}, of : Sessions]
Delivers(m) == m.type = "response" => call[m.of].at \in Gone
QueueInv ==
  inbound_ \in Seq(Messages) /\ \A i \in DOMAIN inbound_ : Delivers(inbound_[i])

(* Only the answer to a posted response names a session.                   *)
PendingInv ==
  \A k \in DOMAIN pending : pending[k].at # "posted" => pending[k].session = None

(* What a call is sending.                                                 *)
Sent(r) == IF r.sending = "main" THEN r.kind ELSE "initialize"

(* The server has not handled a request that may still be sent again: one  *)
(* that is on its way, was challenged or refused, or met a lost session.   *)
Unhandled(r) ==
  \/ r.at \in {"unstarted", "post", "wire", "joining"}
  \/ r.at = "answered" /\ r.status \notin {"lost", "ok", "parked"}
  \/ r.at = "returned" /\ r.result = "terminated"
  \/ r.at \notin Over /\ Sent(r) = "initialize"

Once(r) ==
  /\ r.at # "idle" => r.ran \in {0, 1}
  /\ Unhandled(r) => r.ran = 0

(* While a call that is alone under way sends an initialize, or has just   *)
(* lost its session, there is no stream, str.                              *)
Tied(r, str) ==
  r.at \notin Over =>
    /\ r.sending \in {"lazy", "again"} => r.kind # "initialize"
    /\ r.at = "answered" /\ r.status = "refused" => r.session = None
    /\ r.at = "stream" /\ Sent(r) = "initialize" => r.status = "ok"
    /\ r.at = "joining" => str = None
    /\ r.at = "returned" /\ r.result = "terminated" => str = None
    /\ r.at \in {"post", "wire", "answered"} /\ Sent(r) = "initialize" => str = None
    /\ r.at \in {"decode", "asked"} /\ Sent(r) = "initialize" /\ r.status = "refused"
         => str = None
    /\ r.at = "returned" /\ Sent(r) = "initialize" /\ r.result = "error" => str = None

(* Whatever answers are under way, but for those to an initialize, name    *)
(* one session, e, and the transport remembers that one or none.           *)
InSession(r, e) ==
  /\ r.at = "wire" /\ Sent(r) # "initialize" => r.header \in {None, e}
  /\ r.at = "answered" /\ Sent(r) # "initialize" => r.session \in {None, e}
PostedIn(e) == \A k \in DOMAIN pending : pending[k].session \in {None, e}

(* Before the first request of the application there is no session.        *)
Early(r) ==
  r.at \notin Over =>
    /\ r.kind = "initialized" /\ r.sending = "main"
    /\ r.at = "wire" => r.header = None
    /\ r.at = "answered" => r.session = None

Untouched == front = "client" /\ ~last_initialize_params_

FollowInv ==
  ~crossed =>
    /\ \A c, d \in Callers : call[c].at \notin Over /\ call[d].at \notin Over => c = d
    /\ stream \in {None, session_id}
    /\ \A c \in Callers : Tied(call[c], stream)
    /\ \E e : /\ session_id \in {None, e} /\ PostedIn(e)
              /\ \A c \in Callers : InSession(call[c], e)
    /\ Untouched => /\ session_id = None /\ PostedIn(None)
                    /\ \A c \in Callers : Early(call[c])

NativeInv ==
  /\ ShapeInv /\ LiveInv /\ QueueInv /\ PendingInv
  /\ \A c \in Callers : Once(call[c])
  /\ FollowInv

-----------------------------------------------------------------------------
(* What the operators that move a call make of its record.                 *)

Moves(c) == DOMAIN call' = Callers /\ \A d \in Callers : d # c => call'[d] = call[d]

Record(r, at, kind, sending, result, ran, header, status, session) ==
  /\ Fields \subseteq DOMAIN r
  /\ r.at = at /\ r.kind = kind /\ r.sending = sending /\ r.result = result
  /\ r.ran = ran /\ r.header = header /\ r.status = status /\ r.session = session

LEMMA Running1 ==
  ASSUME ShapeInv, NEW c \in Callers, call[c].at \notin Over
  PROVE  /\ DOMAIN call = Callers /\ Fields \subseteq DOMAIN call[c]
         /\ \A r : call' = [call EXCEPT ![c] = r] => Moves(c) /\ call'[c] = r
  BY Zenon DEF ShapeInv, Shaped, Moves

LEMMA GoesIs ==
  ASSUME ShapeInv, NEW c \in Callers, call[c].at \notin Over, NEW place, Goes(c, place)
  PROVE  /\ Moves(c)
         /\ Record(call'[c], place, call[c].kind, call[c].sending, call[c].result,
                   call[c].ran, call[c].header, call[c].status, call[c].session)
<1>1. call' = [call EXCEPT ![c] = [call[c] EXCEPT !.at = place]]
  BY Running1, Zenon DEF Goes
<1>2. Moves(c) /\ call'[c] = [call[c] EXCEPT !.at = place] /\ Fields \subseteq DOMAIN call[c]
  BY <1>1, Running1, Zenon
<1> QED
  BY <1>2, Zenon DEF Record, Fields

LEMMA NoAnswerIs ==
  ASSUME NEW r, Fields \subseteq DOMAIN r
  PROVE  Record(NoAnswer(r), r.at, r.kind, r.sending, r.result, r.ran, None, "none", None)
  BY Zenon DEF Record, Fields, NoAnswer

LEMMA ReturnsIs ==
  ASSUME ShapeInv, NEW c \in Callers, call[c].at \notin Over, NEW result, Returns(c, result)
  PROVE  /\ Moves(c)
         /\ Record(call'[c], "returned", call[c].kind, call[c].sending, result,
                   call[c].ran, None, "none", None)
<1> DEFINE r == [call[c] EXCEPT !.at = "returned", !.result = result, !.tried = {}]
<1>1. Moves(c) /\ call'[c] = NoAnswer(r) /\ Fields \subseteq DOMAIN call[c]
  BY Running1, Zenon DEF Returns
<1>2. /\ Fields \subseteq DOMAIN r /\ r.at = "returned" /\ r.result = result
      /\ r.kind = call[c].kind /\ r.sending = call[c].sending /\ r.ran = call[c].ran
  BY <1>1, Zenon DEF Fields
<1> HIDE DEF r
<1> QED
  BY <1>1, <1>2, NoAnswerIs, Zenon

LEMMA ResendsIs ==
  ASSUME ShapeInv, NEW c \in Callers, call[c].at \notin Over, NEW flag, Resends(c, flag)
  PROVE  /\ Moves(c)
         /\ Record(call'[c], "post", call[c].kind, call[c].sending, call[c].result,
                   call[c].ran, None, "none", None)
<1> DEFINE r == [call[c] EXCEPT !.at = "post", !.tried = call[c].tried \cup {flag}]
<1>a. Fields \subseteq DOMAIN call[c] /\ DOMAIN call = Callers
  BY Running1, Zenon
<1>b. call' = [call EXCEPT ![c] = NoAnswer(r)]
  BY <1>a, Zenon DEF Resends, Fields
<1>1. Moves(c) /\ call'[c] = NoAnswer(r) /\ Fields \subseteq DOMAIN call[c]
  BY <1>a, <1>b, Running1, Zenon
<1>2. /\ Fields \subseteq DOMAIN r /\ r.at = "post" /\ r.result = call[c].result
      /\ r.kind = call[c].kind /\ r.sending = call[c].sending /\ r.ran = call[c].ran
  BY <1>1, Zenon DEF Fields
<1> HIDE DEF r
<1> QED
  BY <1>1, <1>2, NoAnswerIs, Zenon

LEMMA AnswerIs ==
  ASSUME ShapeInv, NEW c \in Callers, call[c].at \notin Over, NEW status, NEW session,
         NEW asks, NEW ran, Answer(c, status, session, asks, ran)
  PROVE  /\ Moves(c)
         /\ Record(call'[c], "answered", call[c].kind, call[c].sending, call[c].result,
                   call[c].ran + ran, None, status, session)
<1> DEFINE r == [call[c] EXCEPT !.at = "answered", !.header = None, !.status = status,
                       !.session = session, !.asks = asks, !.ran = call[c].ran + ran]
<1>a. Fields \subseteq DOMAIN call[c] /\ DOMAIN call = Callers
  BY Running1, Zenon
<1>b. call' = [call EXCEPT ![c] = r]
  BY <1>a, Zenon DEF Answer, Fields
<1>1. Moves(c) /\ Fields \subseteq DOMAIN call[c] /\ call'[c] = r
  BY <1>a, <1>b, Running1, Zenon
<1> QED
  BY <1>1 DEF Record, Fields

LEMMA SendsIs ==
  ASSUME ShapeInv, NEW c \in Callers, call[c].at \notin Over, NEW what, NEW recovered,
         Sends(c, what, recovered)
  PROVE  /\ Moves(c)
         /\ Record(call'[c], "post", call[c].kind, what, "none",
                   call[c].ran, call[c].header, call[c].status, call[c].session)
<1>1. Moves(c) /\ Fields \subseteq DOMAIN call[c]
      /\ call'[c] = [call[c] EXCEPT !.at = "post", !.sending = what, !.recovered = recovered,
                       !.result = "none"]
  BY Running1, Zenon DEF Sends, Moves
<1> QED
  BY <1>1, Zenon DEF Record, Fields

LEMMA LeavesIs ==
  ASSUME ShapeInv, NEW c \in Callers, call[c].at \notin Over, NEW place, Leaves(c, place)
  PROVE  /\ Moves(c) /\ {"at", "ran"} \subseteq DOMAIN call'[c]
         /\ call'[c].at = place /\ call'[c].ran = call[c].ran
  BY Running1, Zenon DEF Leaves, Moves

-----------------------------------------------------------------------------
(* A step moves one call, and that call may be under way only alone.       *)

Alone(c) == call[c].at \notin Over \/ Running = {}

Fits(c, e) == session_id \in {None, e} /\ PostedIn(e) /\ InSession(call[c], e)

TieHolds(c) ==
  /\ Tied(call'[c], stream')
  /\ stream' \in {None, session_id'}
  /\ \E e : Fits(c, e)'
  /\ Untouched' => session_id' = None /\ PostedIn(None)' /\ Early(call'[c])

\* At most a message is added to the queue, a response only for a call that
\* has begun.
Enqueues ==
  \/ inbound_' = inbound_
  \/ \E m \in Messages : /\ inbound_' = Append(inbound_, m)
                         /\ m.type = "response" => call'[m.of].at \in Gone

\* The responses under way still name the session that is remembered, or none.
PendingStays ==
  PendingInv' /\ \A e : session_id \in {None, e} /\ PostedIn(e) => PostedIn(e)'

LEMMA QueueKeeps ==
  ASSUME QueueInv, \A d \in Callers : call[d].at \in Gone => call'[d].at \in Gone, Enqueues
  PROVE  QueueInv'
<1>1. \A m \in Messages : m.type = "response" => m.of \in Callers
  BY DEF Messages
<1>2. \A i \in DOMAIN inbound_ : inbound_[i] \in Messages
  BY DEF QueueInv
<1>3. ASSUME NEW i \in DOMAIN inbound_, inbound_[i].type = "response"
      PROVE  call'[inbound_[i].of].at \in Gone
  <2>1. inbound_[i].of \in Callers /\ call[inbound_[i].of].at \in Gone
    BY <1>1, <1>2, <1>3, Zenon DEF QueueInv, Delivers
  <2> QED
    BY <2>1, Zenon
<1>4. CASE inbound_' = inbound_
  BY <1>3, <1>4, Zenon DEF QueueInv, Delivers
<1>5. ASSUME NEW m \in Messages, inbound_' = Append(inbound_, m),
             m.type = "response" => call'[m.of].at \in Gone
      PROVE  QueueInv'
  <2>1. /\ inbound_' \in Seq(Messages)
        /\ \A i \in DOMAIN inbound_' :
             \/ i \in DOMAIN inbound_ /\ inbound_'[i] = inbound_[i]
             \/ inbound_'[i] = m
    BY <1>5 DEF QueueInv
  <2>2. \A i \in DOMAIN inbound_' :
          inbound_'[i].type = "response" => call'[inbound_'[i].of].at \in Gone
    BY <1>3, <1>5, <2>1, Zenon
  <2> QED
    BY <2>1, <2>2, Zenon DEF QueueInv, Delivers
<1> QED
  BY <1>4, <1>5, Zenon DEF Enqueues

LEMMA MoveKeeps ==
  ASSUME NativeInv, NEW c \in Callers, Moves(c), ~crossed' => ~crossed /\ Alone(c),
         LiveInv', PendingInv', Enqueues, call[c].at \notin Gone,
         Shaped(call'[c]), Once(call'[c]), ~crossed' => TieHolds(c)
  PROVE  NativeInv'
<1>1. ShapeInv'
  BY Zenon DEF NativeInv, ShapeInv, Moves
<1>2. \A d \in Callers : Once(call'[d])
  BY Zenon DEF NativeInv, Moves
<1>q. QueueInv'
  <2>1. \A d \in Callers : call[d].at \in Gone => call'[d].at \in Gone
    BY Zenon DEF Moves
  <2> QED
    BY <2>1, QueueKeeps, Zenon DEF NativeInv
<1>3. ASSUME ~crossed' PROVE \A d \in Callers : d # c => call'[d].at \in Over
  <2> SUFFICES ASSUME NEW d \in Callers, d # c PROVE call[d].at \in Over
    BY Zenon DEF Moves
  <2>1. CASE call[c].at \notin Over
    BY <1>3, <2>1, Zenon DEF NativeInv, FollowInv
  <2>2. CASE Running = {}
    BY <2>2, Zenon DEF Running, Over
  <2> QED
    BY <1>3, <2>1, <2>2, Zenon DEF Alone
<1>4. FollowInv'
  <2> SUFFICES ASSUME ~crossed'
               PROVE  /\ \A d, e \in Callers :
                           call'[d].at \notin Over /\ call'[e].at \notin Over => d = e
                      /\ stream' \in {None, session_id'}
                      /\ \A d \in Callers : Tied(call'[d], stream')
                      /\ \E e : /\ session_id' \in {None, e} /\ PostedIn(e)'
                                /\ \A d \in Callers : InSession(call'[d], e)
                      /\ Untouched' => /\ session_id' = None /\ PostedIn(None)'
                                       /\ \A d \in Callers : Early(call'[d])
    BY Zenon DEF FollowInv
  <2>1. \A d \in Callers : d # c => Tied(call'[d], stream') /\ Early(call'[d])
    BY <1>3, Zenon DEF Tied, Early
  <2>2. \A d \in Callers : d # c => \A e : InSession(call'[d], e)
    BY <1>3, Zenon DEF InSession, Over
  <2>3. PICK e : Fits(c, e)'
    BY Zenon DEF TieHolds
  <2>4. session_id' \in {None, e} /\ PostedIn(e)' /\ \A d \in Callers : InSession(call'[d], e)
    BY <2>2, <2>3, Zenon DEF Fits
  <2> QED
    BY <1>3, <2>1, <2>4, Zenon DEF TieHolds
<1> QED
  BY <1>1, <1>2, <1>q, <1>4, Zenon DEF NativeInv

\* What is known of a call that is under way.
LEMMA UnderWay ==
  ASSUME NativeInv, NEW c \in Callers
  PROVE  /\ ShapeInv /\ LiveInv /\ PendingInv /\ Shaped(call[c]) /\ Once(call[c])
         /\ ~crossed => Tied(call[c], stream) /\ stream \in {None, session_id}
         /\ ~crossed => \E e : Fits(c, e)
         /\ ~crossed /\ Untouched => session_id = None /\ PostedIn(None) /\ Early(call[c])
  BY Zenon DEF NativeInv, ShapeInv, FollowInv, Fits

\* A running call moves and the transport stays as it is.
LEMMA QuietMove ==
  ASSUME NativeInv, NEW c \in Callers, call[c].at \notin Over, Moves(c),
         UNCHANGED <<front, last_initialize_params_, session_id, stream, crossed>>,
         UNCHANGED pending \/ PendingStays,
         Enqueues,
         LiveInv', Shaped(call'[c]), Once(call'[c]),
         ~crossed => Tied(call'[c], stream),
         ~crossed => \A e : Fits(c, e) => InSession(call'[c], e),
         ~crossed /\ Untouched => Early(call'[c])
  PROVE  NativeInv'
<1>1. (Untouched' <=> Untouched) /\ PendingStays
  BY UnderWay, Zenon DEF Untouched, PendingInv, PendingStays, PostedIn
<1>2. ~crossed' => \E e : Fits(c, e)'
  BY <1>1, UnderWay, Zenon DEF Fits, PendingStays
<1>3. ~crossed' => TieHolds(c)
  BY <1>1, <1>2, UnderWay, Zenon DEF TieHolds, PendingStays
<1>4. ~crossed' => ~crossed /\ Alone(c)
  BY Zenon DEF Alone
<1> QED
  BY <1>1, <1>3, <1>4, MoveKeeps, Zenon DEF PendingStays, Over, Gone

LEMMA LiveStays ==
  ASSUME LiveInv, UNCHANGED <<live, issued>> PROVE LiveInv'
  BY Zenon DEF LiveInv

LEMMA PostKeeps ==
  ASSUME NativeInv, NEW c \in Callers, UNCHANGED inbound_,
         Post(c)
  PROVE  NativeInv'
<1>1. /\ call[c].at = "post" /\ call[c].at \notin Over /\ LiveInv'
      /\ UNCHANGED <<front, last_initialize_params_, session_id, stream, crossed, pending,
                     inbound_>>
  BY UnderWay, LiveStays, Zenon DEF Post, At, options, transport, server, Over
<1>2. /\ Moves(c)
      /\ Record(call'[c], "wire", call[c].kind, call[c].sending, call[c].result,
                call[c].ran, session_id, call[c].status, call[c].session)
  <2>1. Moves(c) /\ Fields \subseteq DOMAIN call[c]
        /\ call'[c] = [call[c] EXCEPT !.at = "wire", !.header = session_id]
    BY <1>1, UnderWay, Running1, Zenon DEF Post, Moves, make_headers
  <2> QED
    BY <2>1, Zenon DEF Record, Fields
<1>3. Shaped(call'[c]) /\ Once(call'[c])
  BY <1>1, <1>2, UnderWay, Zenon DEF Record, Shaped, Once, Unhandled, Over, Fields
<1>4. ~crossed => Tied(call'[c], stream)
  BY <1>1, <1>2, UnderWay, Zenon DEF Record, Tied, Sent, Over
<1>5. ~crossed /\ Untouched => Early(call'[c])
  BY <1>1, <1>2, UnderWay, Zenon DEF Record, Early, Over
<1>6. \A e : Fits(c, e) => InSession(call'[c], e)
  BY <1>2, Zenon DEF Record, Fits, InSession
<1> QED
  BY <1>1, <1>2, <1>3, <1>4, <1>5, <1>6, QuietMove, Zenon DEF Enqueues, Record

\* The server answers, or the answer is lost.
LEMMA AnswerKeeps ==
  ASSUME NativeInv, NEW c \in Callers, At(c, "wire"), LiveInv',
         NEW status, NEW session, NEW asks, NEW ran \in {0, 1},
         Answer(c, status, session, asks, ran),
         UNCHANGED <<front, last_initialize_params_, session_id, stream, crossed, pending,
                     inbound_>>,
         ran = 1 => OnWire(c) # "initialize" /\ status \in {"lost", "ok", "parked"},
         status = "refused" => session = None,
         OnWire(c) # "initialize" => session \in {None, call[c].header},
         OnWire(c) = "initialized" /\ call[c].header = None => session = None
  PROVE  NativeInv'
<1>1. call[c].at = "wire" /\ call[c].at \notin Over /\ OnWire(c) = Sent(call[c])
  BY Zenon DEF At, Over, OnWire, Sent
<1>2. /\ Moves(c)
      /\ Record(call'[c], "answered", call[c].kind, call[c].sending, call[c].result,
                call[c].ran + ran, None, status, session)
  BY <1>1, UnderWay, AnswerIs, Zenon
<1>3. call[c].ran = 0 /\ call'[c].ran = ran
  BY <1>1, <1>2, UnderWay DEF Record, Once, Unhandled
<1>4. Sent(call'[c]) = Sent(call[c])
  BY <1>2, Zenon DEF Record, Sent
<1>5. Shaped(call'[c]) /\ Once(call'[c])
  BY <1>1, <1>2, <1>3, <1>4, UnderWay, Zenon DEF Record, Shaped, Once, Unhandled, Over, Fields
<1>6. ~crossed => Tied(call'[c], stream)
  BY <1>1, <1>2, <1>4, UnderWay, Zenon DEF Record, Tied, Over
<1>7. ~crossed /\ Untouched => Early(call'[c])
  BY <1>1, <1>2, UnderWay, Zenon DEF Record, Early, Sent, Over
<1>8. \A e : Fits(c, e) => InSession(call'[c], e)
  BY <1>1, <1>2, <1>4, Zenon DEF Record, Fits, InSession
<1> QED
  BY <1>1, <1>2, <1>5, <1>6, <1>7, <1>8, QuietMove, Zenon DEF Enqueues, Record

LEMMA ServeKeeps ==
  ASSUME NativeInv, NEW c \in Callers, UNCHANGED inbound_,
         Serve(c)
  PROVE  NativeInv'
<1>1. /\ At(c, "wire") /\ LiveInv
      /\ UNCHANGED <<front, last_initialize_params_, session_id, stream, crossed, pending,
                     inbound_>>
  BY UnderWay, Zenon DEF Serve, Lose, Challenge, ServeInitialize, ServeRequest, ServeInitialized,
       options, transport
<1>n. 0 # 1 /\ 0 \in {0, 1} /\ 1 \in {0, 1}
  OBVIOUS
<1>2. CASE Lose(c)
  <2>1. LiveInv'
    BY <1>1, <1>2, LiveStays, Zenon DEF Lose, server
  <2>2. CASE Answer(c, "lost", None, FALSE, 0)
    BY <1>1, <1>n, <2>1, <2>2, AnswerKeeps, Zenon
  <2>3. CASE OnWire(c) \in {"ping", "business"} /\ Answer(c, "lost", None, FALSE, 1)
    BY <1>1, <1>n, <2>1, <2>3, AnswerKeeps, Zenon
  <2> QED
    BY <1>2, <2>2, <2>3, Zenon DEF Lose
<1>3. CASE Challenge(c)
  <2>1. LiveInv'
    BY <1>1, <1>3, LiveStays, Zenon DEF Challenge, server
  <2>2. PICK status \in {"token", "nonce"} : Answer(c, status, None, FALSE, 0)
    BY <1>3, Zenon DEF Challenge
  <2>3. status # "refused"
    BY <2>2, Zenon
  <2> QED
    BY <1>1, <1>n, <2>1, <2>2, <2>3, AnswerKeeps, Zenon
<1>4. CASE ServeInitialize(c)
  <2>1. CASE issued < MaxSessions /\ issued' = issued + 1 /\ live' = Open(issued + 1)
             /\ \E status \in Bodies("garbled") : Answer(c, status, issued + 1, FALSE, 0)
    <3>1. LiveInv'
      BY <1>1, <2>1, HttpClientAssumption DEF LiveInv, Open, Sessions
    <3>2. PICK status \in {"ok", "garbled"} : Answer(c, status, issued + 1, FALSE, 0)
      BY <2>1, Zenon DEF Bodies
    <3> QED
      BY <1>1, <1>4, <1>n, <3>1, <3>2, AnswerKeeps, Zenon DEF ServeInitialize
  <2>2. CASE (Answer(c, "refused", None, FALSE, 0) \/ Answer(c, "unknown", None, FALSE, 0))
             /\ UNCHANGED server
    <3>1. LiveInv' /\ OnWire(c) = "initialize"
      BY <1>1, <1>4, <2>2, LiveStays, Zenon DEF server, ServeInitialize
    <3> QED
      BY <1>1, <1>n, <2>2, <3>1, AnswerKeeps, Zenon
  <2> QED
    BY <1>4, <2>1, <2>2, Zenon DEF ServeInitialize
<1>5. CASE ServeRequest(c)
  <2>1. LiveInv' /\ OnWire(c) \in {"ping", "business"}
    BY <1>1, <1>5, LiveStays, Zenon DEF ServeRequest, server
  <2>2. CASE \E status \in Bodies("parked"), asks \in {FALSE, Asking} :
               Answer(c, status, call[c].header, asks, 1)
    <3>1. PICK status \in {"ok", "parked"} : \E asks : Answer(c, status, call[c].header, asks, 1)
      BY <2>2, Zenon DEF Bodies
    <3>2. PICK asks : Answer(c, status, call[c].header, asks, 1)
      BY <3>1, Zenon
    <3> QED
      BY <1>1, <1>n, <2>1, <3>1, <3>2, AnswerKeeps, Zenon
  <2>3. CASE Answer(c, "refused", None, FALSE, 0) \/ Answer(c, "unknown", None, FALSE, 0)
    BY <1>1, <1>n, <2>1, <2>3, AnswerKeeps, Zenon
  <2> QED
    BY <1>5, <2>2, <2>3, Zenon DEF ServeRequest
<1>6. CASE ServeInitialized(c)
  <2>1. OnWire(c) = "initialized"
    BY <1>6, Zenon DEF ServeInitialized
  <2>2. CASE /\ Known(call[c].header) /\ live' = [live EXCEPT ![call[c].header] = TRUE]
             /\ \E named \in Named(call[c].header) : Answer(c, "ok", named, FALSE, 1)
    <3>1. LiveInv'
      BY <1>1, <1>6, <2>2, Zenon DEF LiveInv, ServeInitialized, Sessions
    <3>2. call[c].header # None
      BY <1>1, <2>2, HttpClientAssumption DEF Known, LiveInv, Sessions
    <3> QED
      <4>1. PICK named \in {None, call[c].header} : Answer(c, "ok", named, FALSE, 1)
        BY <2>2, Zenon DEF Named
      <4>2. OnWire(c) # "initialize" /\ "ok" # "refused" /\ "ok" \in {"lost", "ok", "parked"}
        BY <2>1, Zenon
      <4> QED
        BY <1>1, <1>n, <3>1, <3>2, <4>1, <4>2, AnswerKeeps, Zenon
  <2>3. CASE Answer(c, "unknown", None, FALSE, 0) /\ UNCHANGED live
    <3>1. LiveInv'
      BY <1>1, <1>6, <2>3, LiveStays, Zenon DEF ServeInitialized
    <3> QED
      BY <1>1, <1>n, <2>1, <2>3, <3>1, AnswerKeeps, Zenon
  <2> QED
    BY <1>6, <2>2, <2>3, Zenon DEF ServeInitialized
<1> QED
  BY <1>2, <1>3, <1>4, <1>5, <1>6, Zenon DEF Serve

-----------------------------------------------------------------------------
(* The transport goes on with an answer.                                   *)

\* send() returns; the receive stream may have been opened.
LEMMA ReturnsKeep ==
  ASSUME NativeInv, NEW c \in Callers, call[c].at \notin Over, NEW result, Returns(c, result),
         UNCHANGED <<front, last_initialize_params_, session_id, crossed, pending, inbound_,
                     live, issued>>,
         stream' \in {stream, session_id},
         result = "terminated" => call[c].ran = 0 /\ (~crossed => stream' = None),
         result = "error" /\ Sent(call[c]) = "initialize" /\ ~crossed => stream' = None
  PROVE  NativeInv'
<1>1. /\ Moves(c)
      /\ Record(call'[c], "returned", call[c].kind, call[c].sending, result,
                call[c].ran, None, "none", None)
  BY UnderWay, ReturnsIs, Zenon
<1>2. Sent(call'[c]) = Sent(call[c]) /\ call'[c].at = "returned"
  BY <1>1, Zenon DEF Record, Sent
<1>3. Shaped(call'[c]) /\ Once(call'[c])
  BY <1>1, <1>2, UnderWay, Zenon DEF Record, Shaped, Once, Unhandled, Over, Fields
<1>4. ~crossed => Tied(call'[c], stream')
  BY <1>1, <1>2, UnderWay, Zenon DEF Record, Tied, Over
<1>5. ~crossed /\ Untouched => Early(call'[c])
  BY <1>1, UnderWay, Zenon DEF Record, Early, Over
<1>6. (Untouched' <=> Untouched) /\ LiveInv' /\ PendingInv' /\ \A e : PostedIn(e)' <=> PostedIn(e)
  BY UnderWay, LiveStays, Zenon DEF Untouched, PendingInv, PostedIn
<1>7. ~crossed => \E e : Fits(c, e)'
  BY <1>2, <1>6, UnderWay, Zenon DEF Fits, InSession
<1>8. ~crossed' => TieHolds(c)
  BY <1>4, <1>5, <1>6, <1>7, UnderWay, Zenon DEF TieHolds
<1>9. ~crossed' => ~crossed /\ Alone(c)
  BY Zenon DEF Alone
<1> QED
  BY <1>1, <1>2, <1>3, <1>6, <1>8, <1>9, MoveKeeps, Zenon DEF Enqueues, Over, Gone

\* The request is sent again, with a flag that it was.
LEMMA ResendsKeep ==
  ASSUME NativeInv, NEW c \in Callers, call[c].at \notin Over, NEW flag, Resends(c, flag),
         UNCHANGED <<front, last_initialize_params_, session_id, stream, crossed, pending,
                     inbound_, live, issued>>,
         call[c].ran = 0,
         Sent(call[c]) = "initialize" /\ ~crossed => stream = None
  PROVE  NativeInv'
<1>1. /\ Moves(c)
      /\ Record(call'[c], "post", call[c].kind, call[c].sending, call[c].result,
                call[c].ran, None, "none", None)
  BY UnderWay, ResendsIs, Zenon
<1>2. Sent(call'[c]) = Sent(call[c])
  BY <1>1, Zenon DEF Record, Sent
<1>3. Shaped(call'[c]) /\ Once(call'[c])
  BY <1>1, UnderWay, Zenon DEF Record, Shaped, Once, Over, Fields
<1>4. ~crossed => Tied(call'[c], stream)
  BY <1>1, <1>2, UnderWay, Zenon DEF Record, Tied, Over
<1>5. ~crossed /\ Untouched => Early(call'[c])
  BY <1>1, UnderWay, Zenon DEF Record, Early, Over
<1>6. LiveInv' /\ \A e : InSession(call'[c], e)
  BY <1>1, UnderWay, LiveStays, Zenon DEF Record, InSession
<1> QED
  BY <1>1, <1>3, <1>4, <1>5, <1>6, QuietMove, Zenon DEF Enqueues, Record

LEMMA RefusalsKeep ==
  ASSUME NativeInv, NEW c \in Callers, UNCHANGED inbound_,
         AnswerLost(c) \/ AnswerNonce(c) \/ AnswerUnauthorized(c) \/ StreamJoined(c)
  PROVE  NativeInv'
<1>1. /\ call[c].at \in {"answered", "joining"} /\ call[c].at \notin Over
      /\ UNCHANGED <<front, last_initialize_params_, session_id, stream, crossed, pending,
                     inbound_, live, issued>>
  BY Zenon DEF AnswerLost, AnswerNonce, AnswerUnauthorized, StreamJoined, At, options, transport,
       server, Over
<1>2. CASE \E result \in {"failed", "unauthorized"} : Returns(c, result)
  <2>1. PICK result \in {"failed", "unauthorized"} : Returns(c, result)
    BY <1>2, Zenon
  <2> QED
    BY <1>1, <2>1, ReturnsKeep, Zenon
<1>3. ASSUME call[c].at = "joining" \/ call[c].status \in {"nonce", "token"}
      PROVE  /\ call[c].ran = 0 /\ (Sent(call[c]) = "initialize" /\ ~crossed => stream = None)
             /\ call[c].at = "joining" /\ ~crossed => stream = None
  BY <1>1, <1>3, UnderWay, Zenon DEF Once, Unhandled, Tied, Over
<1>4. CASE (call[c].at = "joining" \/ call[c].status \in {"nonce", "token"})
           /\ \E flag : Resends(c, flag)
  <2>1. PICK flag : Resends(c, flag)
    BY <1>4, Zenon
  <2> QED
    BY <1>1, <1>3, <1>4, <2>1, ResendsKeep, Zenon
<1>5. CASE call[c].at = "joining" /\ Returns(c, "terminated")
  BY <1>1, <1>3, <1>5, ReturnsKeep, Zenon
<1> QED
  BY <1>2, <1>4, <1>5, Zenon DEF AnswerLost, AnswerNonce, AnswerUnauthorized, StreamJoined, At,
       refresh_bearer_token_once, is_dpop_nonce_challenge, Unauthorized

\* 404: the session and its stream are dropped together.
LEMMA UnknownKeeps ==
  ASSUME NativeInv, NEW c \in Callers, UNCHANGED inbound_,
         AnswerUnknown(c)
  PROVE  NativeInv'
<1>1. /\ call[c].at = "answered" /\ call[c].at \notin Over /\ call[c].status = "unknown"
      /\ session_id' = None /\ stream' = None
      /\ UNCHANGED <<front, last_initialize_params_, crossed, pending, live, issued>>
  BY Zenon DEF AnswerUnknown, At, Over, reset_session, options, server
<1>2. /\ Moves(c)
      /\ Record(call'[c], "joining", call[c].kind, call[c].sending, call[c].result,
                call[c].ran, call[c].header, call[c].status, call[c].session)
  <2>1. Moves(c) /\ Fields \subseteq DOMAIN call[c]
        /\ call'[c] = [call[c] EXCEPT !.at = "joining", !.joins = stream]
    BY <1>1, UnderWay, Running1, Zenon DEF AnswerUnknown, Moves
  <2> QED
    BY <2>1, Zenon DEF Record, Fields
<1>3. Shaped(call'[c]) /\ Once(call'[c])
  BY <1>1, <1>2, UnderWay, Zenon DEF Record, Shaped, Once, Unhandled, Over, Fields
<1>4. ~crossed => Tied(call'[c], stream')
  BY <1>1, <1>2, UnderWay, Zenon DEF Record, Tied, Over
<1>5. ~crossed /\ Untouched => Early(call'[c])
  BY <1>1, <1>2, UnderWay, Zenon DEF Record, Early, Over
<1>6. (Untouched' <=> Untouched) /\ LiveInv' /\ PendingInv' /\ \A e : PostedIn(e)' <=> PostedIn(e)
  BY <1>1, UnderWay, LiveStays, Zenon DEF Untouched, PendingInv, PostedIn
<1>f. ~crossed => \E e : Fits(c, e)'
  BY <1>1, <1>2, <1>6, UnderWay, Zenon DEF Fits, InSession, Record
<1>7. ~crossed' => TieHolds(c)
  BY <1>1, <1>4, <1>5, <1>6, <1>f, UnderWay, Zenon DEF TieHolds
<1>8. ~crossed' => ~crossed /\ Alone(c)
  BY <1>1, Zenon DEF Alone
<1>g. call[c].at \notin Gone
  BY <1>1, Zenon DEF Over, Gone
<1> QED
  BY <1>g, <1>2, <1>3, <1>6, <1>7, <1>8, MoveKeeps, Zenon DEF Enqueues

\* An answer's session becomes the transport's.  The stream belongs to it, or
\* there is none; a session that is new comes in alone.
LEMMA RememberKeeps ==
  ASSUME NativeInv, NEW c \in Callers, UNCHANGED inbound_, Remember(c)
  PROVE  NativeInv'
<1> DEFINE place == IF OnWire(c) = "initialized" THEN "stream" ELSE "decode"
           s == call[c].session
<1>1. /\ call[c].at = "answered" /\ call[c].at \notin Over
      /\ session_id' = IF s = None THEN session_id ELSE s
      /\ UNCHANGED <<front, last_initialize_params_, stream, pending, live, issued>>
      /\ crossed' = (crossed \/ Overtakes(c))
      /\ OnWire(c) = Sent(call[c]) /\ Goes(c, place)
  BY Zenon DEF Remember, remember_session, At, Over, options, server, OnWire, Sent
<1>2. /\ Moves(c)
      /\ Record(call'[c], place, call[c].kind, call[c].sending, call[c].result,
                call[c].ran, call[c].header, call[c].status, call[c].session)
  BY <1>1, UnderWay, GoesIs, Zenon
<1>3. /\ place \in {"stream", "decode"} /\ Sent(call'[c]) = Sent(call[c])
      /\ place = "stream" => Sent(call[c]) # "initialize"
  BY <1>1, <1>2, Zenon DEF Record, Sent
<1>o. ~crossed' => ~crossed /\ (s \in {None, session_id}
                                \/ \A k \in DOMAIN pending : pending[k].at # "posted")
  BY <1>1, Zenon DEF Overtakes
<1> HIDE DEF place
<1>4. Shaped(call'[c]) /\ Once(call'[c])
  BY <1>1, <1>2, <1>3, UnderWay, Zenon DEF Record, Shaped, Once, Unhandled, Over, Fields
<1>5. ~crossed => Tied(call'[c], stream') /\ stream' \in {None, session_id'}
  <2> SUFFICES ASSUME ~crossed PROVE Tied(call'[c], stream') /\ stream' \in {None, session_id'}
    BY Zenon
  <2>1. Tied(call[c], stream) /\ stream \in {None, session_id}
    BY UnderWay, Zenon
  <2>2. PICK e : Fits(c, e)
    BY UnderWay, Zenon
  <2>3. stream = None \/ session_id' = session_id
    BY <1>1, <2>1, <2>2, Zenon DEF Tied, Fits, InSession
  <2> QED
    BY <1>1, <1>2, <1>3, <2>1, <2>3, Zenon DEF Record, Tied, Over
<1>6. ~crossed /\ Untouched => session_id' = None /\ PostedIn(None) /\ Early(call'[c])
  BY <1>1, <1>2, <1>3, UnderWay, Zenon DEF Record, Early, Over
<1>7. (Untouched' <=> Untouched) /\ LiveInv' /\ PendingInv' /\ \A e : PostedIn(e)' <=> PostedIn(e)
  BY <1>1, UnderWay, LiveStays, Zenon DEF Untouched, PendingInv, PostedIn
<1>f. ~crossed' => \E e : Fits(c, e)'
  <2> SUFFICES ASSUME ~crossed' PROVE \E e : Fits(c, e)'
    BY Zenon
  <2>1. \A e : InSession(call'[c], e)
    BY <1>2, <1>3, Zenon DEF InSession, Record
  <2>2. CASE s \in {None, session_id}
    <3>1. PICK e : Fits(c, e)
      BY <1>o, UnderWay, Zenon
    <3> QED
      BY <1>1, <1>7, <2>1, <2>2, <3>1, Zenon DEF Fits
  <2>3. CASE s # None /\ \A k \in DOMAIN pending : pending[k].at # "posted"
    <3>1. \A e : PostedIn(e)
      BY <2>3, UnderWay, Zenon DEF PendingInv, PostedIn
    <3>2. PICK new : new = s
      BY Zenon
    <3>3. session_id' \in {None, new} /\ PostedIn(new)'
      BY <1>1, <1>7, <2>3, <3>1, <3>2, Zenon
    <3> QED
      BY <2>1, <3>3, Zenon DEF Fits
  <2> QED
    BY <1>o, <2>2, <2>3, Zenon
<1>8. ~crossed' => TieHolds(c)
  BY <1>1, <1>5, <1>6, <1>7, <1>f, <1>o, Zenon DEF TieHolds
<1>9. ~crossed' => ~crossed /\ Alone(c)
  BY <1>1, <1>o, Zenon DEF Alone
<1>g. call[c].at \notin Gone
  BY <1>1, Zenon DEF Over, Gone
<1> QED
  BY <1>g, <1>2, <1>3, <1>4, <1>7, <1>8, <1>9, MoveKeeps, Zenon DEF Enqueues

\* A call that has its answer goes to another place.
LEMMA GoesKeep ==
  ASSUME NativeInv, NEW c \in Callers, NEW place, Goes(c, place),
         UNCHANGED <<front, last_initialize_params_, session_id, stream, crossed, live, issued>>,
         UNCHANGED pending \/ PendingStays, Enqueues,
         \/ call[c].at = "decode" /\ place = "stream" /\ call[c].status = "ok"
         \/ call[c].at = "decode" /\ place = "asked"
         \/ call[c].at = "returned" /\ place = "enqueue"
  PROVE  NativeInv'
<1>1. call[c].at \notin Over /\ place \in {"stream", "asked", "enqueue"}
  BY Zenon DEF Over
<1>2. /\ Moves(c)
      /\ Record(call'[c], place, call[c].kind, call[c].sending, call[c].result,
                call[c].ran, call[c].header, call[c].status, call[c].session)
  BY <1>1, UnderWay, GoesIs, Zenon
<1>3. Sent(call'[c]) = Sent(call[c])
  BY <1>2, Zenon DEF Record, Sent
<1>4. Shaped(call'[c]) /\ Once(call'[c])
  BY <1>1, <1>2, <1>3, UnderWay, Zenon DEF Record, Shaped, Once, Unhandled, Over, Fields
<1>5. ~crossed => Tied(call'[c], stream)
  BY <1>1, <1>2, <1>3, UnderWay, Zenon DEF Record, Tied, Over
<1>6. ~crossed /\ Untouched => Early(call'[c])
  BY <1>1, <1>2, UnderWay, Zenon DEF Record, Early, Over
<1>7. LiveInv' /\ call'[c].at # "idle" /\ \A e : InSession(call'[c], e)
  BY <1>1, <1>2, UnderWay, LiveStays, Zenon DEF Record, InSession
<1> QED
  BY <1>1, <1>2, <1>4, <1>5, <1>6, <1>7, QuietMove, Zenon

LEMMA DecodeKeeps ==
  ASSUME NativeInv, NEW c \in Callers, UNCHANGED inbound_,
         Decode(c)
  PROVE  NativeInv'
<1>1. /\ call[c].at = "decode" /\ call[c].at \notin Over
      /\ UNCHANGED <<front, last_initialize_params_, session_id, stream, crossed, pending,
                     inbound_, live, issued>>
  BY Zenon DEF Decode, At, Over, options, server
<1>2. CASE call[c].status = "refused" /\ Returns(c, "error")
  <2>1. Sent(call[c]) = "initialize" /\ ~crossed => stream = None
    BY <1>1, <1>2, UnderWay, Zenon DEF Tied
  <2> QED
    BY <1>1, <1>2, <2>1, ReturnsKeep, Zenon
<1>3. CASE Returns(c, "failed")
  BY <1>1, <1>3, ReturnsKeep, Zenon
<1>4. CASE Returns(c, "ok")
  BY <1>1, <1>4, ReturnsKeep, Zenon
<1>5. CASE call[c].status = "ok" /\ Goes(c, "stream")
  BY <1>1, <1>5, GoesKeep, Zenon DEF Enqueues
<1> QED
  BY <1>2, <1>3, <1>4, <1>5, Zenon DEF Decode

LEMMA StreamKeeps ==
  ASSUME NativeInv, NEW c \in Callers, UNCHANGED inbound_,
         EnsureStreamStarted(c)
  PROVE  NativeInv'
<1>1. /\ call[c].at = "stream" /\ call[c].at \notin Over /\ stream' \in {stream, session_id}
      /\ UNCHANGED <<front, last_initialize_params_, session_id, crossed, pending, live, issued>>
  BY Zenon DEF EnsureStreamStarted, At, Over, options, server
<1>2. CASE call[c].status = "ok" /\ Returns(c, "ok")
  BY <1>1, <1>2, ReturnsKeep, Zenon
<1>3. CASE call[c].status # "ok" /\ Returns(c, "error")
  <2>1. ~crossed => Sent(call[c]) # "initialize"
    BY <1>1, <1>3, UnderWay, Zenon DEF Tied
  <2> QED
    BY <1>1, <1>3, <2>1, ReturnsKeep, Zenon
<1> QED
  BY <1>2, <1>3, Zenon DEF EnsureStreamStarted

-----------------------------------------------------------------------------
(* What drives the transport.                                              *)

LEMMA LeavesKeep ==
  ASSUME NativeInv, NEW c \in Callers, call[c].at \notin Over,
         NEW place \in Gone, Leaves(c, place),
         UNCHANGED <<front, last_initialize_params_, session_id, stream, crossed, pending,
                     live, issued>>, Enqueues
  PROVE  NativeInv'
<1>1. /\ Moves(c) /\ call'[c].at = place /\ call'[c].ran = call[c].ran
      /\ {"at", "ran"} \subseteq DOMAIN call'[c]
  BY UnderWay, LeavesIs, Zenon
<1>2. Shaped(call'[c]) /\ Once(call'[c]) /\ call'[c].at # "idle"
  BY <1>1, UnderWay, Zenon DEF Shaped, Once, Unhandled, Over, Gone
<1>3. /\ Tied(call'[c], stream) /\ Early(call'[c]) /\ LiveInv'
      /\ \A e : InSession(call'[c], e)
  BY <1>1, UnderWay, LiveStays, Zenon DEF Tied, Early, Over, InSession, Gone
<1> QED
  BY <1>1, <1>2, <1>3, QuietMove, Zenon

\* The next request of a call.
LEMMA SendsKeep ==
  ASSUME NativeInv, NEW c \in Callers, call[c].at \notin Over,
         NEW what \in Sendings, NEW recovered, Sends(c, what, recovered),
         UNCHANGED <<front, last_initialize_params_, session_id, stream, crossed, pending,
                     inbound_, live, issued>>,
         call[c].ran = 0,
         ~crossed /\ what \in {"lazy", "again"} => call[c].kind # "initialize",
         ~crossed /\ (what # "main" \/ call[c].kind = "initialize") => stream = None,
         ~crossed /\ Untouched => FALSE
  PROVE  NativeInv'
<1>1. /\ Moves(c)
      /\ Record(call'[c], "post", call[c].kind, what, "none",
                call[c].ran, call[c].header, call[c].status, call[c].session)
  BY UnderWay, SendsIs, Zenon
<1>2. Shaped(call'[c]) /\ Once(call'[c])
  BY <1>1, Zenon DEF Record, Shaped, Once, Over, Fields
<1>3. ~crossed => Tied(call'[c], stream)
  BY <1>1, Zenon DEF Record, Tied, Sent, Over
<1>4. LiveInv' /\ call'[c].at # "idle" /\ \A e : InSession(call'[c], e)
  BY <1>1, UnderWay, LiveStays, Zenon DEF Record, InSession
<1> QED
  BY <1>1, <1>2, <1>3, <1>4, QuietMove, Zenon DEF Enqueues

\* send_rpc_request and initialize(): a request is repeated only when its
\* session was lost, which the server says instead of handling it.
LEMMA SendReturnsKeeps ==
  ASSUME NativeInv, NEW c \in Callers, UNCHANGED inbound_,
         SendReturns(c) \/ Renegotiates(c) \/ SetNegotiatedVersion(c)
  PROVE  NativeInv'
<1>1. /\ call[c].at = "returned" /\ call[c].at \notin Over /\ call[c].sending \in Sendings
      /\ UNCHANGED <<front, last_initialize_params_, session_id, stream, crossed, pending,
                     inbound_, live, issued>>
  BY UnderWay, Zenon DEF SendReturns, Renegotiates, SetNegotiatedVersion, At, Over, options,
       transport, server, Shaped
<1>2. /\ Sent(call[c]) = "initialize" \/ call[c].result = "terminated" => call[c].ran = 0
      /\ ~crossed /\ call[c].sending \in {"lazy", "again"} => call[c].kind # "initialize"
      /\ ~crossed /\ call[c].result = "terminated" => stream = None
      /\ ~crossed /\ Sent(call[c]) = "initialize" /\ call[c].result = "error" => stream = None
      /\ ~crossed /\ Untouched => call[c].kind = "initialized" /\ call[c].sending = "main"
  BY <1>1, UnderWay, Zenon DEF Once, Unhandled, Tied, Early
<1>3. CASE Ends(c)
  BY <1>1, <1>3, LeavesKeep, Zenon DEF Ends, Enqueues, Gone
<1>4. CASE call[c].sending \in {"lazy", "again"} /\ \E recovered : Sends(c, "main", recovered)
  <2>1. PICK recovered : Sends(c, "main", recovered)
    BY <1>4, Zenon
  <2>2. "main" \in Sendings /\ call[c].ran = 0 /\ (~crossed => call[c].kind # "initialize")
        /\ ~(~crossed /\ Untouched)
    BY <1>2, <1>4, Zenon DEF Sendings, Sent
  <2> QED
    BY <1>1, <2>1, <2>2, SendsKeep, Zenon
<1>5. CASE /\ call[c].sending \in {"main", "version"} /\ Recovers(c)
           /\ Sends(c, IF OnWire(c) = "initialize" THEN call[c].sending ELSE "again", TRUE)
  <2> DEFINE what == IF OnWire(c) = "initialize" THEN call[c].sending ELSE "again"
  <2>1. what \in Sendings /\ Sends(c, what, TRUE) /\ call[c].result = "terminated"
        /\ call[c].kind # "initialized"
    BY <1>5, Zenon DEF Recovers, is_session_terminated_error, Sendings
  <2>2. what \in {"lazy", "again"} => call[c].kind # "initialize"
    BY <1>5, Zenon DEF OnWire
  <2> HIDE DEF what
  <2> QED
    BY <1>1, <1>2, <2>1, <2>2, SendsKeep, Zenon
<1>6. CASE Renegotiates(c)
  <2>1. /\ Sends(c, "version", FALSE) /\ "version" \in Sendings
        /\ call[c].kind = "initialize" /\ Sent(call[c]) = "initialize" /\ call[c].result = "error"
    BY <1>6, Zenon DEF Renegotiates, Sendings, Sent
  <2>2. ~(~crossed /\ Untouched)
    BY <1>2, <2>1, Zenon
  <2> QED
    BY <1>1, <1>2, <2>1, <2>2, SendsKeep, Zenon
<1>7. CASE SendReturns(c)
  <2>1. CASE call[c].sending = "lazy"
    BY <1>4, <1>7, <2>1, Zenon DEF SendReturns
  <2>2. CASE call[c].sending = "again"
    BY <1>3, <1>4, <1>7, <2>2, Zenon DEF SendReturns
  <2>3. CASE call[c].sending \in {"main", "version"}
    BY <1>3, <1>5, <1>7, <2>3, Zenon DEF SendReturns
  <2> QED
    BY <1>1, <2>1, <2>2, <2>3, Zenon DEF Sendings
<1> QED
  BY <1>3, <1>6, <1>7, Zenon DEF SetNegotiatedVersion

\* A call that is not under way stays so.
LEMMA RestKeeps ==
  ASSUME NativeInv, NEW c \in Callers, Moves(c), call[c].at \in Over,
         call'[c].at \in Over \ {"idle"}, call'[c].ran \in {0, 1},
         call'[c].at = "unstarted" => call'[c].ran = 0,
         {"at", "ran"} \subseteq DOMAIN call'[c], QueueInv',
         UNCHANGED <<front, last_initialize_params_, session_id, stream, crossed, pending,
                     live, issued>>
  PROVE  NativeInv'
<1>1. Shaped(call'[c]) /\ Once(call'[c])
  BY Zenon DEF Shaped, Once, Unhandled, Over
<1>2. ShapeInv' /\ \A d \in Callers : Once(call'[d])
  BY <1>1, Zenon DEF NativeInv, ShapeInv, Moves
<1>3. LiveInv' /\ PendingInv' /\ (Untouched' <=> Untouched) /\ \A e : PostedIn(e)' <=> PostedIn(e)
  BY LiveStays, Zenon DEF NativeInv, PendingInv, Untouched, PostedIn
<1>4. FollowInv'
  <2> SUFFICES ASSUME ~crossed
               PROVE  /\ \A d, e \in Callers :
                           call'[d].at \notin Over /\ call'[e].at \notin Over => d = e
                      /\ stream' \in {None, session_id'}
                      /\ \A d \in Callers : Tied(call'[d], stream')
                      /\ \E e : /\ session_id' \in {None, e} /\ PostedIn(e)'
                                /\ \A d \in Callers : InSession(call'[d], e)
                      /\ Untouched' => /\ session_id' = None /\ PostedIn(None)'
                                       /\ \A d \in Callers : Early(call'[d])
    BY Zenon DEF FollowInv
  <2>1. /\ \A d, e \in Callers : call[d].at \notin Over /\ call[e].at \notin Over => d = e
        /\ stream \in {None, session_id} /\ \A d \in Callers : Tied(call[d], stream)
        /\ Untouched => /\ session_id = None /\ PostedIn(None)
                        /\ \A d \in Callers : Early(call[d])
    BY Zenon DEF NativeInv, FollowInv
  <2>2. PICK e : /\ session_id \in {None, e} /\ PostedIn(e)
                 /\ \A d \in Callers : InSession(call[d], e)
    BY Zenon DEF NativeInv, FollowInv
  <2>3. \A d \in Callers : d = c \/ call'[d] = call[d]
    BY Zenon DEF Moves
  <2>4. call'[c].at \in Over /\ Tied(call'[c], stream) /\ Early(call'[c]) /\ InSession(call'[c], e)
    BY Zenon DEF Over, Tied, Early, InSession
  <2>5. \A d, f \in Callers : call'[d].at \notin Over /\ call'[f].at \notin Over => d = f
    BY <2>1, <2>3, <2>4, Zenon
  <2>6. session_id' \in {None, e} /\ PostedIn(e)' /\ \A d \in Callers : InSession(call'[d], e)
    BY <1>3, <2>2, <2>3, <2>4, Zenon
  <2>7. Untouched' => /\ session_id' = None /\ PostedIn(None)'
                      /\ \A d \in Callers : Early(call'[d])
    BY <1>3, <2>1, <2>3, <2>4, Zenon
  <2>8. stream' \in {None, session_id'} /\ \A d \in Callers : Tied(call'[d], stream')
    BY <2>1, <2>3, <2>4, Zenon
  <2> QED
    BY <2>5, <2>6, <2>7, <2>8, Zenon
<1> QED
  BY <1>2, <1>3, <1>4, Zenon DEF NativeInv

\* No call moves.
LEMMA StillKeeps ==
  ASSUME NativeInv, UNCHANGED <<call, front, last_initialize_params_, crossed>>,
         LiveInv', PendingInv', Enqueues,
         ~crossed => /\ stream' \in {None, session_id'} /\ stream' \in {None, stream}
                     /\ \A e : session_id \in {None, e} /\ PostedIn(e)
                                 => session_id' \in {None, e} /\ PostedIn(e)'
  PROVE  NativeInv'
<1>1. ShapeInv' /\ (\A c \in Callers : Once(call'[c])) /\ QueueInv'
  BY QueueKeeps, Zenon DEF NativeInv, ShapeInv
<1>2. FollowInv'
  <2> SUFFICES ASSUME ~crossed PROVE FollowInv'
    BY Zenon DEF FollowInv
  <2>1. \A c \in Callers : Tied(call'[c], stream')
    BY Zenon DEF NativeInv, FollowInv, Tied
  <2>2. Untouched' => session_id' = None /\ PostedIn(None)' /\ \A c \in Callers : Early(call'[c])
    <3> SUFFICES ASSUME Untouched
                 PROVE  session_id' = None /\ PostedIn(None)' /\ \A c \in Callers : Early(call[c])
      BY Zenon DEF Untouched
    <3>1. session_id = None /\ PostedIn(None) /\ \A c \in Callers : Early(call[c])
      BY Zenon DEF NativeInv, FollowInv
    <3>2. session_id' \in {None, None} /\ PostedIn(None)'
      BY <3>1, Zenon
    <3> QED
      BY <3>1, <3>2, Zenon
  <2>3. PICK e : /\ session_id \in {None, e} /\ PostedIn(e)
                 /\ \A c \in Callers : InSession(call[c], e)
    BY Zenon DEF NativeInv, FollowInv
  <2>4. session_id' \in {None, e} /\ PostedIn(e)' /\ \A c \in Callers : InSession(call'[c], e)
    BY <2>3, Zenon
  <2>5. \A c, d \in Callers : call'[c].at \notin Over /\ call'[d].at \notin Over => c = d
    BY Zenon DEF NativeInv, FollowInv
  <2> QED
    BY <2>1, <2>2, <2>4, <2>5, Zenon DEF FollowInv
<1> QED
  BY <1>1, <1>2, Zenon DEF NativeInv

-----------------------------------------------------------------------------
(* Server requests: a response names the session that is remembered when   *)
(* it is posted, and what its answer names is remembered.                  *)

LEMMA AddedStays ==
  ASSUME PendingInv, NEW k, NEW at, NEW id, NEW session \in {None, session_id},
         at # "posted" => session = None, pending' = Added(k, Request(at, id, session))
  PROVE  PendingStays
<1>1. /\ DOMAIN pending' = DOMAIN pending \cup {k}
      /\ pending'[k].at = at /\ pending'[k].session = session
      /\ \A j \in DOMAIN pending : j # k => pending'[j] = pending[j]
  BY Zenon DEF Added, Request
<1>2. PendingInv'
  BY <1>1, Zenon DEF PendingInv
<1>3. ASSUME NEW e, session_id \in {None, e} /\ PostedIn(e) PROVE PostedIn(e)'
  <2> SUFFICES ASSUME NEW j \in DOMAIN pending' PROVE pending'[j].session \in {None, e}
    BY Zenon DEF PostedIn
  <2>1. CASE j = k
    BY <1>1, <1>3, <2>1, Zenon
  <2>2. CASE j # k
    BY <1>1, <1>3, <2>2, Zenon DEF PostedIn
  <2> QED
    BY <2>1, <2>2, Zenon
<1>4. \A e : session_id \in {None, e} /\ PostedIn(e) => PostedIn(e)'
  BY <1>3, Zenon
<1> QED
  BY <1>2, <1>4, Zenon DEF PendingStays

\* A handler answers, and what its answer names is under way.
LEMMA PostResponseKeeps ==
  ASSUME NativeInv, NEW k, post_response(k), UNCHANGED inbound_
  PROVE  NativeInv'
<1>1. UNCHANGED <<call, front, last_initialize_params_, crossed, session_id, stream, live, issued>>
  BY Zenon DEF post_response, options, transport, server
<1>2. PendingStays
  <2>1. CASE pending' = Added(k, Request("failed", pending[k].id, None))
    BY <2>1, AddedStays, Zenon DEF NativeInv
  <2>2. ASSUME NEW named \in {None, session_id},
               pending' = Added(k, Request("posted", pending[k].id, named))
        PROVE  PendingStays
    BY <2>2, AddedStays, Zenon DEF NativeInv
  <2> QED
    BY <2>1, <2>2, Zenon DEF post_response, Named, make_headers
<1>3. ~crossed => stream \in {None, session_id}
  BY Zenon DEF NativeInv, FollowInv
<1> QED
  BY <1>1, <1>2, <1>3, LiveStays, StillKeeps, Zenon DEF NativeInv, PendingStays, Enqueues

\* The answer has come and the entry goes.
LEMMA ResponsePostedIs ==
  ASSUME NativeInv, NEW k, ResponsePosted(k)
  PROVE  /\ UNCHANGED <<front, last_initialize_params_, crossed, stream, live, issued>>
         /\ PendingInv'
         /\ ~crossed => stream \in {None, session_id'}
         /\ ~crossed => \A e : session_id \in {None, e} /\ PostedIn(e)
                                 => session_id' \in {None, e} /\ PostedIn(e)'
<1>1. /\ UNCHANGED <<front, last_initialize_params_, crossed, stream, live, issued>>
      /\ k \in DOMAIN pending /\ pending' = Restrict(pending, DOMAIN pending \ {k})
      /\ session_id' = IF pending[k].session = None THEN session_id ELSE pending[k].session
  BY Zenon DEF ResponsePosted, remember_session, Without, options, server
<1>2. DOMAIN pending' \subseteq DOMAIN pending /\ \A j \in DOMAIN pending' : pending'[j] = pending[j]
  BY <1>1, Zenon DEF Restrict
<1>3. PendingInv' /\ \A e : PostedIn(e) => PostedIn(e)'
  BY <1>2, Zenon DEF NativeInv, PendingInv, PostedIn
<1>4. \A e : session_id \in {None, e} /\ PostedIn(e) => session_id' \in {None, e}
  BY <1>1, Zenon DEF PostedIn
<1>5. ASSUME ~crossed PROVE stream \in {None, session_id'}
  <2>1. PICK e : /\ session_id \in {None, e} /\ PostedIn(e)
                 /\ \A c \in Callers : InSession(call[c], e)
    BY <1>5, Zenon DEF NativeInv, FollowInv
  <2>2. stream \in {None, session_id} /\ pending[k].session \in {None, e}
    BY <1>1, <1>5, <2>1, Zenon DEF NativeInv, FollowInv, PostedIn
  <2> QED
    BY <1>1, <2>1, <2>2, Zenon
<1> QED
  BY <1>1, <1>3, <1>4, <1>5, Zenon

LEMMA StreamPostedKeeps ==
  ASSUME NativeInv, NEW s, StreamPosted(s), UNCHANGED inbound_
  PROVE  NativeInv'
<1>1. ResponsePosted(s) /\ UNCHANGED call
  BY Zenon DEF StreamPosted
<1> QED
  BY <1>1, ResponsePostedIs, LiveStays, StillKeeps, Zenon DEF NativeInv, Enqueues

LEMMA BodyPostedKeeps ==
  ASSUME NativeInv, NEW c \in Callers, BodyPosted(c), UNCHANGED inbound_
  PROVE  NativeInv'
<1>1. ResponsePosted(c) /\ call[c].at = "asked" /\ call[c].at \notin Over
  BY Zenon DEF BodyPosted, At, Over
<1>2. /\ Moves(c) /\ Fields \subseteq DOMAIN call'[c]
      /\ call'[c].kind = call[c].kind /\ call'[c].sending = call[c].sending
      /\ call'[c].ran = call[c].ran
      /\ \/ call'[c].at = "decode" /\ call'[c].status = call[c].status
         \/ call'[c].at = "returned" /\ call'[c].result = "failed"
  <2>1. CASE Returns(c, "failed")
    BY <1>1, <2>1, UnderWay, ReturnsIs, Zenon DEF Record
  <2>2. CASE call' = [call EXCEPT ![c].asks = FALSE, ![c].at = "decode"]
    <3>1. Moves(c) /\ Fields \subseteq DOMAIN call[c]
          /\ call'[c] = [call[c] EXCEPT !.asks = FALSE, !.at = "decode"]
      BY <1>1, <2>2, UnderWay, Running1, Zenon DEF Moves
    <3> QED
      BY <3>1, Zenon DEF Fields
  <2> QED
    BY <2>1, <2>2, Zenon DEF BodyPosted
<1>3. Sent(call'[c]) = Sent(call[c]) /\ call'[c].at # "idle" /\ \A e : InSession(call'[c], e)
  BY <1>2, Zenon DEF Sent, InSession
<1>4. Shaped(call'[c]) /\ Once(call'[c])
  BY <1>1, <1>2, <1>3, UnderWay, Zenon DEF Shaped, Once, Unhandled, Over, Fields
<1>5. ~crossed => Tied(call'[c], stream)
  BY <1>1, <1>2, <1>3, UnderWay, Zenon DEF Tied, Over
<1>6. /\ UNCHANGED <<front, last_initialize_params_, crossed, stream, live, issued>> /\ PendingInv'
      /\ ~crossed => stream \in {None, session_id'}
      /\ ~crossed => \A e : session_id \in {None, e} /\ PostedIn(e)
                              => session_id' \in {None, e} /\ PostedIn(e)'
  BY <1>1, ResponsePostedIs, Zenon
<1>7. ~crossed => \E e : Fits(c, e)'
  BY <1>3, <1>6, UnderWay, Zenon DEF Fits
<1>8. ~crossed /\ Untouched => session_id' = None /\ PostedIn(None)' /\ Early(call'[c])
  <2> SUFFICES ASSUME ~crossed, Untouched
               PROVE  session_id' = None /\ PostedIn(None)' /\ Early(call'[c])
    BY Zenon
  <2>1. session_id = None /\ PostedIn(None) /\ Early(call[c])
    BY UnderWay, Zenon
  <2>2. session_id' \in {None, None} /\ PostedIn(None)'
    BY <1>6, <2>1, Zenon
  <2>3. Early(call'[c])
    BY <1>1, <1>2, <2>1, Zenon DEF Early
  <2> QED
    BY <2>2, <2>3, Zenon
<1>9. ~crossed' => TieHolds(c)
  BY <1>5, <1>6, <1>7, <1>8, Zenon DEF TieHolds, Untouched
<1>10. ~crossed' => ~crossed /\ Alone(c)
  BY <1>1, <1>6, Zenon DEF Alone
<1>11. LiveInv'
  BY <1>6, UnderWay, LiveStays, Zenon
<1>g. call[c].at \notin Gone
  BY <1>1, Zenon DEF Over, Gone
<1> QED
  BY <1>g, <1>2, <1>3, <1>4, <1>6, <1>9, <1>10, <1>11, MoveKeeps, Zenon DEF Enqueues

\* A call begins.  An initialize counts as crossing when there is a session.
LEMMA BeginKeeps ==
  ASSUME NativeInv, NEW c \in Callers, NEW kind, NEW sending \in {"main", "lazy"}, NEW id,
         At(c, "idle"), call' = [call EXCEPT ![c] = NewCall(kind, sending, id)],
         UNCHANGED <<front, session_id, stream, pending, inbound_, live, issued>>,
         ~crossed' => ~crossed /\ Running = {} /\ (kind = "initialize" => session_id = None),
         Untouched' => Untouched /\ kind = "initialized" /\ sending = "main",
         sending = "lazy" => Untouched /\ kind # "initialize"
  PROVE  NativeInv'
<1>1. Moves(c) /\ call'[c] = NewCall(kind, sending, id)
  BY UnderWay, Zenon DEF ShapeInv, Moves
<1>2. Record(call'[c], "post", kind, sending, "none", 0, None, "none", None)
  BY <1>1 DEF NewCall, Record, Fields
<1>3. Shaped(call'[c]) /\ Once(call'[c]) /\ call'[c].at # "idle" /\ \A e : InSession(call'[c], e)
  BY <1>2, Zenon DEF Record, Shaped, Once, Over, Sendings, InSession, Fields
<1>s. ~crossed' /\ (kind = "initialize" \/ sending = "lazy") => stream = None
  BY UnderWay, Zenon
<1>4. ~crossed' => Tied(call'[c], stream)
  BY <1>2, <1>s, Zenon DEF Record, Tied, Sent, Over
<1>5. Untouched' => Early(call'[c])
  BY <1>2, Zenon DEF Record, Early, Over
<1>6. LiveInv' /\ PendingInv' /\ \A e : PostedIn(e)' <=> PostedIn(e)
  BY UnderWay, LiveStays, Zenon DEF PendingInv, PostedIn
<1>f. ~crossed' => \E e : Fits(c, e)'
  BY <1>3, <1>6, UnderWay, Zenon DEF Fits
<1>7. ~crossed' => TieHolds(c)
  BY <1>4, <1>5, <1>6, <1>f, UnderWay, Zenon DEF TieHolds
<1>8. ~crossed' => ~crossed /\ Alone(c)
  BY Zenon DEF Alone
<1> QED
  BY <1>1, <1>3, <1>6, <1>7, <1>8, MoveKeeps, Zenon DEF Enqueues, At, Gone

LEMMA CallKeeps ==
  ASSUME NativeInv, NEW c \in Callers, NEW kind \in AllKinds, Call(c, kind), UNCHANGED inbound_
  PROVE  NativeInv'
<1> DEFINE lazy == kind \in {"ping", "business"} /\ ~last_initialize_params_
           sending == IF lazy THEN "lazy" ELSE "main"
<1>1. /\ call' = [call EXCEPT ![c] = NewCall(kind, sending, None)]
      /\ UNCHANGED <<front, session_id, stream, pending, live, issued>> /\ front = "client"
      /\ At(c, "idle")
  BY Zenon DEF Call, options, transport, server
<1>2. ~crossed' => ~crossed /\ Running = {} /\ (kind = "initialize" => session_id = None)
  BY Zenon DEF Call
<1>3. last_initialize_params_' = (last_initialize_params_ \/ kind # "initialized")
  BY Zenon DEF Call
<1>4. Untouched' => Untouched /\ kind = "initialized" /\ sending = "main"
  BY <1>1, <1>3, Zenon DEF Untouched
<1>5. sending \in {"main", "lazy"} /\ (sending = "lazy" => Untouched /\ kind # "initialize")
  BY <1>1, Zenon DEF Untouched
<1> HIDE DEF sending
<1> QED
  BY <1>1, <1>2, <1>4, <1>5, BeginKeeps, Zenon

LEMMA NativeSendKeeps ==
  ASSUME NativeInv, NEW c \in Callers, NEW kind \in AllKinds, NEW id, NativeSend(c, kind, id)
  PROVE  NativeInv'
<1>1. /\ front = "native" /\ At(c, "idle") /\ call[c].at \in Over \ Gone
      /\ UNCHANGED <<front, last_initialize_params_, session_id, stream, pending, inbound_,
                     live, issued>>
  BY Zenon DEF NativeSend, At, options, transport, server, Over, Gone
<1>2. ~Untouched' /\ ~Untouched
  BY <1>1, Zenon DEF Untouched
<1>3. CASE crossed' = crossed /\ (\/ Refused(c, kind, "duplicate")
                                  \/ call' = [call EXCEPT ![c] =
                                                [NewCall(kind, "main", id) EXCEPT !.at = "unstarted"]])
  <2>1. /\ Moves(c) /\ call'[c].at \in Over \ {"idle"} /\ call'[c].ran = 0
        /\ {"at", "ran"} \subseteq DOMAIN call'[c]
    BY <1>3, UnderWay DEF Refused, NewCall, ShapeInv, Moves, Over
  <2>2. \A d \in Callers : call[d].at \in Gone => call'[d].at \in Gone
    BY <1>1, <2>1, Zenon DEF Moves
  <2>3. QueueInv'
    BY <1>1, <2>2, QueueKeeps, Zenon DEF NativeInv, Enqueues
  <2> QED
    BY <1>1, <1>3, <2>1, <2>3, RestKeeps, Zenon
<1>4. CASE /\ call' = [call EXCEPT ![c] = NewCall(kind, "main", id)]
           /\ ~crossed' => ~crossed /\ Running = {} /\ (kind = "initialize" => session_id = None)
  BY <1>1, <1>2, <1>4, BeginKeeps, Zenon
<1> QED
  BY <1>3, <1>4, Zenon DEF NativeSend

LEMMA ForgetKeeps ==
  ASSUME NativeInv, NEW c \in Callers, forget_request_worker(c)
  PROVE  NativeInv'
<1>1. /\ call[c].at \in Over \ Gone /\ Refused(c, call[c].kind, "failed")
      /\ UNCHANGED <<front, last_initialize_params_, session_id, stream, crossed, pending,
                     inbound_, live, issued>>
  BY Zenon DEF forget_request_worker, At, options, transport, server, Over, Gone
<1>2. /\ Moves(c) /\ call'[c].at \in Over \ {"idle"} /\ call'[c].ran = 0
      /\ {"at", "ran"} \subseteq DOMAIN call'[c]
  BY <1>1, UnderWay DEF Refused, ShapeInv, Moves, Over
<1>3. \A d \in Callers : call[d].at \in Gone => call'[d].at \in Gone
  BY <1>1, <1>2, Zenon DEF Moves
<1>4. QueueInv'
  BY <1>1, <1>3, QueueKeeps, Zenon DEF NativeInv, Enqueues
<1> QED
  BY <1>1, <1>2, <1>4, RestKeeps, Zenon

LEMMA NativeNotifyKeeps ==
  ASSUME NativeInv, NEW c \in Callers, NativeNotify(c)
  PROVE  NativeInv'
<1>1. /\ front = "native" /\ At(c, "idle")
      /\ UNCHANGED <<front, session_id, stream, pending, inbound_, live, issued>>
      /\ call' = [call EXCEPT ![c] = NewCall("initialized", "main", None)]
      /\ ~crossed' => ~crossed /\ Running = {}
  BY Zenon DEF NativeNotify, options, transport, server, native
<1>2. ~Untouched'
  BY <1>1, Zenon DEF Untouched
<1> QED
  BY <1>1, <1>2, BeginKeeps, Zenon

LEMMA StopKeeps ==
  ASSUME NativeInv, UNCHANGED inbound_,
         \/ Stop \/ StopDeletes \/ StopResets \/ StopJoins
         \/ \E s \in Sessions : SessionEnds(s)
  PROVE  NativeInv'
<1>1. LiveInv
  BY Zenon DEF NativeInv
<1>2. LiveInv'
  BY <1>1, Zenon DEF Stop, StopBegins, StopDeletes, StopResets, StopJoins, SessionEnds,
       LiveInv, server, Restrict
<1>3. UNCHANGED <<call, front, last_initialize_params_, crossed, pending>>
  BY Zenon DEF Stop, StopBegins, StopDeletes, StopResets, StopJoins, SessionEnds, options
<1>4. \/ UNCHANGED <<session_id, stream>>
      \/ session_id' = None /\ stream' = None
  BY Zenon DEF Stop, StopBegins, StopDeletes, StopResets, StopJoins, SessionEnds,
       transport, reset_session
<1>5. PendingInv' /\ \A e : PostedIn(e)' <=> PostedIn(e)
  BY <1>3, Zenon DEF NativeInv, PendingInv, PostedIn
<1>6. ~crossed => stream \in {None, session_id}
  BY Zenon DEF NativeInv, FollowInv
<1> QED
  BY <1>2, <1>3, <1>4, <1>5, <1>6, StillKeeps, Zenon DEF Enqueues

\* A server request is taken up: refused at once, or queued for the peer.
LEMMA HandledIs ==
  ASSUME NativeInv, NEW k, NEW id \in ServerIds, handle_server_request(k, id)
  PROVE  PendingStays /\ Enqueues
<1>1. CASE pending' = Added(k, Request("ready", id, None)) /\ UNCHANGED inbound_
  BY <1>1, AddedStays, Zenon DEF NativeInv, Enqueues
<1>2. CASE pending' = Added(k, Request("waiting", id, None)) /\ enqueue(Message("request", id))
  <2>1. PendingStays
    BY <1>2, AddedStays, Zenon DEF NativeInv
  <2>2. Message("request", id) \in Messages /\ Message("request", id).type # "response"
    BY DEF Message, Messages
  <2> QED
    BY <1>2, <2>1, <2>2, Zenon DEF enqueue, Enqueues
<1> QED
  BY <1>1, <1>2, Zenon DEF handle_server_request

\* The message transport: the stream's messages, the peer's responses, close().
LEMMA PeerKeeps ==
  ASSUME NativeInv,
         \/ \E s \in Sessions, id \in ServerIds : StreamAsks(s, id)
         \/ \E s \in Sessions : handle_server_notification(s)
         \/ \E k \in Waiting : complete_server_request(k)
         \/ Close \/ CloseReturned
  PROVE  NativeInv'
<1>1. UNCHANGED <<call, front, last_initialize_params_, crossed, session_id, stream, live, issued>>
  BY Zenon DEF StreamAsks, handle_server_notification, complete_server_request, Close,
       CloseReturned, options, transport, server
<1>2. PendingStays /\ Enqueues
  <2>1. ASSUME NEW s \in Sessions, NEW id \in ServerIds, StreamAsks(s, id)
        PROVE  PendingStays /\ Enqueues
    BY <2>1, HandledIs, Zenon DEF StreamAsks
  <2>2. ASSUME UNCHANGED pending PROVE PendingStays
    BY <2>2, Zenon DEF NativeInv, PendingInv, PendingStays, PostedIn
  <2>3. ASSUME NEW s \in Sessions, handle_server_notification(s) PROVE PendingStays /\ Enqueues
    <3>1. Message("notification", s) \in Messages /\ Message("notification", s).type # "response"
      BY DEF Message, Messages
    <3> QED
      BY <2>2, <2>3, <3>1, Zenon DEF handle_server_notification, enqueue, Enqueues
  <2>4. ASSUME NEW k, complete_server_request(k) PROVE PendingStays /\ Enqueues
    BY <2>4, AddedStays, Zenon DEF complete_server_request, native, Enqueues, NativeInv
  <2>5. CASE Close
    <3>1. pending' = Released /\ UNCHANGED inbound_
      BY <2>5, Zenon DEF Close
    <3>2. /\ DOMAIN pending' = DOMAIN pending
          /\ \A k \in DOMAIN pending :
               \/ pending'[k] = pending[k]
               \/ pending'[k].at = "ready" /\ pending'[k].session = None
      BY <3>1, Zenon DEF Released, Request
    <3> QED
      BY <3>1, <3>2, Zenon DEF NativeInv, PendingInv, PendingStays, PostedIn, Enqueues
  <2>6. CASE CloseReturned
    BY <2>2, <2>6, Zenon DEF CloseReturned, native, Enqueues
  <2> QED
    BY <2>1, <2>3, <2>4, <2>5, <2>6, Zenon
<1>3. ~crossed => stream \in {None, session_id}
  BY Zenon DEF NativeInv, FollowInv
<1> QED
  BY <1>1, <1>2, <1>3, LiveStays, StillKeeps, Zenon DEF NativeInv, PendingStays

\* The handler of the client answers on the stream's thread.
LEMMA ClientStreamKeeps ==
  ASSUME NativeInv, NEW s, ClientStreamHandles(s), UNCHANGED inbound_
  PROVE  NativeInv'
<1>1. UNCHANGED <<call, front, last_initialize_params_, crossed, session_id, stream, live, issued>>
  BY Zenon DEF ClientStreamHandles, options, transport, server
<1>2. PendingStays
  BY AddedStays, Zenon DEF ClientStreamHandles, NativeInv
<1>3. ~crossed => stream \in {None, session_id}
  BY Zenon DEF NativeInv, FollowInv
<1> QED
  BY <1>1, <1>2, <1>3, LiveStays, StillKeeps, Zenon DEF NativeInv, PendingStays, Enqueues

\* receive() takes the oldest message.
LEMMA ReceiveKeeps ==
  ASSUME NativeInv, receive
  PROVE  NativeInv'
<1>1. UNCHANGED <<front, last_initialize_params_, crossed, session_id, stream, pending, live, issued>>
  BY Zenon DEF receive, options, transport, server
<1>2. CASE UNCHANGED <<call, inbound_>>
  <2>1. PendingInv' /\ \A e : PostedIn(e)' <=> PostedIn(e)
    BY <1>1, Zenon DEF NativeInv, PendingInv, PostedIn
  <2>2. ~crossed => stream \in {None, session_id}
    BY Zenon DEF NativeInv, FollowInv
  <2> QED
    BY <1>1, <1>2, <2>1, <2>2, LiveStays, StillKeeps, Zenon DEF NativeInv, Enqueues
<1>3. CASE /\ inbound_ # <<>> /\ inbound_' = Tail(inbound_)
           /\ IF Head(inbound_).type = "response"
              THEN Goes(Head(inbound_).of, "done")
              ELSE UNCHANGED call
  <2> DEFINE m == Head(inbound_)
  <2>1. /\ m \in Messages /\ 1 \in DOMAIN inbound_ /\ inbound_[1] = m
        /\ inbound_' \in Seq(Messages)
        /\ \A i \in DOMAIN inbound_' : i + 1 \in DOMAIN inbound_ /\ inbound_'[i] = inbound_[i + 1]
    BY <1>3 DEF NativeInv, QueueInv
  <2>2. \A i \in DOMAIN inbound_' : inbound_'[i] \in Messages /\ Delivers(inbound_'[i])
    <3>1. \A i \in DOMAIN inbound_' : inbound_'[i] \in Messages
      BY <2>1
    <3> QED
      BY <2>1, <3>1, Zenon DEF NativeInv, QueueInv
  <2>3. \A n \in Messages : n.type = "response" => n.of \in Callers
    BY DEF Messages
  <2> HIDE DEF m
  <2>4. CASE m.type # "response"
    <3>1. UNCHANGED call
      BY <1>3, <2>4, Zenon DEF m
    <3>2. QueueInv'
      BY <2>1, <2>2, <3>1, Zenon DEF QueueInv, Delivers
    <3>3. PendingInv' /\ \A e : PostedIn(e)' <=> PostedIn(e)
      BY <1>1, Zenon DEF NativeInv, PendingInv, PostedIn
    <3> QED
      BY <1>1, <3>1, <3>2, <3>3, LiveStays, Zenon DEF NativeInv, ShapeInv, FollowInv, Untouched
  <2>5. CASE m.type = "response"
    <3> DEFINE c == m.of
    <3>1. c \in Callers /\ call[c].at \in Gone /\ call[c].at # "idle" /\ call[c].at \in Over
      BY <2>1, <2>3, <2>5, Zenon DEF NativeInv, QueueInv, Delivers, Gone, Over
    <3>2. call' = [call EXCEPT ![c].at = "done"] /\ DOMAIN call = Callers
      BY <1>3, <2>5, Zenon DEF m, Goes, NativeInv, ShapeInv
    <3> HIDE DEF c
    <3>3. {"at", "ran"} \subseteq DOMAIN call[c] /\ call[c].ran \in {0, 1}
      BY <3>1, Zenon DEF NativeInv, ShapeInv, Shaped, Once
    <3>4. /\ Moves(c) /\ call'[c].at = "done" /\ call'[c].ran = call[c].ran
          /\ {"at", "ran"} \subseteq DOMAIN call'[c]
      BY <3>1, <3>2, <3>3, Zenon DEF Moves
    <3>5. \A d \in Callers : call[d].at \in Gone => call'[d].at \in Gone
      BY <3>4, Zenon DEF Moves, Gone
    <3>6. QueueInv'
      BY <2>1, <2>2, <2>3, <3>5, Zenon DEF QueueInv, Delivers
    <3> QED
      BY <1>1, <3>1, <3>3, <3>4, <3>6, RestKeeps, Zenon DEF Over
  <2> QED
    BY <2>4, <2>5, Zenon
<1> QED
  BY <1>2, <1>3, Zenon DEF receive

LEMMA WorkerKeeps ==
  ASSUME NativeInv, NEW c \in Callers,
         \/ NotifyReturns(c) \/ WorkerFinishes(c) \/ WorkerEnqueues(c)
         \/ \E id \in ServerIds : BodyAsks(c, id)
         \/ ClientHandles(c) /\ UNCHANGED inbound_
  PROVE  NativeInv'
<1>1. UNCHANGED <<front, last_initialize_params_, session_id, stream, crossed, live, issued>>
  BY Zenon DEF NotifyReturns, WorkerFinishes, WorkerEnqueues, BodyAsks, ClientHandles,
       options, transport, server
<1>2. CASE NotifyReturns(c)
  <2>1. /\ Leaves(c, "done") /\ call[c].at \notin Over /\ UNCHANGED <<pending, inbound_>>
    BY <1>2, Zenon DEF NotifyReturns, Ends, At, Over, native
  <2> QED
    BY <1>1, <2>1, LeavesKeep, Zenon DEF Enqueues, Gone
<1>3. CASE WorkerEnqueues(c)
  <2> DEFINE place == IF closed_ THEN "done" ELSE "queued"
  <2>1. /\ Leaves(c, place) /\ call[c].at \notin Over /\ UNCHANGED pending
        /\ enqueue(Message("response", c)) /\ place \in Gone
    BY <1>3, Zenon DEF WorkerEnqueues, At, Over, Gone
  <2> HIDE DEF place
  <2>2. call'[c].at \in Gone
    BY <2>1, UnderWay, LeavesIs, Zenon
  <2>3. Message("response", c) \in Messages /\ Message("response", c).of = c
    BY DEF Message, Messages
  <2>4. Enqueues
    BY <2>1, <2>2, <2>3, Zenon DEF enqueue, Enqueues
  <2> QED
    BY <1>1, <2>1, <2>4, LeavesKeep, Zenon
<1>4. CASE WorkerFinishes(c)
  BY <1>1, <1>4, GoesKeep, Zenon DEF WorkerFinishes, At, Enqueues
<1>5. ASSUME NEW id \in ServerIds, BodyAsks(c, id) PROVE NativeInv'
  <2>1. PendingStays /\ Enqueues
    BY <1>5, HandledIs, Zenon DEF BodyAsks
  <2> QED
    BY <1>1, <1>5, <2>1, GoesKeep, Zenon DEF BodyAsks, At
<1>6. CASE ClientHandles(c) /\ UNCHANGED inbound_
  <2>1. PendingStays
    BY <1>6, AddedStays, Zenon DEF ClientHandles, NativeInv
  <2> QED
    BY <1>1, <1>6, <2>1, GoesKeep, Zenon DEF ClientHandles, At, Enqueues
<1> QED
  BY <1>2, <1>3, <1>4, <1>5, <1>6, Zenon

-----------------------------------------------------------------------------
LEMMA NativeStarts ==
  NativeInit => NativeInv
<1> SUFFICES ASSUME NativeInit PROVE NativeInv
  BY Zenon
<1>1. /\ DOMAIN call = Callers /\ \A c \in Callers : call[c] = Idle /\ call[c].at = "idle"
      /\ session_id = None /\ stream = None /\ live = <<>> /\ issued = 0
      /\ pending = <<>> /\ inbound_ = <<>>
  BY Zenon DEF NativeInit, Init, Idle
<1>2. ShapeInv /\ \A c \in Callers : Once(call[c])
  BY <1>1, Zenon DEF ShapeInv, Shaped, Once, Unhandled, Over
<1>3. LiveInv /\ QueueInv /\ DOMAIN pending = {}
  BY <1>1 DEF LiveInv, QueueInv
<1>4. PendingInv /\ PostedIn(None)
  BY <1>3, Zenon DEF PendingInv, PostedIn
<1>5. FollowInv
  BY <1>1, <1>4, Zenon DEF FollowInv, Tied, Early, Over, InSession
<1> QED
  BY <1>2, <1>3, <1>4, <1>5, Zenon DEF NativeInv

LEMMA NativeKeeps ==
  NativeInv /\ [Next]_vars => NativeInv'
<1> SUFFICES ASSUME NativeInv, [Next]_vars PROVE NativeInv'
  BY Zenon
<1>1. CASE ClientStep /\ UNCHANGED native
  <2>n. UNCHANGED inbound_
    BY <1>1, Zenon DEF native
  <2>1. ASSUME NEW c \in Callers, NEW kind \in AllKinds, Call(c, kind) PROVE NativeInv'
    BY <2>n, <2>1, CallKeeps, Zenon
  <2>2. ASSUME NEW c \in Callers, Transport(c) PROVE NativeInv'
    BY <2>n, <2>2, PostKeeps, RefusalsKeep, UnknownKeeps, RememberKeeps, DecodeKeeps, StreamKeeps,
       PostResponseKeeps, BodyPostedKeeps, Zenon DEF Transport
  <2>3. ASSUME NEW c \in Callers, Front(c) PROVE NativeInv'
    BY <2>n, <2>3, SendReturnsKeeps, WorkerKeeps, Zenon DEF Front
  <2>4. ASSUME NEW s \in Sessions, ClientStreamHandles(s) \/ StreamPosts(s) PROVE NativeInv'
    BY <2>n, <2>4, ClientStreamKeeps, PostResponseKeeps, StreamPostedKeeps, Zenon DEF StreamPosts
  <2>5. CASE Stop \/ StopDeletes \/ StopResets \/ StopJoins
    BY <2>n, <2>5, StopKeeps, Zenon
  <2> QED
    BY <1>1, <2>1, <2>2, <2>3, <2>4, <2>5, Zenon DEF ClientStep
<1>2. CASE ServerStep /\ UNCHANGED native
  BY <1>2, ServeKeeps, StopKeeps, Zenon DEF ServerStep, native
<1>3. CASE NativeStep
  BY <1>3, NativeSendKeeps, ForgetKeeps, NativeNotifyKeeps, WorkerKeeps, PeerKeeps, ReceiveKeeps,
     Zenon DEF NativeStep
<1>4. CASE UNCHANGED vars
  <2>1. /\ UNCHANGED <<call, front, last_initialize_params_, crossed, pending, session_id, stream>>
        /\ UNCHANGED <<inbound_, live, issued>>
    BY <1>4, Zenon DEF vars, options, transport, server, native
  <2>2. PendingInv' /\ \A e : PostedIn(e)' <=> PostedIn(e)
    BY <2>1, Zenon DEF NativeInv, PendingInv, PostedIn
  <2>3. ~crossed => stream \in {None, session_id}
    BY Zenon DEF NativeInv, FollowInv
  <2> QED
    BY <2>1, <2>2, <2>3, LiveStays, StillKeeps, Zenon DEF NativeInv, Enqueues
<1> QED
  BY <1>1, <1>2, <1>3, <1>4, Zenon DEF Next

LEMMA NativeAlways ==
  Spec => []NativeInv
  BY NativeStarts, NativeKeeps, PTL DEF Spec

(* However often a request is challenged, refused, finds its session gone  *)
(* or loses its answer, and however its repetitions and the recovery of    *)
(* the session interleave with other calls and with stop(), the server     *)
(* handles it at most once: HttpTransport::send and send_rpc_request send  *)
(* again only what the server has not handled.                             *)
THEOREM RequestsAreHandledOnce ==
  Spec => []HandledOnce
<1>1. NativeInv => HandledOnce
  BY DEF NativeInv, Once, HandledOnce
<1> QED
  BY <1>1, NativeAlways, PTL

(* While calls do not overlap, initialize() is not repeated and no new     *)
(* session comes in while the answer to a response is under way, the       *)
(* receive stream between calls is the one of the session that requests    *)
(* are sent in, or there is none: reset_session and the recovery that      *)
(* follows move both together, and a late answer to a response names no    *)
(* other session, whatever the server and stop() do.                       *)
THEOREM StreamIsOfTheSession ==
  Spec => []StreamFollowsSession
<1>1. NativeInv => StreamFollowsSession
  BY Zenon DEF NativeInv, FollowInv, StreamFollowsSession
<1> QED
  BY <1>1, NativeAlways, PTL

=============================================================================
