----------------------------- MODULE HttpClient -----------------------------
(***************************************************************************)
(* The client side of Streamable HTTP: HttpTransport::Impl, with           *)
(* Client::send_rpc_request on top of it (client.cpp), against a server    *)
(* that may lose sessions.  Any number of threads call; one action per     *)
(* critical section of the transport's mutex.  A POST leaves with the      *)
(* session remembered at that moment and its answer may come much later.   *)
(*                                                                         *)
(* A call is a request of the application, an initialize() or the          *)
(* notification "initialized".  What is sent in its name (the initialize   *)
(* of a recovery, for instance) is call[c].sending.                        *)
(***************************************************************************)
EXTENDS Integers, FiniteSets, Functions, TLC

CONSTANTS Callers,     \* threads, one call each
          Kinds,       \* what each of them may call
          MaxSessions, \* bound: sessions the server will open
          None         \* no session, no id

ASSUME HttpClientAssumption == MaxSessions \in Nat /\ None \notin Nat

VARIABLES
  front,                  \* who drives the transport: "client" or "native"
  weather,                \* bound: which of the outside's freedoms is used
  session_id, protocol_version,
  stream,                 \* the session the SSE receive stream was opened for
  last_initialize_params_,
  call,
  live,                   \* server: session id -> notifications/initialized seen
  issued,                 \* server: session ids given out
  closer,                 \* the thread in stop() or close()
  pending,                \* server requests: the thread that handles one -> where it is
  crossed                 \* history: an answer of an older session may come late

transport == <<session_id, protocol_version, stream>>
server == <<live, issued>>

options == <<front, weather>>

Sessions == 1..MaxSessions
Idle == [at |-> "idle"]

\* What the application calls, and what then goes over the wire.
AllKinds == {"initialize", "ping", "business", "initialized"}
OnWire(c) == IF call[c].sending = "main" THEN call[c].kind ELSE "initialize"

NewCall(kind, sending, id) ==
  [at |-> "post", kind |-> kind, sending |-> sending, recovered |-> FALSE,
   tried |-> {}, result |-> "none", ran |-> 0, id |-> id,
   header |-> None, status |-> "none", session |-> None, asks |-> FALSE, joins |-> None]
NoAnswer(r) ==
  [r EXCEPT !.header = None, !.status = "none", !.session = None, !.asks = FALSE, !.joins = None]

At(c, place) == call[c].at = place
Goes(c, place) == call' = [call EXCEPT ![c].at = place]
Returns(c, result) ==
  call' = [call EXCEPT ![c] = NoAnswer([@ EXCEPT !.at = "returned", !.result = result, !.tried = {}])]
Resends(c, flag) ==
  call' = [call EXCEPT ![c] = NoAnswer([@ EXCEPT !.at = "post", !.tried = call[c].tried \cup {flag}])]
Running == {c \in Callers : call[c].at \notin {"idle", "unstarted", "queued", "done"}}

-----------------------------------------------------------------------------
(* The wire.  The server of this repository opens a session for every      *)
(* initialize, refuses an unknown session with 404 and a business request  *)
(* before notifications/initialized with 400.  It names the session in the *)
(* answers to requests; the 202 for a notification or a response may leave *)
(* it out, as that server does.                                            *)

make_headers == session_id

Post(c) ==
  /\ At(c, "post")
  /\ call' = [call EXCEPT ![c].at = "wire", ![c].header = make_headers]
  /\ UNCHANGED <<options, transport, last_initialize_params_, server, closer,
                 pending, crossed>>

Answer(c, status, session, asks, ran) ==
  call' = [call EXCEPT ![c].at = "answered", ![c].header = None, ![c].status = status,
             ![c].session = session, ![c].asks = asks, ![c].ran = @ + ran]

Known(s) == s \in DOMAIN live
Open(s) == [i \in DOMAIN live \cup {s} |-> IF i = s THEN FALSE ELSE live[i]]

Asking == weather \in {"asking", "closing"}
Named(s) == {None, s}
Bodies(broken) == IF weather = "lossy" THEN {"ok", broken} ELSE {"ok"}

(* The request or its answer is lost, after the request ran or before.     *)
Lose(c) ==
  /\ weather = "lossy" /\ At(c, "wire")
  /\ \/ Answer(c, "lost", None, FALSE, 0)
     \/ /\ OnWire(c) \in {"ping", "business"}
        /\ Known(call[c].header)
        /\ Answer(c, "lost", None, FALSE, 1)
  /\ UNCHANGED <<options, transport, last_initialize_params_, server, closer,
                 pending, crossed>>

Challenge(c) ==
  /\ weather = "guarded" /\ At(c, "wire")
  /\ \E status \in {"token", "nonce"} : Answer(c, status, None, FALSE, 0)
  /\ UNCHANGED <<options, transport, last_initialize_params_, server, closer,
                 pending, crossed>>

ServeInitialize(c) ==
  /\ At(c, "wire")
  /\ OnWire(c) = "initialize"
  /\ \/ /\ issued < MaxSessions
        /\ issued' = issued + 1
        /\ live' = Open(issued + 1)
        /\ \E status \in Bodies("garbled") : Answer(c, status, issued + 1, FALSE, 0)
     \/ Answer(c, "refused", None, FALSE, 0) /\ UNCHANGED server
     \/ /\ call[c].header # None /\ ~Known(call[c].header)
        /\ Answer(c, "unknown", None, FALSE, 0)
        /\ UNCHANGED server
  /\ UNCHANGED <<options, transport, last_initialize_params_, closer, pending, crossed>>

(* "parked": the answer's event stream ends without the response, with an  *)
(* id and a retry time.  An answer may carry a server request first.       *)
ServeRequest(c) ==
  LET s == call[c].header IN
  /\ At(c, "wire")
  /\ OnWire(c) \in {"ping", "business"}
  /\ IF ~Known(s) THEN Answer(c, "unknown", None, FALSE, 0)
     ELSE IF OnWire(c) = "business" /\ ~live[s]
          THEN Answer(c, "refused", None, FALSE, 0)
          ELSE \E status \in Bodies("parked"), asks \in {FALSE, Asking} :
                 Answer(c, status, s, asks, 1)
  /\ UNCHANGED <<options, transport, last_initialize_params_, server, closer,
                 pending, crossed>>

ServeInitialized(c) ==
  LET s == call[c].header IN
  /\ At(c, "wire")
  /\ OnWire(c) = "initialized"
  /\ IF Known(s) THEN /\ \E named \in Named(s) : Answer(c, "ok", named, FALSE, 1)
                      /\ live' = [live EXCEPT ![s] = TRUE]
     ELSE Answer(c, "unknown", None, FALSE, 0) /\ UNCHANGED live
  /\ UNCHANGED <<options, transport, last_initialize_params_, issued, closer,
                 pending, crossed>>

(* The server ends a session by itself: a restart, a DELETE of another     *)
(* client.  Bound: not where a stop() is played.                           *)
SessionEnds(s) ==
  /\ weather # "closing" /\ Known(s)
  /\ live' = Restrict(live, DOMAIN live \ {s})
  /\ UNCHANGED <<options, transport, last_initialize_params_, call, issued,
                 closer, pending, crossed>>

-----------------------------------------------------------------------------
(* HttpTransport::Impl::send and send_notification, from the answer on.    *)

\* Variant: the stream of the lost session goes on.
reset_session_KeepsStream ==
  /\ session_id' = None
  /\ protocol_version' = "default"
  /\ UNCHANGED stream

reset_session ==
  /\ session_id' = None
  /\ protocol_version' = "default"
  /\ stream' = None

\* Variant: a request whose answer was lost is sent again.
AnswerLost_Resent(c) ==
  /\ At(c, "answered") /\ call[c].status = "lost"
  /\ IF "lost" \in call[c].tried THEN Returns(c, "failed") ELSE Resends(c, "lost")
  /\ UNCHANGED <<options, transport, last_initialize_params_, server, closer,
                 pending, crossed>>

AnswerLost(c) ==
  /\ At(c, "answered") /\ call[c].status = "lost"
  /\ Returns(c, "failed")
  /\ UNCHANGED <<options, transport, last_initialize_params_, server, closer,
                 pending, crossed>>

(* The first nonce challenge; a second one is a 401 like any other.        *)
is_dpop_nonce_challenge(c) == call[c].status = "nonce"

AnswerNonce(c) ==
  /\ At(c, "answered") /\ is_dpop_nonce_challenge(c)
  /\ "nonce" \notin call[c].tried
  /\ Resends(c, "nonce")
  /\ UNCHANGED <<options, transport, last_initialize_params_, server, closer,
                 pending, crossed>>

Unauthorized(c) ==
  \/ call[c].status = "token"
  \/ is_dpop_nonce_challenge(c) /\ "nonce" \in call[c].tried

\* Variant: the refresh is not remembered and may be repeated.
refresh_bearer_token_once_Again(c) == Resends(c, "again")

(* The hook may have no new token.                                         *)
refresh_bearer_token_once(c) == "token" \notin call[c].tried /\ Resends(c, "token")

AnswerUnauthorized(c) ==
  /\ At(c, "answered") /\ Unauthorized(c)
  /\ \/ refresh_bearer_token_once(c)
     \/ Returns(c, "unauthorized")
  /\ UNCHANGED <<options, transport, last_initialize_params_, server, closer,
                 pending, crossed>>

(* 404.  Whatever session the transport remembers by now is dropped, and   *)
(* its stream is stopped: that joins the stream's thread.                  *)
AnswerUnknown(c) ==
  /\ At(c, "answered") /\ call[c].status = "unknown"
  /\ reset_session
  /\ call' = [call EXCEPT ![c].at = "joining", ![c].joins = stream]
  /\ UNCHANGED <<options, last_initialize_params_, server, closer, pending, crossed>>

Busy(s) == s \in DOMAIN pending

StreamJoined(c) ==
  /\ At(c, "joining") /\ ~Busy(call[c].joins)
  /\ IF OnWire(c) = "initialize" /\ "reset" \notin call[c].tried
     THEN Resends(c, "reset")
     ELSE Returns(c, "terminated")
  /\ UNCHANGED <<options, transport, last_initialize_params_, server, closer,
                 pending, crossed>>

(* The answer's session becomes the transport's.                           *)
remember_session(s) == session_id' = IF s = None THEN session_id ELSE s

(* A session other than the remembered one comes in while another thread   *)
(* has yet to remember what the answer to its response named.              *)
Overtakes(c) ==
  /\ call[c].session \notin {None, session_id}
  /\ \E k \in DOMAIN pending : pending[k].at = "posted"

Remember(c) ==
  /\ At(c, "answered") /\ call[c].status \in {"ok", "garbled", "refused", "parked"}
  /\ remember_session(call[c].session)
  /\ crossed' = (crossed \/ Overtakes(c))
  /\ Goes(c, IF OnWire(c) = "initialized" THEN "stream" ELSE "decode")
  /\ UNCHANGED <<options, protocol_version, stream, last_initialize_params_,
                 server, closer, pending>>

remember_protocol_version(c) ==
  protocol_version' = IF OnWire(c) = "initialize" THEN "negotiated" ELSE protocol_version

(* A server request in the body is handled, and its answer posted, before  *)
(* the body is read on; when the post fails, so does the request.          *)
Decode(c) ==
  /\ At(c, "decode") /\ ~call[c].asks
  /\ \/ /\ call[c].status \in {"refused", "garbled"}
        /\ Returns(c, IF call[c].status = "refused" THEN "error" ELSE "failed")
        /\ UNCHANGED protocol_version
     \/ /\ call[c].status = "ok"
        /\ remember_protocol_version(c)
        /\ Goes(c, "stream")
     \/ /\ call[c].status = "parked"
        /\ Returns(c, "ok") \/ Returns(c, "failed")
        /\ UNCHANGED protocol_version
  /\ UNCHANGED <<options, session_id, stream, last_initialize_params_, server,
                 closer, pending, crossed>>

(* post_response, on the thread that handled a server request: the answer  *)
(* leaves with the session remembered now; the server takes it then, in a  *)
(* session it knows, or it fails.  What comes back may come much later.    *)
Request(at, id, session) == [at |-> at, id |-> id, session |-> session]
Added(k, request) ==
  [j \in DOMAIN pending \cup {k} |-> IF j = k THEN request ELSE pending[j]]
Without(k) == Restrict(pending, DOMAIN pending \ {k})

post_response(k) ==
  /\ k \in DOMAIN pending /\ pending[k].at = "ready"
  /\ \/ /\ Known(make_headers)
        /\ \E named \in Named(make_headers) :
             pending' = Added(k, Request("posted", pending[k].id, named))
     \/ pending' = Added(k, Request("failed", pending[k].id, None))
  /\ UNCHANGED <<options, transport, last_initialize_params_, call, server, closer,
                 crossed>>

ResponsePosted(k) ==
  /\ k \in DOMAIN pending /\ pending[k].at \in {"posted", "failed"}
  /\ remember_session(pending[k].session)
  /\ pending' = Without(k)
  /\ UNCHANGED <<options, protocol_version, stream, last_initialize_params_, server,
                 closer, crossed>>

BodyPosted(c) ==
  /\ At(c, "asked") /\ ResponsePosted(c)
  /\ IF pending[c].at = "posted"
     THEN call' = [call EXCEPT ![c].asks = FALSE, ![c].at = "decode"]
     ELSE Returns(c, "failed")

StreamPosted(s) == ResponsePosted(s) /\ UNCHANGED call

EnsureStreamStarted(c) ==
  /\ At(c, "stream")
  /\ stream' = IF stream = None THEN session_id ELSE stream
  /\ Returns(c, IF call[c].status = "ok" THEN "ok" ELSE "error")
  /\ UNCHANGED <<options, session_id, protocol_version, last_initialize_params_,
                 server, closer, pending, crossed>>

Transport(c) ==
  \/ Post(c) \/ AnswerLost(c) \/ AnswerNonce(c) \/ AnswerUnauthorized(c)
  \/ AnswerUnknown(c) \/ StreamJoined(c) \/ Remember(c) \/ Decode(c)
  \/ EnsureStreamStarted(c) \/ post_response(c) \/ BodyPosted(c)
Serve(c) ==
  Lose(c) \/ Challenge(c) \/ ServeInitialize(c) \/ ServeRequest(c) \/ ServeInitialized(c)

-----------------------------------------------------------------------------
(* Client::send_rpc_request.  The first request over HTTP initializes the  *)
(* session by itself and does not look at the outcome.  A request refused  *)
(* with 404 is repeated once, after an initialize with the parameters of   *)
(* the last one.  Notifications go straight to the transport.              *)

Sends(c, what, recovered) ==
  call' = [call EXCEPT ![c].at = "post", ![c].sending = what, ![c].recovered = recovered,
             ![c].result = "none"]
Leaves(c, place) ==
  call' = [call EXCEPT ![c] = [at |-> place, kind |-> @.kind, sending |-> @.sending,
                               recovered |-> @.recovered, result |-> @.result, ran |-> @.ran]]
Ends(c) == Leaves(c, "done")

(* Bound: calls overlap where their threads meet, in the session they      *)
(* share and in the native transport's tables; the repetitions after a     *)
(* challenge and a stop() are played against one call.                     *)
MayCall ==
  weather = "lossy" \/ (weather = "asking" /\ front = "native") \/ Running = {}

Call(c, kind) ==
  /\ front = "client" /\ At(c, "idle") /\ MayCall
  /\ LET lazy == kind \in {"ping", "business"} /\ ~last_initialize_params_
     IN  call' = [call EXCEPT ![c] = NewCall(kind, IF lazy THEN "lazy" ELSE "main", None)]
  /\ last_initialize_params_' = (last_initialize_params_ \/ kind # "initialized")
  /\ crossed' = (crossed \/ Running # {} \/ (kind = "initialize" /\ session_id # None))
  /\ UNCHANGED <<options, transport, server, closer, pending>>

is_session_terminated_error(c) == call[c].result = "terminated"
Recovers(c) == is_session_terminated_error(c) /\ ~call[c].recovered /\ call[c].kind # "initialized"

SendReturns(c) ==
  /\ front = "client" /\ At(c, "returned")
  /\ call[c].sending = "version" => call[c].result \notin {"ok", "error"}
  /\ CASE call[c].sending = "lazy" -> Sends(c, "main", FALSE)
       [] call[c].sending = "again" ->
            IF call[c].result = "ok" THEN Sends(c, "main", TRUE) ELSE Ends(c)
       [] call[c].sending \in {"main", "version"} ->
            IF Recovers(c)
            THEN Sends(c, IF OnWire(c) = "initialize" THEN call[c].sending ELSE "again", TRUE)
            ELSE Ends(c)
  /\ UNCHANGED <<options, transport, last_initialize_params_, server, closer,
                 pending, crossed>>

(* initialize() with options: an error that names a version the server     *)
(* supports is answered with a second initialize, and the transport then   *)
(* sends that version, whatever the second answer was.                     *)
Renegotiates(c) ==
  /\ front = "client" /\ At(c, "returned")
  /\ call[c].kind = "initialize" /\ call[c].sending = "main" /\ call[c].result = "error"
  /\ Sends(c, "version", FALSE)
  /\ UNCHANGED <<options, transport, last_initialize_params_, server, closer,
                 pending, crossed>>

SetNegotiatedVersion(c) ==
  /\ front = "client" /\ At(c, "returned")
  /\ call[c].sending = "version" /\ call[c].result \in {"ok", "error"}
  /\ protocol_version' = "negotiated"
  /\ Ends(c)
  /\ UNCHANGED <<options, session_id, stream, last_initialize_params_, server,
                 closer, pending, crossed>>

(* The client's handlers answer on the thread that reads the body or the   *)
(* stream.                                                                 *)
ClientHandles(c) ==
  /\ front = "client" /\ At(c, "decode") /\ call[c].asks
  /\ pending' = Added(c, Request("ready", None, None))
  /\ Goes(c, "asked")
  /\ UNCHANGED <<options, transport, last_initialize_params_, server, closer, crossed>>

(* Bound: a stream opened again for the same session asks nothing while    *)
(* the thread of the one before it is being joined.                        *)
BeingJoined(s) ==
  \/ closer.at = "joining" /\ closer.joins = s
  \/ \E c \in Callers : At(c, "joining") /\ call[c].joins = s

StreamReads(s) ==
  /\ Asking /\ stream = s /\ Known(s)
  /\ ~Busy(s) /\ ~BeingJoined(s)

ClientStreamHandles(s) ==
  /\ front = "client" /\ StreamReads(s)
  /\ pending' = Added(s, Request("ready", None, None))
  /\ UNCHANGED <<options, transport, last_initialize_params_, call, server, closer,
                 crossed>>

Front(c) == SendReturns(c) \/ Renegotiates(c) \/ SetNegotiatedVersion(c) \/ ClientHandles(c)
StreamPosts(s) == post_response(s) \/ StreamPosted(s)

-----------------------------------------------------------------------------
(* Impl::stop: the session is read, deleted at the server, and reset.  The *)
(* transport stays started: an answer that is still under way is           *)
(* remembered and opens a stream again.                                    *)

StopBegins ==
  /\ closer' = [at |-> IF session_id = None THEN "reset" ELSE "delete",
                session |-> session_id, joins |-> None]
  /\ UNCHANGED <<options, transport, last_initialize_params_, call, server,
                 pending, crossed>>

Stop ==
  /\ closer.at = IF front = "client" THEN "open" ELSE "stop"
  /\ weather = "closing"
  /\ StopBegins

StopDeletes ==
  /\ closer.at = "delete"
  /\ closer' = [closer EXCEPT !.at = "reset"]
  /\ live' = Restrict(live, DOMAIN live \ {closer.session})
  /\ UNCHANGED <<options, transport, last_initialize_params_, call, issued,
                 pending, crossed>>

StopResets ==
  /\ closer.at = "reset"
  /\ closer' = [closer EXCEPT !.at = "joining", !.joins = stream]
  /\ reset_session
  /\ UNCHANGED <<options, last_initialize_params_, call, server, pending, crossed>>

StopJoins ==
  /\ closer.at = "joining" /\ ~Busy(closer.joins)
  /\ closer' = [closer EXCEPT !.at = "stopped"]
  /\ UNCHANGED <<options, transport, last_initialize_params_, call, server,
                 pending, crossed>>

Init ==
  /\ front \in {"client", "native"}
  /\ weather \in {"lossy", "guarded", "asking", "closing"}
  /\ session_id = None /\ protocol_version = "default" /\ stream = None
  /\ last_initialize_params_ = FALSE
  /\ call = [c \in Callers |-> Idle]
  /\ live = <<>> /\ issued = 0
  /\ closer = [at |-> "open", session |-> None, joins |-> None]
  /\ pending = <<>>
  /\ crossed = FALSE

ClientStep ==
  \/ \E c \in Callers, kind \in AllKinds : kind \in Kinds[c] /\ Call(c, kind)
  \/ \E c \in Callers : Transport(c) \/ Front(c)
  \/ \E s \in Sessions : ClientStreamHandles(s) \/ StreamPosts(s)
  \/ Stop \/ StopDeletes \/ StopResets \/ StopJoins
ServerStep ==
  \/ \E c \in Callers : Serve(c)
  \/ \E s \in Sessions : SessionEnds(s)
=============================================================================
