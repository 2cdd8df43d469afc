----------------------------- MODULE SseStream -----------------------------
(***************************************************************************)
(* The server-to-client event stream of one HTTP session                   *)
(* (HttpTransport, server/src/http_transport.cpp): events queue up in the  *)
(* session, a GET stream takes them one at a time, remembers each in the   *)
(* replay window and writes it outside the lock, and a client that lost    *)
(* its connection comes back with Last-Event-ID.                           *)
(*                                                                         *)
(* The client is the SSE client the SDK uses: one connection at a time,    *)
(* reopened with the id of the last event it read.  A connection it has    *)
(* lost may stay unnoticed on the server, where its stream goes on.        *)
(***************************************************************************)
EXTENDS Integers, Sequences, Functions

CONSTANTS MaxPending,   \* max_pending_sse_events, 0 for no limit
          MaxBytes,     \* max_pending_sse_bytes, 0 for no limit
          MaxReplay,    \* max_sse_replay_events
          Sizes,        \* payload sizes
          MaxEvents,    \* bound: events enqueued in a session
          MaxGets,      \* bound: GET requests of the client
          NoId          \* no Last-Event-ID header

ASSUME SseStreamAssumption ==
  /\ MaxPending \in Nat /\ MaxBytes \in Nat /\ MaxReplay \in Nat
  /\ Sizes \subseteq Nat
  /\ MaxEvents \in Nat /\ MaxGets \in Nat
  /\ NoId \notin Nat

VARIABLES
  session,     \* SessionState while the session exists, Deleted afterwards
  stopped_,
  priming,     \* option: sse_retry is set or enable_sse_polling
  stream,      \* the GET requests and the streams they opened
  up,          \* the connections the client still reads
  lastId,      \* Last-Event-ID the client will send
  received,    \* ids of the events the client has read
  overlapped   \* history: a stream was opened while another was counted

vars == <<session, stopped_, priming, stream, up, lastId, received, overlapped>>

Gets == 1..MaxGets
EventIds == 1..MaxEvents
Events == [id : EventIds, size : Sizes]
Deleted == [session |-> FALSE]
NoStream == [at |-> "none", replay |-> <<>>, event |-> 0]
Open == {"prime", "loop", "write"}

SessionState ==
  [pending_notifications : Seq(Events),
   pending_notification_bytes : Nat,
   replay_notifications : Seq(Events),
   next_notification_event_id : 1..MaxEvents + 1,
   active_sse_streams : Nat,
   sse_disconnect_requested : BOOLEAN]

Init ==
  /\ session = [pending_notifications |-> <<>>, pending_notification_bytes |-> 0,
                replay_notifications |-> <<>>, next_notification_event_id |-> 1,
                active_sse_streams |-> 0, sse_disconnect_requested |-> FALSE]
  /\ stopped_ = FALSE
  /\ priming \in BOOLEAN
  /\ stream = [g \in Gets |-> NoStream]
  /\ up = {}
  /\ lastId = NoId
  /\ received = <<>>
  /\ overlapped = FALSE

-----------------------------------------------------------------------------
(* Outbound events of the session.                                         *)

Fits(s, size) ==
  /\ MaxPending > 0 => Len(s.pending_notifications) < MaxPending
  /\ MaxBytes > 0 => /\ s.pending_notification_bytes < MaxBytes
                     /\ size <= MaxBytes - s.pending_notification_bytes

(* An event that does not fit is refused and changes nothing.              *)
enqueue_outbound_event(size) ==
  /\ session # Deleted /\ ~stopped_
  /\ session.next_notification_event_id <= MaxEvents
  /\ Fits(session, size)
  /\ session' = [session EXCEPT
       !.pending_notifications =
         Append(@, [id |-> session.next_notification_event_id, size |-> size]),
       !.pending_notification_bytes = @ + size,
       !.next_notification_event_id = @ + 1]
  /\ UNCHANGED <<stopped_, priming, stream, up, lastId, received, overlapped>>

disconnect_session_sse ==
  /\ session # Deleted
  /\ session' = [session EXCEPT !.sse_disconnect_requested = TRUE]
  /\ UNCHANGED <<stopped_, priming, stream, up, lastId, received, overlapped>>

DeleteSession ==
  /\ session # Deleted
  /\ session' = Deleted
  /\ UNCHANGED <<stopped_, priming, stream, up, lastId, received, overlapped>>

stop ==
  /\ ~stopped_
  /\ stopped_' = TRUE
  /\ session' = Deleted
  /\ UNCHANGED <<priming, stream, up, lastId, received, overlapped>>

-----------------------------------------------------------------------------
(* GET: the stream is admitted or refused under the lock.                  *)

LastAssigned(s) == s.next_notification_event_id - 1

\* Variant: one event before the window is let through.
InWindow_OffByOne(s, seen) ==
  /\ seen <= LastAssigned(s)
  /\ seen < LastAssigned(s) =>
       /\ s.replay_notifications # <<>>
       /\ seen >= s.replay_notifications[1].id - 2

InWindow(s, seen) ==
  /\ seen <= LastAssigned(s)
  /\ seen < LastAssigned(s) =>
       /\ s.replay_notifications # <<>>
       /\ seen >= s.replay_notifications[1].id - 1

Admits(s, seen) == IF seen = NoId THEN s.active_sse_streams = 0 ELSE InWindow(s, seen)

(* The loop that keeps the newer events of the window.                     *)
Newer(window, seen) ==
  LET kept[n \in 0..Len(window)] ==
        IF n = 0 THEN <<>>
        ELSE IF window[n].id > seen THEN Append(kept[n - 1], window[n]) ELSE kept[n - 1]
  IN  kept[Len(window)]

ReplayFor(s, seen) ==
  IF seen = NoId THEN <<>> ELSE Newer(s.replay_notifications, seen)

StreamTop == IF priming THEN "prime" ELSE "loop"

Get(g) ==
  /\ stream[g] = NoStream
  /\ g > 1 => stream[g - 1] # NoStream
  /\ up = {}
  /\ IF session # Deleted /\ Admits(session, lastId)
     THEN /\ stream' = [stream EXCEPT ![g] =
                          [at |-> StreamTop, replay |-> ReplayFor(session, lastId),
                           event |-> 0]]
          /\ session' = [session EXCEPT !.active_sse_streams = @ + 1]
          /\ overlapped' = (overlapped \/ session.active_sse_streams > 0)
          /\ up' = {g}
     ELSE /\ stream' = [stream EXCEPT ![g].at = "refused"]
          /\ UNCHANGED <<session, overlapped, up>>
  /\ UNCHANGED <<stopped_, priming, lastId, received>>

ClientDrops(g) ==
  /\ g \in up
  /\ up' = up \ {g}
  /\ UNCHANGED <<session, stopped_, priming, stream, lastId, received, overlapped>>

-----------------------------------------------------------------------------
(* The content provider of a stream.                                       *)

(* close_sse_stream and its variant under the lock.                        *)
Released(s) ==
  IF s # Deleted /\ s.active_sse_streams > 0
  THEN [s EXCEPT !.active_sse_streams = @ - 1]
  ELSE s

Ends(g) ==
  /\ stream' = [stream EXCEPT ![g] = [NoStream EXCEPT !.at = "done"]]
  /\ up' = up \ {g}

(* A write fails, or succeeds without reaching the client, only on a       *)
(* connection the client has left.                                         *)
Write(g, id, next) ==
  /\ \/ /\ g \in up
        /\ lastId' = id
        /\ stream' = [stream EXCEPT ![g].at = next]
        /\ UNCHANGED <<up, session>>
     \/ /\ g \notin up
        /\ stream' = [stream EXCEPT ![g].at = next]
        /\ UNCHANGED <<up, session, lastId>>
     \/ /\ g \notin up
        /\ Ends(g)
        /\ session' = Released(session)
        /\ UNCHANGED lastId
  /\ UNCHANGED <<stopped_, priming, overlapped>>

(* The priming event has id 0 and is written at the start of every call of *)
(* the provider, that is before each event.                                *)
Prime(g) ==
  /\ stream[g].at = "prime"
  /\ Write(g, 0, "loop")
  /\ UNCHANGED received

WriteEvent(g) ==
  /\ stream[g].at = "write"
  /\ Write(g, stream[g].event, StreamTop)
  /\ received' = IF g \in up THEN Append(received, stream[g].event) ELSE received

(* Stopped, or the lost connection is noticed.                             *)
StreamCloses(g) ==
  /\ stream[g].at = "loop"
  /\ stopped_ \/ g \notin up
  /\ session' = Released(session)
  /\ Ends(g)
  /\ UNCHANGED <<stopped_, priming, lastId, received, overlapped>>

TakesReplay(g) ==
  /\ stream[g].at = "loop" /\ ~stopped_
  /\ stream[g].replay # <<>>
  /\ stream' = [stream EXCEPT ![g] =
                  [at |-> "write", replay |-> Tail(@.replay), event |-> Head(@.replay).id]]
  /\ UNCHANGED <<session, stopped_, priming, up, lastId, received, overlapped>>

\* Variant: new events are sent before the replayed ones.
AtQueue_Ahead(g) == stream[g].at = "loop" /\ ~stopped_

AtQueue(g) == stream[g].at = "loop" /\ ~stopped_ /\ stream[g].replay = <<>>

SessionGone(g) ==
  /\ AtQueue(g)
  /\ session = Deleted
  /\ Ends(g)
  /\ UNCHANGED <<session, stopped_, priming, lastId, received, overlapped>>

Disconnects(g) ==
  /\ AtQueue(g)
  /\ session # Deleted /\ session.sse_disconnect_requested
  /\ session' = [Released(session) EXCEPT !.sse_disconnect_requested = FALSE]
  /\ Ends(g)
  /\ UNCHANGED <<stopped_, priming, lastId, received, overlapped>>

remember_replay_event(s, e) ==
  LET all == Append(s.replay_notifications, e)
  IN  IF MaxReplay = 0 THEN s.replay_notifications
      ELSE IF Len(all) > MaxReplay THEN Tail(all) ELSE all

\* Variant: a full replay window holds the queue back.
TakesPending_Full(g) ==
  /\ AtQueue(g)
  /\ session # Deleted /\ ~session.sse_disconnect_requested
  /\ session.pending_notifications # <<>>
  /\ Len(session.replay_notifications) < MaxReplay
  /\ LET e == Head(session.pending_notifications)
     IN  /\ session' = [session EXCEPT
              !.pending_notifications = Tail(@),
              !.pending_notification_bytes = @ - e.size,
              !.replay_notifications = Append(@, e)]
         /\ stream' = [stream EXCEPT ![g].at = "write", ![g].event = e.id]
  /\ UNCHANGED <<stopped_, priming, up, lastId, received, overlapped>>

TakesPending(g) ==
  /\ AtQueue(g)
  /\ session # Deleted /\ ~session.sse_disconnect_requested
  /\ session.pending_notifications # <<>>
  /\ LET e == Head(session.pending_notifications)
     IN  /\ session' = [session EXCEPT
              !.pending_notifications = Tail(@),
              !.pending_notification_bytes = @ - e.size,
              !.replay_notifications = remember_replay_event(session, e)]
         /\ stream' = [stream EXCEPT ![g].at = "write", ![g].event = e.id]
  /\ UNCHANGED <<stopped_, priming, up, lastId, received, overlapped>>

Provider(g) ==
  \/ Prime(g) \/ WriteEvent(g) \/ StreamCloses(g) \/ TakesReplay(g)
  \/ SessionGone(g) \/ Disconnects(g) \/ TakesPending(g)

Next ==
  \/ \E size \in Sizes : enqueue_outbound_event(size)
  \/ disconnect_session_sse
  \/ DeleteSession
  \/ stop
  \/ \E g \in Gets : Get(g) \/ ClientDrops(g) \/ Provider(g)

Spec == Init /\ [][Next]_vars

(* Every stream is served by a thread of the HTTP server, which polls at   *)
(* least every 100 ms.                                                     *)
FairSpec == Spec /\ \A g \in Gets : WF_vars(Provider(g))

-----------------------------------------------------------------------------
(* What the stream of a session promises.                                  *)

\* A GET with Last-Event-ID n that is admitted will see every event after n:
\* what it replays and what is still queued is n+1 up to the last id assigned.
ResumeIsComplete ==
  [][\A g \in Gets :
       stream[g].at = "none" /\ stream'[g].at \in Open /\ lastId # NoId =>
         {e.id : e \in Range(stream'[g].replay \o session.pending_notifications)}
           = lastId + 1 .. session.next_notification_event_id - 1]_vars

\* As long as no stream was opened while an older one was still counted, the
\* client reads events in order and without a gap, except that a primed client
\* may be sent events again; without priming it reads none twice.
ReadInOrder ==
  ~overlapped =>
    \A i \in 1..Len(received) - 1 :
      IF priming THEN received[i + 1] <= received[i] + 1
                 ELSE received[i + 1] = received[i] + 1

\* An event that is queued while the client reads a stream is written to it,
\* unless the client leaves, the server ends the stream, or an older stream
\* that was still counted took the event.
QueuedEventWritten ==
  \A g \in Gets, id \in EventIds :
    /\ g \in up
    /\ session # Deleted
    /\ \E i \in 1..Len(session.pending_notifications) :
         session.pending_notifications[i].id = id
    ~> \/ \E i \in 1..Len(received) : received[i] = id
       \/ g \notin up \/ overlapped
=============================================================================
