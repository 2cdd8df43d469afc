-------------------------- MODULE SseStreamProofs --------------------------
(***************************************************************************)
(* Theorems about SseStream, for every limit of the queue and of the       *)
(* replay window and any number of events and connections.                 *)
(***************************************************************************)
EXTENDS SseStream, SequenceTheorems, WellFoundedInduction, TLAPS

Live ==
  [pending_notifications : Seq(Events), pending_notification_bytes : Int,
   replay_notifications : Seq(Events), next_notification_event_id : Nat,
   active_sse_streams : Nat, sse_disconnect_requested : BOOLEAN]

Places == {"none", "refused", "done"} \cup Open

SseType ==
  /\ session = Deleted \/ session \in Live
  /\ priming \in BOOLEAN /\ stopped_ \in BOOLEAN /\ overlapped \in BOOLEAN
  /\ stream \in [Gets -> [at : Places, replay : Seq(Events), event : Nat]]
  /\ \A g \in Gets : stream[g].at = "prime" => priming
  /\ lastId \in Nat \cup {NoId}
  /\ received \in Seq(Nat)

(* The events of a queue are numbered from the one after k.                *)
Numbered(q, k) == \A i \in 1..Len(q) : q[i].id = k + i

(* The event a stream took from the queue last.                            *)
Taken(s) == s.next_notification_event_id - 1 - Len(s.pending_notifications)

(* The replay window ends where the queue begins.                          *)
WindowInv ==
  session # Deleted =>
    /\ Taken(session) \in Nat
    /\ Numbered(session.pending_notifications, Taken(session))
    /\ Numbered(session.replay_notifications,
                Taken(session) - Len(session.replay_notifications))
    /\ Len(session.replay_notifications) <= MaxReplay

(* No stream is ahead of the queue, nor is the client.                     *)
BehindInv ==
  session # Deleted =>
    /\ lastId # NoId => lastId <= Taken(session)
    /\ \A g \in Gets :
         /\ stream[g].event <= Taken(session)
         /\ \A i \in 1..Len(stream[g].replay) : stream[g].replay[i].id <= Taken(session)

IsOpen(g) == stream[g].at \in Open

(* Streams that do not overlap are open one at a time.                     *)
AloneInv ==
  ~overlapped =>
    /\ \A g, h \in Gets : IsOpen(g) /\ IsOpen(h) => g = h
    /\ session # Deleted /\ session.active_sse_streams = 0 => \A g \in Gets : ~IsOpen(g)

(* What the client reads next, when it read last before.                   *)
Follows(next, before) == IF priming THEN next <= before + 1 ELSE next = before + 1

Before == received[Len(received)]

(* k is the event the stream of a client took last: what it replays, and   *)
(* then the queue, goes on from there, and so does the client.             *)
At(g, k) ==
  /\ Numbered(stream[g].replay, k)
  /\ stream[g].at = "write" => stream[g].event = k
  /\ session # Deleted => k + Len(stream[g].replay) = Taken(session)
  /\ g \in up /\ Len(received) > 0 =>
       Follows(IF stream[g].at = "write" THEN k ELSE k + 1, Before)

PositionInv ==
  ~overlapped =>
    /\ Len(received) > 0 =>
         lastId # NoId /\ IF priming THEN lastId <= Before ELSE lastId = Before
    /\ \A g \in Gets : IsOpen(g) => \E k \in Nat : At(g, k)

SseInv == SseType /\ WindowInv /\ BehindInv /\ AloneInv /\ PositionInv /\ ReadInOrder

-----------------------------------------------------------------------------
(* The replay window.                                                      *)

\* A set of naturals has a least element.
LEMMA LeastNatural ==
  ASSUME NEW T, T \subseteq Nat, T # {}
  PROVE  \E m \in T : \A n \in T : m <= n
<1>1. PICK m \in T : \A n \in T : ~(<<n, m>> \in OpToRel(<, Nat))
  BY NatLessThanWellFounded, WFMin, Zenon
<1>2. \A n \in T : ~(n < m)
  BY <1>1, Zenon DEF OpToRel
<1> QED
  BY <1>2

Loop(f, q, seen) ==
  f = [n \in 0..Len(q) |->
         IF n = 0 THEN <<>>
         ELSE IF q[n].id > seen THEN Append(f[n - 1], q[n]) ELSE f[n - 1]]

\* The loop over the window has one result: two runs that agree so far agree on
\* the next event as well.
LEMMA NewerIsLoop ==
  ASSUME NEW q, Len(q) \in Nat, NEW seen, NEW f, Loop(f, q, seen)
  PROVE  Newer(q, seen) = f[Len(q)]
<1> DEFINE kept == CHOOSE g : g = [n \in 0..Len(q) |->
                     IF n = 0 THEN <<>>
                     ELSE IF q[n].id > seen THEN Append(g[n - 1], q[n]) ELSE g[n - 1]]
<1>1. Newer(q, seen) = kept[Len(q)]
  BY Zenon DEF Newer
<1>2. Loop(kept, q, seen)
  BY Zenon DEF Loop
<1> HIDE DEF kept
<1> DEFINE Differ == {n \in 0..Len(q) : kept[n] # f[n]}
<1>3. ASSUME Differ # {} PROVE FALSE
  <2>0. Differ \subseteq Nat
    OBVIOUS
  <2>1. PICK m \in Differ : \A n \in Differ : m <= n
    <3> HIDE DEF Differ
    <3> QED
      BY <1>3, <2>0, LeastNatural, Zenon
  <2>2. m \in 0..Len(q) /\ kept[m] # f[m]
    BY <2>1, Zenon
  <2>3. m # 0
    <3>1. kept[0] = <<>>
      BY <1>2 DEF Loop
    <3>2. f[0] = <<>>
      BY DEF Loop
    <3> QED
      BY <2>2, <3>1, <3>2, Zenon
  <2>4. m - 1 \in 0..Len(q) /\ m - 1 \notin Differ
    BY <2>1, <2>2, <2>3
  <2>5. kept[m - 1] = f[m - 1]
    BY <2>4, Zenon
  <2>6. kept[m] = IF q[m].id > seen THEN Append(kept[m - 1], q[m]) ELSE kept[m - 1]
    BY <1>2, <2>2, <2>3, Zenon DEF Loop
  <2>7. f[m] = IF q[m].id > seen THEN Append(f[m - 1], q[m]) ELSE f[m - 1]
    BY <2>2, <2>3, Zenon DEF Loop
  <2> QED
    BY <2>2, <2>5, <2>6, <2>7
<1> QED
  BY <1>1, <1>3

\* What is replayed to a client inside the window: the events after the last it saw.
LEMMA NewerIsSuffix ==
  ASSUME NEW q \in Seq(Events), NEW base \in Int, Numbered(q, base),
         NEW seen \in Int, base <= seen, seen <= base + Len(q)
  PROVE  /\ Newer(q, seen) \in Seq(Events)
         /\ Len(Newer(q, seen)) = base + Len(q) - seen
         /\ Numbered(Newer(q, seen), seen)
<1> DEFINE m == seen - base
           f == [n \in 0..Len(q) |-> SubSeq(q, m + 1, n)]
<1>1. m \in 0..Len(q) /\ Len(q) \in Nat
  OBVIOUS
<1>2. ASSUME NEW n \in 0..Len(q)
      PROVE  f[n] = IF n = 0 THEN <<>>
                    ELSE IF q[n].id > seen THEN Append(f[n - 1], q[n]) ELSE f[n - 1]
  <2>1. CASE n = 0
    <3>1. f[n] = <<>>
      BY <1>1, <2>1, SubSeqEmpty
    <3> QED
      BY <2>1, <3>1, Zenon
  <2>2. CASE n # 0 /\ n <= m
    <3>1. ~(q[n].id > seen) /\ n - 1 \in 0..Len(q)
      BY <1>1, <2>2 DEF Numbered
    <3>2. f[n] = <<>> /\ f[n - 1] = <<>>
      <4>1. f[n] = SubSeq(q, m + 1, n) /\ f[n - 1] = SubSeq(q, m + 1, n - 1)
        BY <3>1, Zenon
      <4> HIDE DEF f, m
      <4>2. m + 1 \in Int /\ n \in Int /\ n - 1 \in Int /\ n < m + 1 /\ n - 1 < m + 1
        BY <1>1, <2>2
      <4> QED
        BY <4>1, <4>2, SubSeqEmpty, Zenon
    <3> QED
      BY <2>2, <3>1, <3>2, Zenon
  <2>3. CASE n > m
    <3>1. q[n].id > seen /\ n - 1 \in 0..Len(q) /\ q[n] \in Events /\ n # 0
      BY <1>1, <2>3 DEF Numbered
    <3>2. SubSeq(q, m + 1, n) = SubSeq(q, m + 1, n - 1) \o <<q[n]>>
      BY <1>1, <2>3, SubSeqRecursiveSecond
    <3>3. SubSeq(q, m + 1, n - 1) \in Seq(Events)
      BY <1>1, <2>3, SubSeqProperties
    <3>4. f[n] = Append(f[n - 1], q[n])
      BY <3>1, <3>2, <3>3, AppendIsConcat, Zenon
    <3> QED
      BY <3>1, <3>4, Zenon
  <2> HIDE DEF m, f
  <2> QED
    BY <1>1, <2>1, <2>2, <2>3
<1>3. Loop(f, q, seen)
  <2>1. f = [n \in 0..Len(q) |-> f[n]]
    BY Zenon
  <2> HIDE DEF f
  <2>2. [n \in 0..Len(q) |-> f[n]]
          = [n \in 0..Len(q) |->
               IF n = 0 THEN <<>>
               ELSE IF q[n].id > seen THEN Append(f[n - 1], q[n]) ELSE f[n - 1]]
    BY <1>2, Zenon
  <2> QED
    BY <2>1, <2>2, Zenon DEF Loop
<1>4. Newer(q, seen) = SubSeq(q, m + 1, Len(q))
  <2>1. Len(q) \in 0..Len(q) /\ f[Len(q)] = SubSeq(q, m + 1, Len(q))
    BY <1>1
  <2> HIDE DEF m, f
  <2>2. Newer(q, seen) = f[Len(q)]
    BY <1>1, <1>3, NewerIsLoop, Zenon
  <2> QED
    BY <2>1, <2>2, Zenon
<1>5. \A i \in m + 1 .. Len(q) : q[i] \in Events /\ q[i].id = base + i
  BY <1>1 DEF Numbered
<1>6. /\ Newer(q, seen) \in Seq(Events)
      /\ Len(Newer(q, seen)) = Len(q) - m
      /\ \A i \in 1..Len(q) - m : Newer(q, seen)[i] = q[m + i]
  <2>1. m + 1 \in Int /\ Len(q) \in Int /\ \A i \in m + 1 .. Len(q) : q[i] \in Events
    BY <1>1, <1>5
  <2> HIDE DEF m
  <2>2. /\ SubSeq(q, m + 1, Len(q)) \in Seq(Events)
        /\ Len(SubSeq(q, m + 1, Len(q))) =
             IF m + 1 <= Len(q) THEN Len(q) - (m + 1) + 1 ELSE 0
        /\ \A i \in 1 .. Len(q) - (m + 1) + 1 :
             SubSeq(q, m + 1, Len(q))[i] = q[m + 1 + i - 1]
    BY <2>1, SubSeqProperties
  <2> QED
    BY <1>1, <1>4, <2>2
<1>7. ASSUME NEW i \in 1..Len(Newer(q, seen)) PROVE Newer(q, seen)[i].id = seen + i
  <2>1. i \in 1..Len(q) - m /\ m + i \in m + 1 .. Len(q)
    BY <1>1, <1>6
  <2>2. Newer(q, seen)[i] = q[m + i] /\ q[m + i].id = base + (m + i)
    BY <1>5, <1>6, <2>1, Zenon
  <2> QED
    BY <1>1, <2>1, <2>2
<1> QED
  BY <1>1, <1>6, <1>7 DEF Numbered

\* The numbers in a numbered queue.
LEMMA NumberedRange ==
  ASSUME NEW q \in Seq(Events), NEW k \in Int, Numbered(q, k)
  PROVE  {e.id : e \in Range(q)} = k + 1 .. k + Len(q)
<1>1. DOMAIN q = 1..Len(q) /\ Len(q) \in Nat
  OBVIOUS
<1>2. ASSUME NEW e \in Range(q) PROVE e.id \in k + 1 .. k + Len(q)
  <2>1. PICK i \in 1..Len(q) : e = q[i]
    BY <1>1, <1>2, Zenon DEF Range
  <2> QED
    BY <1>1, <2>1 DEF Numbered
<1>3. ASSUME NEW n \in k + 1 .. k + Len(q) PROVE \E e \in Range(q) : n = e.id
  <2>1. n - k \in 1..Len(q) /\ q[n - k].id = n
    BY <1>1 DEF Numbered
  <2>2. q[n - k] \in Range(q)
    BY <1>1, <2>1, Zenon DEF Range
  <2> QED
    BY <2>1, <2>2, Zenon
<1> QED
  BY <1>2, <1>3, Zenon

\* One queue after another.
LEMMA NumberedConcat ==
  ASSUME NEW q \in Seq(Events), NEW r \in Seq(Events), NEW k \in Int,
         Numbered(q, k), Numbered(r, k + Len(q))
  PROVE  q \o r \in Seq(Events) /\ Len(q \o r) = Len(q) + Len(r) /\ Numbered(q \o r, k)
<1>1. q \o r \in Seq(Events) /\ Len(q \o r) = Len(q) + Len(r)
  OBVIOUS
<1>2. ASSUME NEW i \in 1..Len(q \o r) PROVE (q \o r)[i].id = k + i
  <2>1. CASE i <= Len(q)
    BY <1>1, <2>1 DEF Numbered
  <2>2. CASE i > Len(q)
    <3>1. i - Len(q) \in 1..Len(r) /\ (q \o r)[i] = r[i - Len(q)]
      BY <1>1, <2>2
    <3> QED
      BY <3>1 DEF Numbered
  <2> QED
    BY <1>1, <2>1, <2>2
<1> QED
  BY <1>1, <1>2, Zenon DEF Numbered

\* An event more at the end, one less at the front.
LEMMA NumberedAppend ==
  ASSUME NEW q \in Seq(Events), NEW k \in Int, Numbered(q, k),
         NEW e \in Events, e.id = k + Len(q) + 1
  PROVE  Append(q, e) \in Seq(Events) /\ Len(Append(q, e)) = Len(q) + 1
         /\ Numbered(Append(q, e), k)
<1>1. /\ Append(q, e) \in Seq(Events) /\ Len(Append(q, e)) = Len(q) + 1
      /\ \A i \in 1..Len(q) : Append(q, e)[i] = q[i]
      /\ Append(q, e)[Len(q) + 1] = e
  BY AppendProperties
<1> QED
  BY <1>1 DEF Numbered

LEMMA NumberedTail ==
  ASSUME NEW q \in Seq(Events), q # <<>>, NEW k \in Int, Numbered(q, k)
  PROVE  /\ Head(q) \in Events /\ Head(q).id = k + 1
         /\ Tail(q) \in Seq(Events) /\ Len(Tail(q)) = Len(q) - 1 /\ Numbered(Tail(q), k + 1)
<1>1. /\ Head(q) \in Events /\ Tail(q) \in Seq(Events) /\ Len(Tail(q)) = Len(q) - 1
      /\ \A i \in 1..Len(Tail(q)) : Tail(q)[i] = q[i + 1]
  BY HeadTailProperties, Zenon
<1>2. Head(q) = q[1] /\ Len(q) \in Nat /\ Len(q) > 0
  OBVIOUS
<1> QED
  BY <1>1, <1>2 DEF Numbered

-----------------------------------------------------------------------------
(* Steps that leave the queue and the window of the session alone.         *)

SameQueue ==
  session' = Deleted \/
    /\ session # Deleted /\ session' \in Live
    /\ session'.pending_notifications = session.pending_notifications
    /\ session'.replay_notifications = session.replay_notifications
    /\ session'.next_notification_event_id = session.next_notification_event_id

\* A session in use is not a deleted one.
LEMMA LiveApart ==
  \A s \in Live : s # Deleted
<1>1. \A s \in Live : DOMAIN s # DOMAIN Deleted
  BY Zenon DEF Live, Deleted
<1> QED
  BY <1>1, Zenon

\* The positions in the queue stay what they are.
LEMMA SameQueueKeeps ==
  ASSUME SseType, WindowInv, SameQueue
  PROVE  /\ session' = Deleted \/ session' \in Live
         /\ WindowInv'
         /\ session' # Deleted =>
              session # Deleted /\ Taken(session)' = Taken(session) /\ Taken(session) \in Nat
<1>1. session' # Deleted => session # Deleted /\ Taken(session)' = Taken(session)
  BY Zenon DEF SameQueue, Taken
<1>2. WindowInv'
  BY <1>1, Zenon DEF SameQueue, WindowInv
<1> QED
  BY <1>1, <1>2, Zenon DEF SameQueue, WindowInv

\* A stream that ends is no longer counted.
LEMMA ReleasedKeeps ==
  ASSUME SseType
  PROVE  /\ session = Deleted => Released(session) = Deleted
         /\ session # Deleted =>
              /\ Released(session) \in Live
              /\ Released(session).pending_notifications = session.pending_notifications
              /\ Released(session).replay_notifications = session.replay_notifications
              /\ Released(session).next_notification_event_id
                   = session.next_notification_event_id
<1>1. CASE session = Deleted
  BY <1>1, Zenon DEF Released
<1>2. CASE session # Deleted
  <2>1. session \in Live
    BY <1>2, Zenon DEF SseType
  <2>2. CASE session.active_sse_streams > 0
    BY <1>2, <2>1, <2>2 DEF Released, Live
  <2>3. CASE ~(session.active_sse_streams > 0)
    BY <1>2, <2>1, <2>3, Zenon DEF Released
  <2> QED
    BY <1>2, <2>2, <2>3, Zenon
<1> QED
  BY <1>1, <1>2, Zenon

\* The session changes, or the client loses a connection.
LEMMA SessionKeeps ==
  ASSUME SseInv, SameQueue, up' \subseteq up, stopped_' \in BOOLEAN,
         session' # Deleted => session'.active_sse_streams = session.active_sse_streams,
         UNCHANGED <<priming, stream, lastId, received, overlapped>>
  PROVE  SseInv'
<1>1. /\ session' = Deleted \/ session' \in Live
      /\ WindowInv'
      /\ session' # Deleted =>
           session # Deleted /\ Taken(session)' = Taken(session) /\ Taken(session) \in Nat
  BY SameQueueKeeps, Zenon DEF SseInv
<1>2. SseType'
  BY <1>1, Zenon DEF SseInv, SseType
<1>3. BehindInv'
  BY <1>1, Zenon DEF SseInv, BehindInv
<1>4. AloneInv'
  BY <1>1, Zenon DEF SseInv, AloneInv, IsOpen
<1>5. ASSUME NEW g \in Gets, NEW k \in Nat, At(g, k) PROVE At(g, k)'
  BY <1>1, <1>5, Zenon DEF At, Follows, Before
<1>6. PositionInv'
  BY <1>5, Zenon DEF SseInv, PositionInv, IsOpen, Before
<1>7. ReadInOrder'
  BY Zenon DEF SseInv, ReadInOrder
<1> QED
  BY <1>1, <1>2, <1>3, <1>4, <1>6, <1>7, Zenon DEF SseInv

\* A stream ends.
LEMMA EndsKeeps ==
  ASSUME SseInv, NEW g \in Gets, IsOpen(g), Ends(g), SameQueue,
         UNCHANGED <<stopped_, priming, lastId, received, overlapped>>
  PROVE  SseInv'
<1>1. /\ session' = Deleted \/ session' \in Live
      /\ WindowInv'
      /\ session' # Deleted =>
           session # Deleted /\ Taken(session)' = Taken(session) /\ Taken(session) \in Nat
  BY SameQueueKeeps, Zenon DEF SseInv
<1>2. /\ stream' \in [Gets -> [at : Places, replay : Seq(Events), event : Nat]]
      /\ stream'[g] = [at |-> "done", replay |-> <<>>, event |-> 0]
      /\ \A h \in Gets \ {g} : stream'[h] = stream[h]
  <2>1. [at |-> "done", replay |-> <<>>, event |-> 0]
          \in [at : Places, replay : Seq(Events), event : Nat]
    BY DEF Places
  <2> QED
    BY <2>1, Zenon DEF SseInv, SseType, Ends, NoStream
<1>3. SseType'
  <2>1. ASSUME NEW h \in Gets, stream'[h].at = "prime" PROVE priming
    <3>1. h # g
      BY <1>2, <2>1
    <3>2. stream[h].at = "prime"
      BY <1>2, <2>1, <3>1, Zenon
    <3> QED
      BY <3>2, Zenon DEF SseInv, SseType
  <2> QED
    BY <1>1, <1>2, <2>1, Zenon DEF SseInv, SseType
<1>4. BehindInv'
  <2> SUFFICES ASSUME session' # Deleted PROVE BehindInv'
    BY Zenon DEF BehindInv
  <2>1. stream'[g].event = 0 /\ stream'[g].replay = <<>>
    BY <1>2
  <2>2. ASSUME NEW h \in Gets
        PROVE  /\ stream'[h].event <= Taken(session)
               /\ \A i \in 1..Len(stream'[h].replay) :
                    stream'[h].replay[i].id <= Taken(session)
    <3>1. CASE h = g
      BY <1>1, <2>1, <3>1
    <3>2. CASE h # g
      BY <1>1, <1>2, <3>2, Zenon DEF SseInv, BehindInv
    <3> QED
      BY <3>1, <3>2, Zenon
  <2> QED
    BY <1>1, <2>2, Zenon DEF SseInv, BehindInv
<1>5. ~overlapped => \A h \in Gets : ~IsOpen(h)'
  BY <1>2 DEF SseInv, AloneInv, IsOpen, Open
<1>6. AloneInv' /\ PositionInv'
  BY <1>5, Zenon DEF SseInv, AloneInv, PositionInv, Before
<1>7. ReadInOrder'
  BY Zenon DEF SseInv, ReadInOrder
<1> QED
  BY <1>1, <1>3, <1>4, <1>6, <1>7, Zenon DEF SseInv

-----------------------------------------------------------------------------
(* The queue of the session.                                               *)

LEMMA EnqueueKeeps ==
  ASSUME SseInv, NEW size \in Sizes, enqueue_outbound_event(size)
  PROVE  SseInv'
<1> DEFINE e == [id |-> session.next_notification_event_id, size |-> size]
           q == session.pending_notifications
<1>1. session \in Live /\ session # Deleted
  BY Zenon DEF SseInv, SseType, enqueue_outbound_event
<1>2. q \in Seq(Events) /\ Taken(session) \in Nat /\ Numbered(q, Taken(session))
  BY <1>1, Zenon DEF SseInv, WindowInv, Live
<1>3. e.id = Taken(session) + Len(q) + 1 /\ e.id \in Nat
  BY <1>1, <1>2 DEF Taken, Live
<1>4. e \in Events
  <2>1. e.id \in 1..MaxEvents
    BY <1>2, <1>3, SseStreamAssumption DEF enqueue_outbound_event
  <2> QED
    BY <2>1, Zenon DEF Events, EventIds
<1> HIDE DEF e
<1>5. PICK p : /\ p = Append(q, e) /\ p \in Seq(Events) /\ Len(p) = Len(q) + 1
               /\ Numbered(p, Taken(session))
  <2>1. Append(q, e) \in Seq(Events) /\ Len(Append(q, e)) = Len(q) + 1
        /\ Numbered(Append(q, e), Taken(session))
    BY <1>2, <1>3, <1>4, NumberedAppend
  <2> QED
    BY <2>1, Zenon
<1>6. session' = [session EXCEPT
        !.pending_notifications = p,
        !.pending_notification_bytes = session.pending_notification_bytes + size,
        !.next_notification_event_id = session.next_notification_event_id + 1]
  BY <1>5, Zenon DEF enqueue_outbound_event, e
<1>7. /\ q = session.pending_notifications /\ Len(q) \in Nat
      /\ session.next_notification_event_id \in Nat
      /\ session.next_notification_event_id + 1 \in Nat
      /\ session.pending_notification_bytes + size \in Int
  BY <1>1, <1>2, SseStreamAssumption DEF Live
<1> HIDE DEF q
<1>8. /\ session' \in Live
      /\ session'.pending_notifications = p
      /\ session'.replay_notifications = session.replay_notifications
      /\ session'.next_notification_event_id = session.next_notification_event_id + 1
      /\ session'.active_sse_streams = session.active_sse_streams
  <2>1. p \in Seq(Events)
    BY <1>5, Zenon
  <2>2. session' \in Live
    BY <1>1, <1>6, <1>7, <2>1, Zenon DEF Live
  <2>3. /\ session'.pending_notifications = p
        /\ session'.replay_notifications = session.replay_notifications
        /\ session'.next_notification_event_id = session.next_notification_event_id + 1
        /\ session'.active_sse_streams = session.active_sse_streams
    BY <1>1, <1>6, Zenon DEF Live
  <2> QED
    BY <2>2, <2>3, Zenon
<1>8a. session' # Deleted /\ Taken(session)' = Taken(session)
  <2>1. session' # Deleted
    BY <1>8, LiveApart, Zenon
  <2>2. Len(session'.pending_notifications) = Len(q) + 1
    BY <1>5, <1>8, Zenon
  <2>3. PICK s : s = session'
    BY Zenon
  <2>4. PICK n \in Nat, m \in Nat : n = session.next_notification_event_id /\ m = Len(q)
    BY <1>7, Zenon
  <2>5. Taken(s) = (n + 1) - 1 - (m + 1)
    BY <1>8, <2>2, <2>3, <2>4, Zenon DEF Taken
  <2>6. Taken(session) = n - 1 - m
    BY <1>7, <2>4, Zenon DEF Taken
  <2>7. (n + 1) - 1 - (m + 1) = n - 1 - m
    OBVIOUS
  <2>8. Taken(session)' = Taken(s)
    BY <2>3, Zenon DEF Taken
  <2> QED
    BY <2>1, <2>5, <2>6, <2>7, <2>8, Zenon
<1>9. UNCHANGED <<stopped_, priming, stream, up, lastId, received, overlapped>>
  BY Zenon DEF enqueue_outbound_event
<1>10. SseType'
  BY <1>8, <1>9, Zenon DEF SseInv, SseType
<1>11. WindowInv'
  BY <1>1, <1>2, <1>5, <1>8, <1>8a, Zenon DEF SseInv, WindowInv
<1>12. BehindInv'
  BY <1>1, <1>8a, <1>9, Zenon DEF SseInv, BehindInv
<1>13. AloneInv'
  BY <1>1, <1>8, <1>9, Zenon DEF SseInv, AloneInv, IsOpen
<1>14. ASSUME NEW g \in Gets, NEW k \in Nat, At(g, k) PROVE At(g, k)'
  BY <1>1, <1>8a, <1>9, <1>14, Zenon DEF At, Follows, Before
<1>15. PositionInv'
  BY <1>9, <1>14, Zenon DEF SseInv, PositionInv, IsOpen, Before
<1>16. ReadInOrder'
  BY <1>9, Zenon DEF SseInv, ReadInOrder
<1> QED
  BY <1>10, <1>11, <1>12, <1>13, <1>15, <1>16, Zenon DEF SseInv

\* A stream takes the next event of the queue and remembers it in the window.
LEMMA TakenWindow ==
  ASSUME SseType, WindowInv, NEW g \in Gets, TakesPending(g)
  PROVE  /\ session \in Live /\ session # Deleted /\ session' \in Live /\ session' # Deleted
         /\ Taken(session) \in Nat /\ Taken(session)' = Taken(session) + 1
         /\ Head(session.pending_notifications).id = Taken(session) + 1
         /\ session'.active_sse_streams = session.active_sse_streams
         /\ WindowInv'
<1> DEFINE q == session.pending_notifications
           r == session.replay_notifications
           e == Head(session.pending_notifications)
           base == Taken(session) - Len(r)
           all == Append(r, e)
<1>1. session \in Live /\ session # Deleted /\ q # <<>>
  BY Zenon DEF SseType, TakesPending
<1>2. /\ q \in Seq(Events) /\ r \in Seq(Events) /\ Taken(session) \in Nat
      /\ Numbered(q, Taken(session)) /\ Numbered(r, base) /\ Len(r) <= MaxReplay
      /\ session.next_notification_event_id \in Nat
  BY <1>1, Zenon DEF WindowInv, Live
<1>3. Len(r) \in Nat /\ Len(q) \in Nat /\ base \in Int
  BY <1>2
<1>4. session' = [session EXCEPT
        !.pending_notifications = Tail(q),
        !.pending_notification_bytes = session.pending_notification_bytes - e.size,
        !.replay_notifications = remember_replay_event(session, e)]
  BY Zenon DEF TakesPending
<1>5. remember_replay_event(session, e)
        = IF MaxReplay = 0 THEN r ELSE IF Len(all) > MaxReplay THEN Tail(all) ELSE all
  BY Zenon DEF remember_replay_event
<1>6. Taken(session) = session.next_notification_event_id - 1 - Len(q)
  BY Zenon DEF Taken
<1>7. q = session.pending_notifications /\ r = session.replay_notifications
      /\ e = Head(q) /\ base = Taken(session) - Len(r)
  BY Zenon
<1> HIDE DEF q, r, e, base
<1>8. /\ e \in Events /\ e.id = Taken(session) + 1
      /\ Tail(q) \in Seq(Events) /\ Len(Tail(q)) = Len(q) - 1
      /\ Numbered(Tail(q), Taken(session) + 1)
  BY <1>1, <1>2, <1>7, NumberedTail
<1>9. all \in Seq(Events) /\ Len(all) = Len(r) + 1 /\ Numbered(all, base)
  <2>1. all = Append(r, e)
    BY <1>7, Zenon
  <2>2. e.id = base + Len(r) + 1
    BY <1>2, <1>3, <1>7, <1>8
  <2> HIDE DEF all
  <2> QED
    BY <1>2, <1>3, <1>8, <2>1, <2>2, NumberedAppend, Zenon
<1>10. PICK w : /\ w = remember_replay_event(session, e) /\ w \in Seq(Events)
                /\ Len(w) <= MaxReplay /\ Numbered(w, Taken(session) + 1 - Len(w))
  <2>1. MaxReplay \in Nat
    BY SseStreamAssumption, Zenon
  <2>2. CASE MaxReplay = 0
    <3>1. Len(r) = 0
      BY <1>2, <1>3, <2>2
    <3>2. remember_replay_event(session, e) = r
      BY <1>5, <2>2, Zenon
    <3>3. Len(r) <= MaxReplay /\ Numbered(r, Taken(session) + 1 - Len(r))
      BY <2>2, <3>1 DEF Numbered
    <3> QED
      BY <1>2, <3>2, <3>3, Zenon
  <2>3. CASE MaxReplay # 0 /\ ~(Len(all) > MaxReplay)
    <3>1. remember_replay_event(session, e) = all
      BY <1>5, <2>3, Zenon
    <3> HIDE DEF all
    <3>2. Taken(session) + 1 - Len(all) = base /\ Len(all) <= MaxReplay
      BY <1>2, <1>3, <1>7, <1>9, <2>1, <2>3
    <3> QED
      BY <1>9, <3>1, <3>2, Zenon
  <2>4. CASE MaxReplay # 0 /\ Len(all) > MaxReplay
    <3>1. remember_replay_event(session, e) = Tail(all)
      BY <1>5, <2>4, Zenon
    <3> HIDE DEF all
    <3>2. all # <<>>
      BY <1>3, <1>9
    <3>3. Tail(all) \in Seq(Events) /\ Len(Tail(all)) = Len(all) - 1
          /\ Numbered(Tail(all), base + 1)
      BY <1>3, <1>9, <3>2, NumberedTail, Zenon
    <3>4. Taken(session) + 1 - Len(Tail(all)) = base + 1 /\ Len(Tail(all)) <= MaxReplay
      BY <1>2, <1>3, <1>7, <1>9, <2>1, <3>3
    <3> QED
      BY <3>1, <3>3, <3>4, Zenon
  <2> QED
    BY <2>2, <2>3, <2>4, Zenon
<1>11. PICK p : p = Tail(q) /\ p \in Seq(Events) /\ Len(p) = Len(q) - 1
                /\ Numbered(p, Taken(session) + 1)
  BY <1>8, Zenon
<1>12. session' \in Live
  <2>1. session.pending_notification_bytes - e.size \in Int
    <3>1. e.size \in Int
      <4>1. \A n \in Sizes : n \in Int
        BY SseStreamAssumption
      <4>2. e.size \in Sizes
        BY <1>8, Zenon DEF Events
      <4> QED
        BY <4>1, <4>2, Zenon
    <3>2. session.pending_notification_bytes \in Int
      BY <1>1, Zenon DEF Live
    <3> QED
      BY <3>1, <3>2
  <2> QED
    BY <1>1, <1>4, <1>10, <1>11, <2>1, Zenon DEF Live
<1>13. /\ session'.pending_notifications = p /\ session'.replay_notifications = w
       /\ session'.next_notification_event_id = session.next_notification_event_id
       /\ session'.active_sse_streams = session.active_sse_streams
  BY <1>1, <1>4, <1>10, <1>11, Zenon DEF Live
<1>14. session' # Deleted
  BY <1>12, LiveApart, Zenon
<1>15. Taken(session)' = Taken(session) + 1
  <2>1. Taken(session)' = session.next_notification_event_id - 1 - Len(p)
    BY <1>13, Zenon DEF Taken
  <2> QED
    BY <1>2, <1>3, <1>6, <1>11, <2>1
<1>16. WindowInv'
  BY <1>2, <1>10, <1>11, <1>13, <1>15 DEF WindowInv
<1> QED
  BY <1>1, <1>2, <1>7, <1>8, <1>12, <1>13, <1>14, <1>15, <1>16, Zenon

\* The stream goes on with that event, which follows what the client read.
LEMMA TakesPendingKeeps ==
  ASSUME SseInv, NEW g \in Gets, TakesPending(g)
  PROVE  SseInv'
<1>1. /\ session \in Live /\ session # Deleted /\ session' \in Live /\ session' # Deleted
      /\ Taken(session) \in Nat /\ Taken(session)' = Taken(session) + 1
      /\ Head(session.pending_notifications).id = Taken(session) + 1
      /\ session'.active_sse_streams = session.active_sse_streams
      /\ WindowInv'
  BY TakenWindow, Zenon DEF SseInv
<1>2. /\ UNCHANGED <<stopped_, priming, up, lastId, received, overlapped>>
      /\ stream[g].at = "loop" /\ stream[g].replay = <<>>
      /\ stream' = [stream EXCEPT ![g].at = "write", ![g].event = Taken(session) + 1]
  BY <1>1, Zenon DEF TakesPending, AtQueue
<1> DEFINE Streams == [at : Places, replay : Seq(Events), event : Nat]
<1>3. PICK t \in Nat : t = Taken(session) + 1 /\ Taken(session)' = t
  BY <1>1
<1>4. /\ stream' \in [Gets -> Streams]
      /\ stream'[g].at = "write" /\ stream'[g].replay = <<>> /\ stream'[g].event = t
      /\ \A h \in Gets \ {g} : stream'[h] = stream[h]
  <2>1. stream \in [Gets -> Streams] /\ stream[g] \in Streams
    BY Zenon DEF SseInv, SseType
  <2>2. [stream[g] EXCEPT !.at = "write", !.event = t] \in Streams
    BY <2>1, Zenon DEF Places, Open
  <2>3. stream' = [stream EXCEPT ![g] = [stream[g] EXCEPT !.at = "write", !.event = t]]
    BY <1>2, <1>3, <2>1, Zenon
  <2>4. /\ stream' \in [Gets -> Streams]
        /\ stream'[g] = [stream[g] EXCEPT !.at = "write", !.event = t]
        /\ \A h \in Gets \ {g} : stream'[h] = stream[h]
    <3> HIDE DEF Streams
    <3> QED
      BY <2>1, <2>2, <2>3, Zenon
  <2> QED
    BY <1>2, <2>1, <2>4, Zenon
<1>5. SseType'
  BY <1>1, <1>2, <1>4, Zenon DEF SseInv, SseType
<1>6. BehindInv'
  <2>1. ASSUME NEW h \in Gets
        PROVE  /\ stream'[h].event <= t
               /\ \A i \in 1..Len(stream'[h].replay) : stream'[h].replay[i].id <= t
    <3>1. CASE h = g
      BY <1>4, <3>1
    <3>2. CASE h # g
      <4>1. stream'[h].event \in Nat /\ stream'[h].replay \in Seq(Events)
        BY <1>4, Zenon
      <4>2. \A e \in Events : e.id \in Nat
        BY DEF Events, EventIds
      <4>3. /\ stream'[h].event <= Taken(session)
            /\ \A i \in 1..Len(stream'[h].replay) :
                 stream'[h].replay[i].id <= Taken(session)
        BY <1>1, <1>4, <3>2, Zenon DEF SseInv, BehindInv
      <4> QED
        BY <1>1, <1>3, <4>1, <4>2, <4>3
    <3> QED
      BY <3>1, <3>2, Zenon
  <2>2. lastId # NoId => lastId <= t
    BY <1>1, <1>3 DEF SseInv, SseType, BehindInv
  <2> QED
    BY <1>2, <1>3, <2>1, <2>2, Zenon DEF BehindInv
<1>7. \A h \in Gets : IsOpen(h)' <=> IsOpen(h)
  BY <1>2, <1>4, Zenon DEF IsOpen, Open
<1>8. AloneInv'
  BY <1>1, <1>2, <1>7, Zenon DEF SseInv, AloneInv
<1>9. ASSUME ~overlapped PROVE At(g, t)'
  <2>1. PICK k \in Nat : At(g, k)
    BY <1>2, <1>9, Zenon DEF SseInv, PositionInv, IsOpen, Open
  <2>2. t = k + 1
    BY <1>1, <1>2, <1>3, <2>1 DEF At
  <2>3. g \in up /\ Len(received) > 0 => Follows(t, Before)
    BY <1>2, <2>1, <2>2, Zenon DEF At
  <2>4. g \in up' /\ Len(received') > 0 => Follows(t, Before)'
    BY <1>2, <2>3, Zenon DEF Follows, Before
  <2> QED
    BY <1>3, <1>4, <2>4 DEF At, Numbered
<1>10. PositionInv'
  <2>1. ~overlapped => \A h \in Gets : IsOpen(h)' => h = g
    BY <1>2, <1>7, Zenon DEF SseInv, AloneInv, IsOpen, Open
  <2> QED
    BY <1>2, <1>3, <1>9, <2>1, Zenon DEF SseInv, PositionInv, Before
<1>11. ReadInOrder'
  BY <1>2, Zenon DEF SseInv, ReadInOrder
<1> QED
  BY <1>1, <1>5, <1>6, <1>8, <1>10, <1>11, Zenon DEF SseInv

\* The stream goes on with an event of its replay.
LEMMA TakesReplayKeeps ==
  ASSUME SseInv, NEW g \in Gets, TakesReplay(g)
  PROVE  SseInv'
<1> DEFINE r == stream[g].replay
<1>1. /\ UNCHANGED <<session, stopped_, priming, up, lastId, received, overlapped>>
      /\ stream[g].at = "loop" /\ r # <<>> /\ r \in Seq(Events)
      /\ stream' = [stream EXCEPT ![g] =
                      [at |-> "write", replay |-> Tail(r), event |-> Head(r).id]]
  BY Zenon DEF TakesReplay, SseInv, SseType
<1>2. /\ Len(r) \in Nat /\ Len(r) > 0 /\ Head(r) = r[1] /\ Head(r) \in Events
      /\ Tail(r) \in Seq(Events) /\ Len(Tail(r)) = Len(r) - 1
      /\ \A i \in 1..Len(Tail(r)) : Tail(r)[i] = r[i + 1]
  BY <1>1, HeadTailProperties
<1>3. Head(r).id \in Nat
  BY <1>2 DEF Events, EventIds
<1>4. /\ stream' \in [Gets -> [at : Places, replay : Seq(Events), event : Nat]]
      /\ stream'[g] = [at |-> "write", replay |-> Tail(r), event |-> Head(r).id]
      /\ \A h \in Gets \ {g} : stream'[h] = stream[h]
  BY <1>1, <1>2, <1>3, Zenon DEF SseInv, SseType, Places, Open
<1>5. SseType'
  BY <1>1, <1>4, Zenon DEF SseInv, SseType
<1>6. WindowInv'
  BY <1>1, Zenon DEF SseInv, WindowInv, Taken
<1>7. BehindInv'
  <2> SUFFICES ASSUME session # Deleted PROVE BehindInv'
    BY <1>1, Zenon DEF BehindInv
  <2>1. \A i \in 1..Len(r) : r[i].id <= Taken(session)
    BY Zenon DEF SseInv, BehindInv
  <2>2. ASSUME NEW h \in Gets
        PROVE  /\ stream'[h].event <= Taken(session)
               /\ \A i \in 1..Len(stream'[h].replay) :
                    stream'[h].replay[i].id <= Taken(session)
    <3>1. CASE h = g
      <4>1. stream'[g].event = r[1].id /\ stream'[g].replay = Tail(r)
        BY <1>2, <1>4
      <4>2. r[1].id <= Taken(session)
        BY <1>2, <2>1
      <4>3. \A i \in 1..Len(Tail(r)) : Tail(r)[i].id <= Taken(session)
        BY <1>2, <2>1
      <4> QED
        BY <3>1, <4>1, <4>2, <4>3, Zenon
    <3>2. CASE h # g
      BY <1>4, <3>2, Zenon DEF SseInv, BehindInv
    <3> QED
      BY <3>1, <3>2, Zenon
  <2> QED
    BY <1>1, <2>2, Zenon DEF SseInv, BehindInv, Taken
<1>8. \A h \in Gets : IsOpen(h)' <=> IsOpen(h)
  BY <1>1, <1>4, Zenon DEF IsOpen, Open
<1>9. AloneInv'
  BY <1>1, <1>8, Zenon DEF SseInv, AloneInv
<1>10. ASSUME ~overlapped PROVE \E k \in Nat : At(g, k)'
  <2>1. PICK k \in Nat : At(g, k)
    BY <1>1, <1>10, Zenon DEF SseInv, PositionInv, IsOpen, Open
  <2>2. Head(r).id = k + 1 /\ Numbered(Tail(r), k + 1)
    BY <1>1, <2>1, NumberedTail DEF At
  <2>3. At(g, k + 1)'
    <3>1. /\ stream'[g].at = "write" /\ stream'[g].event = k + 1
          /\ stream'[g].replay = Tail(r)
      BY <1>4, <2>2
    <3>2. session' # Deleted => k + 1 + Len(stream'[g].replay) = Taken(session)'
      <4>1. session' = session /\ Taken(session)' = Taken(session)
        BY <1>1, Zenon DEF Taken
      <4>2. session # Deleted => k + Len(r) = Taken(session)
        BY <2>1, Zenon DEF At
      <4>3. Len(stream'[g].replay) = Len(r) - 1 /\ Len(r) \in Nat
        BY <1>2, <3>1, Zenon
      <4> HIDE DEF r
      <4> QED
        BY <4>1, <4>2, <4>3
    <3>3. g \in up /\ Len(received) > 0 => Follows(k + 1, Before)
      BY <1>1, <2>1, Zenon DEF At
    <3>4. g \in up' /\ Len(received') > 0 => Follows(k + 1, Before)'
      BY <1>1, <3>3, Zenon DEF Follows, Before
    <3> QED
      BY <2>2, <3>1, <3>2, <3>4, Zenon DEF At
  <2> QED
    BY <2>3
<1>11. PositionInv'
  <2>1. ~overlapped => \A h \in Gets : IsOpen(h)' => h = g
    BY <1>1, <1>8, Zenon DEF SseInv, AloneInv, IsOpen, Open
  <2> QED
    BY <1>1, <1>10, <2>1, Zenon DEF SseInv, PositionInv, Before
<1>12. ReadInOrder'
  BY <1>1, Zenon DEF SseInv, ReadInOrder
<1> QED
  BY <1>5, <1>6, <1>7, <1>9, <1>11, <1>12, Zenon DEF SseInv

-----------------------------------------------------------------------------
(* A stream writes.                                                        *)

(* The stream moves on to the next call of the provider.                   *)
MovesOn(g) ==
  /\ IsOpen(g)
  /\ \E next \in {"prime", "loop"} :
       /\ next = "prime" => priming
       /\ stream' = [stream EXCEPT ![g].at = next]
  /\ UNCHANGED <<session, stopped_, priming, up, overlapped>>

LEMMA MovesOnStream ==
  ASSUME SseInv, NEW g \in Gets, MovesOn(g)
  PROVE  /\ stream' \in [Gets -> [at : Places, replay : Seq(Events), event : Nat]]
         /\ stream'[g].at \in {"prime", "loop"} /\ stream'[g].replay = stream[g].replay
         /\ \A h \in Gets : h # g => stream'[h] = stream[h]
         /\ \A h \in Gets : stream'[h].event = stream[h].event
         /\ \A h \in Gets : stream'[h].replay = stream[h].replay
         /\ \A h \in Gets : stream'[h].at = "prime" => priming
         /\ \A h \in Gets : IsOpen(h)' <=> IsOpen(h)
<1> DEFINE Streams == [at : Places, replay : Seq(Events), event : Nat]
<1>1. PICK next \in {"prime", "loop"} : /\ next = "prime" => priming
                                      /\ stream' = [stream EXCEPT ![g].at = next]
  BY Zenon DEF MovesOn
<1>2. stream \in [Gets -> Streams] /\ stream[g] \in Streams
  BY Zenon DEF SseInv, SseType
<1>3. [stream[g] EXCEPT !.at = next] \in Streams
  BY <1>2, Zenon DEF Places, Open
<1>4. stream' = [stream EXCEPT ![g] = [stream[g] EXCEPT !.at = next]]
  BY <1>1, <1>2, Zenon
<1>5. /\ stream' \in [Gets -> Streams]
      /\ stream'[g] = [stream[g] EXCEPT !.at = next]
      /\ \A h \in Gets : h # g => stream'[h] = stream[h]
  <2> HIDE DEF Streams
  <2> QED
    BY <1>2, <1>3, <1>4, Zenon
<1>6. stream'[g].at = next /\ stream'[g].replay = stream[g].replay
      /\ stream'[g].event = stream[g].event
  BY <1>2, <1>5, Zenon
<1>7. \A h \in Gets : /\ stream'[h].event = stream[h].event
                      /\ stream'[h].replay = stream[h].replay
  BY <1>5, <1>6, Zenon
<1>8. ASSUME NEW h \in Gets, stream'[h].at = "prime" PROVE priming
  <2>1. CASE h = g
    BY <1>1, <1>6, <1>8, <2>1, Zenon
  <2>2. CASE h # g
    BY <1>5, <1>8, <2>2, Zenon DEF SseInv, SseType
  <2> QED
    BY <2>1, <2>2, Zenon
<1>9. \A h \in Gets : IsOpen(h)' <=> IsOpen(h)
  BY <1>5, <1>6, Zenon DEF MovesOn, IsOpen, Open
<1> QED
  BY <1>5, <1>6, <1>7, <1>8, <1>9, Zenon

\* Whatever the client makes of the write, the stream and the queue are as they
\* were.
LEMMA MovesOnKeeps ==
  ASSUME SseInv, NEW g \in Gets, MovesOn(g), received' \in Seq(Nat),
         lastId' \in Nat \cup {NoId},
         session # Deleted /\ lastId' # NoId => lastId' <= Taken(session)
  PROVE  SseType' /\ WindowInv' /\ BehindInv' /\ AloneInv'
<1>1. UNCHANGED <<session, stopped_, priming, up, overlapped>>
  BY Zenon DEF MovesOn
<1>2. Taken(session)' = Taken(session)
  BY <1>1, Zenon DEF Taken
<1>3. SseType'
  BY <1>1, MovesOnStream, Zenon DEF SseInv, SseType
<1>4. WindowInv'
  BY <1>1, <1>2, Zenon DEF SseInv, WindowInv
<1>5. BehindInv'
  BY <1>1, <1>2, MovesOnStream, Zenon DEF SseInv, BehindInv
<1>6. AloneInv'
  BY <1>1, MovesOnStream, Zenon DEF SseInv, AloneInv
<1> QED
  BY <1>3, <1>4, <1>5, <1>6, Zenon

\* The stream keeps its position if the next event is still the one to read.
LEMMA MovesOnAt ==
  ASSUME SseInv, NEW g \in Gets, MovesOn(g), NEW k \in Nat, At(g, k),
         g \in up /\ Len(received') > 0 => Follows(k + 1, Before)'
  PROVE  At(g, k)'
<1>1. UNCHANGED <<session, up>> /\ Taken(session)' = Taken(session)
  BY Zenon DEF MovesOn, Taken
<1>2. stream'[g].replay = stream[g].replay /\ stream'[g].at # "write"
  BY MovesOnStream, Zenon
<1> QED
  BY <1>1, <1>2, Zenon DEF At

LEMMA MovesOnPosition ==
  ASSUME SseInv, NEW g \in Gets, MovesOn(g),
         ~overlapped /\ Len(received') > 0 =>
           lastId' # NoId /\ IF priming THEN lastId' <= Before' ELSE lastId' = Before',
         NEW k \in Nat, ~overlapped => At(g, k)'
  PROVE  PositionInv'
<1>1. UNCHANGED <<priming, overlapped>> /\ IsOpen(g)
  BY Zenon DEF MovesOn
<1>2. ~overlapped => \A h \in Gets : IsOpen(h)' => h = g
  BY <1>1, MovesOnStream, Zenon DEF SseInv, AloneInv
<1> QED
  BY <1>1, <1>2, Zenon DEF PositionInv

\* A write the client does not see.
LEMMA LostWriteKeeps ==
  ASSUME SseInv, NEW g \in Gets, MovesOn(g), g \notin up, UNCHANGED <<lastId, received>>
  PROVE  SseInv'
<1>1. SseType' /\ WindowInv' /\ BehindInv' /\ AloneInv'
  BY MovesOnKeeps, Zenon DEF SseInv, SseType, BehindInv
<1>2. UNCHANGED <<priming, overlapped>> /\ IsOpen(g)
  BY Zenon DEF MovesOn
<1>3. PICK k \in Nat : ~overlapped => At(g, k)
  BY <1>2, Zenon DEF SseInv, PositionInv
<1>4. ~overlapped => At(g, k)'
  BY <1>3, MovesOnAt, Zenon
<1>5. PositionInv'
  BY <1>4, MovesOnPosition, Zenon DEF SseInv, PositionInv, Before
<1>6. ReadInOrder'
  BY <1>2, Zenon DEF SseInv, ReadInOrder
<1> QED
  BY <1>1, <1>5, <1>6, Zenon DEF SseInv

\* The client reads a priming event.
LEMMA PrimeWriteKeeps ==
  ASSUME SseInv, NEW g \in Gets, MovesOn(g), stream[g].at = "prime",
         lastId' = 0, received' = received
  PROVE  SseInv'
<1>1. UNCHANGED <<session, up, priming, overlapped>> /\ IsOpen(g)
  BY Zenon DEF MovesOn
<1>2. priming /\ received \in Seq(Nat) /\ NoId \notin Nat
  BY SseStreamAssumption, Zenon DEF SseInv, SseType
<1>3. session # Deleted => 0 <= Taken(session)
  BY DEF SseInv, WindowInv
<1>4. SseType' /\ WindowInv' /\ BehindInv' /\ AloneInv'
  BY <1>2, <1>3, MovesOnKeeps, Zenon
<1>5. PICK k \in Nat : ~overlapped => At(g, k)
  BY <1>1, Zenon DEF SseInv, PositionInv
<1>6. ASSUME ~overlapped PROVE At(g, k)'
  <2>1. g \in up /\ Len(received) > 0 => Follows(k + 1, Before)
    BY <1>5, <1>6, Zenon DEF At
  <2>2. g \in up /\ Len(received') > 0 => Follows(k + 1, Before)'
    BY <1>1, <2>1, Zenon DEF Follows, Before
  <2> QED
    BY <1>5, <1>6, <2>2, MovesOnAt, Zenon
<1>7. Len(received') > 0 => lastId' # NoId /\ lastId' <= Before'
  BY <1>2 DEF Before
<1>8. PositionInv'
  BY <1>2, <1>6, <1>7, MovesOnPosition, Zenon
<1>9. ReadInOrder'
  BY <1>1, Zenon DEF SseInv, ReadInOrder
<1> QED
  BY <1>4, <1>8, <1>9, Zenon DEF SseInv

\* The client reads an event: the one after the last it read.
LEMMA EventWriteKeeps ==
  ASSUME SseInv, NEW g \in Gets, MovesOn(g), stream[g].at = "write", g \in up,
         lastId' = stream[g].event, received' = Append(received, stream[g].event)
  PROVE  SseInv'
<1>1. UNCHANGED <<session, up, priming, overlapped>> /\ IsOpen(g)
  BY Zenon DEF MovesOn
<1>2. PICK n \in Nat : n = stream[g].event
  BY Zenon DEF SseInv, SseType
<1>3. received \in Seq(Nat) /\ Len(received) \in Nat /\ NoId \notin Nat
  BY SseStreamAssumption DEF SseInv, SseType
<1>4. /\ received' \in Seq(Nat) /\ Len(received') = Len(received) + 1
      /\ \A i \in 1..Len(received) : received'[i] = received[i]
      /\ received'[Len(received) + 1] = n
  BY <1>2, <1>3, AppendProperties
<1>5. Before' = n
  BY <1>4, Zenon DEF Before
<1>6. session # Deleted => n <= Taken(session)
  BY <1>2, Zenon DEF SseInv, BehindInv
<1>7. SseType' /\ WindowInv' /\ BehindInv' /\ AloneInv'
  BY <1>2, <1>4, <1>6, MovesOnKeeps, Zenon
<1>8. ASSUME ~overlapped
      PROVE  At(g, n) /\ (Len(received) > 0 => Follows(n, Before))
  <2>1. PICK k \in Nat : At(g, k)
    BY <1>1, <1>8, Zenon DEF SseInv, PositionInv
  <2>2. k = n
    BY <1>2, <2>1, Zenon DEF At
  <2> QED
    BY <2>1, <2>2, Zenon DEF At
<1>9. ~overlapped => At(g, n)'
  <2>1. Follows(n + 1, Before)'
    BY <1>5 DEF Follows
  <2> QED
    BY <1>8, <2>1, MovesOnAt, Zenon
<1>10. PositionInv'
  BY <1>2, <1>3, <1>5, <1>9, MovesOnPosition
<1>11. ReadInOrder'
  <2> SUFFICES ASSUME ~overlapped, NEW i \in 1..Len(received') - 1
               PROVE  IF priming THEN received'[i + 1] <= received'[i] + 1
                                 ELSE received'[i + 1] = received'[i] + 1
    BY <1>1, Zenon DEF ReadInOrder
  <2>1. CASE i < Len(received)
    <3>1. i \in 1..Len(received) - 1 /\ i + 1 \in 1..Len(received)
          /\ i \in 1..Len(received)
      BY <1>3, <1>4, <2>1
    <3> QED
      BY <1>4, <3>1, Zenon DEF SseInv, ReadInOrder
  <2>2. CASE i = Len(received)
    <3>1. received'[i] = Before /\ received'[i + 1] = n /\ Len(received) > 0
      BY <1>3, <1>4, <2>2 DEF Before
    <3> QED
      BY <1>8, <3>1, Zenon DEF Follows
  <2> QED
    BY <1>3, <1>4, <2>1, <2>2
<1> QED
  BY <1>7, <1>10, <1>11, Zenon DEF SseInv

-----------------------------------------------------------------------------
(* GET.                                                                    *)

\* What an admitted stream replays: everything between the last event the
\* client saw and the queue.
LEMMA ReplayIsSuffix ==
  ASSUME SseType, WindowInv, BehindInv, session # Deleted, Admits(session, lastId)
  PROVE  /\ ReplayFor(session, lastId) \in Seq(Events)
         /\ lastId = NoId => ReplayFor(session, lastId) = <<>>
         /\ lastId # NoId =>
              /\ lastId \in Nat
              /\ Len(ReplayFor(session, lastId)) = Taken(session) - lastId
              /\ Numbered(ReplayFor(session, lastId), lastId)
<1>1. CASE lastId = NoId
  BY <1>1 DEF ReplayFor
<1>2. CASE lastId # NoId
  <2> DEFINE q == session.pending_notifications
             r == session.replay_notifications
             base == Taken(session) - Len(r)
  <2>1. ReplayFor(session, lastId) = Newer(r, lastId)
    BY <1>2, Zenon DEF ReplayFor
  <2>2. /\ lastId \in Nat /\ r \in Seq(Events) /\ q \in Seq(Events)
        /\ session.next_notification_event_id \in Nat
    <3>1. session \in Live /\ lastId \in Nat
      BY <1>2, Zenon DEF SseType
    <3> QED
      BY <3>1, Zenon DEF Live
  <2>3. /\ Taken(session) \in Nat /\ Numbered(r, base) /\ lastId <= Taken(session)
        /\ Taken(session) = session.next_notification_event_id - 1 - Len(q)
    BY <1>2, Zenon DEF WindowInv, BehindInv, Taken
  <2>4. InWindow(session, lastId)
    BY <1>2, Zenon DEF Admits
  <2>5. Len(r) \in Nat /\ Len(q) \in Nat /\ base \in Int
    BY <2>2, <2>3
  <2>6. base <= lastId
    <3>1. CASE lastId < session.next_notification_event_id - 1
      <4>1. r # <<>> /\ lastId >= r[1].id - 1
        BY <2>4, <3>1, Zenon DEF InWindow, LastAssigned
      <4>2. r[1].id = base + 1
        BY <2>2, <2>3, <4>1 DEF Numbered
      <4> HIDE DEF base, r
      <4> QED
        BY <2>2, <2>5, <4>1, <4>2
    <3>2. CASE ~(lastId < session.next_notification_event_id - 1)
      BY <2>2, <2>3, <2>5, <3>2
    <3> QED
      BY <3>1, <3>2, Zenon
  <2>7. lastId <= base + Len(r) /\ base + Len(r) = Taken(session)
    BY <2>2, <2>3, <2>5
  <2> HIDE DEF base, r
  <2>8. /\ Newer(r, lastId) \in Seq(Events)
        /\ Len(Newer(r, lastId)) = base + Len(r) - lastId
        /\ Numbered(Newer(r, lastId), lastId)
    BY <2>2, <2>3, <2>5, <2>6, <2>7, NewerIsSuffix
  <2>9. Len(Newer(r, lastId)) = Taken(session) - lastId
    BY <2>2, <2>3, <2>5, <2>7, <2>8
  <2> QED
    BY <1>2, <2>1, <2>2, <2>8, <2>9, Zenon
<1> QED
  BY <1>1, <1>2, Zenon

\* A refused GET.
LEMMA RefusedKeeps ==
  ASSUME SseInv, NEW g \in Gets, stream[g] = NoStream,
         stream' = [stream EXCEPT ![g].at = "refused"],
         UNCHANGED <<session, stopped_, priming, up, lastId, received, overlapped>>
  PROVE  SseInv'
<1> DEFINE Streams == [at : Places, replay : Seq(Events), event : Nat]
<1>1. stream \in [Gets -> Streams] /\ stream[g] \in Streams
  BY Zenon DEF SseInv, SseType
<1>2. [stream[g] EXCEPT !.at = "refused"] \in Streams
  BY <1>1, Zenon DEF Places
<1>3. stream' = [stream EXCEPT ![g] = [stream[g] EXCEPT !.at = "refused"]]
  BY <1>1, Zenon
<1>4. /\ stream' \in [Gets -> Streams]
      /\ stream'[g] = [stream[g] EXCEPT !.at = "refused"]
      /\ \A h \in Gets : h # g => stream'[h] = stream[h]
  <2> HIDE DEF Streams
  <2> QED
    BY <1>1, <1>2, <1>3, Zenon
<1>5. /\ stream'[g].at = "refused" /\ stream'[g].event = stream[g].event
      /\ stream'[g].replay = stream[g].replay
  BY <1>1, <1>4, Zenon
<1>6. \A h \in Gets : /\ stream'[h].event = stream[h].event
                      /\ stream'[h].replay = stream[h].replay
  BY <1>4, <1>5, Zenon
<1>7. ~IsOpen(g) /\ ~IsOpen(g)'
  BY <1>5 DEF IsOpen, Open, NoStream
<1>8. SseType'
  <2>1. ASSUME NEW h \in Gets, stream'[h].at = "prime" PROVE priming
    <3>1. h # g
      BY <1>5, <2>1, Zenon
    <3> QED
      BY <1>4, <2>1, <3>1, Zenon DEF SseInv, SseType
  <2> QED
    BY <1>4, <2>1, Zenon DEF SseInv, SseType
<1>9. WindowInv'
  BY Zenon DEF SseInv, WindowInv, Taken
<1>10. BehindInv'
  BY <1>6, Zenon DEF SseInv, BehindInv, Taken
<1>11. \A h \in Gets : IsOpen(h)' => IsOpen(h) /\ h # g
  BY <1>4, <1>7, Zenon DEF IsOpen
<1>12. AloneInv'
  BY <1>11, Zenon DEF SseInv, AloneInv
<1>13. ASSUME NEW h \in Gets, IsOpen(h)', NEW k \in Nat, At(h, k) PROVE At(h, k)'
  <2>1. stream'[h] = stream[h]
    BY <1>4, <1>11, <1>13, Zenon
  <2>2. Taken(session)' = Taken(session)
    BY Zenon DEF Taken
  <2>3. \A n : Follows(n, Before)' <=> Follows(n, Before)
    BY Zenon DEF Follows, Before
  <2> QED
    BY <1>13, <2>1, <2>2, <2>3, Zenon DEF At
<1>14. PositionInv'
  BY <1>11, <1>13, Zenon DEF SseInv, PositionInv, Before
<1>15. ReadInOrder'
  BY Zenon DEF SseInv, ReadInOrder
<1> QED
  BY <1>8, <1>9, <1>10, <1>12, <1>14, <1>15, Zenon DEF SseInv

\* An admitted GET: its stream starts after the last event the client saw, or
\* at the queue.
LEMMA AdmittedKeeps ==
  ASSUME SseInv, NEW g \in Gets, up = {}, session # Deleted, Admits(session, lastId),
         stream' = [stream EXCEPT ![g] =
                     [at |-> StreamTop, replay |-> ReplayFor(session, lastId), event |-> 0]],
         session' = [session EXCEPT !.active_sse_streams = @ + 1],
         overlapped' = (overlapped \/ session.active_sse_streams > 0),
         UNCHANGED <<stopped_, priming, lastId, received>>
  PROVE  SseInv'
<1> DEFINE Streams == [at : Places, replay : Seq(Events), event : Nat]
<1>1. PICK r : /\ r = ReplayFor(session, lastId) /\ r \in Seq(Events)
               /\ lastId = NoId => r = <<>>
               /\ lastId # NoId => /\ lastId \in Nat /\ Len(r) = Taken(session) - lastId
                                  /\ Numbered(r, lastId)
  BY ReplayIsSuffix, Zenon DEF SseInv
<1>2. session \in Live /\ session.active_sse_streams \in Nat /\ Taken(session) \in Nat
  <2>1. session \in Live
    BY Zenon DEF SseInv, SseType
  <2> QED
    BY <2>1, Zenon DEF SseInv, WindowInv, Live
<1>3. /\ session' \in Live
      /\ session'.active_sse_streams = session.active_sse_streams + 1
      /\ session'.pending_notifications = session.pending_notifications
      /\ session'.replay_notifications = session.replay_notifications
      /\ session'.next_notification_event_id = session.next_notification_event_id
  <2>1. session.active_sse_streams + 1 \in Nat
    BY <1>2
  <2>2. session' \in Live
    BY <1>2, <2>1, Zenon DEF Live
  <2>3. /\ session'.active_sse_streams = session.active_sse_streams + 1
        /\ session'.pending_notifications = session.pending_notifications
        /\ session'.replay_notifications = session.replay_notifications
        /\ session'.next_notification_event_id = session.next_notification_event_id
    BY <1>2, Zenon DEF Live
  <2> QED
    BY <2>2, <2>3, Zenon
<1>4. session' # Deleted /\ Taken(session)' = Taken(session) /\ WindowInv'
  BY <1>3, SameQueueKeeps, LiveApart, Zenon DEF SseInv, SameQueue
<1>5. PICK top \in {"prime", "loop"} : top = StreamTop /\ (top = "prime" => priming)
  BY Zenon DEF StreamTop
<1>6. /\ stream' \in [Gets -> Streams]
      /\ stream'[g] = [at |-> top, replay |-> r, event |-> 0]
      /\ \A h \in Gets : h # g => stream'[h] = stream[h]
  <2>1. [at |-> top, replay |-> r, event |-> 0] \in Streams
    BY <1>1, <1>5, Zenon DEF Places, Open
  <2>2. stream \in [Gets -> Streams]
    BY Zenon DEF SseInv, SseType
  <2> HIDE DEF Streams
  <2> QED
    BY <1>1, <1>5, <2>1, <2>2, Zenon
<1>7. stream'[g].at = top /\ stream'[g].replay = r /\ stream'[g].event = 0
  BY <1>6, Zenon
<1>8. overlapped' \in BOOLEAN /\ (~overlapped' => ~overlapped /\ session.active_sse_streams = 0)
  <2>1. ~(session.active_sse_streams > 0) => session.active_sse_streams = 0
    BY <1>2
  <2> QED
    BY <2>1, Zenon
<1>9. SseType'
  <2>1. ASSUME NEW h \in Gets, stream'[h].at = "prime" PROVE priming
    <3>1. CASE h = g
      BY <1>5, <1>7, <2>1, <3>1, Zenon
    <3>2. CASE h # g
      BY <1>6, <2>1, <3>2, Zenon DEF SseInv, SseType
    <3> QED
      BY <3>1, <3>2, Zenon
  <2> QED
    BY <1>3, <1>6, <1>8, <2>1, Zenon DEF SseInv, SseType
<1>10. BehindInv'
  <2>1. ASSUME NEW h \in Gets
        PROVE  /\ stream'[h].event <= Taken(session)
               /\ \A i \in 1..Len(stream'[h].replay) :
                    stream'[h].replay[i].id <= Taken(session)
    <3>1. CASE h = g
      <4>1. CASE lastId = NoId
        BY <1>1, <1>2, <1>7, <3>1, <4>1
      <4>2. CASE lastId # NoId
        <5>1. Len(r) = Taken(session) - lastId /\ lastId \in Nat /\ Numbered(r, lastId)
          BY <1>1, <4>2, Zenon
        <5>2. \A i \in 1..Len(r) : r[i].id <= Taken(session)
          BY <1>2, <5>1 DEF Numbered
        <5> QED
          BY <1>2, <1>7, <3>1, <5>2
      <4> QED
        BY <4>1, <4>2, Zenon
    <3>2. CASE h # g
      BY <1>6, <3>2, Zenon DEF SseInv, BehindInv
    <3> QED
      BY <3>1, <3>2, Zenon
  <2> QED
    BY <1>4, <2>1, Zenon DEF SseInv, BehindInv
<1>11. ASSUME ~overlapped', NEW h \in Gets, IsOpen(h)' PROVE h = g
  BY <1>6, <1>8, <1>11, Zenon DEF SseInv, AloneInv, IsOpen
<1>12. AloneInv'
  BY <1>2, <1>3, <1>11 DEF AloneInv
<1>13. ASSUME ~overlapped' PROVE \E k \in Nat : At(g, k)'
  <2>1. CASE lastId = NoId
    <3>1. PICK k \in Nat : k = Taken(session)
      BY <1>2, Zenon
    <3>2. ~(Len(received') > 0)
      BY <1>8, <1>13, <2>1, Zenon DEF SseInv, PositionInv
    <3>3. Len(stream'[g].replay) = 0 /\ stream'[g].at # "write"
      BY <1>1, <1>5, <1>7, <2>1
    <3>4. At(g, k)'
      BY <1>4, <3>1, <3>2, <3>3 DEF At, Numbered
    <3> QED
      BY <3>4, Zenon
  <2>2. CASE lastId # NoId
    <3>1. PICK k \in Nat : k = lastId
      BY <1>1, <2>2, Zenon
    <3>2. Numbered(stream'[g].replay, k) /\ stream'[g].at # "write"
          /\ k + Len(stream'[g].replay) = Taken(session)
      BY <1>1, <1>2, <1>5, <1>7, <2>2, <3>1
    <3>3. Len(received) > 0 => IF priming THEN k <= Before ELSE k = Before
      BY <1>8, <1>13, <3>1, Zenon DEF SseInv, PositionInv
    <3>4. Len(received') > 0 => Follows(k + 1, Before)'
      <4>1. Len(received) > 0 => Before \in Nat
        BY DEF SseInv, SseType, Before
      <4>2. Before' = Before
        BY Zenon DEF Before
      <4> QED
        BY <3>3, <4>1, <4>2 DEF Follows
    <3>5. At(g, k)'
      BY <1>4, <3>2, <3>4, Zenon DEF At
    <3> QED
      BY <3>5, Zenon
  <2> QED
    BY <2>1, <2>2, Zenon
<1>14. PositionInv'
  BY <1>8, <1>11, <1>13, Zenon DEF SseInv, PositionInv, Before
<1>15. ReadInOrder'
  BY <1>8, Zenon DEF SseInv, ReadInOrder
<1> QED
  BY <1>4, <1>9, <1>10, <1>12, <1>14, <1>15, Zenon DEF SseInv

-----------------------------------------------------------------------------
(* Every step.                                                             *)

LEMMA WriteStep ==
  ASSUME SseInv, NEW g \in Gets, Prime(g) \/ WriteEvent(g)
  PROVE  SseInv'
<1>1. IsOpen(g)
  BY Zenon DEF Prime, WriteEvent, IsOpen, Open
<1>2. PICK next \in {"prime", "loop"} :
        /\ next = "prime" => priming
        /\ Prime(g) => Write(g, 0, next)
        /\ WriteEvent(g) => Write(g, stream[g].event, next)
  <2>1. CASE Prime(g)
    BY <2>1, Zenon DEF Prime, WriteEvent
  <2>2. CASE WriteEvent(g)
    BY <2>2, Zenon DEF Prime, WriteEvent, StreamTop
  <2> QED
    BY <2>1, <2>2, Zenon
<1>3. CASE g \notin up /\ Ends(g) /\ session' = Released(session) /\ UNCHANGED lastId
  <2>1. SameQueue
    BY <1>3, ReleasedKeeps, Zenon DEF SseInv, SameQueue
  <2>2. UNCHANGED <<stopped_, priming, received, overlapped>>
    BY <1>3, Zenon DEF Prime, WriteEvent, Write
  <2> QED
    BY <1>1, <1>3, <2>1, <2>2, EndsKeeps, Zenon
<1>4. CASE /\ stream' = [stream EXCEPT ![g].at = next] /\ UNCHANGED <<up, session>>
           /\ g \notin up /\ UNCHANGED lastId
  <2>1. MovesOn(g) /\ received' = received
    BY <1>1, <1>2, <1>4, Zenon DEF Prime, WriteEvent, Write, MovesOn
  <2> QED
    BY <1>4, <2>1, LostWriteKeeps, Zenon
<1>5. CASE /\ stream' = [stream EXCEPT ![g].at = next] /\ UNCHANGED <<up, session>>
           /\ g \in up /\ Prime(g) /\ lastId' = 0
  <2>1. MovesOn(g) /\ received' = received /\ stream[g].at = "prime"
    BY <1>1, <1>2, <1>5, Zenon DEF Prime, Write, MovesOn
  <2> QED
    BY <1>5, <2>1, PrimeWriteKeeps, Zenon
<1>6. CASE /\ stream' = [stream EXCEPT ![g].at = next] /\ UNCHANGED <<up, session>>
           /\ g \in up /\ WriteEvent(g) /\ lastId' = stream[g].event
  <2>1. /\ MovesOn(g) /\ stream[g].at = "write"
        /\ received' = Append(received, stream[g].event)
    BY <1>1, <1>2, <1>6, Zenon DEF WriteEvent, Write, MovesOn
  <2> QED
    BY <1>6, <2>1, EventWriteKeeps, Zenon
<1> QED
  BY <1>2, <1>3, <1>4, <1>5, <1>6, Zenon DEF Write

LEMMA CloseStep ==
  ASSUME SseInv, NEW g \in Gets, StreamCloses(g) \/ SessionGone(g) \/ Disconnects(g)
  PROVE  SseInv'
<1>1. /\ IsOpen(g) /\ Ends(g)
      /\ UNCHANGED <<stopped_, priming, lastId, received, overlapped>>
  BY Zenon DEF StreamCloses, SessionGone, Disconnects, AtQueue, IsOpen, Open
<1>2. SameQueue
  <2>1. CASE StreamCloses(g)
    BY <2>1, ReleasedKeeps, Zenon DEF SseInv, StreamCloses, SameQueue
  <2>2. CASE SessionGone(g)
    BY <2>2, Zenon DEF SessionGone, SameQueue
  <2>3. CASE Disconnects(g)
    <3>1. PICK s : s = Released(session)
      BY Zenon
    <3>2. /\ s \in Live /\ s.pending_notifications = session.pending_notifications
          /\ s.replay_notifications = session.replay_notifications
          /\ s.next_notification_event_id = session.next_notification_event_id
      BY <2>3, <3>1, ReleasedKeeps, Zenon DEF SseInv, Disconnects
    <3>3. session # Deleted /\ session' = [s EXCEPT !.sse_disconnect_requested = FALSE]
      BY <2>3, <3>1, Zenon DEF Disconnects
    <3>4. session' \in Live
      BY <3>2, <3>3, Zenon DEF Live
    <3>5. /\ session'.pending_notifications = s.pending_notifications
          /\ session'.replay_notifications = s.replay_notifications
          /\ session'.next_notification_event_id = s.next_notification_event_id
      BY <3>2, <3>3, Zenon DEF Live
    <3> QED
      BY <3>2, <3>3, <3>4, <3>5, Zenon DEF SameQueue
  <2> QED
    BY <2>1, <2>2, <2>3, Zenon
<1> QED
  BY <1>1, <1>2, EndsKeeps, Zenon

LEMMA SessionStep ==
  ASSUME SseInv,
         \/ disconnect_session_sse \/ DeleteSession \/ stop
         \/ \E g \in Gets : ClientDrops(g)
         \/ UNCHANGED vars
  PROVE  SseInv'
<1>1. /\ UNCHANGED <<priming, stream, lastId, received, overlapped>>
      /\ up' \subseteq up
  BY Zenon DEF disconnect_session_sse, DeleteSession, stop, ClientDrops, vars
<1>2. stopped_' \in BOOLEAN
  BY Zenon DEF SseInv, SseType, disconnect_session_sse, DeleteSession, stop, ClientDrops,
     vars
<1>3. /\ SameQueue
      /\ session' # Deleted => session'.active_sse_streams = session.active_sse_streams
  <2>1. CASE disconnect_session_sse
    <3>1. session \in Live /\ session # Deleted
          /\ session' = [session EXCEPT !.sse_disconnect_requested = TRUE]
      BY <2>1, Zenon DEF SseInv, SseType, disconnect_session_sse
    <3>2. session' \in Live
      BY <3>1, Zenon DEF Live
    <3>3. /\ session'.pending_notifications = session.pending_notifications
          /\ session'.replay_notifications = session.replay_notifications
          /\ session'.next_notification_event_id = session.next_notification_event_id
          /\ session'.active_sse_streams = session.active_sse_streams
      BY <3>1, Zenon DEF Live
    <3> QED
      BY <3>1, <3>2, <3>3, Zenon DEF SameQueue
  <2>2. CASE session' = Deleted
    BY <2>2, Zenon DEF SameQueue
  <2>3. CASE session' = session
    BY <2>3, Zenon DEF SseInv, SseType, SameQueue
  <2> QED
    BY <2>1, <2>2, <2>3, Zenon DEF DeleteSession, stop, ClientDrops, vars
<1> QED
  BY <1>1, <1>2, <1>3, SessionKeeps, Zenon

LEMMA SseInvInit ==
  Init => SseInv
<1> SUFFICES ASSUME Init PROVE SseInv
  BY Zenon
<1>1. session \in Live /\ session # Deleted
      /\ session.pending_notifications = <<>> /\ session.replay_notifications = <<>>
      /\ session.next_notification_event_id = 1
  <2>1. session \in Live
    BY DEF Init, Live
  <2> QED
    BY <2>1, LiveApart, Zenon DEF Init
<1>2. stream \in [Gets -> [at : Places, replay : Seq(Events), event : Nat]]
  BY DEF Init, NoStream, Places
<1>3. \A g \in Gets : stream[g].at = "none" /\ stream[g].event = 0 /\ stream[g].replay = <<>>
  BY Zenon DEF Init, NoStream
<1>4. SseType
  <2>1. received \in Seq(Nat) /\ stopped_ \in BOOLEAN /\ overlapped \in BOOLEAN
    <3>1. <<>> \in Seq(Nat)
      OBVIOUS
    <3> QED
      BY <3>1, Zenon DEF Init
  <2>2. \A g \in Gets : stream[g].at # "prime"
    BY <1>3, Zenon
  <2> QED
    BY <1>1, <1>2, <2>1, <2>2, Zenon DEF Init, SseType
<1>5. Len(session.pending_notifications) = 0 /\ Len(session.replay_notifications) = 0
  BY <1>1, Zenon
<1>6. Taken(session) = 0
  <2>1. Taken(session) = 1 - 1 - 0
    BY <1>1, <1>5, Zenon DEF Taken
  <2> QED
    BY <2>1
<1>7. WindowInv
  <2>1. 0 <= MaxReplay
    BY SseStreamAssumption
  <2> QED
    BY <1>5, <1>6, <2>1 DEF WindowInv, Numbered
<1>8. BehindInv
  <2>1. \A g \in Gets : Len(stream[g].replay) = 0 /\ stream[g].event = 0
    BY <1>3
  <2> QED
    BY <1>6, <2>1 DEF Init, BehindInv
<1>9. AloneInv /\ PositionInv /\ ReadInOrder
  BY <1>3 DEF Init, AloneInv, PositionInv, ReadInOrder, IsOpen, Open
<1> QED
  BY <1>4, <1>7, <1>8, <1>9, Zenon DEF SseInv

LEMMA SseInvStep ==
  SseInv /\ [Next]_vars => SseInv'
<1> SUFFICES ASSUME SseInv, [Next]_vars PROVE SseInv'
  BY Zenon
<1>1. ASSUME NEW size \in Sizes, enqueue_outbound_event(size) PROVE SseInv'
  BY <1>1, EnqueueKeeps, Zenon
<1>2. ASSUME NEW g \in Gets, Get(g) PROVE SseInv'
  <2>1. CASE session # Deleted /\ Admits(session, lastId)
    BY <1>2, <2>1, AdmittedKeeps, Zenon DEF Get
  <2>2. CASE ~(session # Deleted /\ Admits(session, lastId))
    BY <1>2, <2>2, RefusedKeeps, Zenon DEF Get
  <2> QED
    BY <2>1, <2>2, Zenon
<1>3. ASSUME NEW g \in Gets, Provider(g) PROVE SseInv'
  BY <1>3, WriteStep, CloseStep, TakesReplayKeeps, TakesPendingKeeps, Zenon DEF Provider
<1> QED
  BY <1>1, <1>2, <1>3, SessionStep, Zenon DEF Next

\* However often the client loses its connection and comes back, and whenever
\* events are queued, replayed or dropped from the window: as long as no stream
\* is opened while an older one is still counted, it reads the events in order
\* and without a gap, and, without priming events, none twice.
THEOREM EventsAreReadInOrder ==
  Spec => []ReadInOrder
<1>1. SseInv => ReadInOrder
  BY Zenon DEF SseInv
<1> QED
  BY <1>1, SseInvInit, SseInvStep, PTL DEF Spec

\* A GET with Last-Event-ID that is admitted misses nothing, also while an older
\* stream still takes events: what it replays and what is queued are the events
\* after the last the client saw, up to the last one assigned.
THEOREM ResumesAreComplete ==
  Spec => ResumeIsComplete
<1>1. ASSUME SseInv, [Next]_vars, NEW g \in Gets,
             stream[g].at = "none", stream'[g].at \in Open, lastId # NoId
      PROVE  {e.id : e \in Range(stream'[g].replay \o session.pending_notifications)}
               = lastId + 1 .. session.next_notification_event_id - 1
  <2>1. stream \in [Gets -> [at : Places, replay : Seq(Events), event : Nat]]
    BY <1>1, Zenon DEF SseInv, SseType
  <2>2. Get(g)
    <3>1. stream'[g] # stream[g]
      BY <1>1, Zenon DEF Open
    <3>2. ASSUME NEW h \in Gets, h # g, Get(h) \/ Provider(h) PROVE FALSE
      BY <2>1, <3>1, <3>2, Zenon DEF Get, Provider, Prime, WriteEvent, Write, StreamCloses,
         TakesReplay, SessionGone, Disconnects, TakesPending, Ends
    <3>3. ~Provider(g)
      BY <1>1, Zenon DEF Provider, Prime, WriteEvent, StreamCloses, TakesReplay,
         SessionGone,
         Disconnects, TakesPending, AtQueue
    <3> QED
      BY <1>1, <3>1, <3>2, <3>3, Zenon DEF Next, vars, enqueue_outbound_event,
         disconnect_session_sse, DeleteSession, stop, ClientDrops
  <2>3. session # Deleted /\ Admits(session, lastId)
    BY <1>1, <2>1, <2>2, Zenon DEF Get, Open
  <2>4. stream'[g].replay = ReplayFor(session, lastId)
    BY <2>1, <2>2, <2>3 DEF Get
  <2> DEFINE r == ReplayFor(session, lastId)
             q == session.pending_notifications
  <2>5. r \in Seq(Events) /\ lastId \in Nat /\ Len(r) = Taken(session) - lastId
        /\ Numbered(r, lastId)
    BY <1>1, <2>3, ReplayIsSuffix, Zenon DEF SseInv
  <2>6. /\ q \in Seq(Events) /\ Numbered(q, Taken(session)) /\ Taken(session) \in Nat
        /\ session.next_notification_event_id \in Nat
        /\ Taken(session) = session.next_notification_event_id - 1 - Len(q)
    <3>1. session \in Live
      BY <1>1, <2>3, Zenon DEF SseInv, SseType
    <3> QED
      BY <1>1, <2>3, <3>1, Zenon DEF SseInv, WindowInv, Live, Taken
  <2> HIDE DEF r, q
  <2>7. Len(r) \in Nat /\ Len(q) \in Nat /\ lastId + Len(r) = Taken(session)
    BY <2>5, <2>6
  <2>8. r \o q \in Seq(Events) /\ Len(r \o q) = Len(r) + Len(q) /\ Numbered(r \o q, lastId)
    <3>1. Numbered(q, lastId + Len(r)) /\ lastId \in Int
      BY <2>5, <2>6, <2>7
    <3> QED
      BY <2>5, <2>6, <3>1, NumberedConcat, Zenon
  <2>9. {e.id : e \in Range(r \o q)} = lastId + 1 .. lastId + Len(r \o q)
    <3>1. PICK c : c = r \o q
      BY Zenon
    <3>2. c \in Seq(Events) /\ lastId \in Int /\ Numbered(c, lastId)
      BY <2>5, <2>8, <3>1
    <3>3. {e.id : e \in Range(c)} = lastId + 1 .. lastId + Len(c)
      BY <3>2, NumberedRange, Zenon
    <3> QED
      BY <3>1, <3>3, Zenon
  <2>10. lastId + Len(r \o q) = session.next_notification_event_id - 1
    <3>1. lastId + (Len(r) + Len(q)) = session.next_notification_event_id - 1
      <4>1. PICK n \in Nat : n = session.next_notification_event_id
        BY <2>6, Zenon
      <4>2. /\ lastId \in Nat /\ Len(r) \in Nat /\ Len(q) \in Nat
            /\ lastId + Len(r) = n - 1 - Len(q)
        BY <2>5, <2>6, <2>7, <4>1, Zenon
      <4> QED
        BY <4>1, <4>2
    <3> QED
      BY <2>8, <3>1, Zenon
  <2> QED
    BY <2>4, <2>9, <2>10, Zenon DEF r, q
<1>2. SseInv /\ [Next]_vars =>
        [\A g \in Gets :
           stream[g].at = "none" /\ stream'[g].at \in Open /\ lastId # NoId =>
             {e.id : e \in Range(stream'[g].replay \o session.pending_notifications)}
               = lastId + 1 .. session.next_notification_event_id - 1]_vars
  BY <1>1, Zenon
<1> QED
  BY <1>2, SseInvInit, SseInvStep, PTL DEF Spec, ResumeIsComplete
=============================================================================
