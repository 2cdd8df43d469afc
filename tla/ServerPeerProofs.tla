-------------------------- MODULE ServerPeerProofs --------------------------
(***************************************************************************)
(* Theorems about ServerPeer, for any messages, any number of them and any *)
(* number of request threads.                                              *)
(***************************************************************************)
EXTENDS ServerPeer, FiniteSetTheorems, TLAPS

Places == {"none", "finished"} \cup Live

StateType ==
  /\ msgs \in Seq(Messages) /\ Len(msgs) <= MaxMessages
  /\ received \in Nat /\ received <= Len(msgs)
  /\ loop \in {"top", "receive", "drain", "returned"}
  /\ worker \in [Numbers -> Places]
  /\ answers \in [Numbers -> Nat]

(* The loop is leaving because something could not be done.                *)
Failed == loop \in {"drain", "returned"} /\ result = "error"

(* Where the answer to a received request is: sent, still owed by its      *)
(* thread, or given up with an error that serve_transport will return.     *)
Accounted(n) ==
  \/ worker[n] = "none" /\ (answers[n] = 1 \/ Failed)
  \/ worker[n] \in Live \ {"finishing"} /\ answers[n] = 0
  \/ worker[n] \in {"finishing", "finished"} /\ (answers[n] = 1 \/ first_error)

(* A thread belongs to a request that was received.                        *)
Belongs(n) == n <= received /\ msgs[n].type \in Requests

DrainInv ==
  /\ StateType
  /\ active = Cardinality(LiveWorkers)
  /\ \A n \in Numbers : worker[n] # "none" => Belongs(n)
  /\ \A n \in Numbers : n > received => answers[n] = 0
  /\ \A n \in ReceivedRequests : Accounted(n)
  /\ loop \in {"top", "receive"} => result = "none"
  /\ loop = "returned" => LiveWorkers = {} /\ (first_error => result = "error")

-----------------------------------------------------------------------------
\* The requests with a live thread form a finite set.
LEMMA LiveFinite == IsFiniteSet(LiveWorkers) /\ IsFiniteSet(LiveWorkers')
<1>1. IsFiniteSet(Numbers)
  BY FS_Interval, ServerPeerAssumption DEF Numbers
<1>2. LiveWorkers \in SUBSET Numbers /\ LiveWorkers' \in SUBSET Numbers
  BY DEF LiveWorkers
<1> QED
  BY <1>1, <1>2, FS_Subset

\* What a received message is: it exists, has a number, and was not received
\* before.
LEMMA Received ==
  ASSUME DrainInv, NEW types, Receives(types)
  PROVE  /\ Next1 \in Numbers /\ received' = Next1 /\ Next1 \in Nat
         /\ received < Next1 /\ Next1 <= Len(msgs)
         /\ worker[Next1] = "none" /\ answers[Next1] = 0
         /\ msgs[Next1].type \in types /\ loop = "receive" /\ result = "none"
         /\ \A n \in 1..Next1 : n \in 1..received \/ n = Next1
<1>1. Len(msgs) \in Nat
  BY DEF DrainInv, StateType
<1>2. received \in Nat /\ received < Len(msgs) /\ Len(msgs) <= MaxMessages
  BY <1>1 DEF DrainInv, StateType, Receives
<1>3. Next1 \in Numbers /\ Next1 \in Nat /\ received < Next1 /\ Next1 <= Len(msgs)
  BY <1>1, <1>2, ServerPeerAssumption DEF Next1, Numbers
<1>4. worker[Next1] = "none"
  BY <1>2, <1>3 DEF DrainInv, Belongs
<1>5. \A n \in 1..Next1 : n \in 1..received \/ n = Next1
  BY <1>2 DEF Next1
<1>6. answers[Next1] = 0 /\ loop = "receive" /\ result = "none" /\ received' = Next1
  BY <1>3 DEF DrainInv, Receives
<1> QED
  BY <1>2, <1>3, <1>4, <1>5, <1>6 DEF Receives, Next1

\* A step of the loop that receives a message, starts no thread and answers it
\* or gives up, keeps the account.
LEMMA ReceiveKeeps ==
  ASSUME DrainInv, NEW types, Receives(types),
         UNCHANGED <<msgs, worker, active, first_error>>,
         Continue \/ Leave,
         \/ answers' = answers
         \/ answers' = [answers EXCEPT ![Next1] = @ + 1],
         msgs[Next1].type \in Requests =>
           Leave \/ answers' = [answers EXCEPT ![Next1] = @ + 1]
  PROVE  DrainInv'
<1>1. /\ Next1 \in Numbers /\ received' = Next1 /\ Next1 \in Nat
      /\ received < Next1 /\ Next1 <= Len(msgs)
      /\ worker[Next1] = "none" /\ answers[Next1] = 0
      /\ loop = "receive" /\ result = "none"
      /\ \A n \in 1..Next1 : n \in 1..received \/ n = Next1
  BY Received
<1>2. received \in Nat /\ Len(msgs) \in Nat
  BY DEF DrainInv, StateType
<1>3. StateType'
  BY <1>1 DEF DrainInv, StateType, Continue, Leave
<1>4. LiveWorkers' = LiveWorkers
  BY DEF LiveWorkers
<1>5. \A n \in Numbers : worker'[n] # "none" => Belongs(n)'
  BY <1>1, <1>2 DEF DrainInv, Belongs, Numbers
<1>6. \A n \in Numbers : n > received' => answers'[n] = 0
  BY <1>1, <1>2, ServerPeerAssumption DEF DrainInv, Numbers, StateType
<1>7. ASSUME NEW n \in ReceivedRequests' PROVE Accounted(n)'
  <2>1. CASE n = Next1
    <3>1. msgs[Next1].type \in Requests
      BY <2>1 DEF ReceivedRequests
    <3>2. answers'[n] = 1 \/ Failed'
      BY <1>1, <2>1, <3>1 DEF Failed, Leave, DrainInv, StateType
    <3> QED
      BY <1>1, <2>1, <3>2 DEF Accounted
  <2>2. CASE n # Next1
    <3>1. n \in ReceivedRequests /\ n \in Numbers
      <4>1. n \in 1..received /\ msgs[n].type \in Requests
        BY <1>1, <2>2 DEF ReceivedRequests
      <4>2. Len(msgs) <= MaxMessages /\ received <= Len(msgs)
        BY DEF DrainInv, StateType
      <4> QED
        BY <1>2, <4>1, <4>2, ServerPeerAssumption DEF ReceivedRequests, Numbers
    <3>2. answers'[n] = answers[n]
      BY <2>2, <3>1 DEF DrainInv, StateType
    <3>3. Accounted(n)
      BY <3>1 DEF DrainInv
    <3>4. ~Failed
      BY <1>1 DEF Failed
    <3> QED
      BY <3>2, <3>3, <3>4 DEF Accounted
  <2> QED
    BY <2>1, <2>2
<1>8. /\ loop' \in {"top", "receive"} => result' = "none"
      /\ loop' # "returned"
  BY <1>1 DEF Continue, Leave
<1> QED
  BY <1>3, <1>4, <1>5, <1>6, <1>7, <1>8 DEF DrainInv

\* A step of a request thread from one live place to another keeps the count of
\* live threads, and the account when the answer and the error stay.
LEMMA WorkerKeeps ==
  ASSUME DrainInv, NEW n \in Numbers,
         NEW from \in Live \ {"finishing"}, NEW to \in Live \ {"finishing"},
         Goes(n, from, to),
         UNCHANGED <<msgs, received, loop, result, active, first_error, answers>>
  PROVE  DrainInv'
<1>1. worker' = [worker EXCEPT ![n] = to] /\ worker[n] = from
      /\ worker \in [Numbers -> Places]
  BY DEF Goes, DrainInv, StateType
<1>2. LiveWorkers' = LiveWorkers
  BY <1>1 DEF LiveWorkers
<1>3. StateType'
  BY <1>1 DEF DrainInv, StateType, Places
<1>4. \A k \in Numbers : worker'[k] # "none" => Belongs(k)'
  BY <1>1 DEF DrainInv, Belongs, Live
<1>5. ASSUME NEW k \in ReceivedRequests' PROVE Accounted(k)'
  <2>1. k \in ReceivedRequests
    BY DEF ReceivedRequests
  <2>2. Accounted(k)
    BY <2>1 DEF DrainInv
  <2>3. CASE k = n
    BY <1>1, <2>2, <2>3 DEF Accounted, Live
  <2>4. CASE k # n
    <3>1. worker'[k] = worker[k]
      BY <1>1, <2>4
    <3> QED
      BY <2>2, <3>1 DEF Accounted, Failed
  <2> QED
    BY <2>3, <2>4
<1> QED
  BY <1>2, <1>3, <1>4, <1>5 DEF DrainInv

\* Sending the answer: it is counted, or the thread goes on to report that it
\* could not be sent.
LEMMA SendsKeeps ==
  ASSUME DrainInv, NEW n \in Numbers, WorkerSends(n) PROVE DrainInv'
<1>1. CASE open
  <2>1. /\ worker' = [worker EXCEPT ![n] = "finishing"] /\ worker[n] = "handled"
        /\ worker \in [Numbers -> Places] /\ answers \in [Numbers -> Nat]
        /\ answers' = [answers EXCEPT ![n] = @ + 1]
        /\ UNCHANGED <<msgs, received, loop, result, active, first_error>>
    BY <1>1 DEF WorkerSends, Goes, Send, WorkerOnly, DrainInv, StateType
  <2>2. LiveWorkers' = LiveWorkers
    BY <2>1 DEF LiveWorkers, Live
  <2>3. StateType'
    BY <2>1 DEF DrainInv, StateType, Places, Live
  <2>4. Belongs(n) /\ n \in ReceivedRequests
    BY <2>1, ServerPeerAssumption DEF DrainInv, Belongs, ReceivedRequests, Numbers,
       StateType
  <2>5. \A k \in Numbers : worker'[k] # "none" => Belongs(k)'
    BY <2>1, <2>4 DEF DrainInv, Belongs
  <2>6. \A k \in Numbers : k > received' => answers'[k] = 0
    BY <2>1, <2>4, ServerPeerAssumption DEF DrainInv, Belongs, Numbers, StateType
  <2>7. ASSUME NEW k \in ReceivedRequests' PROVE Accounted(k)'
    <3>1. k \in ReceivedRequests
      BY <2>1 DEF ReceivedRequests
    <3>2. Accounted(k)
      BY <3>1 DEF DrainInv
    <3>3. CASE k = n
      BY <2>1, <3>2, <3>3 DEF Accounted, Live
    <3>4. CASE k # n
      <4>1. worker'[k] = worker[k] /\ answers'[k] = answers[k]
        BY <2>1, <3>4
      <4> QED
        BY <2>1, <3>2, <4>1 DEF Accounted, Failed
    <3> QED
      BY <3>3, <3>4
  <2> QED
    BY <2>1, <2>2, <2>3, <2>5, <2>6, <2>7 DEF DrainInv
<1>2. CASE ~open
  <2>1. Goes(n, "handled", "failing")
        /\ UNCHANGED <<msgs, received, loop, result, active, first_error, answers>>
    BY <1>2 DEF WorkerSends, Send, WorkerOnly
  <2> QED
    BY <2>1, WorkerKeeps DEF Live
<1> QED
  BY <1>1, <1>2

\* A thread that could not send its answer records the error before it is done;
\* the loop cannot have returned without it.
LEMMA FailsKeeps ==
  ASSUME DrainInv, NEW n \in Numbers, WorkerFails(n) PROVE DrainInv'
<1>1. /\ worker' = [worker EXCEPT ![n] = "finishing"] /\ worker[n] = "failing"
      /\ worker \in [Numbers -> Places] /\ first_error' = TRUE
      /\ UNCHANGED <<msgs, received, loop, result, active, answers>>
  BY DEF WorkerFails, Goes, DrainInv, StateType
<1>2. LiveWorkers' = LiveWorkers /\ n \in LiveWorkers
  BY <1>1 DEF LiveWorkers, Live
<1>3. StateType'
  BY <1>1 DEF DrainInv, StateType, Places, Live
<1>4. \A k \in Numbers : worker'[k] # "none" => Belongs(k)'
  BY <1>1 DEF DrainInv, Belongs
<1>5. ASSUME NEW k \in ReceivedRequests' PROVE Accounted(k)'
  <2>1. k \in ReceivedRequests
    BY <1>1 DEF ReceivedRequests
  <2>2. Accounted(k)
    BY <2>1 DEF DrainInv
  <2>3. CASE k = n
    BY <1>1, <2>3 DEF Accounted
  <2>4. CASE k # n
    <3>1. worker'[k] = worker[k]
      BY <1>1, <2>4
    <3> QED
      BY <1>1, <2>2, <3>1 DEF Accounted, Failed
  <2> QED
    BY <2>3, <2>4
<1>6. loop' # "returned"
  BY <1>1, <1>2 DEF DrainInv
<1> QED
  BY <1>1, <1>2, <1>3, <1>4, <1>5, <1>6 DEF DrainInv

\* A thread that is done takes exactly itself out of the count.
LEMMA FinishKeeps ==
  ASSUME DrainInv, NEW n \in Numbers, finish_worker(n) PROVE DrainInv'
<1>1. /\ worker' = [worker EXCEPT ![n] = "finished"] /\ worker[n] = "finishing"
      /\ worker \in [Numbers -> Places]
      /\ active' = IF active > 0 THEN active - 1 ELSE active
      /\ UNCHANGED <<msgs, received, loop, result, first_error, answers>>
  BY DEF finish_worker, Goes, WorkerOnly, DrainInv, StateType
<1>2. LiveWorkers' = LiveWorkers \ {n} /\ n \in LiveWorkers
  BY <1>1 DEF LiveWorkers, Live
<1>3. active' = Cardinality(LiveWorkers')
  <2>1. Cardinality(LiveWorkers') = Cardinality(LiveWorkers) - 1
    BY <1>2, LiveFinite, FS_RemoveElement
  <2>2. Cardinality(LiveWorkers') \in Nat /\ Cardinality(LiveWorkers) \in Nat
    BY LiveFinite, FS_CardinalityType
  <2> QED
    BY <1>1, <2>1, <2>2 DEF DrainInv
<1>4. StateType'
  BY <1>1 DEF DrainInv, StateType, Places
<1>5. \A k \in Numbers : worker'[k] # "none" => Belongs(k)'
  BY <1>1 DEF DrainInv, Belongs
<1>6. ASSUME NEW k \in ReceivedRequests' PROVE Accounted(k)'
  <2>1. k \in ReceivedRequests
    BY <1>1 DEF ReceivedRequests
  <2>2. Accounted(k)
    BY <2>1 DEF DrainInv
  <2>3. CASE k = n
    BY <1>1, <2>2, <2>3 DEF Accounted
  <2>4. CASE k # n
    <3>1. worker'[k] = worker[k]
      BY <1>1, <2>4
    <3> QED
      BY <1>1, <2>2, <3>1 DEF Accounted, Failed
  <2> QED
    BY <2>3, <2>4
<1>7. loop' # "returned"
  BY <1>1, <1>2 DEF DrainInv
<1> QED
  BY <1>1, <1>3, <1>4, <1>5, <1>6, <1>7 DEF DrainInv

\* Starting a thread: the request is counted before its thread can finish.
LEMMA SpawnKeeps ==
  ASSUME DrainInv, ReceiveSpawns PROVE DrainInv'
<1>1. Receives(Requests) /\ UNCHANGED <<msgs, first_error, answers>>
  BY DEF ReceiveSpawns
<1>2. CASE Leave /\ UNCHANGED <<worker, active>>
  BY <1>1, <1>2, ReceiveKeeps
<1>3. CASE /\ Continue /\ worker' = [worker EXCEPT ![Next1] = "spawned"]
           /\ active' = active + 1
  <2>1. /\ Next1 \in Numbers /\ received' = Next1 /\ Next1 \in Nat
        /\ received < Next1 /\ Next1 <= Len(msgs)
        /\ worker[Next1] = "none" /\ answers[Next1] = 0
        /\ msgs[Next1].type \in Requests /\ loop = "receive" /\ result = "none"
        /\ \A n \in 1..Next1 : n \in 1..received \/ n = Next1
    BY <1>1, Received
  <2>2. received \in Nat /\ Len(msgs) \in Nat /\ worker \in [Numbers -> Places]
        /\ received <= Len(msgs) /\ Len(msgs) <= MaxMessages
    BY DEF DrainInv, StateType
  <2>3. StateType'
    BY <1>1, <1>3, <2>1, <2>2 DEF DrainInv, StateType, Continue, Places, Live
  <2>4. LiveWorkers' = LiveWorkers \cup {Next1} /\ Next1 \notin LiveWorkers
    BY <1>3, <2>1, <2>2 DEF LiveWorkers, Live
  <2>5. active' = Cardinality(LiveWorkers')
    BY <1>3, <2>4, LiveFinite, FS_AddElement DEF DrainInv
  <2>6. \A n \in Numbers : worker'[n] # "none" => Belongs(n)'
    BY <1>1, <1>3, <2>1, <2>2, ServerPeerAssumption DEF DrainInv, Belongs, Numbers
  <2>7. \A n \in Numbers : n > received' => answers'[n] = 0
    BY <1>1, <2>1, <2>2, ServerPeerAssumption DEF DrainInv, Numbers
  <2>8. ASSUME NEW n \in ReceivedRequests' PROVE Accounted(n)'
    <3>1. CASE n = Next1
      BY <1>1, <1>3, <2>1, <2>2, <3>1 DEF Accounted, Live
    <3>2. CASE n # Next1
      <4>1. n \in 1..received /\ msgs[n].type \in Requests
        BY <1>1, <2>1, <3>2 DEF ReceivedRequests
      <4>2. n \in Numbers /\ n \in ReceivedRequests
        BY <2>2, <4>1, ServerPeerAssumption DEF ReceivedRequests, Numbers
      <4>3. Accounted(n) /\ ~Failed
        BY <2>1, <4>2 DEF DrainInv, Failed
      <4>4. worker'[n] = worker[n]
        BY <1>3, <2>2, <3>2, <4>2
      <4> QED
        BY <1>1, <4>3, <4>4 DEF Accounted
    <3> QED
      BY <3>1, <3>2
  <2> QED
    BY <1>3, <2>1, <2>3, <2>5, <2>6, <2>7, <2>8 DEF DrainInv, Continue
<1> QED
  BY <1>2, <1>3 DEF ReceiveSpawns

\* Messages that arrive later change nothing about the received ones.
LEMMA ClientKeeps ==
  ASSUME DrainInv, NEW message \in Messages, ClientSends(message) PROVE DrainInv'
<1>1. /\ msgs' = Append(msgs, message) /\ Len(msgs) < MaxMessages
      /\ UNCHANGED <<received, loop, result, active, first_error, worker, answers>>
  BY DEF ClientSends
<1>2. /\ msgs \in Seq(Messages) /\ Len(msgs) \in Nat
      /\ received \in Nat /\ received <= Len(msgs)
  BY DEF DrainInv, StateType
<1>3. msgs' \in Seq(Messages) /\ Len(msgs') = Len(msgs) + 1
  BY <1>1, <1>2
<1>4. \A n \in 1..Len(msgs) : msgs'[n] = msgs[n]
  BY <1>1, <1>2
<1>5. \A n \in 1..received : msgs'[n] = msgs[n]
  BY <1>2, <1>4
<1>6. LiveWorkers' = LiveWorkers
  BY <1>1 DEF LiveWorkers
<1>7. StateType'
  BY <1>1, <1>2, <1>3, ServerPeerAssumption DEF DrainInv, StateType
<1>8. ReceivedRequests' = ReceivedRequests
  BY <1>1, <1>5, Zenon DEF ReceivedRequests
<1>9. \A n \in Numbers : worker'[n] # "none" => Belongs(n)'
  BY <1>1, <1>2, <1>5, ServerPeerAssumption DEF DrainInv, Belongs, Numbers
<1>10. \A n \in ReceivedRequests' : Accounted(n)'
  BY <1>1, <1>8 DEF DrainInv, Accounted, Failed
<1> QED
  BY <1>1, <1>6, <1>7, <1>9, <1>10 DEF DrainInv

\* A step of the loop that receives nothing: it leaves, goes on to receive, or
\* returns once no thread is left, with the first error of any of them.
LEMMA LoopKeeps ==
  ASSUME DrainInv, LoopTop \/ ReceiveEnds \/ LoopReturns PROVE DrainInv'
<1>1. UNCHANGED <<msgs, received, active, first_error, worker, answers>>
  BY DEF LoopTop, ReceiveEnds, LoopReturns
<1>2. LiveWorkers' = LiveWorkers /\ ReceivedRequests' = ReceivedRequests
  BY <1>1 DEF LiveWorkers, ReceivedRequests
<1>3. StateType'
  BY <1>1 DEF DrainInv, StateType, LoopTop, ReceiveEnds, LoopReturns
<1>4. Failed => Failed'
  BY DEF LoopTop, ReceiveEnds, LoopReturns, Failed, FinalResult
<1>5. \A n \in ReceivedRequests' : Accounted(n)'
  BY <1>1, <1>2, <1>4 DEF DrainInv, Accounted
<1>6. \A n \in Numbers : worker'[n] # "none" => Belongs(n)'
  BY <1>1 DEF DrainInv, Belongs
<1>7. loop' \in {"top", "receive"} => result' = "none"
  BY DEF DrainInv, LoopTop, ReceiveEnds, LoopReturns
<1>8. ASSUME loop' = "returned"
      PROVE  LiveWorkers' = {} /\ (first_error' => result' = "error")
  <2>1. LoopReturns
    BY <1>8 DEF LoopTop, ReceiveEnds
  <2>2. LiveWorkers = {}
    BY <2>1, LiveFinite, FS_EmptySet, Zenon DEF LoopReturns, Drained, DrainInv
  <2> QED
    BY <1>1, <1>2, <2>1, <2>2 DEF LoopReturns, FinalResult
<1> QED
  BY <1>1, <1>2, <1>3, <1>5, <1>6, <1>7, <1>8 DEF DrainInv

\* Steps that leave the account alone.
LEMMA StutterKeeps ==
  ASSUME DrainInv,
         UNCHANGED <<msgs, received, loop, result, active, first_error, worker, answers>>
  PROVE  DrainInv'
<1>1. LiveWorkers' = LiveWorkers /\ ReceivedRequests' = ReceivedRequests
  BY DEF LiveWorkers, ReceivedRequests
<1> QED
  BY <1>1 DEF DrainInv, StateType, Accounted, Failed, Belongs

\* Nothing was received and no thread exists in the initial state.
LEMMA DrainInit == Init => DrainInv
<1> SUFFICES ASSUME Init PROVE DrainInv
  OBVIOUS
<1>1. LiveWorkers = {} /\ ReceivedRequests = {}
  BY DEF Init, LiveWorkers, Live, ReceivedRequests
<1>2. active = Cardinality(LiveWorkers)
  BY <1>1, FS_EmptySet DEF Init
<1>3. StateType
  BY ServerPeerAssumption DEF Init, StateType, Places
<1> QED
  BY <1>1, <1>2, <1>3 DEF Init, DrainInv

\* Every step of the loop, of a request thread and of the outside keeps the
\* account of requests and the count of live threads.
LEMMA DrainStep == DrainInv /\ [Next]_vars => DrainInv'
<1> SUFFICES ASSUME DrainInv, [Next]_vars PROVE DrainInv'
  OBVIOUS
<1>1. ASSUME NEW message \in Messages, ClientSends(message) PROVE DrainInv'
  BY <1>1, ClientKeeps
<1>2. CASE TransportCloses \/ ServiceCancels \/ UNCHANGED vars
  BY <1>2, StutterKeeps DEF TransportCloses, ServiceCancels, vars
<1>3. CASE LoopTop \/ ReceiveEnds \/ LoopReturns
  BY <1>3, LoopKeeps
<1>4. CASE ReceiveAnswered
  <2>1. Receives(Requests) /\ UNCHANGED <<msgs, worker, active, first_error>>
    BY <1>4 DEF ReceiveAnswered
  <2>2. CASE open
    BY <1>4, <2>1, <2>2, ReceiveKeeps DEF ReceiveAnswered, Send
  <2>3. CASE ~open
    BY <1>4, <2>1, <2>3, ReceiveKeeps DEF ReceiveAnswered, Send
  <2> QED
    BY <2>2, <2>3
<1>5. CASE ReceiveSpawns
  BY <1>5, SpawnKeeps
<1>6. CASE ReceiveNotification
  <2>1. Receives(Notifications) /\ UNCHANGED <<msgs, worker, active, first_error, answers>>
        /\ (Continue \/ Leave)
    BY <1>6 DEF ReceiveNotification
  <2>2. msgs[Next1].type \notin Requests
    BY <2>1 DEF Receives, Notifications, Requests
  <2> QED
    BY <2>1, <2>2, ReceiveKeeps
<1>7. CASE ReceiveResponse
  BY <1>7, ReceiveKeeps DEF ReceiveResponse
<1>8. ASSUME NEW n \in Numbers, WorkerStep(n) PROVE DrainInv'
  <2>1. CASE DispatchStarts(n)
    BY <2>1, WorkerKeeps DEF DispatchStarts, Live, WorkerOnly
  <2>2. CASE RawReturns(n)
    BY <2>2, WorkerKeeps DEF RawReturns, Live, WorkerOnly
  <2>3. CASE HandlerStarts(n)
    BY <2>3, WorkerKeeps DEF HandlerStarts, Live, WorkerOnly
  <2>4. CASE HandlerReturns(n)
    BY <2>4, WorkerKeeps DEF HandlerReturns, Live, WorkerOnly
  <2> QED
    BY <1>8, <2>1, <2>2, <2>3, <2>4, SendsKeeps, FailsKeeps, FinishKeeps DEF WorkerStep
<1> QED
  BY <1>1, <1>2, <1>3, <1>4, <1>5, <1>6, <1>7, <1>8 DEF Next, LoopStep

\* serve_transport returns with no request thread left, and without an error
\* only when every request it received was answered exactly once: its answer was
\* sent by the loop, or its thread is counted until it was sent or reported.
THEOREM ServingReturnsDrained == Spec => []ReturnsDrained
<1>1. Init => DrainInv
  BY DrainInit
<1>2. DrainInv /\ [Next]_vars => DrainInv'
  BY DrainStep
<1>3. DrainInv => ReturnsDrained
  <2> SUFFICES ASSUME DrainInv, loop = "returned"
               PROVE  /\ LiveWorkers = {}
                      /\ result = "ok" => \A n \in ReceivedRequests : answers[n] = 1
    BY DEF ReturnsDrained
  <2>1. LiveWorkers = {}
    BY DEF DrainInv
  <2>2. ASSUME result = "ok", NEW n \in ReceivedRequests PROVE answers[n] = 1
    <3>1. n \in Numbers
      BY ServerPeerAssumption DEF ReceivedRequests, DrainInv, StateType, Numbers
    <3>2. worker[n] \notin Live
      BY <2>1, <3>1 DEF LiveWorkers
    <3> QED
      BY <2>2, <3>2 DEF DrainInv, Accounted, Failed, Live
  <2> QED
    BY <2>1, <2>2
<1> QED
  BY <1>1, <1>2, <1>3, PTL DEF Spec

-----------------------------------------------------------------------------
(* Cancellation.  A request that shares its id with no other has its own   *)
(* registration while one of its handlers runs.                            *)

Handling == {"raw", "running"}

(* The map a running handler is registered in.                             *)
HandlerMap(n) == IF worker[n] = "raw" THEN "peer" ELSE MapOf(n)

RegisteredInv ==
  /\ DrainInv
  /\ cancellations \in [Maps -> [Ids -> Numbers \cup {None}]]
  /\ \A m \in Maps, id \in Ids, n \in Numbers :
       cancellations[m][id] = n => worker[n] # "none" /\ msgs[n].id = id
  /\ \A n \in Numbers :
       worker[n] \in Handling /\ ~SharesId(n) =>
         cancellations[HandlerMap(n)][msgs[n].id] = n

\* A message has an id of Ids, and a request with a thread is a message.
LEMMA MessageOf ==
  ASSUME DrainInv
  PROVE  /\ \A i \in 1..Len(msgs) : msgs[i].id \in Ids
         /\ \A n \in Numbers : worker[n] # "none" => n \in 1..Len(msgs)
<1>1. msgs \in Seq(Messages)
  BY DEF DrainInv, StateType
<1>2. \A i \in 1..Len(msgs) : msgs[i] \in Messages
  BY <1>1
<1>3. \A i \in 1..Len(msgs) : msgs[i].id \in Ids
  BY <1>2, ServerPeerAssumption
<1>4. \A n \in Numbers : worker[n] # "none" => n \in 1..Len(msgs)
  BY <1>1, ServerPeerAssumption DEF DrainInv, StateType, Belongs, Numbers
<1> QED
  BY <1>3, <1>4

\* A step that registers nothing, starts no handler and changes no message of a
\* request with a thread keeps the registrations.
LEMMA RegistrationStays ==
  ASSUME RegisteredInv, DrainInv', UNCHANGED cancellations,
         \A k \in Numbers : worker[k] # "none" => worker'[k] # "none"
                                               /\ msgs'[k] = msgs[k],
         \A k \in Numbers : worker'[k] \in Handling => worker'[k] = worker[k]
  PROVE  RegisteredInv'
<1>1. \A k \in Numbers : worker[k] # "none" /\ SharesId(k) => SharesId(k)'
  BY Zenon DEF SharesId
<1>2. "none" \notin Handling
  BY DEF Handling
<1>3. ASSUME NEW n \in Numbers, worker'[n] \in Handling, ~SharesId(n)'
      PROVE  cancellations'[HandlerMap(n)'][msgs'[n].id] = n
  <2>1. worker'[n] = worker[n] /\ worker[n] \in Handling /\ worker[n] # "none"
    BY <1>2, <1>3, Zenon
  <2>2. msgs'[n] = msgs[n] /\ ~SharesId(n)
    BY <1>1, <1>3, <2>1, Zenon
  <2>3. HandlerMap(n)' = HandlerMap(n)
    BY <2>1, <2>2, Zenon DEF HandlerMap, MapOf
  <2> QED
    BY <2>1, <2>2, <2>3, Zenon DEF RegisteredInv
<1>4. ASSUME NEW m \in Maps, NEW id \in Ids, NEW n \in Numbers, cancellations'[m][id] = n
      PROVE  worker'[n] # "none" /\ msgs'[n].id = id
  <2>1. worker[n] # "none" /\ msgs[n].id = id
    BY <1>4, ZenonT(30) DEF RegisteredInv
  <2> QED
    BY <2>1, Zenon
<1> QED
  BY <1>3, <1>4, Zenon DEF RegisteredInv

\* A thread that registers or erases under its own id leaves the registrations
\* of all handlers alone that do not share that id.
LEMMA RegistrationChanges ==
  ASSUME RegisteredInv, DrainInv', NEW n \in Numbers, worker[n] # "none",
         NEW m \in Maps, NEW value \in {n, None}, NEW to \in Places \ {"none"},
         cancellations' = [cancellations EXCEPT ![m][msgs[n].id] = value],
         worker' = [worker EXCEPT ![n] = to],
         to \in Handling => value = n /\ m = IF to = "raw" THEN "peer" ELSE MapOf(n),
         UNCHANGED msgs
  PROVE  RegisteredInv'
<1>1. /\ cancellations \in [Maps -> [Ids -> Numbers \cup {None}]]
      /\ worker \in [Numbers -> Places] /\ DrainInv
  BY Zenon DEF RegisteredInv, DrainInv, StateType
<1>2. msgs[n].id \in Ids
  BY <1>1, MessageOf, Zenon
<1>3. value \in Numbers \cup {None}
  BY Zenon
<1>4. /\ cancellations' \in [Maps -> [Ids -> Numbers \cup {None}]]
      /\ cancellations'[m][msgs[n].id] = value
      /\ \A l \in Maps, id \in Ids :
           id # msgs[n].id => cancellations'[l][id] = cancellations[l][id]
      /\ \A l \in Maps, id \in Ids :
           cancellations'[l][id] \in {cancellations[l][id], value}
      /\ \A l \in Maps, id \in Ids :
           cancellations'[l][id] # cancellations[l][id] => id = msgs[n].id
  BY <1>1, <1>2, <1>3
<1>5. /\ worker'[n] = to /\ to # "none"
      /\ \A k \in Numbers \ {n} : worker'[k] = worker[k]
  BY <1>1, Zenon
<1>6. None \notin Numbers
  BY ServerPeerAssumption DEF None, Numbers
<1>7. ASSUME NEW l \in Maps, NEW id \in Ids, NEW k \in Numbers, cancellations'[l][id] = k
      PROVE  worker'[k] # "none" /\ msgs'[k].id = id
  <2>1. CASE cancellations'[l][id] = cancellations[l][id]
    <3>0. cancellations[l][id] = k
      BY <1>7, <2>1
    <3>1. worker[k] # "none" /\ msgs[k].id = id
      BY <3>0 DEF RegisteredInv
    <3> QED
      BY <1>5, <3>1, Zenon
  <2>2. CASE cancellations'[l][id] # cancellations[l][id]
    <3>1. id = msgs[n].id /\ k = value
      BY <1>4, <1>7, <2>2, Zenon
    <3>2. k = n
      BY <1>6, <3>1, Zenon
    <3> QED
      BY <1>5, <3>1, <3>2, Zenon
  <2> QED
    BY <2>1, <2>2, Zenon
<1>8. ASSUME NEW k \in Numbers, worker'[k] \in Handling, ~SharesId(k)'
      PROVE  cancellations'[HandlerMap(k)'][msgs'[k].id] = k
  <2>1. CASE k = n
    <3>1. HandlerMap(n)' = m /\ value = n
      BY <1>5, <1>8, <2>1, Zenon DEF HandlerMap, MapOf
    <3> QED
      BY <1>4, <2>1, <3>1, Zenon
  <2>2. CASE k # n
    <3>1. worker'[k] = worker[k]
      BY <1>5, <2>2, Zenon
    <3>2. worker[k] # "none"
      BY <1>8, <3>1, Zenon DEF Handling
    <3>3. msgs[k].id # msgs[n].id
      BY <1>5, <1>8, <2>2, Zenon DEF SharesId
    <3>4. ~SharesId(k)
      BY <1>5, <1>8, <3>3, Zenon DEF SharesId
    <3>5. HandlerMap(k)' = HandlerMap(k) /\ HandlerMap(k) \in Maps
      BY <3>1, Zenon DEF HandlerMap, MapOf, Maps
    <3>6. cancellations[HandlerMap(k)][msgs[k].id] = k
      BY <1>8, <3>1, <3>4, Zenon DEF RegisteredInv
    <3>7. msgs[k].id \in Ids
      BY <1>1, <3>2, MessageOf, Zenon
    <3>8. cancellations'[HandlerMap(k)][msgs[k].id] = cancellations[HandlerMap(k)][msgs[k].id]
      BY <1>4, <3>3, <3>5, <3>7, Zenon
    <3> QED
      BY <3>5, <3>6, <3>8
  <2> QED
    BY <2>1, <2>2, Zenon
<1> QED
  BY <1>4, <1>7, <1>8, Zenon DEF RegisteredInv

\* Every step keeps the registrations of the running handlers.
LEMMA RegisteredStep == RegisteredInv /\ [Next]_vars => RegisteredInv'
<1> SUFFICES ASSUME RegisteredInv, [Next]_vars PROVE RegisteredInv'
  OBVIOUS
<1>1. DrainInv /\ DrainInv'
  BY DrainStep, Zenon DEF RegisteredInv
<1>2. worker \in [Numbers -> Places]
  BY <1>1, Zenon DEF DrainInv, StateType
<1>3. ASSUME UNCHANGED <<msgs, cancellations, worker>> PROVE RegisteredInv'
  BY <1>1, <1>3, RegistrationStays, Zenon
<1>4. ASSUME NEW message \in Messages, ClientSends(message) PROVE RegisteredInv'
  <2>1. /\ msgs' = Append(msgs, message) /\ UNCHANGED <<worker, cancellations>>
    BY <1>4, Zenon DEF ClientSends
  <2>2. msgs \in Seq(Messages) /\ Len(msgs) \in Nat
    BY <1>1 DEF DrainInv, StateType
  <2>3. \A i \in 1..Len(msgs) : msgs'[i] = msgs[i]
    BY <2>1, <2>2
  <2>4. \A k \in Numbers : worker[k] # "none" => msgs'[k] = msgs[k]
    BY <1>1, <2>3, MessageOf, Zenon
  <2> QED
    BY <1>1, <2>1, <2>4, RegistrationStays, Zenon
<1>5. CASE TransportCloses \/ ServiceCancels \/ UNCHANGED vars
  BY <1>3, <1>5, Zenon DEF TransportCloses, ServiceCancels, vars
<1>6. CASE LoopStep
  <2>1. CASE ReceiveSpawns
    <3>1. UNCHANGED <<msgs, cancellations>>
      BY <2>1, Zenon DEF ReceiveSpawns
    <3>2. worker' = worker \/ worker' = [worker EXCEPT ![Next1] = "spawned"]
      BY <2>1, Zenon DEF ReceiveSpawns
    <3>3. \A k \in Numbers : worker'[k] = worker[k] \/ worker'[k] = "spawned"
      BY <1>2, <3>2, Zenon
    <3> QED
      BY <1>1, <3>1, <3>3, RegistrationStays, Zenon DEF Handling
  <2>2. CASE UNCHANGED <<msgs, cancellations, worker>>
    BY <1>3, <2>2, Zenon
  <2> QED
    BY <1>6, <2>1, <2>2, Zenon DEF LoopStep, LoopTop, ReceiveEnds, ReceiveAnswered,
       ReceiveNotification, ReceiveResponse, LoopReturns
<1>7. ASSUME NEW n \in Numbers, WorkerStep(n) PROVE RegisteredInv'
  <2>1. MapOf(n) \in Maps /\ "peer" \in Maps
    BY Zenon DEF MapOf, Maps
  <2>2. ASSUME NEW m \in Maps, NEW value \in {n, None}, NEW to \in Places \ {"none"},
               worker[n] # "none",
               cancellations' = [cancellations EXCEPT ![m][msgs[n].id] = value],
               worker' = [worker EXCEPT ![n] = to],
               to \in Handling => value = n /\ m = IF to = "raw" THEN "peer" ELSE MapOf(n),
               UNCHANGED msgs
        PROVE  RegisteredInv'
    BY <1>1, <2>2, RegistrationChanges, Zenon
  <2>3. ASSUME NEW from \in Places \ {"none"}, NEW to \in Places \ ({"none"} \cup Handling),
               Goes(n, from, to), UNCHANGED <<msgs, cancellations>>
        PROVE  RegisteredInv'
    <3>1. worker' = [worker EXCEPT ![n] = to] /\ worker[n] # "none" /\ to # "none"
      BY <2>3, Zenon DEF Goes
    <3>2. /\ \A k \in Numbers : worker[k] # "none" => worker'[k] # "none"
          /\ \A k \in Numbers : worker'[k] \in Handling => worker'[k] = worker[k]
      BY <1>2, <2>3, <3>1, Zenon
    <3> QED
      BY <1>1, <2>3, <3>2, RegistrationStays, Zenon
  <2>4. CASE DispatchStarts(n)
    <3>1. CASE UNCHANGED cancellations
                /\ (Goes(n, "spawned", "handled") \/ Goes(n, "spawned", "dispatch"))
      BY <2>3, <2>4, <3>1, Zenon DEF DispatchStarts, WorkerOnly, Places, Live, Handling
    <3>2. CASE Goes(n, "spawned", "raw") /\ Begin("peer", n)
      BY <2>1, <2>2, <2>4, <3>2, Zenon
      DEF DispatchStarts, Goes, Begin, WorkerOnly, Places, Live
    <3> QED
      BY <2>4, <3>1, <3>2, Zenon DEF DispatchStarts
  <2>5. CASE RawReturns(n)
    BY <2>1, <2>2, <2>5, Zenon DEF RawReturns, Goes, End, WorkerOnly, Places, Live, Handling
  <2>6. CASE HandlerStarts(n)
    BY <2>1, <2>2, <2>6, Zenon DEF HandlerStarts, Goes, Begin, WorkerOnly, Places, Live
  <2>7. CASE HandlerReturns(n)
    BY <2>1, <2>2, <2>7, Zenon DEF HandlerReturns, Goes, End, WorkerOnly, Places, Live,
                                   Handling
  <2>8. CASE WorkerSends(n) \/ WorkerFails(n) \/ finish_worker(n)
    BY <2>3, <2>8, Zenon DEF WorkerSends, WorkerFails, finish_worker, WorkerOnly, Places,
                             Live, Handling
  <2> QED
    BY <1>7, <2>4, <2>5, <2>6, <2>7, <2>8, Zenon DEF WorkerStep
<1> QED
  BY <1>4, <1>5, <1>6, <1>7, Zenon DEF Next

\* A cancelled notification cancels the token of the running handler it names,
\* whatever else registers and erases meanwhile, unless another session uses the
\* same request id; and it cancels no request with a different id.
THEOREM CancellationArrives == Spec => CancelReachesHandler
<1>1. Init => RegisteredInv
  <2> SUFFICES ASSUME Init PROVE RegisteredInv
    OBVIOUS
  <2>1. DrainInv
    BY DrainInit
  <2>2. None \notin Numbers
    BY ServerPeerAssumption DEF None, Numbers
  <2>3. \A n \in Numbers : worker[n] = "none"
    BY Zenon DEF Init
  <2>4. \A m \in Maps, id \in Ids : cancellations[m][id] = None
    BY Zenon DEF Init
  <2>5. cancellations \in [Maps -> [Ids -> Numbers \cup {None}]]
    BY DEF Init
  <2> QED
    BY <2>1, <2>2, <2>3, <2>4, <2>5, Zenon DEF RegisteredInv, Handling
<1>2. RegisteredInv /\ [Next]_vars => RegisteredInv'
  BY RegisteredStep
<1>3. RegisteredInv /\ [Next]_vars =>
        [ReceiveNotification /\ msgs[Next1].type = "cancelled" /\ loop' # "drain" =>
           \A n \in Numbers :
             /\ n \in token' \ token => msgs[n].id = msgs[Next1].id
             /\ /\ worker[n] \in {"raw", "running"}
                /\ msgs[n].id = msgs[Next1].id
                /\ msgs[n].session = msgs[Next1].session
                /\ ~SharesId(n)
                => n \in token']_vars
  <2> SUFFICES ASSUME RegisteredInv, ReceiveNotification, msgs[Next1].type = "cancelled",
                      loop' # "drain", NEW n \in Numbers
               PROVE  /\ n \in token' \ token => msgs[n].id = msgs[Next1].id
                      /\ /\ worker[n] \in {"raw", "running"}
                         /\ msgs[n].id = msgs[Next1].id
                         /\ ~SharesId(n)
                         => n \in token'
    BY Zenon
  <2>1. token' = token \cup Cancelled(msgs[Next1].id)
    BY Zenon DEF ReceiveNotification, Leave
  <2>2. HandlerMap(n) \in Maps /\ n # None
    BY ServerPeerAssumption DEF HandlerMap, MapOf, Maps, Numbers, None
  <2>3. Next1 \in 1..Len(msgs)
    BY DEF ReceiveNotification, Receives, RegisteredInv, DrainInv, StateType, Next1
  <2>4. msgs[Next1].id \in Ids
    BY <2>3, MessageOf, Zenon DEF RegisteredInv
  <2>5. n \in Cancelled(msgs[Next1].id) => msgs[n].id = msgs[Next1].id
    <3> SUFFICES ASSUME n \in Cancelled(msgs[Next1].id)
                 PROVE  msgs[n].id = msgs[Next1].id
      OBVIOUS
    <3>1. PICK m \in Maps : cancellations[m][msgs[Next1].id] = n
      BY DEF Cancelled
    <3> QED
      BY <2>4, <3>1 DEF RegisteredInv
  <2>6. ASSUME worker[n] \in Handling, msgs[n].id = msgs[Next1].id, ~SharesId(n)
        PROVE  n \in Cancelled(msgs[Next1].id)
    <3>1. cancellations[HandlerMap(n)][msgs[n].id] = n
      BY <2>6, Zenon DEF RegisteredInv
    <3> QED
      BY <2>2, <2>6, <3>1 DEF Cancelled
  <2> QED
    BY <2>1, <2>5, <2>6, Zenon DEF Handling
<1> QED
  BY <1>1, <1>2, <1>3, PTL DEF Spec, CancelReachesHandler

=============================================================================
