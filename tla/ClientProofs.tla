---------------------------- MODULE ClientProofs ----------------------------
(***************************************************************************)
(* Theorems about two parts of the client: ProcessStdio, for any requests  *)
(* of either side, any number of threads that call stop() and any child;   *)
(* and Authorization, for any clients, servers, scopes, tokens and times.  *)
(* The two components share names, so Authorization is an instance, over   *)
(* variables of its own, declared where its part begins.                   *)
(***************************************************************************)
EXTENDS ProcessStdio, TLAPS

Ended == {"new", "refused", "done"}

(* The stages of the stop() that closes the transport.                     *)
Joined == {"closed", "stopped"}
Unhooked == {"joinWorkers"} \cup Joined
Killed == {"join"} \cup Unhooked
Shut == {"stopLock", "closeStdin", "reap"} \cup Killed

(* What each stage has established, and no thread can undo once the        *)
(* transport is closed.                                                    *)
StageInv ==
  \A s \in Stoppers :
    /\ stopper[s] \in Shut => closed_ = TRUE /\ pending_server_requests_ = {}
    /\ stopper[s] \in Killed => ~Alive
    /\ stopper[s] \in Unhooked => reader.at \in {"off", "done"}
    /\ stopper[s] \in Joined => \A r \in Requests : work[r] \in Ended
    /\ stopper[s] = "stopped" => loop.at = "done"

(* A request in the table has a worker that will look at its promise, and  *)
(* the promise is not set.                                                 *)
PromiseInv ==
  \A r \in Requests :
    /\ r \in pending_responses_ =>
         /\ work[r] \in {"lock", "write", "stuck", "unregister", "wait"}
         /\ outcome[r] = "none"
    /\ work[r] \in {"new", "register"} => outcome[r] = "none"

CleanType ==
  /\ DOMAIN stopper = Stoppers /\ DOMAIN work = Requests /\ DOMAIN outcome = Requests
  /\ closed_ \in BOOLEAN
  /\ pending_responses_ \subseteq Requests
  /\ DOMAIN loop = {"at", "error"}

CleanInv == CleanType /\ StageInv /\ PromiseInv

-----------------------------------------------------------------------------
\* Nothing has happened yet.
LEMMA CleanInit == Init => CleanInv
  BY Zenon DEF Init, CleanInv, CleanType, StageInv, PromiseInv, Shut, Killed, Unhooked,
     Joined

\* A step of anyone but stop() keeps what the stages have established.
LEMMA StagesKept ==
  ASSUME CleanInv, UNCHANGED <<stopper, closed_>>,
         closed_ = TRUE =>
           /\ pending_server_requests_ = {} => pending_server_requests_' = {}
           /\ ~Alive => ~Alive'
           /\ reader.at \in {"off", "done"} => reader'.at = reader.at
           /\ \A r \in Requests : work[r] \in Ended => work'[r] \in Ended,
         loop.at = "done" => loop'.at = "done"
  PROVE  StageInv'
  BY DEF CleanInv, StageInv, Shut, Killed, Unhooked, Joined

\* A request is sent.
LEMMA SendKeeps ==
  ASSUME CleanInv, NEW r \in Requests, send(r)
  PROVE  CleanInv'
<1>1. /\ work[r] = "new" /\ UNCHANGED <<pending_responses_, outcome, native, life>>
      /\ \E place \in {"register", "refused"} :
           /\ work' = [work EXCEPT ![r] = place]
           /\ closed_ = TRUE => place = "refused" /\ UNCHANGED <<child, reader>>
  BY Zenon DEF send, Goes, ensure_started
<1>2. /\ DOMAIN work' = Requests /\ \A q \in Requests \ {r} : work'[q] = work[q]
      /\ work'[r] \in {"register", "refused"}
      /\ closed_ = TRUE => work'[r] = "refused" /\ UNCHANGED <<child, reader>>
  BY <1>1 DEF CleanInv, CleanType
<1>3. CleanType'
  BY <1>1, <1>2 DEF CleanInv, CleanType, native, life
<1>4. StageInv'
  BY <1>1, <1>2, StagesKept, Zenon DEF Alive, Ended, native, life
<1>5. PromiseInv'
  BY <1>1, <1>2 DEF CleanInv, PromiseInv
<1> QED
  BY <1>3, <1>4, <1>5 DEF CleanInv

\* The worker of a request.
LEMMA WorkerKeeps ==
  ASSUME CleanInv, NEW r \in Requests, Worker(r)
  PROVE  CleanInv'
<1>1. /\ UNCHANGED <<child, reader, closed_, pending_server_requests_, life>>
      /\ work[r] \notin Ended
  BY DEF Worker, Register, WorkerLocks, WorkerWrites, WorkerUnsticks, Unregister,
     WorkerWakes,
         enqueue, Ended, process, native
<1>2. PICK place : work' = [work EXCEPT ![r] = place] /\ place # "register" /\ place # "new"
  <2>1. \E place \in {"lock", "write", "unregister", "wait", "stuck", "finish", "done"} :
          Goes(r, place)
    BY DEF Worker, Register, WorkerLocks, WorkerWrites, WorkerUnsticks, Unregister,
           WorkerWakes, enqueue
  <2> QED
    BY <2>1, Zenon DEF Goes
<1>3. /\ DOMAIN work' = Requests /\ \A q \in Requests \ {r} : work'[q] = work[q]
      /\ work'[r] = place
  BY <1>2 DEF CleanInv, CleanType
<1>4. StageInv'
  BY <1>1, <1>3, StagesKept, Zenon DEF Alive, life
<1>5. ASSUME UNCHANGED <<pending_responses_, outcome>>,
             r \in pending_responses_ =>
               place \in {"lock", "write", "stuck", "unregister", "wait"}
      PROVE  CleanInv'
  <2>1. CleanType'
    BY <1>1, <1>3, <1>5 DEF CleanInv, CleanType, life
  <2>2. PromiseInv'
    BY <1>1, <1>2, <1>3, <1>5 DEF CleanInv, PromiseInv
  <2> QED
    BY <1>4, <2>1, <2>2 DEF CleanInv
<1>6. CASE Register(r)
  <2>1. /\ place = "lock" /\ work[r] = "register" /\ UNCHANGED outcome
        /\ pending_responses_' = pending_responses_ \cup {r}
    BY <1>3, <1>6 DEF Register, Goes, CleanInv, CleanType
  <2>2. CleanType'
    BY <1>1, <1>3, <2>1 DEF CleanInv, CleanType, life
  <2>3. PromiseInv'
    BY <1>3, <2>1 DEF CleanInv, PromiseInv
  <2> QED
    BY <1>4, <2>2, <2>3 DEF CleanInv
<1>7. CASE Unregister(r)
  <2>1. /\ place = "finish" /\ UNCHANGED outcome
        /\ pending_responses_' = pending_responses_ \ {r}
    BY <1>3, <1>7 DEF Unregister, Goes, CleanInv, CleanType
  <2>2. CleanType'
    BY <1>1, <1>3, <2>1 DEF CleanInv, CleanType, life
  <2>3. PromiseInv'
    BY <1>2, <1>3, <2>1 DEF CleanInv, PromiseInv
  <2> QED
    BY <1>4, <2>2, <2>3 DEF CleanInv
<1>8. CASE enqueue(r)
  <2>1. /\ place = "done" /\ work[r] = "finish" /\ UNCHANGED pending_responses_
        /\ outcome' = [outcome EXCEPT ![r] = "none"]
    BY <1>3, <1>8 DEF enqueue, Goes, CleanInv, CleanType
  <2>2. /\ DOMAIN outcome' = Requests
        /\ \A q \in Requests \ {r} : outcome'[q] = outcome[q]
    BY <2>1 DEF CleanInv, CleanType
  <2>3. CleanType'
    BY <1>1, <1>3, <2>1, <2>2 DEF CleanInv, CleanType, life
  <2>4. PromiseInv'
    BY <1>3, <2>1, <2>2 DEF CleanInv, PromiseInv
  <2> QED
    BY <1>4, <2>3, <2>4 DEF CleanInv
<1>9. CASE WorkerWakes(r)
  <2>1. UNCHANGED <<pending_responses_, outcome>>
    BY <1>9 DEF WorkerWakes
  <2>2. place = "unregister" \/ outcome[r] # "none"
    BY <1>3, <1>9 DEF WorkerWakes, Goes, CleanInv, CleanType
  <2>3. r \in pending_responses_ => place = "unregister"
    BY <2>2 DEF CleanInv, PromiseInv
  <2> QED
    BY <1>5, <2>1, <2>3
<1>10. CASE WorkerLocks(r) \/ WorkerWrites(r) \/ WorkerUnsticks(r)
  <2>1. UNCHANGED <<pending_responses_, outcome>>
    BY <1>10 DEF WorkerLocks, WorkerWrites, WorkerUnsticks
  <2>2. place \in {"write", "stuck", "unregister", "wait"}
    BY <1>3, <1>10 DEF WorkerLocks, WorkerWrites, WorkerUnsticks, Goes, CleanInv, CleanType
  <2> QED
    BY <1>5, <2>1, <2>2
<1> QED
  BY <1>6, <1>7, <1>8, <1>9, <1>10 DEF Worker

\* fail_pending and an answer set promises and take them out of the table.
LEMMA PromisesSet ==
  ASSUME CleanInv, UNCHANGED work,
         \/ fail_pending
         \/ \E id \in pending_responses_ :
              /\ outcome' = [outcome EXCEPT ![id] = "answer"]
              /\ pending_responses_' = pending_responses_ \ {id}
         \/ UNCHANGED <<outcome, pending_responses_>>
  PROVE  PromiseInv' /\ DOMAIN outcome' = Requests /\ pending_responses_' \subseteq Requests
<1>1. CASE fail_pending
  BY <1>1 DEF fail_pending, CleanInv, CleanType, PromiseInv
<1>2. ASSUME NEW id \in pending_responses_, outcome' = [outcome EXCEPT ![id] = "answer"],
             pending_responses_' = pending_responses_ \ {id}
      PROVE  PromiseInv' /\ DOMAIN outcome' = Requests /\ pending_responses_' \subseteq Requests
  BY <1>2 DEF CleanInv, CleanType, PromiseInv
<1>3. CASE UNCHANGED <<outcome, pending_responses_>>
  BY <1>3 DEF CleanInv, CleanType, PromiseInv
<1> QED
  BY <1>1, <1>2, <1>3

\* The reader.
LEMMA ReaderKeeps ==
  ASSUME CleanInv, Reader
  PROVE  CleanInv'
<1>1. UNCHANGED <<child, work, closed_, life>>
  BY DEF Reader, ReaderChecks, ReaderLocks, read_line, Dispatch, ReaderServed, ReplyLocks,
         ReplyWrites, ReplyUnsticks, ReaderEnds, GotResponse, GotNotification, GotRequest,
         process, calls, native
<1>2. reader.at \notin {"off", "done"}
  BY DEF Reader, ReaderChecks, ReaderLocks, read_line, Dispatch, ReaderServed, ReplyLocks,
         ReplyWrites, ReplyUnsticks, ReaderEnds
<1>3. closed_ = TRUE => UNCHANGED pending_server_requests_
  <2>1. CASE Dispatch
    BY <2>1 DEF Dispatch, GotResponse, GotNotification, GotRequest
  <2> QED
    BY <2>1, Zenon DEF Reader, ReaderChecks, ReaderLocks, read_line, ReaderServed,
       ReplyLocks,
         ReplyWrites, ReplyUnsticks, ReaderEnds, native
<1>4. \/ fail_pending
      \/ \E id \in pending_responses_ :
           /\ outcome' = [outcome EXCEPT ![id] = "answer"]
           /\ pending_responses_' = pending_responses_ \ {id}
      \/ UNCHANGED <<outcome, pending_responses_>>
  <2>1. CASE Dispatch
    BY <2>1 DEF Dispatch, GotResponse, GotNotification, GotRequest, calls
  <2> QED
    BY <2>1 DEF Reader, ReaderChecks, ReaderLocks, read_line, ReaderServed, ReplyLocks,
         ReplyWrites, ReplyUnsticks, ReaderEnds, calls
<1>5. PromiseInv' /\ DOMAIN outcome' = Requests /\ pending_responses_' \subseteq Requests
  BY <1>1, <1>4, PromisesSet
<1>6. StageInv'
  BY <1>1, <1>2, <1>3, StagesKept, Zenon DEF Alive, life
<1>7. CleanType'
  BY <1>1, <1>5 DEF CleanInv, CleanType, life
<1> QED
  BY <1>5, <1>6, <1>7 DEF CleanInv

\* The service loop.
LEMMA LoopKeeps ==
  ASSUME CleanInv, Loop
  PROVE  CleanInv'
<1>1. UNCHANGED <<calls, closed_, stopper>>
  BY Zenon DEF Loop, LoopChecks, LoopReceives, receive, complete_server_request,
     finish_service,
         native
<1>2. closed_ = TRUE => UNCHANGED <<child, reader>>
  BY Zenon DEF Loop, LoopChecks, LoopReceives, receive, complete_server_request,
     finish_service,
         process, ensure_started
<1>3. pending_server_requests_ = {} => pending_server_requests_' = {}
  BY Zenon DEF Loop, LoopChecks, LoopReceives, receive, complete_server_request,
     finish_service,
         native
<1>4. loop.at # "done"
  BY ProcessStdioAssumption, Zenon DEF Loop, LoopChecks, LoopReceives, receive,
     complete_server_request, finish_service, LoopPlaces
<1>5. DOMAIN loop' = {"at", "error"}
  <2>1. ASSUME NEW place, Loops(place) PROVE DOMAIN loop' = {"at", "error"}
    BY <2>1 DEF Loops, CleanInv, CleanType
  <2>2. ASSUME LoopFails PROVE DOMAIN loop' = {"at", "error"}
    BY <2>2 DEF LoopFails
  <2> QED
    BY <2>1, <2>2, Zenon DEF Loop, LoopChecks, LoopReceives, receive,
       complete_server_request,
                      finish_service
<1>6. StageInv'
  BY <1>1, <1>2, <1>3, <1>4, StagesKept, Zenon DEF Alive, calls
<1>7. CleanType' /\ PromiseInv'
  BY <1>1, <1>5 DEF CleanInv, CleanType, PromiseInv, calls
<1> QED
  BY <1>6, <1>7 DEF CleanInv

\* stop() is called: it has established nothing yet.
LEMMA StopCalledKeeps ==
  ASSUME CleanInv, NEW s \in Stoppers, stop(s)
  PROVE  CleanInv'
<1>1. PICK place \in {"close", "wait"} : stopper' = [stopper EXCEPT ![s] = place]
  BY DEF stop, Halts
<1>2. UNCHANGED <<child, calls, reader, closed_, pending_server_requests_, loop>>
  BY DEF stop, process, native
<1>3. /\ DOMAIN stopper' = Stoppers /\ stopper'[s] \in {"close", "wait"}
      /\ \A t \in Stoppers \ {s} : stopper'[t] = stopper[t]
  BY <1>1 DEF CleanInv, CleanType
<1>4. StageInv'
  BY <1>2, <1>3 DEF CleanInv, StageInv, Alive, calls, Shut, Killed, Unhooked, Joined
<1>5. CleanType' /\ PromiseInv'
  BY <1>2, <1>3 DEF CleanInv, CleanType, PromiseInv, calls
<1> QED
  BY <1>4, <1>5 DEF CleanInv

\* A stage of stop() ends and establishes what the next one stands on.
LEMMA StoppingKeeps ==
  ASSUME CleanInv, NEW s \in Stoppers, Stopping(s)
  PROVE  CleanInv'
<1>1. PICK place : stopper' = [stopper EXCEPT ![s] = place]
  BY DEF Stopping, close, StopLocks, CloseStdin, Reap, JoinReader, JoinWorkers, wait, Halts
<1>2. /\ DOMAIN stopper' = Stoppers /\ stopper'[s] = place
      /\ \A t \in Stoppers \ {s} : stopper'[t] = stopper[t]
  BY <1>1 DEF CleanInv, CleanType
<1>3. UNCHANGED <<calls, reader, loop>>
  BY DEF Stopping, close, StopLocks, CloseStdin, Reap, JoinReader, JoinWorkers, wait
<1>4. closed_' \in BOOLEAN /\ (closed_ = TRUE => closed_' = TRUE)
  BY Zenon DEF Stopping, close, StopLocks, CloseStdin, Reap, JoinReader, JoinWorkers,
     wait, native,
         CleanInv, CleanType
<1>5. CleanType' /\ PromiseInv'
  BY <1>2, <1>3, <1>4 DEF CleanInv, CleanType, PromiseInv, calls
<1>6. StageInv'
  <2>1. CASE close(s)
    <3>1. /\ closed_' = TRUE /\ pending_server_requests_' = {} /\ UNCHANGED child
          /\ place = "stopLock"
      BY <1>2, <2>1 DEF close, Halts, process, CleanInv, CleanType
    <3> QED
      BY <1>2, <1>3, <3>1 DEF CleanInv, StageInv, Alive, calls, Shut, Killed, Unhooked,
         Joined
  <2>2. CASE StopLocks(s) \/ CloseStdin(s)
    <3>1. /\ UNCHANGED <<child, closed_, pending_server_requests_>>
          /\ stopper[s] \in Shut /\ place \in {"closeStdin", "reap"}
      BY <1>2, <2>2 DEF StopLocks, CloseStdin, Halts, process, native, CleanInv,
         CleanType, Shut
    <3> QED
      BY <1>2, <1>3, <3>1 DEF CleanInv, StageInv, Alive, calls, Shut, Killed, Unhooked,
         Joined
  <2>3. CASE Reap(s)
    <3>1. /\ UNCHANGED <<closed_, pending_server_requests_>> /\ child' \in {"none", "gone"}
          /\ stopper[s] \in Shut /\ place = "join"
      BY <1>2, <2>3 DEF Reap, Reaped, Halts, native, CleanInv, CleanType, Shut
    <3> QED
      BY <1>2, <1>3, <3>1 DEF CleanInv, StageInv, Alive, calls, Shut, Killed, Unhooked,
         Joined
  <2>4. CASE JoinReader(s)
    <3>1. /\ UNCHANGED <<child, closed_, pending_server_requests_>>
          /\ stopper[s] \in Killed \cap Shut /\ place = "joinWorkers"
          /\ reader.at \in {"off", "done"}
      BY <1>2, <2>4 DEF JoinReader, ReaderJoined, Halts, process, native, CleanInv,
         CleanType,
                        Shut, Killed
    <3> QED
      BY <1>2, <1>3, <3>1 DEF CleanInv, StageInv, Alive, calls, Shut, Killed, Unhooked,
         Joined
  <2>5. CASE JoinWorkers(s)
    <3>1. /\ UNCHANGED <<child, closed_, pending_server_requests_>>
          /\ stopper[s] \in Unhooked \cap Killed \cap Shut /\ place = "closed"
          /\ \A r \in Requests : work[r] \in Ended
      BY <1>2, <2>5 DEF JoinWorkers, Ended, Halts, process, native, CleanInv, CleanType,
                        Shut, Killed, Unhooked
    <3> QED
      BY <1>2, <1>3, <3>1 DEF CleanInv, StageInv, Alive, calls, Shut, Killed, Unhooked,
         Joined
  <2>6. CASE wait(s)
    <3>1. /\ UNCHANGED <<child, closed_, pending_server_requests_>> /\ loop.at = "done"
          /\ \/ stopper[s] = "closed" /\ place = "stopped"
             \/ place = "waited"
      BY <1>2, <2>6 DEF wait, Halts, process, native, CleanInv, CleanType
    <3> QED
      BY <1>2, <1>3, <3>1 DEF CleanInv, StageInv, Alive, calls, Shut, Killed, Unhooked,
         Joined
  <2> QED
    BY <2>1, <2>2, <2>3, <2>4, <2>5, <2>6 DEF Stopping
<1> QED
  BY <1>5, <1>6 DEF CleanInv

\* The child, and nobody.
LEMMA ChildKeeps ==
  ASSUME CleanInv, Child \/ UNCHANGED vars
  PROVE  CleanInv'
<1>1. UNCHANGED <<calls, reader, native, life>> /\ (~Alive => UNCHANGED child)
  BY DEF Child, ChildAnswers, ChildWrites, ChildLeaves, Alive, vars, process
<1>2. StageInv'
  BY <1>1, StagesKept, Zenon DEF Alive, calls, native, life
<1>3. CleanType' /\ PromiseInv'
  BY <1>1 DEF CleanInv, CleanType, PromiseInv, calls, native, life
<1> QED
  BY <1>2, <1>3 DEF CleanInv

\* Every step keeps the invariant.
LEMMA CleanStep == CleanInv /\ [Next]_vars => CleanInv'
  BY SendKeeps, WorkerKeeps, ReaderKeeps, LoopKeeps, StopCalledKeeps, StoppingKeeps,
     ChildKeeps
     DEF Next, Threads

\* The stop() that closes the transport and the service returns with the child reaped,
\* the reader, the workers and the service loop ended and both tables of waiting
\* requests empty, and nothing that is called later changes that.
THEOREM StopLeavesNothing == Spec => []StopIsClean
<1>1. CleanInv => StopIsClean
  BY DEF CleanInv, CleanType, StageInv, PromiseInv, StopIsClean, Ended, Shut, Killed,
     Unhooked,
         Joined
<1> QED
  BY CleanInit, CleanStep, <1>1, PTL DEF Spec

-----------------------------------------------------------------------------
(* Authorization.                                                          *)

CONSTANTS Clients, Resources, Uris, Scopes, Metadata, States, Tokens, Lifetimes,
          Offline, NotGiven, Empty, Ttl, Skew, MaxAttempts, Horizon

VARIABLES resource_, metadata_, client_, state_store_, credential_store_, state_,
          current_scopes_, scope_upgrade_attempts_, clock, started, exchanged,
          newest, unsaved, last

A == INSTANCE Authorization

(* A state in the store is one start that no code has used.                *)
SpentInv ==
  /\ DOMAIN state_store_ \subseteq States
  /\ started \in [States -> Nat] /\ exchanged \in [States -> Nat]
  /\ \A s \in States :
       /\ exchanged[s] <= started[s]
       /\ s \in DOMAIN state_store_ => exchanged[s] < started[s]

AuthInv == SpentInv /\ A!RefreshTokenIsNewest /\ A!ScopesAreStored

-----------------------------------------------------------------------------
\* Nothing is stored yet.
LEMMA AuthInit == A!Init => AuthInv
  BY DEF A!Init, AuthInv, SpentInv, A!RefreshTokenIsNewest, A!ScopesAreStored

\* Asking for authorization stores a state and counts it, or does nothing.
LEMMA StartKeeps ==
  ASSUME SpentInv, NEW m, NEW c, NEW scopes, NEW s \in States,
         A!start_authorization(m, c, scopes, s), UNCHANGED exchanged
  PROVE  SpentInv'
<1>1. CASE UNCHANGED <<A!pending, state_>>
  BY <1>1 DEF SpentInv, A!pending
<1>2. CASE ~UNCHANGED <<A!pending, state_>>
  <2>1. /\ started' = [started EXCEPT ![s] = @ + 1]
        /\ DOMAIN state_store_' = DOMAIN state_store_ \cup {s}
    BY <1>2 DEF A!start_authorization, A!Put
  <2>2. /\ started' \in [States -> Nat] /\ started'[s] = started[s] + 1
        /\ \A t \in States \ {s} : started'[t] = started[t]
    BY <2>1 DEF SpentInv
  <2>3. DOMAIN state_store_' \subseteq States
    BY <2>1 DEF SpentInv
  <2>4. ASSUME NEW t \in States
        PROVE  /\ exchanged'[t] <= started'[t]
               /\ t \in DOMAIN state_store_' => exchanged'[t] < started'[t]
    BY <2>1, <2>2 DEF SpentInv
  <2> QED
    BY <2>2, <2>3, <2>4 DEF SpentInv
<1> QED
  BY <1>1, <1>2

\* The exchange of a code spends the state, whatever comes of it.
LEMMA ExchangeSpends ==
  ASSUME SpentInv, NEW s \in States, A!exchange_authorization_code(s)
  PROVE  SpentInv'
<1>1. /\ s \in DOMAIN state_store_ /\ UNCHANGED started
      /\ DOMAIN state_store_' = DOMAIN state_store_ \ {s}
      /\ UNCHANGED exchanged \/ exchanged' = [exchanged EXCEPT ![s] = @ + 1]
  BY DEF A!exchange_authorization_code, A!Without
<1>2. CASE UNCHANGED exchanged
  BY <1>1, <1>2 DEF SpentInv
<1>3. CASE exchanged' = [exchanged EXCEPT ![s] = @ + 1]
  <2>1. /\ exchanged' \in [States -> Nat] /\ exchanged'[s] = exchanged[s] + 1
        /\ \A t \in States \ {s} : exchanged'[t] = exchanged[t]
    BY <1>3 DEF SpentInv
  <2>2. DOMAIN state_store_' \subseteq States
    BY <1>1 DEF SpentInv
  <2>3. ASSUME NEW t \in States
        PROVE  /\ exchanged'[t] <= started'[t]
               /\ t \in DOMAIN state_store_' => exchanged'[t] < started'[t]
    BY <1>1, <2>1 DEF SpentInv
  <2> QED
    BY <1>1, <2>1, <2>2, <2>3 DEF SpentInv
<1> QED
  BY <1>1, <1>2, <1>3

\* A token response is taken over, saved or not.
LEMMA ReceivedKeeps ==
  ASSUME A!RefreshTokenIsNewest, A!ScopesAreStored,
         NEW key, NEW response, NEW old, NEW scopes,
         A!Received(key, response, old, scopes),
         old = NotGiven \/ (/\ key \in DOMAIN credential_store_
                            /\ old = credential_store_[key].refresh_token)
  PROVE  A!RefreshTokenIsNewest' /\ A!ScopesAreStored'
<1> DEFINE fresh == response.refresh_token # NotGiven
           newToken == IF fresh THEN response.refresh_token ELSE old
<1>1. newest' = IF fresh THEN A!Put(newest, key, newToken) ELSE newest
  BY DEF A!Received
<1>2. fresh => /\ DOMAIN newest' = DOMAIN newest \cup {key} /\ newest'[key] = newToken
               /\ \A k \in DOMAIN newest \ {key} : newest'[k] = newest[k]
  BY <1>1 DEF A!Put
<1>3. ~fresh => newest' = newest /\ newToken = old
  BY <1>1
<1>4. ASSUME UNCHANGED credential_store_,
             unsaved' = IF fresh THEN unsaved \cup {key} ELSE unsaved,
             last' = [key |-> key, saved |-> FALSE]
      PROVE  A!RefreshTokenIsNewest' /\ A!ScopesAreStored'
  <2>1. ASSUME NEW k \in DOMAIN credential_store_,
               credential_store_[k].refresh_token # NotGiven, k \notin unsaved'
        PROVE  k \in DOMAIN newest' /\ credential_store_[k].refresh_token = newest'[k]
    <3>1. k \in DOMAIN newest /\ credential_store_[k].refresh_token = newest[k]
      BY <1>4, <2>1 DEF A!RefreshTokenIsNewest
    <3> QED
      BY <1>2, <1>3, <1>4, <2>1, <3>1
  <2> QED
    BY <1>4, <2>1 DEF A!RefreshTokenIsNewest, A!ScopesAreStored
<1>5. ASSUME NEW expires,
             credential_store_' = A!Put(credential_store_, key,
               [refresh_token |-> newToken, granted_scopes |-> current_scopes_',
                expires_at |-> expires]),
             unsaved' = IF fresh THEN unsaved \ {key} ELSE unsaved,
             last' = [key |-> key, saved |-> TRUE]
      PROVE  A!RefreshTokenIsNewest' /\ A!ScopesAreStored'
  <2>1. /\ DOMAIN credential_store_' = DOMAIN credential_store_ \cup {key}
        /\ credential_store_'[key].refresh_token = newToken
        /\ credential_store_'[key].granted_scopes = current_scopes_'
        /\ \A k \in DOMAIN credential_store_ \ {key} : credential_store_'[k] = credential_store_[k]
    BY <1>5 DEF A!Put
  <2>2. ASSUME NEW k \in DOMAIN credential_store_',
               credential_store_'[k].refresh_token # NotGiven, k \notin unsaved'
        PROVE  k \in DOMAIN newest' /\ credential_store_'[k].refresh_token = newest'[k]
    <3>1. CASE k = key /\ fresh
      BY <1>2, <2>1, <3>1
    <3>2. CASE k = key /\ ~fresh
      <4>1. /\ key \in DOMAIN credential_store_ /\ old = credential_store_[key].refresh_token
            /\ old # NotGiven /\ key \notin unsaved
        BY <1>3, <1>5, <2>1, <2>2, <3>2
      <4>2. key \in DOMAIN newest /\ old = newest[key]
        BY <4>1 DEF A!RefreshTokenIsNewest
      <4> QED
        BY <1>3, <2>1, <3>2, <4>2
    <3>3. CASE k # key
      <4>1. k \in DOMAIN newest /\ credential_store_[k].refresh_token = newest[k]
        BY <1>5, <2>1, <2>2, <3>3 DEF A!RefreshTokenIsNewest
      <4> QED
        BY <1>2, <1>3, <2>1, <3>3, <4>1
    <3> QED
      BY <3>1, <3>2, <3>3
  <2>3. A!ScopesAreStored'
    BY <1>5, <2>1 DEF A!ScopesAreStored
  <2> QED
    BY <2>2, <2>3 DEF A!RefreshTokenIsNewest
<1> QED
  BY <1>4, <1>5 DEF A!Received

\* A refresh starts from the token in the store.
LEMMA RefreshKeeps ==
  ASSUME AuthInv, A!refresh_access_token
  PROVE  AuthInv'
<1> DEFINE key == A!Key(resource_, metadata_, client_)
<1>1. PICK response \in A!Responses :
        A!Received(key, response, credential_store_[key].refresh_token,
                 credential_store_[key].granted_scopes)
  BY DEF A!refresh_access_token
<1>2. key \in DOMAIN credential_store_ /\ UNCHANGED <<A!pending, exchanged>>
  BY DEF A!refresh_access_token
<1> HIDE DEF key
<1>3. A!RefreshTokenIsNewest' /\ A!ScopesAreStored'
  BY <1>1, <1>2, ReceivedKeeps DEF AuthInv
<1> QED
  BY <1>2, <1>3 DEF AuthInv, SpentInv, A!pending

\* Every step keeps the invariant.
LEMMA AuthStep == AuthInv /\ [A!Next]_(A!vars) => AuthInv'
<1> SUFFICES ASSUME AuthInv, [A!Next]_(A!vars) PROVE AuthInv'
  OBVIOUS
<1>1. ASSUME UNCHANGED A!grants PROVE A!RefreshTokenIsNewest' /\ A!ScopesAreStored'
  BY <1>1 DEF AuthInv, A!RefreshTokenIsNewest, A!ScopesAreStored, A!grants
<1>2. ASSUME UNCHANGED <<A!pending, exchanged>> PROVE SpentInv'
  BY <1>2 DEF AuthInv, SpentInv, A!pending
<1>3. CASE A!Tick \/ A!Configure \/ A!set_authorization_server_metadata \/ UNCHANGED A!vars
  BY <1>1, <1>2, <1>3 DEF A!Tick, A!Configure, A!set_authorization_server_metadata, A!vars,
       AuthInv
<1>4. ASSUME NEW s \in States, A!Asks(s) PROVE AuthInv'
  <2>1. UNCHANGED <<A!grants, exchanged>>
    BY <1>4 DEF A!Asks, A!start_session, A!authorize, A!request_scope_upgrade
  <2>2. UNCHANGED A!pending \/ \E m, c, scopes : A!start_authorization(m, c, scopes, s)
    BY <1>4 DEF A!Asks, A!start_session, A!authorize, A!request_scope_upgrade
  <2> QED
    BY <1>1, <1>2, <2>1, <2>2, StartKeeps DEF AuthInv
<1>5. ASSUME NEW s \in States, A!exchange_authorization_code(s) PROVE AuthInv'
  <2>1. SpentInv'
    BY <1>5, ExchangeSpends DEF AuthInv
  <2>2. CASE UNCHANGED A!grants
    BY <1>1, <2>1, <2>2 DEF AuthInv
  <2>3. ASSUME NEW response \in A!Responses,
               A!Received(A!Key(resource_, metadata_, client_), response, NotGiven,
                        state_store_[s].requested_scopes)
        PROVE  AuthInv'
    BY <2>1, <2>3, ReceivedKeeps DEF AuthInv
  <2> QED
    BY <1>5, <2>2, <2>3 DEF A!exchange_authorization_code
<1>6. CASE \/ A!refresh_access_token \/ A!get_access_token
           \/ \E status \in {200, 401, 403}, header \in {"none", "bearer", "insufficient_scope"} :
                A!refresh_after_unauthorized_response(status, header)
  BY <1>6, RefreshKeeps DEF A!get_access_token, A!refresh_after_unauthorized_response
<1>7. ASSUME NEW id \in Clients, NEW r \in Resources, NEW scopes \in SUBSET Scopes,
             A!authenticate_client_credentials(id, r, scopes)
      PROVE  AuthInv'
  <2>1. PICK response \in A!Responses :
          A!Received(A!Key(r, metadata_, [client_ EXCEPT !.id = id]), response, NotGiven,
                   A!add_offline_access_if_supported(metadata_, scopes))
    BY <1>7 DEF A!authenticate_client_credentials
  <2>2. A!RefreshTokenIsNewest' /\ A!ScopesAreStored'
    BY <2>1, ReceivedKeeps DEF AuthInv
  <2>3. UNCHANGED <<A!pending, exchanged>>
    BY <1>7 DEF A!authenticate_client_credentials
  <2> QED
    BY <1>2, <2>2, <2>3 DEF AuthInv
<1> QED
  BY <1>3, <1>4, <1>5, <1>6, <1>7 DEF A!Next

\* exchange_authorization_code never sends two codes for one start_authorization: the
\* state it finds in the store is removed before anything can fail.
THEOREM StateIsSpentOnce == A!Spec => []A!StateSpentOnce
<1>1. AuthInv => A!StateSpentOnce
  BY DEF AuthInv, SpentInv, A!StateSpentOnce
<1> QED
  BY AuthInit, AuthStep, <1>1, PTL DEF A!Spec

\* refresh_access_token always presents the newest refresh token it was given for the
\* resource, issuer and client in use, unless the store failed to save it.
THEOREM RefreshIsNewest == A!Spec => []A!RefreshTokenIsNewest
<1>1. AuthInv => A!RefreshTokenIsNewest
  BY DEF AuthInv
<1> QED
  BY AuthInit, AuthStep, <1>1, PTL DEF A!Spec

\* request_scope_upgrade starts from the scopes stored with the last tokens, although
\* current_scopes_ is set before they are saved and shared by all clients.
THEOREM UpgradeStartsFromStored == A!Spec => []A!ScopesAreStored
<1>1. AuthInv => A!ScopesAreStored
  BY DEF AuthInv
<1> QED
  BY AuthInit, AuthStep, <1>1, PTL DEF A!Spec
=============================================================================
