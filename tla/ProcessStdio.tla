---------------------------- MODULE ProcessStdio ----------------------------
(***************************************************************************)
(* A client service over a child process (process_stdio_transport.cpp,     *)
(* RunningService<RoleClient> in service.hpp and the receive loop in       *)
(* peer.hpp).                                                              *)
(*                                                                         *)
(* Threads: the reader of the child's stdout, one worker per request, the  *)
(* service loop that takes messages with receive(), and the threads that   *)
(* call stop().  A step is one critical section, one wait, or one call of  *)
(* the operating system.  process_mutex_ is only taken with stop_mutex_    *)
(* held and read_mutex_ only by the reader while it runs, so neither has a *)
(* variable.                                                               *)
(***************************************************************************)
EXTENDS Integers, Sequences, FiniteSets

CONSTANTS Requests,        \* 1..n: ids of requests to the child, in the order sent
          ServerRequests,  \* ids of requests of the child
          Stoppers,        \* 1..n: threads that call stop(), in the order they call
          Scenes,          \* the behaviours to look at, see option
          None

(* The service loop is at one of these places, or answers a request.       *)
LoopPlaces == {"check", "receive", "wait", "end", "done"}

ASSUME ProcessStdioAssumption == ServerRequests \cap LoopPlaces = {}

VARIABLES
  option,       \* [timed: request_timeout is set, deaf: the child never reads,
                \*  mute: it may close its stdout and go on, bounds: sends, stops, lines the child writes unasked]
  child,        \* "none", "running", "mute" (closed its stdout), "gone"
  heard,        \* what the child has been sent and not answered
  stdout, said, \* lines the reader has yet to read, and how many were unasked
  running_, stop_mutex_, write_mutex_,
  pending_responses_,
  work,         \* where the worker of a request is
  outcome,      \* the promise of a request
  reader,       \* [at, line]
  closed_, inbound_,
  pending_server_requests_,
  replied,      \* server requests whose response is set
  loop,         \* [at, error]: the service loop
  service,      \* ServiceLifecycleState: [running, closing, cancelled, failure]
  stopper,      \* where a thread in stop() is
  rested        \* the reader was in read(), and no write stuck, when stop() began

process == <<child, heard, stdout, said>>
legacy == <<running_, stop_mutex_, write_mutex_>>
calls == <<pending_responses_, work, outcome>>
native == <<closed_, inbound_, pending_server_requests_, replied>>
life == <<loop, service, stopper, rested>>
vars == <<option, process, legacy, calls, reader, native, life>>

Line(kind, id) == [kind |-> kind, id |-> id]

Init ==
  /\ option \in Scenes
  /\ child = "none" /\ heard = {} /\ stdout = <<>> /\ said = 0
  /\ running_ = TRUE /\ stop_mutex_ = None /\ write_mutex_ = None
  /\ pending_responses_ = {}
  /\ work = [r \in Requests |-> "new"] /\ outcome = [r \in Requests |-> "none"]
  /\ reader = [at |-> "off", line |-> None]
  /\ closed_ = FALSE /\ inbound_ = <<>>
  /\ pending_server_requests_ = {} /\ replied = {}
  /\ loop = [at |-> "check", error |-> FALSE]
  /\ service = [running |-> TRUE, closing |-> FALSE, cancelled |-> FALSE, failure |-> FALSE]
  /\ stopper = [s \in Stoppers |-> "idle"]
  /\ rested = FALSE

Goes(r, place) == work' = [work EXCEPT ![r] = place]
Reads(place, line) == reader' = [at |-> place, line |-> line]
Loops(place) == loop' = [loop EXCEPT !.at = place]
LoopFails == loop' = [at |-> "end", error |-> TRUE]
Halts(s, place) == stopper' = [stopper EXCEPT ![s] = place]

-----------------------------------------------------------------------------
(* Starting the child: send() and receive() call ensure_started, which     *)
(* forks the process and starts the reader the first time.  A fork or pipe *)
(* that fails is tried again by the next call.                             *)

Forks(ok) == child' = IF ok THEN "running" ELSE child

start(ok) ==
  /\ Forks(ok)
  /\ IF ok THEN Reads("check", None) ELSE UNCHANGED reader

ensure_started(ok) ==
  /\ ~closed_
  /\ IF reader.at = "off" THEN start(ok) ELSE ok /\ UNCHANGED <<child, reader>>

\* send() of a request: start_request_thread.
send(r) ==
  /\ work[r] = "new" /\ \A p \in 1..(r - 1) : work[p] # "new"
  /\ r <= option.sends
  /\ \/ ensure_started(TRUE) /\ Goes(r, "register")
     \/ ensure_started(FALSE) /\ Goes(r, "refused")
     \/ closed_ /\ Goes(r, "refused") /\ UNCHANGED <<child, reader>>
  /\ UNCHANGED <<option, heard, stdout, said, legacy, pending_responses_, outcome, native, life>>

-----------------------------------------------------------------------------
(* The worker of a request: Impl::send_request and write_line.             *)

Register(r) ==
  /\ work[r] = "register"
  /\ pending_responses_' = pending_responses_ \cup {r}
  /\ Goes(r, "lock")
  /\ UNCHANGED <<option, process, legacy, outcome, reader, native, life>>

\* write_line passes ensure_started, and so stop_mutex_.
WorkerLocks(r) ==
  /\ work[r] = "lock" /\ stop_mutex_ = None
  /\ Goes(r, IF running_ THEN "write" ELSE "unregister")
  /\ UNCHANGED <<option, process, legacy, pending_responses_, outcome, reader, native, life>>

Alive == child \in {"running", "mute"}

\* What a write does: the pipe takes the line, it is full and the child does not
\* read, or the child is gone.
Writes(m) == running_ /\ Alive /\ ~option.deaf /\ heard' = heard \cup {m}
Sticks == running_ /\ Alive /\ option.deaf /\ UNCHANGED heard
WriteFails == (~running_ \/ ~Alive) /\ UNCHANGED heard

WorkerWrites(r) ==
  /\ work[r] = "write" /\ write_mutex_ = None
  /\ \/ Writes(r) /\ Goes(r, "wait") /\ UNCHANGED write_mutex_
     \/ Sticks /\ Goes(r, "stuck") /\ write_mutex_' = r
     \/ WriteFails /\ Goes(r, "unregister") /\ UNCHANGED write_mutex_
  /\ UNCHANGED <<option, child, stdout, said, running_, stop_mutex_, pending_responses_,
                 outcome, reader, native, life>>

WorkerUnsticks(r) ==
  /\ work[r] = "stuck" /\ ~Alive
  /\ write_mutex_' = None /\ Goes(r, "unregister")
  /\ UNCHANGED <<option, process, running_, stop_mutex_, pending_responses_, outcome,
                 reader, native, life>>

\* A write that failed and a wait that ran out take the promise back.
Unregister(r) ==
  /\ work[r] = "unregister"
  /\ pending_responses_' = pending_responses_ \ {r}
  /\ Goes(r, "finish")
  /\ UNCHANGED <<option, process, legacy, outcome, reader, native, life>>

WorkerWakes(r) ==
  /\ work[r] = "wait"
  /\ \/ outcome[r] # "none" /\ Goes(r, "finish")
     \/ outcome[r] = "none" /\ option.timed /\ Goes(r, "unregister")
  /\ UNCHANGED <<option, process, legacy, pending_responses_, outcome, reader, native, life>>

\* finish_request_worker and enqueue: a closed transport drops the answer.
enqueue(r) ==
  /\ work[r] = "finish"
  /\ inbound_' = IF closed_ THEN inbound_ ELSE Append(inbound_, Line("response", r))
  /\ Goes(r, "done") /\ outcome' = [outcome EXCEPT ![r] = "none"]
  /\ UNCHANGED <<option, process, legacy, pending_responses_, reader, closed_,
                 pending_server_requests_, replied, life>>

Worker(r) ==
  \/ Register(r) \/ WorkerLocks(r) \/ WorkerWrites(r) \/ WorkerUnsticks(r)
  \/ Unregister(r) \/ WorkerWakes(r) \/ enqueue(r)

-----------------------------------------------------------------------------
(* reader_loop.  read_line passes ensure_started again on every line, and  *)
(* so does the write of a reply.                                           *)

ReaderChecks ==
  /\ reader.at = "check"
  /\ Reads(IF running_ THEN "lock" ELSE "end", None)
  /\ UNCHANGED <<option, process, legacy, calls, native, life>>

ReaderLocks ==
  /\ reader.at = "lock" /\ stop_mutex_ = None
  /\ Reads(IF running_ THEN "read" ELSE "end", None)
  /\ UNCHANGED <<option, process, legacy, calls, native, life>>

read_line ==
  /\ reader.at = "read"
  /\ \/ stdout # <<>> /\ Reads("got", Head(stdout)) /\ stdout' = Tail(stdout)
     \/ stdout = <<>> /\ child \in {"mute", "gone"} /\ Reads("end", None) /\ UNCHANGED stdout
  /\ UNCHANGED <<option, child, heard, said, legacy, calls, native, life>>

\* Variant: the promises are dropped and nobody is told.
fail_pending_Silent == pending_responses_' = {} /\ UNCHANGED outcome

fail_pending ==
  /\ outcome' = [r \in Requests |-> IF r \in pending_responses_ THEN "failed" ELSE outcome[r]]
  /\ pending_responses_' = {}

(* A response nobody waits for fails every request that waits: the answer  *)
(* of a request that has timed out is such a response.                     *)
GotResponse(id) ==
  /\ IF id \in pending_responses_
     THEN /\ outcome' = [outcome EXCEPT ![id] = "answer"]
          /\ pending_responses_' = pending_responses_ \ {id}
     ELSE fail_pending
  /\ Reads("check", None)
  /\ UNCHANGED <<work, inbound_, pending_server_requests_>>

GotNotification ==
  /\ inbound_' = IF closed_ THEN inbound_ ELSE Append(inbound_, reader.line)
  /\ Reads("check", None)
  /\ UNCHANGED <<calls, pending_server_requests_>>

\* handle_server_request: the reader itself waits for the response.
GotRequest(q) ==
  /\ IF closed_
     THEN Reads("replyLock", reader.line) /\ UNCHANGED <<inbound_, pending_server_requests_>>
     ELSE /\ inbound_' = Append(inbound_, reader.line)
          /\ pending_server_requests_' = pending_server_requests_ \cup {q}
          /\ Reads("serving", reader.line)
  /\ UNCHANGED calls

Dispatch ==
  /\ reader.at = "got"
  /\ LET line == reader.line IN
     \/ ~running_ /\ Reads("end", None)
        /\ UNCHANGED <<calls, inbound_, pending_server_requests_>>
     \/ running_ /\ line.kind = "junk" /\ Reads("check", None)
        /\ UNCHANGED <<calls, inbound_, pending_server_requests_>>
     \/ running_ /\ line.kind = "response" /\ GotResponse(line.id)
     \/ running_ /\ line.kind = "notification" /\ GotNotification
     \/ running_ /\ line.kind = "request" /\ GotRequest(line.id)
  /\ UNCHANGED <<option, process, legacy, closed_, replied, life>>

ReaderServed ==
  /\ reader.at = "serving" /\ reader.line.id \in replied
  /\ replied' = replied \ {reader.line.id}
  /\ Reads("replyLock", reader.line)
  /\ UNCHANGED <<option, process, legacy, calls, closed_, inbound_, pending_server_requests_,
                 life>>

ReplyLocks ==
  /\ reader.at = "replyLock" /\ stop_mutex_ = None
  /\ Reads(IF running_ THEN "replyWrite" ELSE "check", IF running_ THEN reader.line ELSE None)
  /\ UNCHANGED <<option, process, legacy, calls, native, life>>

ReplyWrites ==
  /\ reader.at = "replyWrite" /\ write_mutex_ = None
  /\ \/ (Writes(reader.line.id) \/ WriteFails) /\ Reads("check", None) /\ UNCHANGED write_mutex_
     \/ Sticks /\ Reads("stuck", None) /\ write_mutex_' = "reader"
  /\ UNCHANGED <<option, child, stdout, said, running_, stop_mutex_, calls, native, life>>

ReplyUnsticks ==
  /\ reader.at = "stuck" /\ ~Alive
  /\ write_mutex_' = None /\ Reads("check", None)
  /\ UNCHANGED <<option, process, running_, stop_mutex_, calls, native, life>>

ReaderEnds ==
  /\ reader.at = "end"
  /\ fail_pending
  /\ Reads("done", None)
  /\ UNCHANGED <<option, process, legacy, work, native, life>>

Reader ==
  \/ ReaderChecks \/ ReaderLocks \/ read_line \/ Dispatch \/ ReaderServed
  \/ ReplyLocks \/ ReplyWrites \/ ReplyUnsticks \/ ReaderEnds

-----------------------------------------------------------------------------
(* The service loop: serve_transport_loop over receive() and send().       *)

LoopChecks ==
  /\ loop.at = "check"
  /\ Loops(IF service.cancelled THEN "end" ELSE "receive")
  /\ UNCHANGED <<option, process, legacy, calls, reader, native, service, stopper, rested>>

LoopReceives ==
  /\ loop.at = "receive"
  /\ \/ ensure_started(TRUE) /\ Loops("wait")
     \/ ensure_started(FALSE) /\ LoopFails
     \/ closed_ /\ LoopFails /\ UNCHANGED <<child, reader>>
  /\ UNCHANGED <<option, heard, stdout, said, legacy, calls, native, service, stopper, rested>>

\* Variant: close() does not end the wait.
ReceiveEnds_OnMessage == FALSE

ReceiveEnds == closed_ /\ inbound_ = <<>>

\* The handler of a request answers; that of a notification may fail.
receive ==
  /\ loop.at = "wait"
  /\ \/ ReceiveEnds /\ Loops("end") /\ UNCHANGED inbound_
     \/ /\ inbound_ # <<>> /\ inbound_' = Tail(inbound_)
        /\ \/ Head(inbound_).kind = "request" /\ Loops(Head(inbound_).id)
           \/ Head(inbound_).kind # "request" /\ Loops("check")
           \/ Head(inbound_).kind = "notification" /\ LoopFails
  /\ UNCHANGED <<option, process, legacy, calls, reader, closed_, pending_server_requests_,
                 replied, service, stopper, rested>>

\* Variant: the response is taken and the reader is not told.
SetResponse_Lost(q) == replied

SetResponse(q) == replied \cup {q}

complete_server_request ==
  /\ loop.at \in ServerRequests
  /\ IF loop.at \in pending_server_requests_
     THEN /\ pending_server_requests_' = pending_server_requests_ \ {loop.at}
          /\ replied' = SetResponse(loop.at)
          /\ Loops("check")
     ELSE LoopFails /\ UNCHANGED <<pending_server_requests_, replied>>
  /\ UNCHANGED <<option, process, legacy, calls, reader, closed_, inbound_, service, stopper,
                 rested>>

finish_service ==
  /\ loop.at = "end"
  /\ service' = [service EXCEPT !.running = FALSE, !.closing = FALSE, !.failure = loop.error]
  /\ Loops("done")
  /\ UNCHANGED <<option, process, legacy, calls, reader, native, stopper, rested>>

Loop == LoopChecks \/ LoopReceives \/ receive \/ complete_server_request \/ finish_service

-----------------------------------------------------------------------------
(* RunningService::stop: the first caller closes the transport, the others *)
(* only wait, and so does every caller once the loop has ended by itself.  *)

stop(s) ==
  /\ s <= option.stops /\ stopper[s] = "idle" /\ \A p \in 1..(s - 1) : stopper[p] # "idle"
  /\ IF service.running /\ ~service.closing
     THEN /\ service' = [service EXCEPT !.closing = TRUE, !.cancelled = TRUE]
          /\ Halts(s, "close")
     ELSE Halts(s, "wait") /\ UNCHANGED service
  /\ UNCHANGED <<option, process, legacy, calls, reader, native, loop, rested>>

close(s) ==
  /\ stopper[s] = "close"
  /\ closed_' = TRUE
  /\ replied' = replied \cup pending_server_requests_ /\ pending_server_requests_' = {}
  /\ Halts(s, "stopLock")
  /\ UNCHANGED <<option, process, legacy, calls, reader, inbound_, loop, service, rested>>

\* Impl::stop holds stop_mutex_ from here until the reader is joined.
StopLocks(s) ==
  /\ stopper[s] = "stopLock" /\ stop_mutex_ = None
  /\ stop_mutex_' = s /\ running_' = FALSE
  /\ rested' = (reader.at \in {"off", "read", "end", "done"} /\ write_mutex_ = None)
  /\ Halts(s, "closeStdin")
  /\ UNCHANGED <<option, process, write_mutex_, calls, reader, native, loop, service>>

CloseStdin(s) ==
  /\ stopper[s] = "closeStdin" /\ write_mutex_ = None
  /\ Halts(s, "reap")
  /\ UNCHANGED <<option, process, legacy, calls, reader, native, loop, service, rested>>

\* A child that does not leave within the grace periods is killed and waited for.
Reaped == IF child = "none" THEN "none" ELSE "gone"

Reap(s) ==
  /\ stopper[s] = "reap"
  /\ child' = Reaped
  /\ Halts(s, "join")
  /\ UNCHANGED <<option, heard, stdout, said, legacy, calls, reader, native, loop, service,
                 rested>>

\* Variant: a reader that is blocked is left behind.
ReaderJoined_Detached == reader.at \in {"off", "read", "done"}

ReaderJoined == reader.at \in {"off", "done"}

JoinReader(s) ==
  /\ stopper[s] = "join" /\ ReaderJoined
  /\ stop_mutex_' = None
  /\ Halts(s, "joinWorkers")
  /\ UNCHANGED <<option, process, running_, write_mutex_, calls, reader, native, loop,
                 service, rested>>

JoinWorkers(s) ==
  /\ stopper[s] = "joinWorkers"
  /\ \A r \in Requests : work[r] \in {"new", "refused", "done"}
  /\ Halts(s, "closed")
  /\ UNCHANGED <<option, process, legacy, calls, reader, native, loop, service, rested>>

\* wait_service and join_loop.
wait(s) ==
  /\ stopper[s] \in {"wait", "closed"}
  /\ ~service.running /\ loop.at = "done"
  /\ Halts(s, IF stopper[s] = "closed" THEN "stopped" ELSE "waited")
  /\ UNCHANGED <<option, process, legacy, calls, reader, native, loop, service, rested>>

Stopping(s) ==
  \/ close(s) \/ StopLocks(s) \/ CloseStdin(s) \/ Reap(s) \/ JoinReader(s)
  \/ JoinWorkers(s) \/ wait(s)

-----------------------------------------------------------------------------
(* The child answers what it likes, writes what it likes and leaves when   *)
(* it likes.                                                               *)

Puts(line) == child = "running" /\ stdout' = Append(stdout, line)

ChildAnswers(r) ==
  /\ r \in heard /\ Puts(Line("response", r))
  /\ heard' = heard \ {r}
  /\ UNCHANGED <<option, child, said, legacy, calls, reader, native, life>>

ChildWrites ==
  /\ said < option.lines /\ said' = said + 1
  /\ \/ Puts(Line("junk", None))
     \/ Puts(Line("notification", None))
     \/ Puts(Line("response", None))
     \/ \E q \in ServerRequests :
          said = 0 /\ Puts(Line("request", q))
  /\ UNCHANGED <<option, child, heard, legacy, calls, reader, native, life>>

ChildLeaves ==
  /\ \/ Alive /\ child' = "gone"
     \/ option.mute /\ child = "running" /\ child' = "mute"
  /\ UNCHANGED <<option, heard, stdout, said, legacy, calls, reader, native, life>>

Child == (\E r \in Requests : ChildAnswers(r)) \/ ChildWrites \/ ChildLeaves

Threads ==
  \/ \E r \in Requests : Worker(r)
  \/ Reader \/ Loop
  \/ \E s \in Stoppers : Stopping(s)

Next == Threads \/ Child \/ (\E r \in Requests : send(r)) \/ (\E s \in Stoppers : stop(s))

Spec == Init /\ [][Next]_vars

(* Threads go on and timed waits end.  Nobody has to send or stop, and the *)
(* child owes nothing.  No thread can take steps for ever, so one          *)
(* condition on all of them makes each go on.                              *)
FairSpec == Spec /\ WF_vars(Threads)

-----------------------------------------------------------------------------
(* What the transport and the service promise.                             *)

\* The stop() that closed the transport leaves nothing behind when it returns:
\* the child is gone, no thread of the transport or the service runs, nobody
\* waits for a response.
StopIsClean ==
  \A s \in Stoppers :
    stopper[s] = "stopped" =>
      /\ ~Alive /\ reader.at \in {"off", "done"} /\ loop.at = "done"
      /\ \A r \in Requests : work[r] \in {"new", "refused", "done"}
      /\ pending_responses_ = {} /\ pending_server_requests_ = {}

\* While nobody stops the transport, a request ends when it has a timeout, even
\* one sent after the reader had ended and failed all others; and without a
\* timeout when the child exits.  The exceptions: a write stuck in a full pipe is
\* under no timeout; a child that closes its stdout ends the reader before requests
\* that are sent later without one; and a service loop that has failed leaves the
\* reader waiting for the answer to a request of the child.
RequestEnds ==
  \A r \in Requests :
    (/\ work[r] \notin {"new", "refused"}
     /\ IF option.timed THEN ~option.deaf ELSE child = "gone" /\ ~option.mute)
      ~> (work[r] = "done" \/ closed_ \/ (~option.timed /\ loop.error))

\* A request of the child is answered on its stdin although the reader that
\* waits for the answer reads nothing meanwhile; unless the child leaves or does
\* not read, the service is stopped or its loop has failed.
ServerRequestAnswered ==
  \A q \in ServerRequests :
    (q \in pending_server_requests_)
      ~> (q \in heard \/ ~Alive \/ option.deaf \/ closed_ \/ loop.error)

\* stop() returns, whatever requests are under way, if the reader was in read()
\* or had ended when stop() took stop_mutex_, with the exception above of a child
\* that closes its stdout.
RestedStopReturns ==
  (rested /\ (option.timed \/ ~option.mute)) ~> (\E s \in Stoppers : stopper[s] = "stopped")

\* stop() unblocks wait(): every thread that called it returns, unless a write is
\* stuck in a full pipe.
StopReturns ==
  \A s \in Stoppers :
    (stopper[s] # "idle" /\ ~option.deaf) ~> stopper[s] \in {"stopped", "waited"}
=============================================================================
