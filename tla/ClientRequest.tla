--------------------------- MODULE ClientRequest ---------------------------
(***************************************************************************)
(* Requests a native client peer sends (RequestHandle in request.hpp, the  *)
(* request path of Peer<RoleClient> in peer.hpp, tokens in                 *)
(* cancellation.hpp and results in core/async_result.hpp).                 *)
(*                                                                         *)
(* A request is run by a worker of the request executor: it takes the      *)
(* request mutex, sends, and waits for the receive loop to store its       *)
(* response, or receives for itself when no loop runs.  Meanwhile the      *)
(* owner of the handle awaits the result, a timeout may pass, and the      *)
(* token may be cancelled by another thread.  Each action is one critical  *)
(* section, or one call of the transport.                                  *)
(***************************************************************************)
EXTENDS Integers, FiniteSets

CONSTANTS Requests,    \* request ids, never reused (next_peer_request_id)
          Options,     \* the ways to choose RequestOptions
          MaxWorkers,  \* worker_count
          MaxQueue,    \* max_queue_size
          MaxStarts,   \* bound: calls of start() that run a receive loop
          None

ASSUME ClientRequestAssumption ==
  /\ Options \subseteq [Requests -> SUBSET {"timeout", "token"}]
  /\ MaxWorkers \in Nat /\ MaxQueue \in Nat /\ MaxStarts \in Nat
  /\ None \notin Requests
  /\ Requests \cap {"none", "error", "cancelled", "timeout"} = {}

VARIABLES
  option,          \* per request: has a timeout, has a cancellable token
  work,            \* where the worker of a request is
  result,          \* async_result_: "none", a response, or an error
  terminal_error,  \* RequestHandleControl::terminal_error
  cancel_sent,     \* requests whose control has cancel_sent set
  token,           \* "live", "flagged" (flag set), "cancelled" (callbacks taken)
  observer,        \* the token callback of a request
  awaiter,         \* the thread in await_response
  cancels,         \* calls of notify_cancelled by token or timeout
  holder,          \* who holds native_request_mutex_
  loop, starts,    \* the receive loop and how often it was started
  closed,          \* native_receive_state_: closed, or failed
  responses,       \* native_receive_state_->responses
  sent, wire,      \* requests the server has yet to answer, responses under way
  open             \* the transport is open

control == <<terminal_error, cancel_sent>>
receive == <<loop, starts, closed, sent, wire, open>>
handle == <<token, observer, awaiter, cancels>>
vars == <<option, work, result, control, handle, holder, responses, receive>>

Init ==
  /\ option \in Options
  /\ work = [r \in Requests |-> "new"]
  /\ result = [r \in Requests |-> "none"]
  /\ terminal_error = [r \in Requests |-> "none"]
  /\ cancel_sent = {}
  /\ token = [r \in Requests |-> "live"]
  /\ observer = [r \in Requests |-> "off"]
  /\ awaiter = [r \in Requests |-> [at |-> "idle"]]
  /\ cancels = [r \in Requests |-> 0]
  /\ holder = None
  /\ loop = "idle" /\ starts = 0 /\ closed = FALSE
  /\ responses = {} /\ sent = {} /\ wire = {} /\ open = TRUE

Has(r, o) == o \in option[r]
Goes(r, place) == work' = [work EXCEPT ![r] = place]

\* AsyncResult: the first value stays.
Settled(r, v) == [result EXCEPT ![r] = IF @ = "none" THEN v ELSE @]

-----------------------------------------------------------------------------
(* RequestHandle::spawn posts the task and then registers the callback.    *)

spawn(r) ==
  /\ work[r] = "new"
  /\ IF Cardinality({q \in Requests : work[q] = "queued"}) < MaxQueue
     THEN Goes(r, "queued") /\ UNCHANGED result
     ELSE Goes(r, "done") /\ result' = Settled(r, "error")
  /\ observer' = [observer EXCEPT ![r] = IF Has(r, "token") THEN "pending" ELSE @]
  /\ UNCHANGED <<option, control, token, awaiter, cancels, holder, responses, receive>>

(* Both the callback and fail_terminal pass through the control: the first *)
(* terminal error stays and the first to come sends the cancellation.      *)

Terminal(r, e) == IF terminal_error[r] = "none" THEN e ELSE terminal_error[r]

\* Variant: cancel_sent is not looked at.
Claims_Always(r) == TRUE

Claims(r) == r \notin cancel_sent

Controlled(r, e) ==
  /\ terminal_error' = [terminal_error EXCEPT ![r] = Terminal(r, e)]
  /\ cancel_sent' = cancel_sent \cup {r}

Sends(r) == cancels' = [cancels EXCEPT ![r] = @ + 1]

(* A token that is cancelled already runs the callback at once, before     *)
(* anybody has the handle.                                                 *)
Register(r) ==
  /\ observer[r] = "pending"
  /\ IF token[r] = "live"
     THEN /\ observer' = [observer EXCEPT ![r] = "armed"]
          /\ UNCHANGED <<result, control, cancels>>
     ELSE /\ observer' = [observer EXCEPT ![r] = "done"]
          /\ Controlled(r, "cancelled")
          /\ result' = Settled(r, "cancelled")
          /\ Sends(r)
  /\ UNCHANGED <<option, work, token, awaiter, holder, responses, receive>>

\* The continuation of the result drops the registration, unless
\* fail_terminal has taken it.
Unregister(r) ==
  /\ observer[r] = "armed" /\ result[r] # "none"
  /\ awaiter[r].at \notin {"sending", "leaving"}
  /\ observer' = [observer EXCEPT ![r] = "off"]
  /\ UNCHANGED <<option, work, result, control, token, awaiter, cancels, holder,
                 responses, receive>>

-----------------------------------------------------------------------------
(* CancellationSource::cancel sets the flag, takes the callbacks under the *)
(* mutex and runs them without it.                                         *)

CancelToken(r) ==
  /\ Has(r, "token") /\ token[r] = "live"
  /\ token' = [token EXCEPT ![r] = "flagged"]
  /\ UNCHANGED <<option, work, result, control, observer, awaiter, cancels, holder,
                 responses, receive>>

TakeCallbacks(r) ==
  /\ token[r] = "flagged"
  /\ token' = [token EXCEPT ![r] = "cancelled"]
  /\ observer' = [observer EXCEPT ![r] = IF @ = "armed" THEN "callback" ELSE @]
  /\ UNCHANGED <<option, work, result, control, awaiter, cancels, holder, responses,
                 receive>>

CallbackControl(r) ==
  /\ observer[r] = "callback"
  /\ observer' = [observer EXCEPT ![r] = IF Claims(r) THEN "cancelAndSend" ELSE "cancel"]
  /\ Controlled(r, "cancelled")
  /\ UNCHANGED <<option, work, result, token, awaiter, cancels, holder, responses,
                 receive>>

\* Variant: the waiter is left to its timeout.
Cancelled_Not(r) == result

Cancelled(r) == Settled(r, "cancelled")

CallbackCancel(r) ==
  /\ observer[r] \in {"cancelAndSend", "cancel"}
  /\ result' = Cancelled(r)
  /\ observer' = [observer EXCEPT ![r] = IF @ = "cancel" THEN "done" ELSE "send"]
  /\ UNCHANGED <<option, work, control, token, awaiter, cancels, holder, responses,
                 receive>>

CallbackSend(r) ==
  /\ observer[r] = "send"
  /\ observer' = [observer EXCEPT ![r] = "done"]
  /\ Sends(r)
  /\ UNCHANGED <<option, work, result, control, token, awaiter, holder, responses,
                 receive>>

CancelStep(r) ==
  \/ TakeCallbacks(r) \/ CallbackControl(r) \/ CallbackCancel(r) \/ CallbackSend(r)

-----------------------------------------------------------------------------
(* await_response, once per handle.                                        *)

Awaits(r, a) == awaiter' = [awaiter EXCEPT ![r] = a]
Returned(v) == [at |-> "returned", outcome |-> v]

Await(r) ==
  /\ work[r] # "new" /\ observer[r] # "pending" /\ awaiter[r].at = "idle"
  /\ Awaits(r, IF terminal_error[r] # "none" THEN Returned(terminal_error[r])
                                            ELSE [at |-> "waiting"])
  /\ UNCHANGED <<option, work, result, control, token, observer, cancels, holder,
                 responses, receive>>

Wakes(r) ==
  /\ awaiter[r].at = "waiting" /\ result[r] # "none"
  /\ Awaits(r, [at |-> "woken"])
  /\ UNCHANGED <<option, work, result, control, token, observer, cancels, holder,
                 responses, receive>>

(* Without options the value is returned as it is; otherwise a terminal    *)
(* error goes first.                                                       *)
WokenReturns(r) ==
  /\ awaiter[r].at = "woken"
  /\ Awaits(r, Returned(IF option[r] # {} /\ terminal_error[r] # "none"
                        THEN terminal_error[r] ELSE result[r]))
  /\ UNCHANGED <<option, work, result, control, token, observer, cancels, holder,
                 responses, receive>>

(* wait_for ends without a value; a terminal error is returned, otherwise  *)
(* the token decides which error it is.                                    *)
Expires(r) ==
  /\ Has(r, "timeout")
  /\ awaiter[r].at = "waiting" /\ result[r] = "none"
  /\ Awaits(r, [at |-> "expired"])
  /\ UNCHANGED <<option, work, result, control, token, observer, cancels, holder,
                 responses, receive>>

ExpiredReads(r) ==
  /\ awaiter[r].at = "expired"
  /\ Awaits(r, IF terminal_error[r] # "none" THEN Returned(terminal_error[r])
               ELSE [at |-> "failing",
                     error |-> IF token[r] = "live" THEN "timeout" ELSE "cancelled"])
  /\ UNCHANGED <<option, work, result, control, token, observer, cancels, holder,
                 responses, receive>>

\* Variant: the error is returned and nothing is sent.
fail_terminal_Silent(r) ==
  /\ awaiter[r].at = "failing"
  /\ Controlled(r, awaiter[r].error)
  /\ Awaits(r, Returned(Terminal(r, awaiter[r].error)))
  /\ UNCHANGED <<option, work, result, token, observer, cancels, holder, responses,
                 receive>>

fail_terminal(r) ==
  /\ awaiter[r].at = "failing"
  /\ Controlled(r, awaiter[r].error)
  /\ Awaits(r, [at |-> IF Claims(r) THEN "sending" ELSE "leaving",
                error |-> Terminal(r, awaiter[r].error)])
  /\ UNCHANGED <<option, work, result, token, observer, cancels, holder, responses,
                 receive>>

AwaiterSends(r) ==
  /\ awaiter[r].at = "sending"
  /\ Awaits(r, [awaiter[r] EXCEPT !.at = "leaving"])
  /\ Sends(r)
  /\ UNCHANGED <<option, work, result, control, token, observer, holder, responses,
                 receive>>

\* The registration fail_terminal took is dropped when it returns.
AwaiterLeaves(r) ==
  /\ awaiter[r].at = "leaving"
  /\ Awaits(r, Returned(awaiter[r].error))
  /\ observer' = [observer EXCEPT ![r] = IF @ = "armed" THEN "off" ELSE @]
  /\ UNCHANGED <<option, work, result, control, token, cancels, holder, responses,
                 receive>>

AwaitStep(r) ==
  \/ Wakes(r) \/ WokenReturns(r) \/ Expires(r) \/ ExpiredReads(r)
  \/ fail_terminal(r) \/ AwaiterSends(r) \/ AwaiterLeaves(r)

-----------------------------------------------------------------------------
(* The worker: send_native_request under native_request_mutex_.            *)

Busy == {q \in Requests : work[q] \notin {"new", "queued", "done"}}

Take(r) ==
  /\ work[r] = "queued" /\ Cardinality(Busy) < MaxWorkers
  /\ Goes(r, "locking")
  /\ UNCHANGED <<option, result, control, handle, holder, responses, receive>>

HolderAfter(r) == None

(* The mutex is released and the value set.                                *)
Finish(r, v) ==
  /\ Goes(r, "done") /\ holder' = HolderAfter(r)
  /\ result' = Settled(r, v)

SendRequest(r) ==
  /\ work[r] = "locking" /\ holder = None
  /\ IF open
     THEN /\ Goes(r, "sent") /\ holder' = r
          /\ sent' = sent \cup {r}
          /\ UNCHANGED result
     ELSE Finish(r, "error") /\ UNCHANGED sent
  /\ UNCHANGED <<option, control, handle, responses, loop, starts, closed, wire, open>>

native_receive_loop_active(r) ==
  /\ work[r] = "sent"
  /\ Goes(r, IF loop = "running" THEN "waiting" ELSE "taking")
  /\ UNCHANGED <<option, result, control, handle, holder, responses, receive>>

take_native_response(r) ==
  /\ work[r] = "taking"
  /\ IF r \in responses THEN Finish(r, r) ELSE Goes(r, "polling") /\ UNCHANGED <<holder, result>>
  /\ responses' = responses \ {r}
  /\ UNCHANGED <<option, control, handle, receive>>

\* Variant: the end of the receive loop does not wake the waiter.
WaitEnds_StoredOnly(r) == r \in responses

WaitEnds(r) == r \in responses \/ closed

wait_native_response(r) ==
  /\ work[r] = "waiting" /\ WaitEnds(r)
  /\ Finish(r, IF r \in responses THEN r ELSE "error")
  /\ responses' = responses \ {r}
  /\ UNCHANGED <<option, control, handle, receive>>

\* Variant: the first response that comes in is taken for the answer.
Answers_Any(r, m) == TRUE

Answers(r, m) == m = r

PollReceives(r) ==
  /\ work[r] = "polling"
  /\ \E m \in wire :
       /\ wire' = wire \ {m}
       /\ IF Answers(r, m) THEN Finish(r, m) /\ UNCHANGED responses
          ELSE responses' = responses \cup {m} /\ UNCHANGED <<work, holder, result>>
  /\ UNCHANGED <<option, control, handle, loop, starts, closed, sent, open>>

PollCloses(r) ==
  /\ work[r] = "polling" /\ ~open
  /\ Finish(r, "error")
  /\ UNCHANGED <<option, control, handle, responses, receive>>

WorkStep(r) ==
  \/ Take(r) \/ SendRequest(r) \/ native_receive_loop_active(r)
  \/ take_native_response(r) \/ wait_native_response(r)
  \/ PollReceives(r) \/ PollCloses(r)

-----------------------------------------------------------------------------
(* The receive loop, the server and the transport.                         *)

start ==
  /\ loop # "running" /\ starts < MaxStarts
  /\ loop' = "running" /\ starts' = starts + 1
  /\ closed' = FALSE /\ responses' = {}
  /\ UNCHANGED <<option, work, result, control, handle, holder, sent, wire, open>>

store_native_response ==
  /\ loop = "running"
  /\ \E m \in wire : wire' = wire \ {m} /\ responses' = responses \cup {m}
  /\ UNCHANGED <<option, work, result, control, handle, holder, loop, starts, closed,
                 sent, open>>

(* The service token is cancelled, a message fails, or receive() ends.     *)
LoopEnds ==
  /\ loop = "running"
  /\ loop' = "ended" /\ closed' = TRUE
  /\ UNCHANGED <<option, work, result, control, handle, holder, responses, starts,
                 sent, wire, open>>

(* The server answers when it likes, or never.                             *)
Reply ==
  /\ open
  /\ \E m \in sent : sent' = sent \ {m} /\ wire' = wire \cup {m}
  /\ UNCHANGED <<option, work, result, control, handle, holder, responses, loop, starts,
                 closed, open>>

stop ==
  /\ open /\ open' = FALSE
  /\ UNCHANGED <<option, work, result, control, handle, holder, responses, loop, starts,
                 closed, sent, wire>>

Next ==
  \/ \E r \in Requests :
       \/ spawn(r) \/ Register(r) \/ Unregister(r) \/ CancelToken(r) \/ CancelStep(r)
       \/ Await(r) \/ AwaitStep(r) \/ WorkStep(r)
  \/ start \/ store_native_response \/ LoopEnds \/ Reply \/ stop

Spec == Init /\ [][Next]_vars

(* Threads go on and timed waits end.  Nobody has to await, to cancel, to  *)
(* start a loop or to stop; the server need not answer; a loop ends by     *)
(* itself only when its transport is closed.  A request takes finitely     *)
(* many steps, so fairness of all threads together is that of each.        *)
ThreadStep ==
  \/ \E r \in Requests : Register(r) \/ CancelStep(r) \/ AwaitStep(r) \/ WorkStep(r)
  \/ ~open /\ LoopEnds

Fairness == WF_vars(ThreadStep)

FairSpec == Spec /\ Fairness

-----------------------------------------------------------------------------
(* What a request promises.                                                *)

Errors == {"none", "error", "cancelled"}
Inside == {"sent", "taking", "waiting", "polling"}

\* The variables keep their types, and the request mutex is held exactly by the
\* request whose worker is between sending and its result.
TypeOK ==
  /\ option \in [Requests -> SUBSET {"timeout", "token"}]
  /\ work \in [Requests -> {"new", "queued", "locking", "done"} \cup Inside]
  /\ result \in [Requests -> Requests \cup Errors]
  /\ terminal_error \in [Requests -> {"none", "timeout", "cancelled"}]
  /\ cancel_sent \subseteq Requests
  /\ token \in [Requests -> {"live", "flagged", "cancelled"}]
  /\ observer \in [Requests -> {"off", "pending", "armed", "callback", "cancelAndSend",
                                "cancel", "send", "done"}]
  /\ cancels \in [Requests -> Nat]
  /\ {r \in Requests : work[r] \in Inside} = {holder} \ {None}
  /\ loop \in {"idle", "running", "ended"} /\ starts \in 0..MaxStarts
  /\ responses \subseteq Requests /\ sent \subseteq Requests /\ wire \subseteq Requests
  /\ closed \in BOOLEAN /\ open \in BOOLEAN

\* A request completes with its own response or with an error, although late
\* responses of abandoned requests are received by later ones and stored.
OwnResponse == \A r \in Requests : result[r] \in {r} \cup Errors

\* The token callback and the timeout, in any order and interleaving, send one
\* cancellation notification between them.
OneCancellation == \A r \in Requests : cancels[r] <= 1

\* A caller that was told its request timed out or was cancelled is not the
\* only one to know: notify_cancelled was called, or the token callback is about
\* to call it.
AbandonedIsAnnounced ==
  \A r \in Requests :
    awaiter[r].at = "returned" /\ awaiter[r].outcome \in {"timeout", "cancelled"} =>
      cancels[r] = 1 \/ observer[r] \in {"cancelAndSend", "send"}

\* The first terminal error of a handle stays.
FirstErrorStays ==
  [][\A r \in Requests : terminal_error[r] # "none" =>
       terminal_error'[r] = terminal_error[r]]_vars

\* await_response returns when there is a timeout or the token is cancelled,
\* even if the server never answers and the worker never comes back.
AwaitReturns ==
  \A r \in Requests :
    (awaiter[r].at = "waiting" /\ (Has(r, "timeout") \/ token[r] # "live"))
      ~> awaiter[r].at = "returned"

\* After stop() every request that was handed over completes, whether its
\* worker waits for the mutex, for the receive loop or for the transport.
StopReleases ==
  \A r \in Requests : (~open /\ work[r] # "new") ~> work[r] = "done"

=============================================================================
