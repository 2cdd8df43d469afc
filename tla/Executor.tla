------------------------------ MODULE Executor ------------------------------
(***************************************************************************)
(* mcp::core::Executor: worker threads that take tasks from three priority *)
(* queues, and a timer thread that moves due tasks into those queues.      *)
(* Every critical section of mutex_ or timer_mutex_ is one step; so is     *)
(* every notification of a condition variable, which the code performs     *)
(* after releasing the mutex.  A thread in condition_variable::wait is     *)
(* "waiting" and must be woken before it evaluates its predicate again.    *)
(*                                                                         *)
(* Each task is handed over once, by a thread of its own: post and post_at *)
(* calls overlap in every possible way.                                    *)
(***************************************************************************)
EXTENDS Integers, FiniteSets, Sequences

CONSTANTS
  Tasks,            \* the callables handed to the executor
  Stoppers,         \* threads calling shutdown or cancel_and_stop
  StopKinds,        \* which of the two they call
  MaxQueueSize,     \* options_.max_queue_size, per queue
  MaxTime,          \* bound: ticks of the steady clock
  Uses,             \* how the executor is set up and called, see use below
  NoTask

ASSUME ExecutorAssumption ==
  /\ StopKinds \subseteq {"shutdown", "cancel_and_stop"}
  /\ MaxQueueSize \in Nat
  /\ MaxTime \in Nat
  /\ NoTask \notin Tasks
  /\ \A u \in Uses : u.workers # {} /\ u.priorities \subseteq Nat /\ u.delays \subseteq Nat
  /\ IsFiniteSet(UNION {u.workers : u \in Uses})

VARIABLES
  use,           \* workers_, the priorities and the deadlines of the calls
  queues_,       \* one queue per priority
  stopping_, drain_mode_,
  status,        \* what has become of each task
  entry,         \* the TimerEntry of each scheduled task: when and priority
  cancelled,     \* tasks whose TimerHandle was cancelled
  now,           \* steady_clock::now()
  worker,        \* where each worker thread is, and the task it runs
  timer,         \* where the timer thread is
  notifies,      \* tasks whose post has yet to notify work_cv_
  timerNotifies, \* tasks whose post_at has yet to notify timer_cv_
  stopper        \* where each stopping thread is

vars == <<use, queues_, stopping_, drain_mode_, status, entry, cancelled, now, worker,
          timer, notifies, timerNotifies, stopper>>

Workers == use.workers
Priorities == use.priorities   \* indexes of queues_
Delays == use.delays           \* the deadlines post_at is called with

NoEntry == [when |-> 0, priority |-> -1]
Quiet == [at |-> "idle", kind |-> "none"]

TimerAt(at, when) == [at |-> at, awake |-> FALSE, when |-> when, task |-> NoTask]

Init ==
  /\ use \in Uses
  /\ queues_ = [p \in Priorities |-> <<>>]
  /\ stopping_ = FALSE
  /\ drain_mode_ = FALSE
  /\ status = [t \in Tasks |-> "new"]
  /\ entry = [t \in Tasks |-> NoEntry]
  /\ cancelled = {}
  /\ now = 0
  /\ worker = [w \in Workers |-> [at |-> "check", task |-> NoTask]]
  /\ timer = TimerAt("top", 0)
  /\ notifies = {}
  /\ timerNotifies = {}
  /\ stopper = [s \in Stoppers |-> Quiet]

-----------------------------------------------------------------------------
(* Handing over tasks.                                                     *)

\* Variant: a stopped executor still takes tasks.
Accepts_AnyTime(p) == Len(queues_[p]) < MaxQueueSize

Accepts(p) == ~stopping_ /\ Len(queues_[p]) < MaxQueueSize

(* The critical section of post, for a caller or for the timer thread;     *)
(* refused names what a refusal makes of the task.                         *)
post(t, p, refused) ==
  IF Accepts(p)
  THEN /\ queues_' = [queues_ EXCEPT ![p] = Append(@, t)]
       /\ status' = [status EXCEPT ![t] = "queued"]
       /\ notifies' = notifies \cup {t}
  ELSE /\ status' = [status EXCEPT ![t] = refused]
       /\ UNCHANGED <<queues_, notifies>>

(* post, enqueue, and post_after with a delay that is not positive.        *)
Post(t, p) ==
  /\ status[t] = "new"
  /\ post(t, p, "refused")
  /\ UNCHANGED <<use, stopping_, drain_mode_, entry, cancelled, now, worker, timer,
                 timerNotifies, stopper>>

(* work_cv_.notify_one: wakes one waiting worker, if there is any.         *)
NotifyWork(t) ==
  /\ t \in notifies
  /\ notifies' = notifies \ {t}
  /\ IF \E w \in Workers : worker[w].at = "waiting"
     THEN \E w \in Workers :
            /\ worker[w].at = "waiting"
            /\ worker' = [worker EXCEPT ![w].at = "check"]
     ELSE worker' = worker
  /\ UNCHANGED <<use, queues_, stopping_, drain_mode_, status, entry, cancelled, now,
                 timer, timerNotifies, stopper>>

(* post_at, and post_after with a positive delay: no test of stopping_.    *)
post_at(t, when, p) ==
  /\ status[t] = "new"
  /\ status' = [status EXCEPT ![t] = "scheduled"]
  /\ entry' = [entry EXCEPT ![t] = [when |-> when, priority |-> p]]
  /\ timerNotifies' = timerNotifies \cup {t}
  /\ UNCHANGED <<use, queues_, stopping_, drain_mode_, cancelled, now, worker, timer,
                 notifies, stopper>>

NotifyTimer(t) ==
  /\ t \in timerNotifies
  /\ timerNotifies' = timerNotifies \ {t}
  /\ timer' = [timer EXCEPT !.awake = @ \/ timer.at \in {"empty", "deadline"}]
  /\ UNCHANGED <<use, queues_, stopping_, drain_mode_, status, entry, cancelled, now,
                 worker, notifies, stopper>>

(* TimerHandle::cancel only sets the flag of the entry.                    *)
cancel(t) ==
  /\ entry[t] # NoEntry
  /\ t \notin cancelled
  /\ cancelled' = cancelled \cup {t}
  /\ UNCHANGED <<use, queues_, stopping_, drain_mode_, status, entry, now, worker,
                 timer, notifies, timerNotifies, stopper>>

-----------------------------------------------------------------------------
(* worker_loop.                                                            *)

has_any_task == \E p \in Priorities : queues_[p] # <<>>

Highest(p) == queues_[p] # <<>> /\ \A q \in Priorities : q < p => queues_[q] = <<>>

(* dequeue_highest_priority takes the front of the first non-empty queue.  *)
Dequeued(p) == [queues_ EXCEPT ![p] = Tail(@)]

WorkerExits == stopping_ /\ ~has_any_task

(* One pass under mutex_: leave, wait, or take the next task.              *)
WorkerCheck(w) ==
  /\ worker[w].at = "check"
  /\ \/ /\ WorkerExits
        /\ worker' = [worker EXCEPT ![w].at = "exited"]
        /\ UNCHANGED <<queues_, status>>
     \/ /\ ~stopping_ /\ ~has_any_task
        /\ worker' = [worker EXCEPT ![w].at = "waiting"]
        /\ UNCHANGED <<queues_, status>>
     \/ /\ ~WorkerExits
        /\ \E p \in Priorities :
             /\ Highest(p)
             /\ worker' = [worker EXCEPT ![w] =
                             [at |-> "running", task |-> Head(queues_[p])]]
             /\ status' = [status EXCEPT ![Head(queues_[p])] = "running"]
             /\ queues_' = Dequeued(p)
  /\ UNCHANGED <<use, stopping_, drain_mode_, entry, cancelled, now, timer, notifies,
                 timerNotifies, stopper>>

(* The task returns or throws; an exception goes to exception_handler.     *)
TaskReturns(w) ==
  /\ worker[w].at = "running"
  /\ status' = [status EXCEPT ![worker[w].task] = "done"]
  /\ worker' = [worker EXCEPT ![w] = [at |-> "check", task |-> NoTask]]
  /\ UNCHANGED <<use, queues_, stopping_, drain_mode_, entry, cancelled, now, timer,
                 notifies, timerNotifies, stopper>>

-----------------------------------------------------------------------------
(* timer_loop.  timers_ holds the scheduled tasks.                         *)

timers_ == {t \in Tasks : status[t] = "scheduled"}

Earliest(ts) == {t \in ts : \A u \in ts : entry[t].when <= entry[u].when}

(* Popping cancelled entries from the top leaves an uncancelled entry      *)
(* there, or nothing.                                                      *)
Purged == {t \in timers_ : t \notin cancelled \/
             \E u \in timers_ \ cancelled : entry[u].when < entry[t].when}

DropPurged == [t \in Tasks |-> IF t \in timers_ \ Purged THEN "dropped" ELSE status[t]]

\* Variant: a deadline that has become earlier does not end the wait.
DeadlineMoved_Never == FALSE

(* The wait_until predicate: top()->when differs from the deadline.        *)
DeadlineMoved ==
  timers_ = {} \/ \E t \in Earliest(timers_) : entry[t].when # timer.when

Due(t) == entry[t].when <= now

(* Start of an iteration, with work_cv_ notified for the task posted last: *)
(* purge, then wait for an entry or for a deadline.                        *)
TimerTop ==
  /\ timer.at = "top"
  /\ \A t \in notifies : entry[t] = NoEntry
  /\ status' = DropPurged
  /\ timer' = IF stopping_ THEN TimerAt("exited", 0)
              ELSE IF Purged = {} THEN TimerAt("empty", 0)
              ELSE TimerAt("deadline", entry[CHOOSE t \in Earliest(Purged) : TRUE].when)
  /\ UNCHANGED <<use, queues_, stopping_, drain_mode_, entry, cancelled, now, worker,
                 notifies, timerNotifies, stopper>>

(* A notified or timed out timer thread evaluates its predicate again.     *)
TimerWaitOver ==
  \/ timer.at = "empty" /\ timer.awake /\ (stopping_ \/ timers_ # {})
  \/ timer.at = "deadline" /\ timer.awake /\ (stopping_ \/ DeadlineMoved)
  \/ timer.at = "deadline" /\ timer.when <= now

TimerSleepsOn ==
  /\ timer.awake
  /\ ~TimerWaitOver
  /\ timer' = [timer EXCEPT !.awake = FALSE]
  /\ UNCHANGED <<use, queues_, stopping_, drain_mode_, status, entry, cancelled, now,
                 worker, notifies, timerNotifies, stopper>>

(* After the wait: leave when stopping, else purge again and take the top  *)
(* entry if it is due.                                                     *)
TimerWakes ==
  /\ TimerWaitOver
  /\ \/ /\ stopping_
        /\ timer' = TimerAt("exited", 0)
        /\ status' = status
     \/ /\ ~stopping_
        /\ ~\E t \in Earliest(Purged) : Due(t)
        /\ timer' = TimerAt("top", 0)
        /\ status' = DropPurged
     \/ /\ ~stopping_
        /\ \E t \in Earliest(Purged) :
             /\ Due(t)
             /\ timer' = [at |-> "post", awake |-> FALSE, when |-> 0, task |-> t]
             /\ status' = [DropPurged EXCEPT ![t] = "fired"]
  /\ UNCHANGED <<use, queues_, stopping_, drain_mode_, entry, cancelled, now, worker,
                 notifies, timerNotifies, stopper>>

(* The timer thread hands the task over; a refusal is ignored.             *)
TimerPosts ==
  /\ timer.at = "post"
  /\ post(timer.task, entry[timer.task].priority, "dropped")
  /\ timer' = TimerAt("top", 0)
  /\ UNCHANGED <<use, stopping_, drain_mode_, entry, cancelled, now, worker,
                 timerNotifies, stopper>>

-----------------------------------------------------------------------------
(* shutdown and cancel_and_stop.                                           *)

(* The tasks cancel_and_stop clears.                                       *)
InQueues == {t \in Tasks : status[t] = "queued"}

At(s, at) == stopper' = [stopper EXCEPT ![s].at = at]

(* Only the first call goes on; a later one returns at once.               *)
BeginStop(s, kind) ==
  /\ stopper[s] = Quiet
  /\ IF stopping_
     THEN /\ stopper' = [stopper EXCEPT ![s] = [at |-> "early", kind |-> kind]]
          /\ UNCHANGED <<queues_, stopping_, drain_mode_, status>>
     ELSE /\ stopper' = [stopper EXCEPT ![s] = [at |-> "notifyWork", kind |-> kind]]
          /\ stopping_' = TRUE
          /\ IF kind = "shutdown"
             THEN drain_mode_' = TRUE /\ UNCHANGED <<queues_, status>>
             ELSE /\ queues_' = [p \in Priorities |-> <<>>]
                  /\ status' = [t \in Tasks |->
                       IF t \in InQueues THEN "dropped" ELSE status[t]]
                  /\ UNCHANGED drain_mode_
  /\ UNCHANGED <<use, entry, cancelled, now, worker, timer, notifies, timerNotifies>>

NotifyAllWork(s) ==
  /\ stopper[s].at = "notifyWork"
  /\ worker' = [w \in Workers |-> IF worker[w].at = "waiting"
                                  THEN [worker[w] EXCEPT !.at = "check"]
                                  ELSE worker[w]]
  /\ At(s, "clearTimers")
  /\ UNCHANGED <<use, queues_, stopping_, drain_mode_, status, entry, cancelled, now,
                 timer, notifies, timerNotifies>>

ClearTimers(s) ==
  /\ stopper[s].at = "clearTimers"
  /\ status' = [t \in Tasks |-> IF t \in timers_ THEN "dropped" ELSE status[t]]
  /\ At(s, "notifyTimer")
  /\ UNCHANGED <<use, queues_, stopping_, drain_mode_, entry, cancelled, now, worker,
                 timer, notifies, timerNotifies>>

\* Variant: the timer thread is not notified of the stop.
NotifyAllTimer_Not(s) ==
  /\ stopper[s].at = "notifyTimer"
  /\ At(s, "join")
  /\ UNCHANGED <<use, queues_, stopping_, drain_mode_, status, entry, cancelled, now,
                 worker, timer, notifies, timerNotifies>>

NotifyAllTimer(s) ==
  /\ stopper[s].at = "notifyTimer"
  /\ timer' = [timer EXCEPT !.awake = @ \/ timer.at \in {"empty", "deadline"}]
  /\ At(s, "join")
  /\ UNCHANGED <<use, queues_, stopping_, drain_mode_, status, entry, cancelled, now,
                 worker, notifies, timerNotifies>>

\* Variant: the worker threads are not joined.
Joined_TimerOnly == timer.at = "exited"

Joined == timer.at = "exited" /\ \A w \in Workers : worker[w].at = "exited"

JoinThreads(s) ==
  /\ stopper[s].at = "join"
  /\ Joined
  /\ At(s, "returned")
  /\ UNCHANGED <<use, queues_, stopping_, drain_mode_, status, entry, cancelled, now,
                 worker, timer, notifies, timerNotifies>>

Tick ==
  /\ now < MaxTime
  /\ now' = now + 1
  /\ UNCHANGED <<use, queues_, stopping_, drain_mode_, status, entry, cancelled, worker,
                 timer, notifies, timerNotifies, stopper>>

-----------------------------------------------------------------------------
CallStep(t) ==
  \/ \E p \in Priorities : Post(t, p)
  \/ \E when \in Delays, p \in Priorities : post_at(t, when, p)
  \/ NotifyWork(t)
  \/ NotifyTimer(t)
  \/ cancel(t)

WorkerStep(w) == WorkerCheck(w) \/ TaskReturns(w)

TimerStep == TimerTop \/ TimerSleepsOn \/ TimerWakes \/ TimerPosts

StopStep(s) ==
  \/ NotifyAllWork(s) \/ ClearTimers(s) \/ NotifyAllTimer(s) \/ JoinThreads(s)

Next ==
  \/ \E t \in Tasks : CallStep(t)
  \/ \E w \in Workers : WorkerStep(w)
  \/ TimerStep
  \/ \E s \in Stoppers : StopStep(s) \/ \E kind \in StopKinds : BeginStop(s, kind)
  \/ Tick

Spec == Init /\ [][Next]_vars

(* Threads keep running and tasks return.  Nobody has to hand over a task, *)
(* to cancel a timer or to stop the executor, and the clock may stand      *)
(* still; a wait ends only by a notification or a passed deadline.  Each   *)
(* task is handed over once, so all threads together take finitely many    *)
(* steps, and weak fairness of their disjunction is that of each thread.   *)
ThreadStep ==
  \/ \E t \in Tasks : NotifyWork(t) \/ NotifyTimer(t)
  \/ \E w \in Workers : WorkerStep(w)
  \/ TimerStep
  \/ \E s \in Stoppers : StopStep(s)

Fairness == WF_vars(ThreadStep)

FairSpec == Spec /\ Fairness

-----------------------------------------------------------------------------
(* What the executor promises.                                             *)

\* When the call that stops the executor returns, nothing is queued, nothing
\* runs and no timer task is on its way to a queue, and it stays so; after
\* shutdown every accepted task has therefore been executed.
StopIsQuiet ==
  (\E s \in Stoppers : stopper[s].at = "returned") =>
    \A t \in Tasks : status[t] \notin {"queued", "running", "fired"}

\* No wakeup is lost, although notifications come after the unlock and may find
\* nobody waiting: an accepted task is eventually taken by a worker or dropped
\* by cancel_and_stop, and a scheduled task that is due does not stay in the
\* heap behind a sleeping timer thread.
NoLostWakeup ==
  \A t \in Tasks :
    /\ (status[t] = "queued") ~> (status[t] # "queued")
    /\ (status[t] = "scheduled" /\ entry[t].when <= now) ~>
         (status[t] # "scheduled" \/ stopping_)

\* A call that stops the executor returns: no worker and no timer thread
\* sleeps through the notifications.
StopReturns ==
  \A s \in Stoppers :
    (stopper[s] # Quiet) ~> (stopper[s].at \in {"returned", "early"})

(* The abstract pool, seen through the status of the tasks.                *)
Phase(t) ==
  CASE status[t] = "new" -> "new"
    [] status[t] \in {"scheduled", "fired"} -> "timed"
    [] status[t] = "queued" -> "pending"
    [] status[t] \in {"refused", "dropped"} -> "never"
    [] OTHER -> status[t]

Mode == IF ~stopping_ THEN "open" ELSE IF drain_mode_ THEN "draining" ELSE "dropping"

Crew == UNION {u.workers : u \in Uses}

Pool == INSTANCE WorkPool WITH
          Capacity <- Cardinality(Crew),
          phase <- [t \in Tasks |-> Phase(t)],
          mode <- Mode

\* The executor is a work pool: a task is taken or refused once and runs at
\* most once, never more of them at a time than there are workers; a task in a
\* queue is lost only to cancel_and_stop, which loses all of them; and nothing
\* enters a queue once a stop has begun, not even from the timer thread.
ImplementsWorkPool == Pool!Spec
=============================================================================
