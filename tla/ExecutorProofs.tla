--------------------------- MODULE ExecutorProofs ---------------------------
(***************************************************************************)
(* Theorems about Executor, for any tasks, any number of workers, queues   *)
(* and stopping threads, and any clock.                                    *)
(***************************************************************************)
EXTENDS Executor, FiniteSetTheorems, TLAPS

Statuses == {"new", "scheduled", "fired", "queued", "running", "done", "refused", "dropped"}

StopPlaces ==
  {"idle", "early", "notifyWork", "clearTimers", "notifyTimer", "join", "returned"}

StateType ==
  /\ use \in Uses
  /\ queues_ \in [Priorities -> Seq(Tasks)]
  /\ status \in [Tasks -> Statuses]
  /\ entry \in [Tasks -> [when : Int, priority : Int]]
  /\ \A t \in Tasks : status[t] \in {"scheduled", "fired"} => entry[t].priority \in Priorities
  /\ worker \in [Workers -> [at : {"check", "waiting", "running", "exited"},
                             task : Tasks \cup {NoTask}]]
  /\ stopper \in [Stoppers -> [at : StopPlaces, kind : StopKinds \cup {"none"}]]

Slot(p, i) == queues_[p][i]

(* The queues hold every queued task, once.                                *)
QueueInv ==
  /\ \A p \in Priorities : \A i \in 1..Len(queues_[p]) : status[Slot(p, i)] = "queued"
  /\ \A p, q \in Priorities : \A i \in 1..Len(queues_[p]), j \in 1..Len(queues_[q]) :
       Slot(p, i) = Slot(q, j) => p = q /\ i = j
  /\ \A t \in Tasks : status[t] = "queued" =>
       \E p \in Priorities : \E i \in 1..Len(queues_[p]) : Slot(p, i) = t

(* Every running task has a worker of its own.                             *)
RunInv ==
  /\ \A w \in Workers : worker[w].at = "running" =>
       worker[w].task \in Tasks /\ status[worker[w].task] = "running"
  /\ \A v, w \in Workers :
       worker[v].at = "running" /\ worker[w].at = "running" /\ worker[v].task = worker[w].task
         => v = w
  /\ \A t \in Tasks : status[t] = "running" =>
       \E w \in Workers : worker[w].at = "running" /\ worker[w].task = t

(* The timer thread holds the one task on its way from the heap.           *)
TimerInv ==
  /\ timer.at = "post" => timer.task \in Tasks /\ status[timer.task] = "fired"
  /\ \A t \in Tasks : status[t] = "fired" => timer.at = "post" /\ timer.task = t

(* A worker leaves for good: the queues are empty and stay so.             *)
ExitInv ==
  /\ stopping_ \in BOOLEAN
  /\ \A w \in Workers : worker[w].at = "exited" =>
       stopping_ /\ \A p \in Priorities : queues_[p] = <<>>
  /\ (\E s \in Stoppers : stopper[s].at = "returned") =>
       timer.at = "exited" /\ \A w \in Workers : worker[w].at = "exited"

PoolInv == StateType /\ QueueInv /\ RunInv /\ TimerInv /\ ExitInv

-----------------------------------------------------------------------------
\* Initially every task is new and every thread is at its start.
LEMMA PoolInit == Init => PoolInv
<1> SUFFICES ASSUME Init PROVE PoolInv
  BY Zenon
<1>1. StateType
  BY DEF Init, StateType, Statuses, Priorities, Workers, Quiet, StopPlaces, NoEntry
<1>2. QueueInv /\ RunInv /\ TimerInv
  BY DEF Init, QueueInv, RunInv, TimerInv, TimerAt
<1>3. ExitInv
  BY Zenon DEF Init, ExitInv, Quiet
<1> QED
  BY <1>1, <1>2, <1>3, Zenon DEF PoolInv

\* Statuses that no queue, worker or timer thread accounts for may change
\* freely as long as the change stays among them.
Free == {"new", "scheduled", "done", "refused", "dropped"}

FreeChange ==
  /\ status' \in [Tasks -> Statuses]
  /\ entry' \in [Tasks -> [when : Int, priority : Int]]
  /\ \A t \in Tasks : status'[t] = status[t] \/ (status[t] \in Free /\ status'[t] \in Free)
  /\ \A t \in Tasks : status'[t] \in {"scheduled", "fired"} => entry'[t].priority \in Priorities

\* A step that changes neither queues, workers nor what the timer thread holds.
LEMMA FreeKeeps ==
  ASSUME PoolInv, FreeChange, UNCHANGED <<use, queues_, worker>>,
         timer'.at = "post" <=> timer.at = "post",
         timer.at = "post" => timer'.task = timer.task,
         stopper' \in [Stoppers -> [at : StopPlaces, kind : StopKinds \cup {"none"}]]
  PROVE  StateType' /\ QueueInv' /\ RunInv' /\ TimerInv'
<1>1. StateType'
  BY Zenon DEF PoolInv, StateType, FreeChange, Priorities, Workers
<1>2. \A t \in Tasks : \A x \in {"queued", "running", "fired"} :
        status'[t] = x <=> status[t] = x
  BY Zenon DEF FreeChange, Free
<1>3. /\ Priorities' = Priorities /\ Workers' = Workers
      /\ \A p \in Priorities : \A i \in 1..Len(queues_[p]) : Slot(p, i) \in Tasks
      /\ \A p, i : Slot(p, i)' = Slot(p, i)
  BY DEF Priorities, Workers, Slot, PoolInv, StateType
<1>4. QueueInv'
  BY <1>2, <1>3 DEF PoolInv, QueueInv
<1>5. RunInv'
  BY <1>2, <1>3 DEF PoolInv, RunInv
<1>6. TimerInv'
  BY <1>2, Zenon DEF PoolInv, TimerInv
<1> QED
  BY <1>1, <1>4, <1>5, <1>6, Zenon

\* A step that neither ends a worker, fills an empty queue after the stop, nor
\* lets the stopping call return.
LEMMA ExitKeeps ==
  ASSUME PoolInv, use' = use, stopping_' \in BOOLEAN, stopping_ => stopping_',
         \A w \in Workers : worker'[w].at = "exited" <=> worker[w].at = "exited",
         stopping_ => \A p \in Priorities : queues_[p] = <<>> => queues_'[p] = <<>>,
         \A s \in Stoppers : stopper'[s].at = "returned" => stopper[s].at = "returned",
         timer.at = "exited" => timer'.at = "exited"
  PROVE  ExitInv'
<1>1. Workers' = Workers /\ Priorities' = Priorities
  BY Zenon DEF Workers, Priorities
<1> QED
  BY <1>1, Zenon DEF PoolInv, ExitInv

\* A queue accepts a task that is in no queue and on no worker.
LEMMA AcceptKeeps ==
  ASSUME PoolInv, NEW t \in Tasks, NEW p \in Priorities, Accepts(p),
         status[t] \in {"new", "fired"},
         queues_' = [queues_ EXCEPT ![p] = Append(@, t)],
         status' = [status EXCEPT ![t] = "queued"],
         UNCHANGED <<use, entry, worker, stopper>>
  PROVE  StateType' /\ QueueInv' /\ RunInv'
<1>1. /\ Priorities' = Priorities /\ Workers' = Workers
      /\ queues_ \in [Priorities -> Seq(Tasks)] /\ status \in [Tasks -> Statuses]
  BY Zenon DEF Priorities, Workers, PoolInv, StateType
<1>2. /\ queues_' \in [Priorities -> Seq(Tasks)] /\ status' \in [Tasks -> Statuses]
      /\ status'[t] = "queued" /\ \A u \in Tasks \ {t} : status'[u] = status[u]
  BY <1>1 DEF Statuses
<1>3. StateType'
  BY <1>1, <1>2, Zenon DEF PoolInv, StateType, Workers, Priorities
<1>0. PICK n \in Nat : n = Len(queues_[p])
  BY <1>1
<1>4. /\ n = Len(queues_[p]) /\ Len(queues_'[p]) = n + 1
      /\ \A i \in 1..n : queues_'[p][i] = Slot(p, i)
      /\ queues_'[p][n + 1] = t
      /\ \A q \in Priorities \ {p} : queues_'[q] = queues_[q]
      /\ \A q \in Priorities : \A i \in 1..Len(queues_[q]) : Slot(q, i) \in Tasks \ {t}
  BY <1>0, <1>1 DEF PoolInv, QueueInv, Slot
<1>5. \A q \in Priorities : \A i \in 1..Len(queues_'[q]) :
        \/ i \in 1..Len(queues_[q]) /\ Slot(q, i)' = Slot(q, i)
        \/ q = p /\ i = n + 1 /\ Slot(q, i)' = t
  BY <1>4 DEF Slot
<1>6. \A q \in Priorities : \A i \in 1..Len(queues_[q]) :
        i \in 1..Len(queues_'[q]) /\ Slot(q, i)' = Slot(q, i)
  BY <1>1, <1>4 DEF Slot
<1>7. \A q \in Priorities : \A i \in 1..Len(queues_'[q]) : status'[Slot(q, i)'] = "queued"
  BY <1>2, <1>4, <1>5 DEF PoolInv, QueueInv
<1>8. \A q, r \in Priorities : \A i \in 1..Len(queues_'[q]), j \in 1..Len(queues_'[r]) :
        Slot(q, i)' = Slot(r, j)' => q = r /\ i = j
  BY <1>4, <1>5 DEF PoolInv, QueueInv
<1>9. \A u \in Tasks : status'[u] = "queued" =>
        \E q \in Priorities : \E i \in 1..Len(queues_'[q]) : Slot(q, i)' = u
  <2> SUFFICES ASSUME NEW u \in Tasks, status'[u] = "queued"
               PROVE  \E q \in Priorities : \E i \in 1..Len(queues_'[q]) : Slot(q, i)' = u
    BY Zenon
  <2>1. CASE u = t
    <3>1. n + 1 \in 1..Len(queues_'[p]) /\ Slot(p, n + 1)' = t
      BY <1>4 DEF Slot
    <3> QED
      BY <2>1, <3>1, Zenon
  <2>2. CASE u # t
    BY <1>2, <1>6, <2>2 DEF PoolInv, QueueInv
  <2> QED
    BY <2>1, <2>2, Zenon
<1>10. QueueInv'
  BY <1>1, <1>7, <1>8, <1>9, Zenon DEF QueueInv
<1>11. RunInv'
  BY <1>1, <1>2 DEF PoolInv, RunInv
<1> QED
  BY <1>3, <1>10, <1>11, Zenon

\* A worker takes the front of a queue.
LEMMA TakeKeeps ==
  ASSUME PoolInv, NEW w \in Workers, NEW p \in Priorities, queues_[p] # <<>>,
         worker[w].at = "check",
         worker' = [worker EXCEPT ![w] = [at |-> "running", task |-> Head(queues_[p])]],
         status' = [status EXCEPT ![Head(queues_[p])] = "running"],
         queues_' = Dequeued(p),
         UNCHANGED <<use, entry, stopper, timer>>
  PROVE  /\ StateType' /\ QueueInv' /\ RunInv' /\ TimerInv'
         /\ Head(queues_[p]) \in Tasks /\ status[Head(queues_[p])] = "queued"
<1> DEFINE t == Head(queues_[p])
<1>1. /\ Priorities' = Priorities /\ Workers' = Workers
      /\ queues_ \in [Priorities -> Seq(Tasks)] /\ status \in [Tasks -> Statuses]
  BY Zenon DEF Priorities, Workers, PoolInv, StateType
<1>2. /\ Len(queues_[p]) \in Nat \ {0} /\ t = Slot(p, 1) /\ t \in Tasks
      /\ status[t] = "queued"
  BY <1>1 DEF Slot, PoolInv, QueueInv
<1>3. /\ queues_' \in [Priorities -> Seq(Tasks)]
      /\ \A q \in Priorities \ {p} : queues_'[q] = queues_[q]
      /\ queues_'[p] = Tail(queues_[p])
  BY <1>1 DEF Dequeued
<1>4. /\ Len(queues_'[p]) = Len(queues_[p]) - 1
      /\ \A i \in 1..Len(queues_'[p]) : Slot(p, i)' = Slot(p, i + 1)
  BY <1>1, <1>2, <1>3 DEF Slot
<1>5. /\ status' \in [Tasks -> Statuses] /\ status'[t] = "running"
      /\ \A u \in Tasks \ {t} : status'[u] = status[u]
  BY <1>1, <1>2, Zenon DEF Statuses
<1>6. StateType'
  BY <1>1, <1>2, <1>3, <1>5, Zenon DEF PoolInv, StateType, Workers, Priorities
<1>7. \A q \in Priorities : \A i \in 1..Len(queues_'[q]) :
        \/ q # p /\ i \in 1..Len(queues_[q]) /\ Slot(q, i)' = Slot(q, i)
        \/ q = p /\ i + 1 \in 2..Len(queues_[q]) /\ i \in Nat /\ Slot(q, i)' = Slot(q, i + 1)
  <2>1. \A q \in Priorities \ {p} : \A i \in 1..Len(queues_'[q]) :
          i \in 1..Len(queues_[q]) /\ Slot(q, i)' = Slot(q, i)
    BY <1>3, Zenon DEF Slot
  <2>2. \A i \in 1..Len(queues_'[p]) : i + 1 \in 2..Len(queues_[p]) /\ i \in Nat
    BY <1>1, <1>2, <1>4
  <2> QED
    BY <1>4, <2>1, <2>2, Zenon
<1>8. \A q \in Priorities : \A i \in 1..Len(queues_'[q]) :
        Slot(q, i)' \in Tasks \ {t} /\ status[Slot(q, i)'] = "queued"
  <2>1. \A q \in Priorities : \A i \in 1..Len(queues_[q]) : Slot(q, i) \in Tasks
    BY <1>1 DEF Slot
  <2>2. \A q \in Priorities : Len(queues_[q]) \in Nat
    BY <1>1
  <2> QED
    BY <1>2, <1>7, <2>1, <2>2 DEF PoolInv, QueueInv
<1>9. \A q, r \in Priorities : \A i \in 1..Len(queues_'[q]), j \in 1..Len(queues_'[r]) :
        Slot(q, i)' = Slot(r, j)' => q = r /\ i = j
  <2>1. \A q \in Priorities : Len(queues_[q]) \in Nat
    BY <1>1
  <2> QED
    BY <1>7, <2>1 DEF PoolInv, QueueInv
<1>10. \A u \in Tasks : status'[u] = "queued" =>
         \E q \in Priorities : \E i \in 1..Len(queues_'[q]) : Slot(q, i)' = u
  <2> SUFFICES ASSUME NEW u \in Tasks, status'[u] = "queued"
               PROVE  \E q \in Priorities : \E i \in 1..Len(queues_'[q]) : Slot(q, i)' = u
    BY Zenon
  <2>1. u # t /\ status[u] = "queued"
    BY <1>5, Zenon
  <2>2. PICK q \in Priorities : \E i \in 1..Len(queues_[q]) : Slot(q, i) = u
    BY <2>1, Zenon DEF PoolInv, QueueInv
  <2>5. PICK i \in 1..Len(queues_[q]) : Slot(q, i) = u
    BY <2>2, Zenon
  <2>3. CASE q = p
    <3>1. i # 1 /\ i \in Nat
      BY <1>2, <2>1, <2>5, <2>3
    <3>2. i - 1 \in 1..Len(queues_'[p]) /\ (i - 1) + 1 = i
      BY <1>2, <1>4, <2>5, <2>3, <3>1
    <3> QED
      BY <1>4, <2>3, <2>5, <3>2, Zenon
  <2>4. CASE q # p
    BY <1>3, <2>4, <2>5, Zenon DEF Slot
  <2> QED
    BY <2>3, <2>4, Zenon
<1>11. QueueInv'
  BY <1>1, <1>5, <1>8, <1>9, <1>10 DEF QueueInv
<1>12. /\ worker'[w] = [at |-> "running", task |-> t]
       /\ \A v \in Workers \ {w} : worker'[v] = worker[v]
  BY Zenon DEF PoolInv, StateType
<1> HIDE DEF t
<1>13. RunInv'
  <2>1. \A v \in Workers : worker'[v].at = "running" =>
          worker'[v].task \in Tasks /\ status'[worker'[v].task] = "running"
    BY <1>2, <1>5, <1>12 DEF PoolInv, RunInv
  <2>2. \A u, v \in Workers : worker'[u].at = "running" /\ worker'[v].at = "running"
          /\ worker'[u].task = worker'[v].task => u = v
    BY <1>2, <1>12 DEF PoolInv, RunInv
  <2>3. \A u \in Tasks : status'[u] = "running" =>
          \E v \in Workers : worker'[v].at = "running" /\ worker'[v].task = u
    BY <1>5, <1>12 DEF PoolInv, RunInv
  <2> QED
    BY <1>1, <2>1, <2>2, <2>3, Zenon DEF RunInv
<1>14. TimerInv'
  BY <1>2, <1>5, Zenon DEF PoolInv, TimerInv
<1> QED
  BY <1>2, <1>6, <1>11, <1>13, <1>14, Zenon DEF t

\* A task returns and its worker goes on.
LEMMA ReturnKeeps ==
  ASSUME PoolInv, NEW w \in Workers, TaskReturns(w)
  PROVE  PoolInv' /\ worker[w].task \in Tasks /\ status[worker[w].task] = "running"
<1>1. PICK t \in Tasks : t = worker[w].task /\ status[t] = "running"
  BY Zenon DEF TaskReturns, PoolInv, RunInv
<1>2. /\ Workers' = Workers /\ Priorities' = Priorities
      /\ worker[w].at = "running"
      /\ worker'[w] = [at |-> "check", task |-> NoTask]
      /\ \A v \in Workers \ {w} : worker'[v] = worker[v]
      /\ status' = [status EXCEPT ![t] = "done"]
  BY <1>1, Zenon DEF TaskReturns, PoolInv, StateType, Workers, Priorities
<1>3. /\ status' \in [Tasks -> Statuses] /\ status'[t] = "done"
      /\ \A u \in Tasks \ {t} : status'[u] = status[u]
  BY <1>2, Zenon DEF PoolInv, StateType, Statuses
<1>4. StateType'
  BY <1>1, <1>3, Zenon DEF TaskReturns, PoolInv, StateType, Workers, Priorities
<1>5. QueueInv'
  <2>1. /\ \A p, i : Slot(p, i)' = Slot(p, i) /\ UNCHANGED queues_
        /\ \A p \in Priorities : \A i \in 1..Len(queues_[p]) : Slot(p, i) \in Tasks
    BY DEF TaskReturns, Slot, PoolInv, StateType
  <2> QED
    BY <1>1, <1>2, <1>3, <2>1 DEF PoolInv, QueueInv
<1>6. RunInv'
  BY <1>1, <1>2, <1>3 DEF PoolInv, RunInv
<1>7. TimerInv'
  BY <1>1, <1>3, Zenon DEF TaskReturns, PoolInv, TimerInv
<1>8. ExitInv'
  BY <1>2, ExitKeeps DEF TaskReturns, PoolInv, ExitInv
<1> QED
  BY <1>1, <1>4, <1>5, <1>6, <1>7, <1>8, Zenon DEF PoolInv

\* Purging the heap only drops scheduled tasks.
LEMMA PurgeDrops ==
  ASSUME PoolInv
  PROVE  /\ DropPurged \in [Tasks -> Statuses]
         /\ \A t \in Tasks : DropPurged[t] = status[t]
              \/ (status[t] = "scheduled" /\ DropPurged[t] = "dropped")
  BY Zenon DEF PoolInv, StateType, DropPurged, timers_, Statuses

\* The steps of the timer thread.
LEMMA TimerKeeps ==
  ASSUME PoolInv, TimerStep
  PROVE  PoolInv'
<1>0. UNCHANGED <<use, entry, worker, stopping_, stopper>> /\ Priorities' = Priorities
  BY Zenon DEF TimerStep, TimerTop, TimerSleepsOn, TimerWakes, TimerPosts, Priorities
<1>1. ExitInv'
  <2>1. stopping_ => UNCHANGED queues_
    BY Zenon DEF TimerStep, TimerTop, TimerSleepsOn, TimerWakes, TimerPosts, post, Accepts
  <2>2. timer.at = "exited" => timer'.at = "exited"
    <3>1. CASE TimerSleepsOn
      BY <3>1 DEF TimerSleepsOn
    <3> QED
      BY <3>1, Zenon DEF TimerStep, TimerTop, TimerWakes, TimerPosts, TimerWaitOver
  <2> QED
    BY <1>0, <2>1, <2>2, ExitKeeps, Zenon DEF PoolInv, ExitInv
<1>2. ASSUME status' \in {status, DropPurged}, UNCHANGED queues_,
             timer.at # "post", timer'.at # "post"
      PROVE  StateType' /\ QueueInv' /\ RunInv' /\ TimerInv'
  <2>1. FreeChange
    BY <1>0, <1>2, PurgeDrops, Zenon DEF FreeChange, Free, PoolInv, StateType
  <2> QED
    BY <1>0, <1>2, <2>1, FreeKeeps, Zenon DEF PoolInv, StateType
<1>3. CASE TimerTop
  BY <1>1, <1>2, <1>3, Zenon DEF TimerTop, TimerAt, PoolInv
<1>4. CASE TimerSleepsOn
  <2>1. FreeChange
    BY <1>0, <1>4, Zenon DEF TimerSleepsOn, FreeChange, PoolInv, StateType
  <2> QED
    BY <1>0, <1>1, <1>4, <2>1, FreeKeeps DEF TimerSleepsOn, PoolInv, StateType
<1>5. CASE TimerWakes
  <2>1. timer.at # "post" /\ UNCHANGED queues_
    BY <1>5, Zenon DEF TimerWakes, TimerWaitOver
  <2>2. CASE timer'.at # "post"
    BY <1>1, <1>2, <1>5, <2>1, <2>2 DEF TimerWakes, TimerAt, PoolInv
  <2>3. CASE timer'.at = "post"
    <3>1. PICK t \in Earliest(Purged) :
            /\ timer' = [at |-> "post", awake |-> FALSE, when |-> 0, task |-> t]
            /\ status' = [DropPurged EXCEPT ![t] = "fired"]
      BY <1>5, <2>3 DEF TimerWakes, TimerAt
    <3>2. t \in Tasks /\ status[t] = "scheduled"
      BY Zenon DEF Earliest, Purged, timers_
    <3>3. /\ status' \in [Tasks -> Statuses] /\ status'[t] = "fired"
          /\ \A u \in Tasks \ {t} : status'[u] = status[u]
               \/ (status[u] = "scheduled" /\ status'[u] = "dropped")
      BY <3>1, <3>2, PurgeDrops, Zenon DEF Statuses
    <3>4. \A u \in Tasks : \A x \in {"queued", "running"} : status'[u] = x <=> status[u] = x
      BY <3>2, <3>3, Zenon
    <3>5. StateType'
      BY <1>0, <2>1, <3>2, <3>3, Zenon DEF PoolInv, StateType, Priorities, Workers
    <3>6. /\ Workers' = Workers /\ \A p, i : Slot(p, i)' = Slot(p, i)
          /\ \A p \in Priorities : \A i \in 1..Len(queues_[p]) : Slot(p, i) \in Tasks
      BY <1>0, <2>1 DEF Workers, Slot, PoolInv, StateType
    <3>7. QueueInv'
      BY <1>0, <2>1, <3>4, <3>6 DEF PoolInv, QueueInv
    <3>8. RunInv'
      BY <1>0, <3>4, <3>6 DEF PoolInv, RunInv
    <3>9. TimerInv'
      BY <2>1, <3>1, <3>2, <3>3, Zenon DEF PoolInv, TimerInv
    <3> QED
      BY <1>1, <3>5, <3>7, <3>8, <3>9, Zenon DEF PoolInv
  <2> QED
    BY <2>2, <2>3, Zenon
<1>6. CASE TimerPosts
  <2>1. PICK t \in Tasks : t = timer.task /\ status[t] = "fired"
    BY <1>6, Zenon DEF TimerPosts, PoolInv, TimerInv
  <2>2. PICK p \in Priorities : p = entry[t].priority
    BY <2>1, Zenon DEF PoolInv, StateType
  <2>3. timer'.at = "top"
    BY <1>6, Zenon DEF TimerPosts, TimerAt
  <2>4. timer.at = "post" /\ \A u \in Tasks \ {t} : status[u] # "fired"
    BY <1>6, <2>1, Zenon DEF TimerPosts, PoolInv, TimerInv
  <2>5. CASE Accepts(p)
    <3>1. /\ queues_' = [queues_ EXCEPT ![p] = Append(@, t)]
          /\ status' = [status EXCEPT ![t] = "queued"]
      BY <1>6, <2>1, <2>2, <2>5, Zenon DEF TimerPosts, post
    <3>2. StateType' /\ QueueInv' /\ RunInv'
      BY <1>0, <2>1, <2>5, <3>1, AcceptKeeps, Zenon
    <3>3. TimerInv'
      BY <2>1, <2>3, <2>4, <3>1, Zenon DEF PoolInv, StateType, TimerInv
    <3> QED
      BY <1>1, <3>2, <3>3, Zenon DEF PoolInv
  <2>6. CASE ~Accepts(p)
    <3>1. status' = [status EXCEPT ![t] = "dropped"] /\ UNCHANGED queues_
      BY <1>6, <2>1, <2>2, <2>6, Zenon DEF TimerPosts, post
    <3>2. /\ status' \in [Tasks -> Statuses] /\ status'[t] = "dropped"
          /\ \A u \in Tasks \ {t} : status'[u] = status[u]
      BY <3>1, Zenon DEF PoolInv, StateType, Statuses
    <3>3. \A u \in Tasks : \A x \in {"queued", "running"} : status'[u] = x <=> status[u] = x
      BY <2>1, <3>2, Zenon
    <3>4. StateType'
      BY <1>0, <2>1, <3>1, <3>2, Zenon DEF PoolInv, StateType, Priorities, Workers
    <3>5. /\ Workers' = Workers /\ \A q, i : Slot(q, i)' = Slot(q, i)
          /\ \A q \in Priorities : \A i \in 1..Len(queues_[q]) : Slot(q, i) \in Tasks
      BY <1>0, <3>1 DEF Workers, Slot, PoolInv, StateType
    <3>6. QueueInv'
      BY <1>0, <3>1, <3>3, <3>5 DEF PoolInv, QueueInv
    <3>7. RunInv'
      BY <1>0, <3>3, <3>5 DEF PoolInv, RunInv
    <3>8. TimerInv'
      BY <2>3, <2>4, <3>2, Zenon DEF TimerInv
    <3> QED
      BY <1>1, <3>4, <3>6, <3>7, <3>8, Zenon DEF PoolInv
  <2> QED
    BY <2>5, <2>6, Zenon
<1> QED
  BY <1>3, <1>4, <1>5, <1>6, Zenon DEF TimerStep

\* The calls that hand tasks over.
LEMMA CallKeeps ==
  ASSUME PoolInv, NEW t \in Tasks, CallStep(t)
  PROVE  PoolInv'
<1>1. UNCHANGED <<use, stopping_, stopper>> /\ Priorities' = Priorities /\ Workers' = Workers
  BY Zenon DEF CallStep, Post, post_at, NotifyWork, NotifyTimer, cancel, Priorities, Workers
<1>2. ASSUME FreeChange, UNCHANGED <<queues_, worker>>,
             timer'.at = timer.at, timer.at = "post" => timer'.task = timer.task
      PROVE  PoolInv'
  <2>1. StateType' /\ QueueInv' /\ RunInv' /\ TimerInv'
    BY <1>1, <1>2, FreeKeeps, Zenon DEF PoolInv, StateType
  <2>2. ExitInv'
    BY <1>1, <1>2, ExitKeeps, Zenon DEF PoolInv, ExitInv
  <2> QED
    BY <2>1, <2>2, Zenon DEF PoolInv
<1>3. ASSUME NEW p \in Priorities, Post(t, p) PROVE PoolInv'
  <2>1. status[t] = "new" /\ UNCHANGED <<entry, worker, timer>>
    BY <1>3, Zenon DEF Post
  <2>2. CASE Accepts(p)
    <3>1. /\ queues_' = [queues_ EXCEPT ![p] = Append(@, t)]
          /\ status' = [status EXCEPT ![t] = "queued"] /\ ~stopping_
      BY <1>3, <2>2, Zenon DEF Post, post, Accepts
    <3>2. StateType' /\ QueueInv' /\ RunInv'
      BY <1>1, <2>1, <2>2, <3>1, AcceptKeeps, Zenon
    <3>3. TimerInv'
      BY <2>1, <3>1, Zenon DEF PoolInv, StateType, TimerInv
    <3>4. ExitInv'
      BY <1>1, <2>1, <3>1, ExitKeeps, Zenon DEF PoolInv, ExitInv
    <3> QED
      BY <3>2, <3>3, <3>4, Zenon DEF PoolInv
  <2>3. CASE ~Accepts(p)
    <3>1. status' = [status EXCEPT ![t] = "refused"] /\ UNCHANGED queues_
      BY <1>3, <2>3, Zenon DEF Post, post
    <3>2. FreeChange
      <4>1. /\ status' \in [Tasks -> Statuses] /\ status'[t] = "refused"
            /\ \A u \in Tasks \ {t} : status'[u] = status[u]
        BY <3>1, Zenon DEF PoolInv, StateType, Statuses
      <4> QED
        BY <2>1, <3>1, <4>1, Zenon DEF FreeChange, Free, PoolInv, StateType
    <3> QED
      BY <1>2, <2>1, <3>1, <3>2, Zenon
  <2> QED
    BY <2>2, <2>3, Zenon
<1>4. ASSUME NEW when \in Delays, NEW p \in Priorities, post_at(t, when, p) PROVE PoolInv'
  <2>1. /\ status[t] = "new" /\ UNCHANGED <<queues_, worker, timer>>
        /\ status' = [status EXCEPT ![t] = "scheduled"]
        /\ entry' = [entry EXCEPT ![t] = [when |-> when, priority |-> p]]
    BY <1>4, Zenon DEF post_at
  <2>2. when \in Int /\ p \in Int
    BY ExecutorAssumption DEF Delays, Priorities, PoolInv, StateType
  <2>3. FreeChange
    <3>1. /\ status' \in [Tasks -> Statuses] /\ status'[t] = "scheduled"
          /\ \A u \in Tasks \ {t} : status'[u] = status[u]
      BY <2>1, Zenon DEF PoolInv, StateType, Statuses
    <3>2. /\ entry' \in [Tasks -> [when : Int, priority : Int]] /\ entry'[t].priority = p
          /\ \A u \in Tasks \ {t} : entry'[u] = entry[u]
      BY <2>1, <2>2, Zenon DEF PoolInv, StateType
    <3> QED
      BY <2>1, <3>1, <3>2, Zenon DEF FreeChange, Free, PoolInv, StateType
  <2> QED
    BY <1>2, <2>1, <2>3, Zenon
<1>5. CASE NotifyWork(t)
  <2>1. UNCHANGED <<queues_, status, entry, timer>>
    BY <1>5, Zenon DEF NotifyWork
  <2>2. /\ worker' \in [Workers -> [at : {"check", "waiting", "running", "exited"},
                                    task : Tasks \cup {NoTask}]]
        /\ \A w \in Workers : worker'[w] = worker[w] \/
             (worker[w].at = "waiting" /\ worker'[w].at = "check")
    <3>1. worker \in [Workers -> [at : {"check", "waiting", "running", "exited"},
                                  task : Tasks \cup {NoTask}]]
      BY Zenon DEF PoolInv, StateType
    <3>2. CASE worker' = worker
      BY <3>1, <3>2, Zenon
    <3>3. ASSUME NEW v \in Workers, worker[v].at = "waiting",
                 worker' = [worker EXCEPT ![v].at = "check"]
          PROVE  /\ worker' \in [Workers -> [at : {"check", "waiting", "running", "exited"},
                                           task : Tasks \cup {NoTask}]]
                 /\ \A w \in Workers : worker'[w] = worker[w] \/
                      (worker[w].at = "waiting" /\ worker'[w].at = "check")
      BY <3>1, <3>3, Zenon
    <3> QED
      BY <1>5, <3>2, <3>3, Zenon DEF NotifyWork
  <2>3. StateType'
    BY <1>1, <2>1, <2>2, Zenon DEF PoolInv, StateType
  <2>4. QueueInv'
    BY <1>1, <2>1 DEF PoolInv, QueueInv, Slot
  <2>7. TimerInv'
    BY <1>1, <2>1, Zenon DEF PoolInv, TimerInv
  <2>5. RunInv'
    BY <1>1, <2>1, <2>2 DEF PoolInv, RunInv
  <2>6. ExitInv'
    BY <1>1, <2>1, <2>2, ExitKeeps, Zenon DEF PoolInv, ExitInv
  <2> QED
    BY <2>3, <2>4, <2>5, <2>6, <2>7, Zenon DEF PoolInv
<1>6. CASE NotifyTimer(t)
  <2>1. UNCHANGED <<queues_, worker, status, entry>>
    BY <1>6, Zenon DEF NotifyTimer
  <2>2. FreeChange
    BY <1>1, <2>1, Zenon DEF FreeChange, PoolInv, StateType
  <2>3. timer'.at = timer.at /\ (timer.at = "post" => timer'.task = timer.task)
    BY <1>6 DEF NotifyTimer
  <2> QED
    BY <1>2, <2>1, <2>2, <2>3, Zenon
<1>7. CASE cancel(t)
  <2>1. UNCHANGED <<queues_, worker, status, entry, timer>>
    BY <1>7, Zenon DEF cancel
  <2>2. FreeChange
    BY <1>1, <2>1, Zenon DEF FreeChange, PoolInv, StateType
  <2> QED
    BY <1>2, <2>1, <2>2, Zenon
<1> QED
  BY <1>3, <1>4, <1>5, <1>6, <1>7, Zenon DEF CallStep

\* The steps of a worker.
LEMMA WorkerKeeps ==
  ASSUME PoolInv, NEW w \in Workers, WorkerStep(w)
  PROVE  PoolInv'
<1>1. CASE TaskReturns(w)
  BY <1>1, ReturnKeeps, Zenon
<1>2. CASE WorkerCheck(w)
  <2>1. /\ UNCHANGED <<use, stopping_, entry, timer, stopper>> /\ worker[w].at = "check"
        /\ Priorities' = Priorities /\ Workers' = Workers
    BY <1>2, Zenon DEF WorkerCheck, Priorities, Workers
  <2>2. ASSUME NEW at \in {"exited", "waiting"}, worker' = [worker EXCEPT ![w].at = at],
               UNCHANGED <<queues_, status>>
        PROVE  StateType' /\ QueueInv' /\ RunInv' /\ TimerInv'
    <3>1. /\ worker' \in [Workers -> [at : {"check", "waiting", "running", "exited"},
                                      task : Tasks \cup {NoTask}]]
          /\ worker'[w].at = at /\ \A v \in Workers \ {w} : worker'[v] = worker[v]
      BY <2>2, Zenon DEF PoolInv, StateType
    <3>2. StateType'
      BY <2>1, <2>2, <3>1, Zenon DEF PoolInv, StateType
    <3>3. QueueInv' /\ TimerInv'
      BY <2>1, <2>2 DEF PoolInv, QueueInv, TimerInv, Slot
    <3>4. RunInv'
      BY <2>1, <2>2, <3>1 DEF PoolInv, RunInv
    <3> QED
      BY <3>2, <3>3, <3>4, Zenon
  <2>3. CASE /\ WorkerExits /\ worker' = [worker EXCEPT ![w].at = "exited"]
             /\ UNCHANGED <<queues_, status>>
    <3>1. stopping_ /\ \A p \in Priorities : queues_[p] = <<>>
      BY <2>3, Zenon DEF WorkerExits, has_any_task
    <3>2. \A v \in Workers : worker[v].at = "exited" => worker'[v].at = "exited"
      BY <2>3, Zenon DEF PoolInv, StateType
    <3>3. ExitInv'
      BY <2>1, <2>3, <3>1, <3>2, Zenon DEF PoolInv, ExitInv
    <3> QED
      BY <2>2, <2>3, <3>3, Zenon DEF PoolInv
  <2>4. CASE /\ ~stopping_ /\ worker' = [worker EXCEPT ![w].at = "waiting"]
             /\ UNCHANGED <<queues_, status>>
    <3>1. \A v \in Workers : worker'[v].at = "exited" <=> worker[v].at = "exited"
      BY <2>1, <2>4, Zenon DEF PoolInv, StateType
    <3>2. ExitInv'
      BY <2>1, <2>4, <3>1, ExitKeeps, Zenon DEF PoolInv, ExitInv
    <3> QED
      BY <2>2, <2>4, <3>2, Zenon DEF PoolInv
  <2>5. ASSUME NEW p \in Priorities, Highest(p),
               worker' = [worker EXCEPT ![w] = [at |-> "running", task |-> Head(queues_[p])]],
               status' = [status EXCEPT ![Head(queues_[p])] = "running"],
               queues_' = Dequeued(p)
        PROVE  PoolInv'
    <3>1. StateType' /\ QueueInv' /\ RunInv' /\ TimerInv'
      BY <2>1, <2>5, TakeKeeps, Zenon DEF Highest
    <3>2. \A v \in Workers : worker'[v].at = "exited" <=> worker[v].at = "exited"
      BY <2>1, <2>5, Zenon DEF PoolInv, StateType
    <3>3. \A q \in Priorities : queues_[q] = <<>> => queues_'[q] = <<>>
      BY <2>5, Zenon DEF Highest, Dequeued, PoolInv, StateType
    <3>4. ExitInv'
      BY <2>1, <3>2, <3>3, ExitKeeps, Zenon DEF PoolInv, ExitInv
    <3> QED
      BY <3>1, <3>4, Zenon DEF PoolInv
  <2> QED
    BY <1>2, <2>3, <2>4, <2>5, Zenon DEF WorkerCheck
<1> QED
  BY <1>1, <1>2, Zenon DEF WorkerStep

\* The steps of a stopping call.
LEMMA StopKeeps ==
  ASSUME PoolInv, NEW s \in Stoppers,
         StopStep(s) \/ \E kind \in StopKinds : BeginStop(s, kind)
  PROVE  PoolInv'
<1>1. UNCHANGED <<use, entry>> /\ Priorities' = Priorities /\ Workers' = Workers
  BY Zenon DEF StopStep, NotifyAllWork, ClearTimers, NotifyAllTimer, JoinThreads, BeginStop,
         Priorities, Workers
<1>2. stopper' \in [Stoppers -> [at : StopPlaces, kind : StopKinds \cup {"none"}]]
  <2>1. stopper \in [Stoppers -> [at : StopPlaces, kind : StopKinds \cup {"none"}]]
    BY Zenon DEF PoolInv, StateType
  <2>2. ASSUME NEW at \in StopPlaces, At(s, at)
        PROVE  stopper' \in [Stoppers -> [at : StopPlaces, kind : StopKinds \cup {"none"}]]
    BY <2>1, <2>2, Zenon DEF At
  <2>3. ASSUME NEW kind \in StopKinds, BeginStop(s, kind)
        PROVE  stopper' \in [Stoppers -> [at : StopPlaces, kind : StopKinds \cup {"none"}]]
    BY <2>1, <2>3 DEF BeginStop, StopPlaces
  <2> QED
    BY <2>2, <2>3, Zenon DEF StopStep, NotifyAllWork, ClearTimers, NotifyAllTimer,
       JoinThreads,
                      StopPlaces
<1>3. ASSUME ~JoinThreads(s), NEW r \in Stoppers, stopper'[r].at = "returned"
      PROVE  stopper[r].at = "returned"
  BY <1>3 DEF StopStep, NotifyAllWork, ClearTimers, NotifyAllTimer, BeginStop, At,
              PoolInv, StateType
<1>4. CASE NotifyAllWork(s)
  <2>1. UNCHANGED <<queues_, stopping_, status, timer>>
    BY <1>4, Zenon DEF NotifyAllWork
  <2>2. /\ worker' \in [Workers -> [at : {"check", "waiting", "running", "exited"},
                                    task : Tasks \cup {NoTask}]]
        /\ \A w \in Workers : worker'[w] = worker[w] \/
             (worker[w].at = "waiting" /\ worker'[w].at = "check")
    <3>1. worker \in [Workers -> [at : {"check", "waiting", "running", "exited"},
                                  task : Tasks \cup {NoTask}]]
      BY Zenon DEF PoolInv, StateType
    <3> QED
      BY <1>4, <3>1 DEF NotifyAllWork
  <2>3. StateType'
    BY <1>1, <1>2, <2>1, <2>2, Zenon DEF PoolInv, StateType
  <2>4. QueueInv' /\ TimerInv'
    BY <1>1, <2>1 DEF PoolInv, QueueInv, TimerInv, Slot
  <2>5. RunInv'
    BY <1>1, <2>1, <2>2 DEF PoolInv, RunInv
  <2>6. ~JoinThreads(s)
    BY <1>4, Zenon DEF NotifyAllWork, JoinThreads
  <2>7. ExitInv'
    BY <1>1, <1>3, <2>1, <2>2, <2>6, ExitKeeps, Zenon DEF PoolInv, ExitInv
  <2> QED
    BY <2>3, <2>4, <2>5, <2>7, Zenon DEF PoolInv
<1>5. ASSUME FreeChange, UNCHANGED <<queues_, worker, stopping_>>, ~JoinThreads(s),
             timer'.at = timer.at, timer.at = "post" => timer'.task = timer.task
      PROVE  PoolInv'
  <2>1. StateType' /\ QueueInv' /\ RunInv' /\ TimerInv'
    BY <1>1, <1>2, <1>5, FreeKeeps, Zenon
  <2>2. ExitInv'
    BY <1>1, <1>3, <1>5, ExitKeeps, Zenon DEF PoolInv, ExitInv
  <2> QED
    BY <2>1, <2>2, Zenon DEF PoolInv
<1>6. CASE ClearTimers(s)
  <2>1. FreeChange
    BY <1>1, <1>6, Zenon DEF ClearTimers, timers_, FreeChange, Free, PoolInv, StateType,
       Statuses
  <2>2. ~JoinThreads(s)
    BY <1>6, Zenon DEF ClearTimers, JoinThreads
  <2> QED
    BY <1>5, <1>6, <2>1, <2>2, Zenon DEF ClearTimers
<1>7. CASE NotifyAllTimer(s)
  <2>1. FreeChange
    BY <1>1, <1>7, Zenon DEF NotifyAllTimer, FreeChange, PoolInv, StateType
  <2>2. ~JoinThreads(s)
    BY <1>7, Zenon DEF NotifyAllTimer, JoinThreads
  <2>3. timer'.at = timer.at /\ (timer.at = "post" => timer'.task = timer.task)
    BY <1>7 DEF NotifyAllTimer
  <2> QED
    BY <1>5, <1>7, <2>1, <2>2, <2>3, Zenon DEF NotifyAllTimer
<1>8. CASE JoinThreads(s)
  <2>1. FreeChange
    BY <1>1, <1>8, Zenon DEF JoinThreads, FreeChange, PoolInv, StateType
  <2>2. StateType' /\ QueueInv' /\ RunInv' /\ TimerInv'
    BY <1>1, <1>2, <1>8, <2>1, FreeKeeps, Zenon DEF JoinThreads
  <2>3. ExitInv'
    BY <1>1, <1>8, Zenon DEF JoinThreads, Joined, PoolInv, ExitInv
  <2> QED
    BY <2>2, <2>3, Zenon DEF PoolInv
<1>9. ASSUME NEW kind \in StopKinds, BeginStop(s, kind) PROVE PoolInv'
  <2>1. ~JoinThreads(s) /\ UNCHANGED <<worker, timer>>
    <3>1. stopper[s] = Quiet /\ UNCHANGED <<worker, timer>>
      BY <1>9, Zenon DEF BeginStop
    <3>2. stopper[s].at # "join"
      BY <3>1 DEF Quiet
    <3> QED
      BY <3>1, <3>2, Zenon DEF JoinThreads
  <2>2. stopping_' \in BOOLEAN /\ (stopping_ => stopping_')
    BY <1>9, Zenon DEF BeginStop, PoolInv, ExitInv
  <2>3. CASE UNCHANGED <<queues_, status>>
    <3>1. FreeChange
      BY <1>1, <2>3, Zenon DEF FreeChange, PoolInv, StateType
    <3>2. StateType' /\ QueueInv' /\ RunInv' /\ TimerInv'
      BY <1>1, <1>2, <2>1, <2>3, <3>1, FreeKeeps, Zenon
    <3>3. ExitInv'
      BY <1>1, <1>3, <2>1, <2>2, <2>3, ExitKeeps, Zenon
    <3> QED
      BY <3>2, <3>3, Zenon DEF PoolInv
  <2>4. CASE /\ queues_' = [p \in Priorities |-> <<>>]
             /\ status' = [t \in Tasks |-> IF t \in InQueues THEN "dropped" ELSE status[t]]
    <3>1. /\ status' \in [Tasks -> Statuses]
          /\ \A t \in Tasks : status'[t] = IF status[t] = "queued" THEN "dropped" ELSE status[t]
      BY <2>4, Zenon DEF InQueues, PoolInv, StateType, Statuses
    <3>2. queues_' \in [Priorities -> Seq(Tasks)] /\ \A p \in Priorities : Len(queues_'[p]) = 0
      BY <2>4
    <3>3. StateType'
      BY <1>1, <1>2, <2>1, <3>1, <3>2, Zenon DEF PoolInv, StateType
    <3>4. QueueInv'
      BY <1>1, <3>1, <3>2 DEF QueueInv
    <3>5. RunInv'
      BY <1>1, <2>1, <3>1 DEF PoolInv, RunInv
    <3>7. TimerInv'
      BY <1>1, <2>1, <3>1, Zenon DEF PoolInv, TimerInv
    <3>6. ExitInv'
      BY <1>1, <1>3, <2>1, <2>2, <2>4, ExitKeeps, Zenon
    <3> QED
      BY <3>3, <3>4, <3>5, <3>6, <3>7, Zenon DEF PoolInv
  <2> QED
    BY <1>9, <2>3, <2>4, Zenon DEF BeginStop
<1> QED
  BY <1>4, <1>6, <1>7, <1>8, <1>9, Zenon DEF StopStep

\* Every step of the executor keeps the invariant.
LEMMA PoolStep == PoolInv /\ [Next]_vars => PoolInv'
<1> SUFFICES ASSUME PoolInv, [Next]_vars PROVE PoolInv'
  BY Zenon
<1>1. CASE Tick \/ UNCHANGED vars
  <2>1. UNCHANGED <<use, queues_, status, entry, worker, timer, stopping_, stopper>>
    BY <1>1, Zenon DEF Tick, vars
  <2>2. StateType'
    BY <2>1, Zenon DEF PoolInv, StateType, Priorities, Workers
  <2>3. QueueInv'
    BY <2>1 DEF PoolInv, QueueInv, Slot, Priorities
  <2>4. RunInv' /\ TimerInv'
    BY <2>1 DEF PoolInv, RunInv, TimerInv, Workers
  <2>5. ExitInv'
    BY <2>1, ExitKeeps, Zenon DEF PoolInv, ExitInv
  <2> QED
    BY <2>2, <2>3, <2>4, <2>5, Zenon DEF PoolInv
<1> QED
  BY <1>1, CallKeeps, WorkerKeeps, TimerKeeps, StopKeeps, Zenon DEF Next

\* When the call that stops the executor has returned, no task is queued, no
\* task runs and none is on its way from the timers to a queue, and no call to
\* post, due timer or waking worker changes that.
THEOREM StoppedIsQuiet == Spec => []StopIsQuiet
<1>1. PoolInv => StopIsQuiet
  <2> SUFFICES ASSUME PoolInv, \E s \in Stoppers : stopper[s].at = "returned", NEW t \in Tasks
               PROVE  status[t] \notin {"queued", "running", "fired"}
    BY Zenon DEF StopIsQuiet
  <2>1. timer.at = "exited" /\ \A w \in Workers : worker[w].at = "exited"
    BY Zenon DEF PoolInv, ExitInv
  <2>2. Workers # {}
    BY ExecutorAssumption, Zenon DEF PoolInv, StateType, Workers
  <2>3. \A p \in Priorities : queues_[p] = <<>>
    BY <2>1, <2>2, Zenon DEF PoolInv, ExitInv
  <2>4. status[t] # "queued"
    BY <2>3 DEF PoolInv, QueueInv
  <2>5. status[t] # "running"
    BY <2>1, Zenon DEF PoolInv, RunInv
  <2>6. status[t] # "fired"
    BY <2>1, Zenon DEF PoolInv, TimerInv
  <2> QED
    BY <2>4, <2>5, <2>6, Zenon
<1> QED
  BY <1>1, PoolInit, PoolStep, PTL DEF Spec

-----------------------------------------------------------------------------
(* The executor as a work pool.                                            *)

phase == [t \in Tasks |-> Phase(t)]

\* Fewer tasks run than there are workers while a worker looks for a task:
\* every running task has a worker, and this one has none.
LEMMA RoomForOne ==
  ASSUME PoolInv, NEW w \in Workers, worker[w].at # "running"
  PROVE  Cardinality({t \in Tasks : status[t] = "running"}) < Cardinality(Crew)
<1> DEFINE Run == {t \in Tasks : status[t] = "running"}
           Busy == {v \in Workers : worker[v].at = "running"}
           f == [v \in Busy |-> worker[v].task]
<1>1. IsFiniteSet(Crew) /\ Workers \subseteq Crew
  BY ExecutorAssumption DEF Crew, Workers, PoolInv, StateType
<1>2. /\ IsFiniteSet(Crew \ {w})
      /\ Cardinality(Crew \ {w}) = Cardinality(Crew) - 1 /\ Cardinality(Crew) \in Nat
  BY <1>1, FS_RemoveElement, FS_CardinalityType, Zenon
<1>3. Busy \in SUBSET (Crew \ {w})
  BY <1>1, Zenon
<1>4. IsFiniteSet(Busy) /\ Cardinality(Busy) <= Cardinality(Crew \ {w})
  BY <1>2, <1>3, FS_Subset, Zenon
<1>5. f \in Surjection(Busy, Run)
  BY Zenon DEF PoolInv, RunInv, Surjection
<1>6. IsFiniteSet(Run) /\ Cardinality(Run) <= Cardinality(Busy)
  BY <1>4, <1>5, FS_Surjection, Zenon
<1>7. Cardinality(Run) \in Nat /\ Cardinality(Busy) \in Nat
  BY <1>4, <1>6, FS_CardinalityType, Zenon
<1> QED
  BY <1>2, <1>4, <1>6, <1>7

\* drain_mode_ is set together with stopping_, and neither is ever cleared.
DrainInv == drain_mode_ => stopping_

LEMMA DrainStep == DrainInv /\ [Next]_vars => DrainInv'
<1> SUFFICES ASSUME DrainInv, [Next]_vars PROVE DrainInv'
  OBVIOUS
<1>1. ASSUME UNCHANGED <<stopping_, drain_mode_>> PROVE DrainInv'
  BY <1>1, Zenon DEF DrainInv
<1>2. ASSUME NEW t \in Tasks, CallStep(t) PROVE DrainInv'
  BY <1>1, <1>2, Zenon DEF CallStep, Post, post_at, NotifyWork, NotifyTimer, cancel
<1>3. ASSUME NEW w \in Workers, WorkerStep(w) PROVE DrainInv'
  BY <1>1, <1>3, Zenon DEF WorkerStep, WorkerCheck, TaskReturns
<1>4. CASE TimerStep
  BY <1>1, <1>4, Zenon DEF TimerStep, TimerTop, TimerSleepsOn, TimerWakes, TimerPosts
<1>5. ASSUME NEW s \in Stoppers, StopStep(s) PROVE DrainInv'
  BY <1>1, <1>5, Zenon
  DEF StopStep, NotifyAllWork, ClearTimers, NotifyAllTimer, JoinThreads
<1>6. ASSUME NEW s \in Stoppers, NEW kind \in StopKinds, BeginStop(s, kind)
      PROVE  DrainInv'
  BY <1>6, Zenon DEF BeginStop, DrainInv
<1>7. CASE Tick \/ UNCHANGED vars
  BY <1>1, <1>7, Zenon DEF Tick, vars
<1> QED
  BY <1>2, <1>3, <1>4, <1>5, <1>6, <1>7, Zenon DEF Next

\* A step in which tasks move only from timed to never is a lapse or a stutter.
LEMMA LapseStep ==
  ASSUME PoolInv, status' \in [Tasks -> Statuses], UNCHANGED <<stopping_, drain_mode_>>,
         \A t \in Tasks : \/ status'[t] = status[t]
                          \/ /\ status[t] \in {"scheduled", "fired"}
                             /\ status'[t] \in {"scheduled", "fired", "dropped"}
  PROVE  Pool!Lapse
<1>1. \A t \in Tasks : Phase(t)' # Phase(t) => Phase(t) = "timed" /\ Phase(t)' = "never"
  BY Zenon DEF Phase, PoolInv, StateType, Statuses
<1>2. PICK ts \in SUBSET Tasks : ts = {t \in Tasks : phase'[t] # phase[t]}
  BY Zenon
<1>3. \A t \in ts : phase[t] = "timed"
  BY <1>1, <1>2, Zenon DEF phase
<1>4. phase' = [t \in Tasks |-> IF t \in ts THEN "never" ELSE phase[t]]
  BY <1>1, <1>2, Zenon DEF phase
<1>5. UNCHANGED Mode
  BY Zenon DEF Mode
<1> QED
  BY <1>2, <1>3, <1>4, <1>5, Zenon DEF Pool!Lapse, Pool!GiveUp, phase

\* A step that changes the status of one task moves that task in the pool.
LEMMA MoveStep ==
  ASSUME PoolInv, NEW t \in Tasks, NEW x \in Statuses, status' = [status EXCEPT ![t] = x],
         UNCHANGED <<stopping_, drain_mode_>>,
         NEW from, NEW to, Phase(t) = from, Phase(t)' = to
  PROVE  Pool!Move(t, from, to)
<1>1. \A u \in Tasks \ {t} : Phase(u)' = Phase(u)
  BY Zenon DEF Phase, PoolInv, StateType
<1>2. phase' = [phase EXCEPT ![t] = to]
  BY <1>1, Zenon DEF phase
<1>3. UNCHANGED Mode
  BY Zenon DEF Mode
<1> QED
  BY <1>2, <1>3, Zenon DEF Pool!Move, phase

\* The executor is a work pool: whatever queues, timers, notifications and
\* stopping calls do, a task is taken or refused once and runs at most once,
\* no more tasks run than there are workers, a queued task is lost only to
\* cancel_and_stop, and nothing is queued once a stop has begun.
THEOREM ExecutorIsWorkPool == Spec => ImplementsWorkPool
<1>1. Init => Pool!Init
  BY Zenon DEF Init, Pool!Init, Phase, Mode
<1>2. ASSUME PoolInv, DrainInv, [Next]_vars PROVE [Pool!Next]_<<phase, Mode>>
  <2>1. ASSUME UNCHANGED <<status, stopping_, drain_mode_>> PROVE UNCHANGED <<phase, Mode>>
    BY <2>1, Zenon DEF phase, Phase, Mode
  <2>2. PoolInv'
    BY <1>2, PoolStep, Zenon
  <2>3. status \in [Tasks -> Statuses] /\ status' \in [Tasks -> Statuses]
    BY <1>2, <2>2, Zenon DEF PoolInv, StateType
  <2>4. ASSUME Pool!Next PROVE [Pool!Next]_<<phase, Mode>>
    BY <2>4, Zenon
  <2>5. ASSUME NEW t \in Tasks, CallStep(t) PROVE [Pool!Next]_<<phase, Mode>>
    <3>0. UNCHANGED <<stopping_, drain_mode_>>
      BY <2>5, Zenon DEF CallStep, Post, post_at, NotifyWork, NotifyTimer, cancel
    <3>1. UNCHANGED status \/ (/\ status[t] = "new"
                              /\ \E x \in {"queued", "refused", "scheduled"} :
                                   /\ status' = [status EXCEPT ![t] = x]
                                   /\ x = "queued" => ~stopping_)
      BY <2>5, Zenon DEF CallStep, Post, post, post_at, NotifyWork, NotifyTimer, cancel,
                         Accepts
    <3>2. CASE UNCHANGED status
      BY <2>1, <3>0, <3>2, Zenon
    <3>3. ASSUME status[t] = "new", NEW x \in {"queued", "refused", "scheduled"},
                 status' = [status EXCEPT ![t] = x], x = "queued" => ~stopping_
          PROVE  Pool!Next
      <4>1. status'[t] = x /\ x \in Statuses
        BY <2>3, <3>3, Zenon DEF Statuses
      <4>2. Phase(t) = "new"
        BY <3>3, Zenon DEF Phase
      <4>3. CASE x = "refused"
        <5>1. Phase(t)' = "never"
          BY <4>1, <4>3, Zenon DEF Phase
        <5> QED
          BY <1>2, <3>0, <3>3, <4>1, <4>2, <5>1, MoveStep, Zenon
          DEF Pool!Next, Pool!Refuse
      <4>4. CASE x = "scheduled"
        <5>1. Phase(t)' = "timed"
          BY <4>1, <4>4, Zenon DEF Phase
        <5> QED
          BY <1>2, <3>0, <3>3, <4>1, <4>2, <5>1, MoveStep, Zenon
          DEF Pool!Next, Pool!Schedule
      <4>5. CASE x = "queued"
        <5>1. Phase(t)' = "pending"
          BY <4>1, <4>5, Zenon DEF Phase
        <5>2. Mode = "open"
          BY <3>3, <4>5, Zenon DEF Mode
        <5> QED
          BY <1>2, <3>0, <3>3, <4>1, <4>2, <5>1, <5>2, MoveStep, Zenon
          DEF Pool!Next, Pool!Accept
      <4> QED
        BY <3>3, <4>3, <4>4, <4>5, Zenon
    <3> QED
      BY <2>4, <3>1, <3>2, <3>3, Zenon
  <2>6. ASSUME NEW w \in Workers, WorkerStep(w) PROVE [Pool!Next]_<<phase, Mode>>
    <3>0. UNCHANGED <<stopping_, drain_mode_>>
      BY <2>6, Zenon DEF WorkerStep, WorkerCheck, TaskReturns
    <3>1. CASE TaskReturns(w)
      <4>1. PICK t \in Tasks : t = worker[w].task /\ status[t] = "running"
        BY <1>2, <3>1, ReturnKeeps, Zenon
      <4>2. status' = [status EXCEPT ![t] = "done"] /\ "done" \in Statuses
        BY <3>1, <4>1, Zenon DEF TaskReturns, Statuses
      <4>3. Phase(t) = "running" /\ Phase(t)' = "done"
        BY <2>3, <4>1, <4>2, Zenon DEF Phase
      <4>4. Pool!Finish(t)
        BY <1>2, <3>0, <4>2, <4>3, MoveStep, Zenon DEF Pool!Finish
      <4> QED
        BY <2>4, <4>4, Zenon DEF Pool!Next
    <3>2. CASE WorkerCheck(w) /\ UNCHANGED status
      BY <2>1, <3>0, <3>2, Zenon
    <3>3. CASE WorkerCheck(w) /\ ~UNCHANGED status
      <4>1. PICK p \in Priorities :
              /\ Highest(p)
              /\ worker' = [worker EXCEPT ![w] = [at |-> "running", task |-> Head(queues_[p])]]
              /\ status' = [status EXCEPT ![Head(queues_[p])] = "running"]
              /\ queues_' = Dequeued(p)
        BY <3>3, Zenon DEF WorkerCheck
      <4>2. worker[w].at = "check" /\ UNCHANGED <<use, entry, stopper, timer>>
        BY <3>3, Zenon DEF WorkerCheck
      <4>3. PICK t \in Tasks : t = Head(queues_[p]) /\ status[t] = "queued"
        BY <1>2, <4>1, <4>2, TakeKeeps, Zenon DEF Highest
      <4>4. status' = [status EXCEPT ![t] = "running"] /\ "running" \in Statuses
        BY <4>1, <4>3, Zenon DEF Statuses
      <4>5. Phase(t) = "pending" /\ Phase(t)' = "running"
        BY <2>3, <4>3, <4>4, Zenon DEF Phase
      <4>6. Pool!Move(t, "pending", "running")
        BY <1>2, <3>0, <4>4, <4>5, MoveStep, Zenon
      <4>7. Pool!Running = {u \in Tasks : status[u] = "running"}
        BY <2>3, Zenon DEF Pool!Running, Phase, Statuses
      <4>8. Cardinality(Pool!Running) < Cardinality(Crew)
        BY <1>2, <4>2, <4>7, RoomForOne, Zenon
      <4>9. Pool!Cardinality(Pool!Running) = Cardinality(Pool!Running)
        BY Zenon DEF Pool!Cardinality, Cardinality
      <4>10. Pool!Start(t)
        BY <4>6, <4>8, <4>9, Zenon DEF Pool!Start
      <4> QED
        BY <2>4, <4>10, Zenon DEF Pool!Next
    <3> QED
      BY <2>6, <3>1, <3>2, <3>3, Zenon DEF WorkerStep
  <2>7. CASE TimerStep
    <3>0. UNCHANGED <<stopping_, drain_mode_>>
      BY <2>7, Zenon DEF TimerStep, TimerTop, TimerSleepsOn, TimerWakes, TimerPosts
    <3>1. ASSUME \A u \in Tasks : \/ status'[u] = status[u]
                                  \/ /\ status[u] \in {"scheduled", "fired"}
                                     /\ status'[u] \in {"scheduled", "fired", "dropped"}
          PROVE  [Pool!Next]_<<phase, Mode>>
      <4>1. Pool!Lapse
        BY <1>2, <2>3, <3>0, <3>1, LapseStep, Zenon
      <4> QED
        BY <2>4, <4>1, Zenon DEF Pool!Next
    <3>2. CASE TimerTop \/ TimerSleepsOn
      BY <1>2, <3>1, <3>2, PurgeDrops, Zenon DEF TimerTop, TimerSleepsOn
    <3>3. CASE TimerWakes
      <4>1. CASE status' \in {status, DropPurged}
        BY <1>2, <3>1, <4>1, PurgeDrops, Zenon
      <4>2. ASSUME NEW t \in Earliest(Purged), status' = [DropPurged EXCEPT ![t] = "fired"]
            PROVE  [Pool!Next]_<<phase, Mode>>
        <5>1. t \in Tasks /\ status[t] = "scheduled"
          BY Zenon DEF Earliest, Purged, timers_
        <5> QED
          BY <1>2, <3>1, <4>2, <5>1, PurgeDrops, Zenon
      <4> QED
        BY <3>3, <4>1, <4>2, Zenon DEF TimerWakes
    <3>4. CASE TimerPosts
      <4>1. timer.task \in Tasks /\ status[timer.task] = "fired"
        BY <1>2, <3>4, Zenon DEF TimerPosts, PoolInv, TimerInv
      <4>2. CASE status' = [status EXCEPT ![timer.task] = "dropped"]
        BY <2>3, <3>1, <4>1, <4>2, Zenon
      <4>3. CASE status' = [status EXCEPT ![timer.task] = "queued"] /\ ~stopping_
        <5>1. Phase(timer.task) = "timed" /\ Mode = "open" /\ "queued" \in Statuses
          BY <4>1, <4>3, Zenon DEF Phase, Mode, Statuses
        <5>2. status'[timer.task] = "queued"
          BY <2>3, <4>1, <4>3, Zenon
        <5>3. ASSUME NEW t \in Tasks, t = timer.task PROVE Pool!Accept(t)
          <6>1. Phase(t)' = "pending"
            BY <5>2, <5>3, Zenon DEF Phase
          <6> QED
            BY <1>2, <3>0, <4>3, <5>1, <5>3, <6>1, MoveStep, Zenon DEF Pool!Accept
        <5> QED
          BY <2>4, <4>1, <5>3, Zenon DEF Pool!Next
      <4> QED
        BY <3>4, <4>2, <4>3, Zenon DEF TimerPosts, post, Accepts
    <3> QED
      BY <2>7, <3>2, <3>3, <3>4, Zenon DEF TimerStep
  <2>8. ASSUME NEW s \in Stoppers, StopStep(s) PROVE [Pool!Next]_<<phase, Mode>>
    <3>1. UNCHANGED <<stopping_, drain_mode_>>
      BY <2>8, Zenon DEF StopStep, NotifyAllWork, ClearTimers, NotifyAllTimer, JoinThreads
    <3>2. \A u \in Tasks : \/ status'[u] = status[u]
                           \/ /\ status[u] \in {"scheduled", "fired"}
                              /\ status'[u] \in {"scheduled", "fired", "dropped"}
      BY <2>3, <2>8, Zenon DEF StopStep, NotifyAllWork, ClearTimers, NotifyAllTimer,
                               JoinThreads, timers_
    <3>3. Pool!Lapse
      BY <1>2, <2>3, <3>1, <3>2, LapseStep, Zenon
    <3> QED
      BY <2>4, <3>3, Zenon DEF Pool!Next
  <2>9. ASSUME NEW s \in Stoppers, NEW kind \in StopKinds, BeginStop(s, kind)
        PROVE  [Pool!Next]_<<phase, Mode>>
    <3>1. CASE stopping_
      BY <2>1, <2>9, <3>1, Zenon DEF BeginStop
    <3>2. CASE ~stopping_ /\ kind = "shutdown"
      <4>1. Mode = "open" /\ Mode' = "draining"
        BY <2>9, <3>2, Zenon DEF BeginStop, Mode
      <4>2. UNCHANGED phase
        BY <2>9, <3>2, Zenon DEF BeginStop, phase, Phase
      <4>3. Pool!Drain
        BY <4>1, <4>2, Zenon DEF Pool!Drain, phase
      <4> QED
        BY <2>4, <4>3, Zenon DEF Pool!Next
    <3>3. CASE ~stopping_ /\ kind # "shutdown"
      <4>0. ~drain_mode_
        BY <1>2, <3>3, Zenon DEF DrainInv
      <4>1. Mode = "open" /\ Mode' = "dropping"
        BY <2>9, <3>3, <4>0, Zenon DEF BeginStop, Mode
      <4>2. status' = [t \in Tasks |-> IF t \in InQueues THEN "dropped" ELSE status[t]]
        BY <2>9, <3>3, Zenon DEF BeginStop
      <4>3. \A t \in Tasks : Phase(t)' = IF Phase(t) = "pending" THEN "never" ELSE Phase(t)
        BY <2>3, <4>2, Zenon DEF Phase, InQueues, Statuses
      <4>4. Pool!GiveUp({t \in Tasks : phase[t] = "pending"}, "pending")
        BY <4>3, Zenon DEF Pool!GiveUp, phase
      <4>5. Pool!DropAll
        BY <4>1, <4>4, Zenon DEF Pool!DropAll, phase
      <4> QED
        BY <2>4, <4>5, Zenon DEF Pool!Next
    <3> QED
      BY <3>1, <3>2, <3>3, Zenon
  <2>10. CASE Tick \/ UNCHANGED vars
    BY <2>1, <2>10, Zenon DEF Tick, vars
  <2> QED
    BY <1>2, <2>5, <2>6, <2>7, <2>8, <2>9, <2>10, Zenon DEF Next
<1>3. PoolInv /\ DrainInv /\ [Next]_vars => [Pool!Next]_(Pool!vars)
  BY <1>2, Zenon DEF phase, Pool!vars
<1>4. Init => DrainInv
  BY Zenon DEF Init, DrainInv
<1> QED
  BY <1>1, <1>3, <1>4, DrainStep, PoolInit, PoolStep, PTL DEF Spec, ImplementsWorkPool, Pool!Spec
=============================================================================
