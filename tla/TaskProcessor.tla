--------------------------- MODULE TaskProcessor ---------------------------
(***************************************************************************)
(* mcp::server::TaskOperationProcessor: background tasks of an MCP server. *)
(* Threads of the application submit operations and call the management    *)
(* methods; the workers of a bounded executor run the operations.  Every   *)
(* critical section of mutex_ is one step.  What the code does between two *)
(* critical sections (fetching the token, queueing, calling the hooks) is  *)
(* a step of its own, so it interleaves with everybody else.               *)
(*                                                                         *)
(* The map tasks_ is a function on the retained task indexes.  make_task_id*)
(* and order_.push_back share a critical section and every erasure removes *)
(* the key from both containers, so order_ is the ascending sequence of    *)
(* the keys of tasks_ and is not a variable of its own.                    *)
(***************************************************************************)
EXTENDS Integers, FiniteSets, Sequences

CONSTANTS
  Submitters,          \* threads calling submit_operation
  Callers,             \* threads calling list, get, cancel, result
  Workers,             \* worker threads of executor_
  QueueSize,           \* options_.queue_size
  MaxCompletedTasks,   \* options_.max_completed_tasks
  CompletedTaskTtl,    \* options_.completed_task_ttl, or NoTtl
  DefaultTimeout,      \* options_.default_timeout
  RequestTtls,         \* the task.ttl values requests carry, NoTtl for none
  MaxTaskIndex,        \* bound: tasks created in a behaviour
  MaxTime,             \* bound: ticks of the steady clock
  NoTtl

TaskIds == 1..MaxTaskIndex
Threads == Submitters \cup Callers \cup Workers

ASSUME TaskProcessorAssumption ==
  /\ Submitters \cap Callers = {}
  /\ Submitters \cap Workers = {}
  /\ Callers \cap Workers = {}
  /\ QueueSize \in Nat
  /\ MaxCompletedTasks \in Nat
  /\ NoTtl \notin Nat
  /\ CompletedTaskTtl \in Nat \cup {NoTtl}
  /\ DefaultTimeout \in Nat
  /\ RequestTtls \subseteq Nat \cup {NoTtl}
  /\ MaxTaskIndex \in Nat
  /\ MaxTime \in Nat

VARIABLES
  tasks_,            \* retained records, by task index
  next_task_index_,
  now,               \* steady_clock::now()
  token,             \* CancellationState::cancelled of each task's source
  queue,             \* operations waiting in executor_
  worker,            \* what each worker thread runs
  stopping,          \* executor_ has been told to stop
  submit,            \* where each submitter is in submit_operation
  outbox,            \* updates a thread has collected and not yet emitted
  hookLog,           \* statuses task_status_hook was called with, per task
  reply              \* status in the snapshot a cancel_task call returned

vars == <<tasks_, next_task_index_, now, token, queue, worker, stopping,
          submit, outbox, hookLog, reply>>

TerminalStatuses == {"completed", "failed", "cancelled"}
Statuses == {"working"} \cup TerminalStatuses
Failures == {"none", "error", "timed_out", "cancelled"}
Updates == [id : TaskIds, status : Statuses]
Operations == [id : TaskIds, attached : BOOLEAN]

NotTerminal == -1
TaskRecord ==
  [status : Statuses, started_at : Nat, timeout : Nat,
   terminal_at : Nat \cup {NotTerminal}, result : BOOLEAN, failure : Failures]

Idle == [at |-> "idle"]

\* One type invariant for the module.
TypeOK ==
  /\ DOMAIN tasks_ \subseteq 1..(next_task_index_ - 1)
  /\ tasks_ \in [DOMAIN tasks_ -> TaskRecord]
  /\ next_task_index_ \in 1..(MaxTaskIndex + 1)
  /\ now \in 0..MaxTime
  /\ token \in [TaskIds -> BOOLEAN]
  /\ queue \in Seq(Operations)
  /\ worker \in [Workers -> {Idle} \cup [at : {"running"}, op : Operations]]
  /\ stopping \in BOOLEAN
  /\ submit \in [Submitters ->
       {Idle} \cup [at : {"inserted", "rejected"}, id : TaskIds]
              \cup [at : {"fetched"}, id : TaskIds, attached : BOOLEAN]]
  /\ outbox \in [Threads -> SUBSET Updates]
  /\ hookLog \in [TaskIds -> Seq(Statuses)]
  /\ reply \in [Callers -> {"none", "not_found"} \cup Statuses]

Init ==
  /\ tasks_ = [id \in {} |-> {}]
  /\ next_task_index_ = 1
  /\ now = 0
  /\ token = [id \in TaskIds |-> FALSE]
  /\ queue = <<>>
  /\ worker = [w \in Workers |-> Idle]
  /\ stopping = FALSE
  /\ submit = [s \in Submitters |-> Idle]
  /\ outbox = [t \in Threads |-> {}]
  /\ hookLog = [id \in TaskIds |-> <<>>]
  /\ reply = [c \in Callers |-> "none"]

-----------------------------------------------------------------------------
(* The helpers that run with mutex_ held, as functions of the record map.  *)

is_terminal(status) == status \in TerminalStatuses

\* Variant: retention counts every record, not only the finished ones.
Terminal_Any(recs) == DOMAIN recs

Terminal(recs) == {id \in DOMAIN recs : is_terminal(recs[id].status)}

Keep(recs, ids) == [id \in DOMAIN recs \cap ids |-> recs[id]]

Expired(recs) ==
  IF CompletedTaskTtl = NoTtl THEN {}
  ELSE {id \in Terminal(recs) : now - recs[id].terminal_at >= CompletedTaskTtl}

(* The oldest of ids, until max_completed_tasks of them are left.          *)
Excess(ids) ==
  {id \in ids : Cardinality({other \in ids : other > id}) >= MaxCompletedTasks}

(* trim_completed_locked: drop the expired terminal records, then the      *)
(* excess ones in creation order.                                          *)
trim_completed(recs) ==
  LET fresh == Terminal(recs) \ Expired(recs)
  IN  Keep(recs, DOMAIN recs \ (Expired(recs) \cup Excess(fresh)))

\* Variant: the status is not looked at before a task is timed out.
TimedOut_AnyStatus(recs) ==
  {id \in DOMAIN recs : now - recs[id].started_at >= recs[id].timeout}

TimedOut(recs) ==
  {id \in DOMAIN recs : /\ recs[id].status = "working"
                        /\ now - recs[id].started_at >= recs[id].timeout}

Ended(record, status, result, failure) ==
  [record EXCEPT !.status = status, !.terminal_at = now,
                 !.result = result, !.failure = failure]

(* refresh_locked: fail the tasks whose timeout has passed, then trim.     *)
refresh(recs) ==
  trim_completed(
    [id \in DOMAIN recs |->
       IF id \in TimedOut(recs)
       THEN Ended(recs[id], "failed", FALSE, "timed_out")
       ELSE recs[id]])

\* Variant: a timeout does not cancel the token.
RefreshToken_Unsignalled(recs) == token

RefreshToken(recs) == [id \in TaskIds |-> token[id] \/ id \in TimedOut(recs)]

RefreshUpdates(recs) == {[id |-> id, status |-> "failed"] : id \in TimedOut(recs)}

-----------------------------------------------------------------------------
(* submit_operation, one step per critical section or executor call.       *)

make_task_id == next_task_index_

(* The record is created in the working state under the lock.  A call      *)
(* without an operation or with a negative ttl returns before this.        *)
InsertTask(s, ttl) ==
  /\ submit[s] = Idle
  /\ outbox[s] = {}
  /\ next_task_index_ <= MaxTaskIndex
  /\ LET id == make_task_id
         record == [status |-> "working", started_at |-> now,
                    timeout |-> IF ttl = NoTtl THEN DefaultTimeout ELSE ttl,
                    terminal_at |-> NotTerminal,
                    result |-> FALSE, failure |-> "none"]
     IN  /\ tasks_' = [i \in DOMAIN tasks_ \cup {id} |->
                         IF i = id THEN record ELSE tasks_[i]]
         /\ submit' = [submit EXCEPT ![s] = [at |-> "inserted", id |-> id]]
  /\ next_task_index_' = next_task_index_ + 1
  /\ UNCHANGED <<now, token, queue, worker, stopping, outbox, hookLog, reply>>

(* A second critical section fetches the token; a record that has gone in  *)
(* the meantime leaves the operation with a detached token.                *)
FetchToken(s) ==
  /\ submit[s].at = "inserted"
  /\ submit' = [submit EXCEPT ![s] =
                  [at |-> "fetched", id |-> submit[s].id,
                   attached |-> submit[s].id \in DOMAIN tasks_]]
  /\ UNCHANGED <<tasks_, next_task_index_, now, token, queue, worker, stopping,
                 outbox, hookLog, reply>>

Enqueue(s) ==
  /\ submit[s].at = "fetched"
  /\ ~stopping /\ Len(queue) < QueueSize
  /\ queue' = Append(queue, [id |-> submit[s].id, attached |-> submit[s].attached])
  /\ outbox' = [outbox EXCEPT ![s] = {[id |-> submit[s].id, status |-> "working"]}]
  /\ submit' = [submit EXCEPT ![s] = Idle]
  /\ UNCHANGED <<tasks_, next_task_index_, now, token, worker, stopping, hookLog,
                 reply>>

EnqueueFails(s) ==
  /\ submit[s].at = "fetched"
  /\ stopping \/ Len(queue) >= QueueSize
  /\ submit' = [submit EXCEPT ![s] = [at |-> "rejected", id |-> submit[s].id]]
  /\ UNCHANGED <<tasks_, next_task_index_, now, token, queue, worker, stopping,
                 outbox, hookLog, reply>>

EraseRejected(s) ==
  /\ submit[s].at = "rejected"
  /\ tasks_' = Keep(tasks_, DOMAIN tasks_ \ {submit[s].id})
  /\ submit' = [submit EXCEPT ![s] = Idle]
  /\ UNCHANGED <<next_task_index_, now, token, queue, worker, stopping, outbox,
                 hookLog, reply>>

(* emit_updates: the thread calls the hooks for what it collected, after   *)
(* the lock is released.  tasks_ is iterated in hash order, so the updates *)
(* of one refresh come in any order.                                       *)
EmitUpdate(t) ==
  \E update \in outbox[t] :
    /\ outbox' = [outbox EXCEPT ![t] = @ \ {update}]
    /\ hookLog' = [hookLog EXCEPT ![update.id] = Append(@, update.status)]
    /\ UNCHANGED <<tasks_, next_task_index_, now, token, queue, worker, stopping,
                   submit, reply>>

-----------------------------------------------------------------------------
(* The executor's workers.                                                 *)

\* Variant: a stopping executor starts nothing that is still queued.
StartOperation_NotStopping(w) ==
  /\ ~stopping
  /\ worker[w] = Idle
  /\ outbox[w] = {}
  /\ queue # <<>>
  /\ worker' = [worker EXCEPT ![w] = [at |-> "running", op |-> Head(queue)]]
  /\ queue' = Tail(queue)
  /\ UNCHANGED <<tasks_, next_task_index_, now, token, stopping, submit, outbox,
                 hookLog, reply>>

StartOperation(w) ==
  /\ worker[w] = Idle
  /\ outbox[w] = {}
  /\ queue # <<>>
  /\ worker' = [worker EXCEPT ![w] = [at |-> "running", op |-> Head(queue)]]
  /\ queue' = Tail(queue)
  /\ UNCHANGED <<tasks_, next_task_index_, now, token, stopping, submit, outbox,
                 hookLog, reply>>

\* Variant: a late completion overwrites a cancelled or timed out task.
MayFinish_Late(id) == id \in DOMAIN tasks_

MayFinish(id) == id \in DOMAIN tasks_ /\ tasks_[id].status = "working"

(* finish_task in its critical section: completed with the result, or      *)
(* failed with the error, then trimming; ignored when the task is over.    *)
Finish(w, status) ==
  LET id == worker[w].op.id
  IN  IF MayFinish(id)
      THEN /\ tasks_' = trim_completed(
                [tasks_ EXCEPT ![id] =
                   Ended(@, status, status = "completed",
                         IF status = "completed" THEN "none" ELSE "error")])
           /\ outbox' = [outbox EXCEPT ![w] = {[id |-> id, status |-> status]}]
      ELSE UNCHANGED <<tasks_, outbox>>

(* The operation returns a result, returns an error or throws.             *)
finish_task(w, status) ==
  /\ worker[w].at = "running"
  /\ Finish(w, status)
  /\ worker' = [worker EXCEPT ![w] = Idle]
  /\ UNCHANGED <<next_task_index_, now, token, queue, stopping, submit, hookLog,
                 reply>>

-----------------------------------------------------------------------------
(* The management methods.  Each refreshes first.                          *)

Ready(c) == outbox[c] = {}

(* list_tasks, get_task and task_result only read besides refreshing.      *)
RefreshingCall(c) ==
  /\ Ready(c)
  /\ tasks_' = refresh(tasks_)
  /\ token' = RefreshToken(tasks_)
  /\ outbox' = [outbox EXCEPT ![c] = RefreshUpdates(tasks_)]
  /\ reply' = [reply EXCEPT ![c] = "none"]
  /\ UNCHANGED <<next_task_index_, now, queue, worker, stopping, submit, hookLog>>

(* The record is ended and the terminal records are trimmed again; the     *)
(* snapshot is then copied through the pointer found before the trimming.  *)
(* When the trimming erased that very record the copy reads freed memory:  *)
(* any status.                                                             *)
cancel_task(c, id) ==
  /\ Ready(c)
  /\ LET recs == refresh(tasks_)
         ending == id \in DOMAIN recs /\ recs[id].status = "working"
         after == IF ending
                  THEN trim_completed([recs EXCEPT ![id] =
                         Ended(@, "cancelled", FALSE, "cancelled")])
                  ELSE recs
     IN  /\ tasks_' = after
         /\ token' = [i \in TaskIds |-> \/ RefreshToken(tasks_)[i]
                                        \/ ending /\ i = id]
         /\ outbox' = [outbox EXCEPT ![c] =
              RefreshUpdates(tasks_) \cup
                (IF ending THEN {[id |-> id, status |-> "cancelled"]} ELSE {})]
         /\ \E status \in Statuses \cup {"not_found"} :
              /\ id \notin DOMAIN recs => status = "not_found"
              /\ id \in DOMAIN after => status = after[id].status
              /\ id \in DOMAIN recs => status \in Statuses
              /\ reply' = [reply EXCEPT ![c] = status]
  /\ UNCHANGED <<next_task_index_, now, queue, worker, stopping, submit, hookLog>>

(* What task_result answers: the stored result, else the stored failure    *)
(* (an operation error and a timeout both belong to a failed task), else   *)
(* that there is none yet.  The answer is named by the status it tells.    *)
ResultReply(recs, id) ==
  IF id \notin DOMAIN recs THEN "not_found"
  ELSE IF recs[id].result THEN "completed"
  ELSE [none |-> "working", error |-> "failed", timed_out |-> "failed",
        cancelled |-> "cancelled"][recs[id].failure]

-----------------------------------------------------------------------------
(* stop() tells the executor to stop; its workers drain the queue.         *)
stop ==
  /\ ~stopping
  /\ stopping' = TRUE
  /\ UNCHANGED <<tasks_, next_task_index_, now, token, queue, worker, submit,
                 outbox, hookLog, reply>>

Tick ==
  /\ now < MaxTime
  /\ now' = now + 1
  /\ UNCHANGED <<tasks_, next_task_index_, token, queue, worker, stopping, submit,
                 outbox, hookLog, reply>>

-----------------------------------------------------------------------------
SubmitterStep(s) ==
  \/ \E ttl \in RequestTtls : InsertTask(s, ttl)
  \/ FetchToken(s)
  \/ Enqueue(s)
  \/ EnqueueFails(s)
  \/ EraseRejected(s)

WorkerStep(w) ==
  \/ StartOperation(w)
  \/ \E status \in {"completed", "failed"} : finish_task(w, status)

CallerStep(c) ==
  \/ RefreshingCall(c)
  \/ \E id \in TaskIds : cancel_task(c, id)

Next ==
  \/ \E s \in Submitters : SubmitterStep(s)
  \/ \E w \in Workers : WorkerStep(w)
  \/ \E c \in Callers : CallerStep(c)
  \/ \E t \in Threads : EmitUpdate(t)
  \/ stop
  \/ Tick

Spec == Init /\ [][Next]_vars

(* Threads inside a call keep running; an operation eventually returns     *)
(* (the cooperation the processor asks of its handlers).  Nobody has to    *)
(* make a call, and the clock may stand still.                             *)
Fairness ==
  /\ \A w \in Workers : WF_vars(WorkerStep(w))
  /\ \A t \in Threads : WF_vars(EmitUpdate(t))
  /\ \A s \in Submitters :
       WF_vars(FetchToken(s) \/ Enqueue(s) \/ EnqueueFails(s) \/ EraseRejected(s))

FairSpec == Spec /\ Fairness

-----------------------------------------------------------------------------
(* What the processor promises.                                            *)

LiveOperations ==
  {queue[i] : i \in 1..Len(queue)} \cup
  {worker[w].op : w \in {v \in Workers : worker[v].at = "running"}}

\* Retention never drops a task that is still running: a working task leaves
\* tasks_ only when the executor refused it, or when it ended in that very
\* step, in which case its end is on the way to the hooks.
NoSilentDisappearance ==
  [][\A id \in DOMAIN tasks_ :
       tasks_[id].status = "working" /\ id \notin DOMAIN tasks_' =>
         \/ \E s \in Submitters : submit[s] = [at |-> "rejected", id |-> id]
         \/ \E t \in Threads, status \in TerminalStatuses :
              [id |-> id, status |-> status] \in outbox'[t]]_vars

\* The three views of a task agree, over all threads that can end it (a worker,
\* a refreshing caller, a cancelling caller).  The status hook is called at most
\* once with working and at most once with a terminal status, and that status
\* is the one every later snapshot shows.  tasks/result answers for the status
\* the record shows: never "not available" for a finished task, never a result
\* for a failed or cancelled one; and retention by age finds a terminal_at.
ViewsAgree ==
  /\ \A id \in TaskIds :
       /\ \A i, j \in 1..Len(hookLog[id]) :
            (is_terminal(hookLog[id][i]) <=> is_terminal(hookLog[id][j])) => i = j
       /\ \A i \in 1..Len(hookLog[id]) :
            id \in DOMAIN tasks_ /\ is_terminal(hookLog[id][i]) =>
              tasks_[id].status = hookLog[id][i]
  /\ \A id \in DOMAIN tasks_ :
       LET r == tasks_[id] IN
         /\ r.status = ResultReply(tasks_, id)
         /\ r.result <=> r.status = "completed"
         /\ (r.terminal_at = NotTerminal) <=> (r.status = "working")
         /\ r.terminal_at <= now

\* An operation that is still queued or running although its task has left
\* the working state (cancelled, timed out, or already trimmed) holds a token
\* that tells it so, unless submit_operation found the record gone and gave it
\* a token of its own.
AbandonedOperationSignalled ==
  \A op \in LiveOperations :
    op.attached /\ (op.id \notin DOMAIN tasks_ \/ is_terminal(tasks_[op.id].status)) =>
      token[op.id]

\* The snapshot tasks/cancel returns shows a task that is over: the one just
\* cancelled, or the terminal one found.
CancelAnswersTerminal == \A c \in Callers : reply[c] # "working"

\* Every accepted operation is eventually started and its task eventually
\* ends, even when stop() comes in between (the drain).
AcceptedTaskEnds ==
  \A id \in TaskIds :
    (\E op \in LiveOperations : op.id = id) ~>
      (id \notin DOMAIN tasks_ \/ is_terminal(tasks_[id].status))

(* The lifecycle promised to clients, seen through each task's phase.      *)
Phase(id) ==
  IF id >= next_task_index_ THEN "unborn"
  ELSE IF id \notin DOMAIN tasks_ THEN "gone"
  ELSE IF tasks_[id].status = "working" THEN "working"
  ELSE IF tasks_[id].failure = "none" THEN "completed"
  ELSE tasks_[id].failure

Lifecycle == INSTANCE TaskLifecycle WITH phase <- [id \in TaskIds |-> Phase(id)]

\* The processor implements the task lifecycle: a task is created once, ends
\* once, keeps its outcome while it is retained and never comes back.
ImplementsLifecycle == Lifecycle!Spec
=============================================================================
