------------------------ MODULE TaskProcessorProofs ------------------------
(***************************************************************************)
(* Theorems about TaskProcessor, for every number of threads and tasks,    *)
(* every retention limit, timeout and queue size: the types, where an      *)
(* operation is, the signals to it, and what it shows of a task: the       *)
(* record follows the life cycle and is not lost, and the status hook, the *)
(* record and the result tell one story.                                   *)
(***************************************************************************)
EXTENDS TaskProcessor, TLAPS

(* A map of task records whose keys are task indexes.                      *)
Records(recs) ==
  /\ DOMAIN recs \subseteq TaskIds
  /\ recs \in [DOMAIN recs -> TaskRecord]

-----------------------------------------------------------------------------
(* What the helpers that run under the lock do to a record map.            *)

\* Trimming keeps the records it does not erase as they are, and erases only
\* terminal ones (trim_completed_locked).
LEMMA TrimProperties ==
  ASSUME NEW recs, Records(recs)
  PROVE  /\ Records(trim_completed(recs))
         /\ DOMAIN trim_completed(recs) \subseteq DOMAIN recs
         /\ \A id \in DOMAIN trim_completed(recs) :
              trim_completed(recs)[id] = recs[id]
         /\ \A id \in DOMAIN recs \ DOMAIN trim_completed(recs) :
              id \in Terminal(recs)
<1> DEFINE gone == Expired(recs) \cup Excess(Terminal(recs) \ Expired(recs))
<1>1. trim_completed(recs) = [id \in DOMAIN recs \cap (DOMAIN recs \ gone) |-> recs[id]]
  BY Zenon DEF trim_completed, Keep
<1>2. gone \subseteq Terminal(recs)
  BY Zenon DEF Expired, Excess
<1> HIDE DEF gone
<1> QED
  BY <1>1, <1>2, Zenon DEF Records

\* Ending a record gives a record.
LEMMA EndedType ==
  ASSUME NEW record \in TaskRecord, NEW status \in TerminalStatuses,
         NEW result \in BOOLEAN, NEW failure \in Failures, now \in Nat
  PROVE  /\ Ended(record, status, result, failure) \in TaskRecord
         /\ Ended(record, status, result, failure).status = status
         /\ Ended(record, status, result, failure).result = result
         /\ Ended(record, status, result, failure).failure = failure
         /\ Ended(record, status, result, failure).terminal_at = now
  BY Zenon DEF Ended, TaskRecord, Statuses

\* The record map right after the timeouts of refresh_locked, before trimming.
Failed(recs) ==
  [id \in DOMAIN recs |->
     IF id \in TimedOut(recs)
     THEN Ended(recs[id], "failed", FALSE, "timed_out")
     ELSE recs[id]]

(* Failing the tasks whose time is up keeps the set of records.           *)
LEMMA FailedType ==
  ASSUME NEW recs, Records(recs), now \in Nat
  PROVE  /\ Records(Failed(recs))
         /\ DOMAIN Failed(recs) = DOMAIN recs
         /\ refresh(recs) = trim_completed(Failed(recs))
<1>1. \A id \in DOMAIN recs : Failed(recs)[id] \in TaskRecord
  BY EndedType, ZenonT(30) DEF Failed, Records, TerminalStatuses, Failures
<1> QED
  BY <1>1, Zenon DEF Failed, Records, refresh

\* Refreshing gives a record map on some of the keys.
LEMMA RefreshType ==
  ASSUME NEW recs, Records(recs), now \in Nat
  PROVE  Records(refresh(recs)) /\ DOMAIN refresh(recs) \subseteq DOMAIN recs
  BY FailedType, TrimProperties, Zenon

-----------------------------------------------------------------------------
(* Type correctness.                                                       *)

\* What TypeOK says about the record map, in the form the lemmas take.
LEMMA TypeOKRecords ==
  TypeOK => Records(tasks_) /\ now \in Nat /\ MaxTaskIndex \in Nat
  BY TaskProcessorAssumption DEF TypeOK, Records, TaskIds

\* A refresh collects updates of existing tasks.
LEMMA RefreshUpdatesType ==
  TypeOK => RefreshUpdates(tasks_) \subseteq Updates
<1> SUFFICES ASSUME TypeOK, NEW id \in TimedOut(tasks_)
             PROVE  [id |-> id, status |-> "failed"] \in Updates
  BY Zenon DEF RefreshUpdates
<1>1. id \in TaskIds
  BY TypeOKRecords, Zenon DEF TimedOut, Records
<1> QED
  BY <1>1, Zenon DEF Updates, Statuses, TerminalStatuses

\* The step of a caller that only refreshes keeps the types.
LEMMA RefreshingCallType ==
  ASSUME TypeOK, NEW c \in Callers, RefreshingCall(c)
  PROVE  TypeOK'
<1>1. Records(tasks_') /\ DOMAIN tasks_' \subseteq DOMAIN tasks_
  BY TypeOKRecords, RefreshType, Zenon DEF RefreshingCall
<1>2. token' \in [TaskIds -> BOOLEAN]
  BY Zenon DEF RefreshingCall, RefreshToken, TypeOK
<1>4. outbox' \in [Threads -> SUBSET Updates]
  BY RefreshUpdatesType, Zenon DEF RefreshingCall, TypeOK
<1>5. reply' \in [Callers -> {"none", "not_found"} \cup Statuses]
  BY Zenon DEF RefreshingCall, TypeOK
<1> QED
  BY <1>1, <1>2, <1>4, <1>5, Zenon DEF RefreshingCall, TypeOK, Records

(* Enqueueing a task adds one well-formed record.                          *)
LEMMA InsertTaskType ==
  ASSUME TypeOK, NEW s \in Submitters, NEW ttl \in RequestTtls, InsertTask(s, ttl)
  PROVE  TypeOK'
<1> DEFINE record == [status |-> "working", started_at |-> now,
                      timeout |-> IF ttl = NoTtl THEN DefaultTimeout ELSE ttl,
                      terminal_at |-> NotTerminal,
                      result |-> FALSE, failure |-> "none"]
<1>1. record \in TaskRecord
  BY TypeOKRecords, TaskProcessorAssumption, Zenon DEF TaskRecord, Statuses, Failures
<1>2. next_task_index_ \in TaskIds
  BY TaskProcessorAssumption DEF InsertTask, TypeOK, TaskIds
<1>3. /\ DOMAIN tasks_' = DOMAIN tasks_ \cup {next_task_index_}
      /\ tasks_' \in [DOMAIN tasks_' -> TaskRecord]
  BY <1>1, Zenon DEF InsertTask, TypeOK, make_task_id
<1>4. next_task_index_' \in 1..(MaxTaskIndex + 1)
      /\ DOMAIN tasks_' \subseteq 1..(next_task_index_' - 1)
  BY <1>3, TaskProcessorAssumption DEF InsertTask, TypeOK
<1>5. submit' \in [Submitters ->
       {Idle} \cup [at : {"inserted", "rejected"}, id : TaskIds]
              \cup [at : {"fetched"}, id : TaskIds, attached : BOOLEAN]]
  BY <1>2, Zenon DEF InsertTask, TypeOK, make_task_id
<1> QED
  BY <1>3, <1>4, <1>5, Zenon DEF InsertTask, TypeOK

(* Every step of a submitting thread keeps the types.                      *)
LEMMA SubmitterType ==
  ASSUME TypeOK, NEW s \in Submitters, SubmitterStep(s)
  PROVE  TypeOK'
<1>1. CASE \E ttl \in RequestTtls : InsertTask(s, ttl)
  BY <1>1, InsertTaskType, Zenon
<1> DEFINE Places == {Idle} \cup [at : {"inserted", "rejected"}, id : TaskIds]
                     \cup [at : {"fetched"}, id : TaskIds, attached : BOOLEAN]
<1>2. submit[s] \in Places
  BY Zenon DEF TypeOK
<1>3. CASE FetchToken(s)
  <2>1. submit[s].id \in TaskIds
    BY <1>2, <1>3 DEF FetchToken, Idle
  <2> QED
    BY <1>3, <2>1 DEF FetchToken, TypeOK
<1>4. CASE Enqueue(s) \/ EnqueueFails(s)
  <2>1. submit[s].id \in TaskIds /\ submit[s].attached \in BOOLEAN
    BY <1>2, <1>4 DEF Enqueue, EnqueueFails, Idle
  <2>2. CASE Enqueue(s)
    <3>1. queue' \in Seq(Operations)
      BY <2>1, <2>2 DEF Enqueue, TypeOK, Operations
    <3>2. [id |-> submit[s].id, status |-> "working"] \in Updates
      BY <2>1, Zenon DEF Updates, Statuses
    <3>3. outbox' \in [Threads -> SUBSET Updates]
      BY <2>2, <3>2, Zenon DEF Enqueue, TypeOK
    <3> QED
      BY <2>2, <3>1, <3>3, Zenon DEF Enqueue, TypeOK
  <2>3. CASE EnqueueFails(s)
    BY <2>1, <2>3, Zenon DEF EnqueueFails, TypeOK
  <2> QED
    BY <1>4, <2>2, <2>3, Zenon
<1>5. CASE EraseRejected(s)
  BY <1>5, Zenon DEF EraseRejected, TypeOK, Keep
<1> QED
  BY <1>1, <1>3, <1>4, <1>5, Zenon DEF SubmitterStep

(* A worker that records an outcome adds no task.                          *)
LEMMA FinishType ==
  ASSUME TypeOK, NEW w \in Workers, NEW status \in {"completed", "failed"},
         worker[w].at = "running", Finish(w, status)
  PROVE  /\ Records(tasks_') /\ DOMAIN tasks_' \subseteq DOMAIN tasks_
         /\ outbox' \in [Threads -> SUBSET Updates]
<1> DEFINE id == worker[w].op.id
           failure == IF status = "completed" THEN "none" ELSE "error"
           recs == [tasks_ EXCEPT ![id] = Ended(@, status, status = "completed", failure)]
<1>1. id \in TaskIds
  BY DEF TypeOK, Operations, Idle
<1>2. CASE MayFinish(id)
  <2>1. id \in DOMAIN tasks_
    BY <1>2, Zenon DEF MayFinish
  <2>2. status \in TerminalStatuses /\ failure \in Failures
    BY Zenon DEF TerminalStatuses, Failures
  <2>3. tasks_[id] \in TaskRecord
    BY <2>1, TypeOKRecords, Zenon DEF Records
  <2> HIDE DEF failure, id
  <2>4. Ended(tasks_[id], status, status = "completed", failure) \in TaskRecord
    BY <2>2, <2>3, TypeOKRecords, EndedType, Zenon
  <2>5. Records(recs) /\ DOMAIN recs = DOMAIN tasks_
    BY <2>4, TypeOKRecords, Zenon DEF Records
  <2>6. tasks_' = trim_completed(recs)
    BY <1>2, Zenon DEF Finish, id, failure
  <2>7. Records(tasks_') /\ DOMAIN tasks_' \subseteq DOMAIN tasks_
    BY <2>5, <2>6, TrimProperties, Zenon
  <2>8. [id |-> id, status |-> status] \in Updates
    BY <1>1, Zenon DEF Updates, Statuses, TerminalStatuses
  <2>9. outbox' = [outbox EXCEPT ![w] = {[id |-> id, status |-> status]}]
    BY <1>2, Zenon DEF Finish, id
  <2> QED
    BY <2>7, <2>8, <2>9, Zenon DEF TypeOK
<1>3. CASE ~MayFinish(id)
  BY <1>3, TypeOKRecords, Zenon DEF Finish, TypeOK
<1> QED
  BY <1>2, <1>3, Zenon

(* Every step of a worker thread keeps the types.                          *)
LEMMA WorkerType ==
  ASSUME TypeOK, NEW w \in Workers, WorkerStep(w)
  PROVE  TypeOK'
<1>1. CASE StartOperation(w)
  <2>1. Head(queue) \in Operations /\ Tail(queue) \in Seq(Operations)
    BY <1>1 DEF StartOperation, TypeOK
  <2>2. worker' \in [Workers -> {Idle} \cup [at : {"running"}, op : Operations]]
    BY <1>1, <2>1, Zenon DEF StartOperation, TypeOK
  <2> QED
    BY <1>1, <2>1, <2>2, Zenon DEF StartOperation, TypeOK
<1>2. ASSUME NEW status \in {"completed", "failed"}, finish_task(w, status)
      PROVE  TypeOK'
  <2>1. /\ Records(tasks_') /\ DOMAIN tasks_' \subseteq DOMAIN tasks_
        /\ outbox' \in [Threads -> SUBSET Updates]
    BY <1>2, FinishType, Zenon DEF finish_task
  <2>2. worker' \in [Workers -> {Idle} \cup [at : {"running"}, op : Operations]]
    BY <1>2, Zenon DEF finish_task, TypeOK
  <2> QED
    BY <1>2, <2>1, <2>2, Zenon DEF finish_task, TypeOK, Records
<1> QED
  BY <1>1, <1>2, Zenon DEF WorkerStep

\* What cancel_task leaves behind: the record map after its own ending of the
\* task and the second trimming.
Cancelled(recs, id) ==
  [recs EXCEPT ![id] = Ended(@, "cancelled", FALSE, "cancelled")]

(* Marking one task cancelled keeps the set of records.                    *)
LEMMA CancelledType ==
  ASSUME NEW recs, Records(recs), now \in Nat, NEW id \in DOMAIN recs
  PROVE  /\ Records(Cancelled(recs, id))
         /\ DOMAIN Cancelled(recs, id) = DOMAIN recs
<1>1. recs[id] \in TaskRecord
  BY Zenon DEF Records
<1>2. Ended(recs[id], "cancelled", FALSE, "cancelled") \in TaskRecord
  BY <1>1, EndedType, ZenonT(30) DEF TerminalStatuses, Failures
<1> QED
  BY <1>2, Zenon DEF Cancelled, Records

(* tasks/cancel, the refresh it starts with included, keeps the types.     *)
LEMMA CancelType ==
  ASSUME TypeOK, NEW c \in Callers, NEW id \in TaskIds, cancel_task(c, id)
  PROVE  TypeOK'
<1> DEFINE recs == refresh(tasks_)
           ending == id \in DOMAIN recs /\ recs[id].status = "working"
           update == [id |-> id, status |-> "cancelled"]
<1>1. Records(recs) /\ DOMAIN recs \subseteq DOMAIN tasks_
  BY TypeOKRecords, RefreshType, Zenon
<1>2. Records(tasks_') /\ DOMAIN tasks_' \subseteq DOMAIN tasks_
  <2>1. CASE ending
    <3>1. Records(Cancelled(recs, id)) /\ DOMAIN Cancelled(recs, id) = DOMAIN recs
      BY <1>1, <2>1, TypeOKRecords, CancelledType, Zenon
    <3>2. tasks_' = trim_completed(Cancelled(recs, id))
      BY <2>1, Zenon DEF cancel_task, Cancelled
    <3> QED
      BY <1>1, <3>1, <3>2, TrimProperties, Zenon
  <2>2. CASE ~ending
    BY <1>1, <2>2, Zenon DEF cancel_task
  <2> QED
    BY <2>1, <2>2, Zenon
<1>3. token' \in [TaskIds -> BOOLEAN]
  BY Zenon DEF cancel_task, RefreshToken, TypeOK
<1>4. update \in Updates
  BY Zenon DEF Updates, Statuses, TerminalStatuses
<1>5. outbox' = [outbox EXCEPT ![c] =
        RefreshUpdates(tasks_) \cup (IF ending THEN {update} ELSE {})]
  BY Zenon DEF cancel_task
<1>6. outbox' \in [Threads -> SUBSET Updates]
  <2> HIDE DEF ending, update
  <2> QED
    BY <1>4, <1>5, RefreshUpdatesType, Zenon DEF TypeOK
<1>7. reply' \in [Callers -> {"none", "not_found"} \cup Statuses]
  BY Zenon DEF cancel_task, TypeOK
<1> QED
  BY <1>2, <1>3, <1>6, <1>7, Zenon DEF cancel_task, TypeOK, Records

(* Calling the status hook with a pending update keeps the types.          *)
LEMMA EmitType ==
  ASSUME TypeOK, NEW t \in Threads, EmitUpdate(t)
  PROVE  TypeOK'
<1> PICK update \in outbox[t] :
      /\ outbox' = [outbox EXCEPT ![t] = @ \ {update}]
      /\ hookLog' = [hookLog EXCEPT ![update.id] = Append(@, update.status)]
      /\ UNCHANGED <<tasks_, next_task_index_, now, token, queue, worker, stopping,
                     submit, reply>>
  BY Zenon DEF EmitUpdate
<1>1. update \in Updates
  BY Zenon DEF TypeOK
<1>2. update.id \in TaskIds /\ update.status \in Statuses
  BY <1>1, Zenon DEF Updates
<1>3. hookLog' \in [TaskIds -> Seq(Statuses)]
  BY <1>2 DEF TypeOK
<1>4. outbox' \in [Threads -> SUBSET Updates]
  BY Zenon DEF TypeOK
<1> QED
  BY <1>3, <1>4, Zenon DEF TypeOK

\* Type correctness of the processor, for all values of the options.
THEOREM TypeCorrect == Spec => []TypeOK
<1>1. Init => TypeOK
  <2> SUFFICES ASSUME Init PROVE TypeOK
    BY Zenon
  <2>1. DOMAIN tasks_ = {} /\ tasks_ \in [DOMAIN tasks_ -> TaskRecord]
    BY Zenon DEF Init
  <2>2. queue \in Seq(Operations) /\ hookLog \in [TaskIds -> Seq(Statuses)]
    BY DEF Init
  <2>3. now \in 0..MaxTime /\ next_task_index_ \in 1..(MaxTaskIndex + 1)
    BY TaskProcessorAssumption DEF Init
  <2> QED
    BY <2>1, <2>2, <2>3, Zenon DEF Init, TypeOK
<1>2. TypeOK /\ [Next]_vars => TypeOK'
  <2> SUFFICES ASSUME TypeOK, [Next]_vars PROVE TypeOK'
    BY Zenon
  <2>1. ASSUME NEW s \in Submitters, SubmitterStep(s) PROVE TypeOK'
    BY <2>1, SubmitterType, Zenon
  <2>2. ASSUME NEW w \in Workers, WorkerStep(w) PROVE TypeOK'
    BY <2>2, WorkerType, Zenon
  <2>3. ASSUME NEW c \in Callers, CallerStep(c) PROVE TypeOK'
    BY <2>3, RefreshingCallType, CancelType, Zenon DEF CallerStep
  <2>4. ASSUME NEW t \in Threads, EmitUpdate(t) PROVE TypeOK'
    BY <2>4, EmitType, Zenon
  <2>5. CASE stop
    BY <2>5, Zenon DEF stop, TypeOK
  <2>6. CASE Tick
    BY <2>6, TaskProcessorAssumption, SMTT(30) DEF Tick, TypeOK
  <2>7. CASE UNCHANGED vars
    BY <2>7, Zenon DEF vars, TypeOK
  <2> QED
    BY <2>1, <2>2, <2>3, <2>4, <2>5, <2>6, <2>7, Zenon DEF Next
<1> QED
  BY <1>1, <1>2, PTL DEF Spec
-----------------------------------------------------------------------------
(* How a critical section that ends tasks leaves the table.                *)

(* The record tells one story: how the task ended, when, and with what.    *)
Consistent(r) ==
  \/ r.status = "working" /\ r.terminal_at = NotTerminal /\ ~r.result /\ r.failure = "none"
  \/ /\ r.terminal_at \in 0..now
     /\ \/ r.status = "completed" /\ r.result /\ r.failure = "none"
        \/ r.status = "failed" /\ ~r.result /\ r.failure \in {"error", "timed_out"}
        \/ r.status = "cancelled" /\ ~r.result /\ r.failure = "cancelled"

(* A critical section that ends tasks: each update it collects is the end  *)
(* of a working task, no task is ended twice, a record that stays is as it *)
(* was or shows the end that was collected, and what is dropped was over   *)
(* or is ended here.                                                       *)
Settles(new, ended) ==
  /\ \A u \in ended : /\ u \in Updates /\ u.status \in TerminalStatuses
                      /\ u.id \in DOMAIN tasks_ /\ tasks_[u.id].status = "working"
  /\ \A u, v \in ended : u.id = v.id => u = v
  /\ DOMAIN new \subseteq DOMAIN tasks_
  /\ \A id \in DOMAIN new :
       \/ new[id] = tasks_[id] /\ \A u \in ended : u.id # id
       \/ \E u \in ended : /\ u.id = id /\ new[id].status = u.status
                           /\ Consistent(new[id])
  /\ \A id \in DOMAIN tasks_ \ DOMAIN new :
       is_terminal(tasks_[id].status) \/ \E u \in ended : u.id = id

\* What refresh_locked leaves of each record.
LEMMA RefreshGives ==
  ASSUME NEW recs, Records(recs), now \in Nat
  PROVE  /\ DOMAIN refresh(recs) \subseteq DOMAIN recs
         /\ \A id \in DOMAIN refresh(recs) :
              refresh(recs)[id] = IF id \in TimedOut(recs)
                                  THEN Ended(recs[id], "failed", FALSE, "timed_out")
                                  ELSE recs[id]
         /\ \A id \in DOMAIN recs \ DOMAIN refresh(recs) :
              is_terminal(recs[id].status) \/ id \in TimedOut(recs)
<1>1. /\ Records(Failed(recs)) /\ DOMAIN Failed(recs) = DOMAIN recs
      /\ refresh(recs) = trim_completed(Failed(recs))
  BY FailedType, Zenon
<1>2. /\ DOMAIN refresh(recs) \subseteq DOMAIN Failed(recs)
      /\ \A id \in DOMAIN refresh(recs) : refresh(recs)[id] = Failed(recs)[id]
      /\ \A id \in DOMAIN Failed(recs) \ DOMAIN refresh(recs) : id \in Terminal(Failed(recs))
  BY <1>1, TrimProperties, Zenon
<1>3. \A id \in DOMAIN recs : Failed(recs)[id] = IF id \in TimedOut(recs)
                                THEN Ended(recs[id], "failed", FALSE, "timed_out")
                                ELSE recs[id]
  BY Zenon DEF Failed
<1>4. \A id \in DOMAIN recs \ DOMAIN refresh(recs) :
        is_terminal(recs[id].status) \/ id \in TimedOut(recs)
  BY <1>1, <1>2, <1>3, Zenon DEF Terminal
<1> QED
  BY <1>1, <1>2, <1>3, <1>4, Zenon

\* One task is ended and the terminal records are trimmed.
EndIn(recs, id, status, result, failure) ==
  trim_completed([recs EXCEPT ![id] = Ended(@, status, result, failure)])

\* What ending one task and trimming leave of each record.
LEMMA EndGives ==
  ASSUME NEW recs, Records(recs), NEW id \in DOMAIN recs,
         NEW status \in TerminalStatuses, NEW result \in BOOLEAN, NEW failure \in Failures,
         now \in Nat, NEW new, new = EndIn(recs, id, status, result, failure)
  PROVE  /\ DOMAIN new \subseteq DOMAIN recs
         /\ \A k \in DOMAIN new : k # id => new[k] = recs[k]
         /\ id \in DOMAIN new => new[id] = Ended(recs[id], status, result, failure)
         /\ \A k \in DOMAIN recs \ DOMAIN new : k # id => is_terminal(recs[k].status)
<1> DEFINE ended == [recs EXCEPT ![id] = Ended(@, status, result, failure)]
<1>1. Ended(recs[id], status, result, failure) \in TaskRecord
  BY EndedType, Zenon DEF Records
<1>2. Records(ended) /\ DOMAIN ended = DOMAIN recs
  BY <1>1, Zenon DEF Records
<1>3. /\ \A k \in DOMAIN recs : k # id => ended[k] = recs[k]
      /\ ended[id] = Ended(recs[id], status, result, failure)
  BY Zenon DEF Records
<1> HIDE DEF ended
<1>4. /\ DOMAIN new \subseteq DOMAIN ended
      /\ \A k \in DOMAIN new : new[k] = ended[k]
      /\ \A k \in DOMAIN ended \ DOMAIN new : k \in Terminal(ended)
  BY <1>2, TrimProperties, Zenon DEF EndIn, ended
<1> QED
  BY <1>2, <1>3, <1>4, Zenon DEF Terminal

\* An ended record tells one story.
LEMMA EndedConsistent ==
  ASSUME NEW record \in TaskRecord, now \in Nat,
         NEW status \in TerminalStatuses, NEW result \in BOOLEAN, NEW failure \in Failures,
         \/ status = "completed" /\ result /\ failure = "none"
         \/ status = "failed" /\ ~result /\ failure \in {"error", "timed_out"}
         \/ status = "cancelled" /\ ~result /\ failure = "cancelled"
  PROVE  /\ Consistent(Ended(record, status, result, failure))
         /\ Ended(record, status, result, failure).status = status
<1> DEFINE r == Ended(record, status, result, failure)
<1>1. r.status = status /\ r.result = result /\ r.failure = failure /\ r.terminal_at = now
  BY EndedType
<1> HIDE DEF r
<1>2. r.terminal_at \in 0..now
  BY <1>1
<1>3. Consistent(r) /\ r.status = status
  BY <1>1, <1>2, Zenon DEF Consistent
<1> QED
  BY <1>3, Zenon DEF r

\* Refreshing ends the tasks whose time is up.
LEMMA RefreshSettles ==
  ASSUME TypeOK
  PROVE  Settles(refresh(tasks_), RefreshUpdates(tasks_))
<1> DEFINE ended == RefreshUpdates(tasks_)
           new == refresh(tasks_)
<1>1. Records(tasks_) /\ now \in Nat
  BY TypeOKRecords, Zenon
<1>2. /\ DOMAIN new \subseteq DOMAIN tasks_
      /\ \A id \in DOMAIN new :
           new[id] = IF id \in TimedOut(tasks_)
                         THEN Ended(tasks_[id], "failed", FALSE, "timed_out")
                         ELSE tasks_[id]
      /\ \A id \in DOMAIN tasks_ \ DOMAIN new :
           is_terminal(tasks_[id].status) \/ id \in TimedOut(tasks_)
  BY <1>1, RefreshGives, Zenon
<1>3. /\ \A u \in ended : u \in Updates /\ u.status = "failed" /\ u.id \in TimedOut(tasks_)
      /\ \A id \in TimedOut(tasks_) : \E u \in ended : u.id = id
      /\ \A u, v \in ended : u.id = v.id => u = v
  <2>1. \A u \in ended : \E id \in TimedOut(tasks_) : u = [id |-> id, status |-> "failed"]
    BY Zenon DEF RefreshUpdates
  <2>2. \A u \in ended : u \in Updates /\ u.status = "failed" /\ u.id \in TimedOut(tasks_)
    BY <2>1, RefreshUpdatesType
  <2>3. \A id \in TimedOut(tasks_) : [id |-> id, status |-> "failed"] \in ended
    BY Zenon DEF RefreshUpdates
  <2>4. \A id \in TimedOut(tasks_) : \E u \in ended : u.id = id
    BY <2>3, Zenon
  <2>5. \A u, v \in ended : u.id = v.id => u = v
    BY <2>1
  <2> QED
    BY <2>2, <2>4, <2>5, Zenon
<1>4. \A id \in TimedOut(tasks_) : id \in DOMAIN tasks_ /\ tasks_[id].status = "working"
  BY Zenon DEF TimedOut
<1>5. ASSUME NEW id \in DOMAIN new, id \in TimedOut(tasks_)
      PROVE  Consistent(new[id]) /\ new[id].status = "failed"
  <2>1. tasks_[id] \in TaskRecord
    BY <1>1, <1>2, <1>5, Zenon DEF Records
  <2>2. /\ "failed" \in TerminalStatuses /\ FALSE \in BOOLEAN /\ "timed_out" \in Failures
        /\ "timed_out" \in {"error", "timed_out"}
    BY Zenon DEF TerminalStatuses, Failures
  <2>3. Consistent(Ended(tasks_[id], "failed", FALSE, "timed_out"))
        /\ Ended(tasks_[id], "failed", FALSE, "timed_out").status = "failed"
    BY <1>1, <2>1, <2>2, EndedConsistent, Zenon
  <2> QED
    BY <1>2, <1>5, <2>3, Zenon
<1> HIDE DEF ended, new
<1>6. \A u \in ended : /\ u \in Updates /\ u.status \in TerminalStatuses
                       /\ u.id \in DOMAIN tasks_ /\ tasks_[u.id].status = "working"
  BY <1>3, <1>4, Zenon DEF TerminalStatuses
<1>7. \A id \in DOMAIN new :
        \/ new[id] = tasks_[id] /\ \A u \in ended : u.id # id
        \/ \E u \in ended : /\ u.id = id /\ new[id].status = u.status
                            /\ Consistent(new[id])
  <2> TAKE id \in DOMAIN new
  <2>1. CASE id \in TimedOut(tasks_)
    BY <1>3, <1>5, <2>1, Zenon
  <2>2. CASE id \notin TimedOut(tasks_)
    BY <1>2, <1>3, <2>2, Zenon
  <2> QED
    BY <2>1, <2>2, Zenon
<1>8. \A id \in DOMAIN tasks_ \ DOMAIN new :
        is_terminal(tasks_[id].status) \/ \E u \in ended : u.id = id
  BY <1>2, <1>3, Zenon
<1>9. Settles(new, ended)
  BY <1>2, <1>3, <1>6, <1>7, <1>8, Zenon DEF Settles
<1> QED
  BY <1>9, Zenon DEF ended, new

\* A worker that finishes ends its own task.
LEMMA FinishSettles ==
  ASSUME TypeOK, NEW w \in Workers, NEW status \in {"completed", "failed"},
         finish_task(w, status), NEW id, id = worker[w].op.id, MayFinish(id)
  PROVE  /\ Settles(tasks_', {[id |-> id, status |-> status]})
         /\ outbox' = [outbox EXCEPT ![w] = {[id |-> id, status |-> status]}]
<1> DEFINE failure == IF status = "completed" THEN "none" ELSE "error"
           update == [id |-> id, status |-> status]
<1>1. Records(tasks_) /\ now \in Nat
  BY TypeOKRecords, Zenon
<1>2. /\ tasks_' = trim_completed([tasks_ EXCEPT ![id] =
                     Ended(@, status, status = "completed", failure)])
      /\ outbox' = [outbox EXCEPT ![w] = {update}]
  BY Zenon DEF finish_task, Finish
<1>3. /\ status \in TerminalStatuses /\ (status = "completed") \in BOOLEAN
      /\ failure \in Failures /\ id \in DOMAIN tasks_ /\ tasks_[id].status = "working"
  BY Zenon DEF TerminalStatuses, Failures, MayFinish
<1>4. PICK result \in BOOLEAN :
        /\ result = (status = "completed")
        /\ \/ status = "completed" /\ result /\ failure = "none"
           \/ status = "failed" /\ ~result /\ failure \in {"error", "timed_out"}
  BY Zenon
<1> HIDE DEF failure
<1>5. tasks_[id] \in TaskRecord /\ id \in TaskIds
  BY <1>1, <1>3, Zenon DEF Records
<1>6. /\ Consistent(Ended(tasks_[id], status, result, failure))
      /\ Ended(tasks_[id], status, result, failure).status = status
  BY <1>1, <1>3, <1>4, <1>5, EndedConsistent, ZenonT(30)
<1>7. /\ DOMAIN tasks_' \subseteq DOMAIN tasks_
      /\ \A k \in DOMAIN tasks_' : k # id => tasks_'[k] = tasks_[k]
      /\ id \in DOMAIN tasks_' =>
           tasks_'[id] = Ended(tasks_[id], status, result, failure)
      /\ \A k \in DOMAIN tasks_ \ DOMAIN tasks_' : k # id => is_terminal(tasks_[k].status)
  <2>1. tasks_' = EndIn(tasks_, id, status, result, failure)
    BY <1>2, <1>4, Zenon DEF EndIn
  <2> QED
    BY <1>1, <1>3, <2>1, EndGives
<1>8. update \in Updates /\ update.id = id /\ update.status = status
  BY <1>3, <1>5, Zenon DEF Updates, Statuses
<1> HIDE DEF update
<1>9. Settles(tasks_', {update})
  BY <1>3, <1>6, <1>7, <1>8, Zenon DEF Settles
<1> QED
  BY <1>2, <1>9, Zenon DEF update

\* Cancelling one of the tasks a refresh has left working ends one more.
LEMMA CancelSettles ==
  ASSUME TypeOK, NEW recs, Records(recs), NEW ended, Settles(recs, ended),
         NEW id \in DOMAIN recs, recs[id].status = "working", NEW new,
         new = trim_completed(Cancelled(recs, id))
  PROVE  Settles(new, ended \cup {[id |-> id, status |-> "cancelled"]})
<1> DEFINE update == [id |-> id, status |-> "cancelled"]
<1>1. Records(tasks_) /\ now \in Nat
  BY TypeOKRecords, Zenon
<1>2. "cancelled" \in TerminalStatuses /\ FALSE \in BOOLEAN /\ "cancelled" \in Failures
  BY Zenon DEF TerminalStatuses, Failures
<1>3. recs[id] \in TaskRecord /\ id \in TaskIds
  BY Zenon DEF Records
<1>4. /\ DOMAIN new \subseteq DOMAIN recs
      /\ \A k \in DOMAIN new : k # id => new[k] = recs[k]
      /\ id \in DOMAIN new => new[id] = Ended(recs[id], "cancelled", FALSE, "cancelled")
      /\ \A k \in DOMAIN recs \ DOMAIN new : k # id => is_terminal(recs[k].status)
  <2>1. PICK result \in BOOLEAN : result = FALSE
    BY Zenon
  <2>2. new = EndIn(recs, id, "cancelled", result, "cancelled")
    BY <2>1, Zenon DEF Cancelled, EndIn
  <2>3. /\ DOMAIN new \subseteq DOMAIN recs
        /\ \A k \in DOMAIN new : k # id => new[k] = recs[k]
        /\ id \in DOMAIN new => new[id] = Ended(recs[id], "cancelled", result, "cancelled")
        /\ \A k \in DOMAIN recs \ DOMAIN new : k # id => is_terminal(recs[k].status)
    BY <1>1, <1>2, <2>2, EndGives
  <2> QED
    BY <2>1, <2>3, Zenon
<1>5. /\ Consistent(Ended(recs[id], "cancelled", FALSE, "cancelled"))
      /\ Ended(recs[id], "cancelled", FALSE, "cancelled").status = "cancelled"
  BY <1>1, <1>2, <1>3, EndedConsistent, Zenon
<1>6. /\ update \in Updates /\ update.id = id /\ update.status = "cancelled"
      /\ update.status \in TerminalStatuses
  BY <1>2, <1>3, Zenon DEF Updates, Statuses
<1> HIDE DEF update
<1>7. /\ id \in DOMAIN tasks_ /\ tasks_[id].status = "working"
      /\ \A u \in ended : u.id # id
  <2>1. \A u \in ended : u.status # "working"
    BY Zenon DEF Settles, TerminalStatuses
  <2> QED
    BY <2>1 DEF Settles
<1>8. /\ \A u \in ended \cup {update} :
           /\ u \in Updates /\ u.status \in TerminalStatuses
           /\ u.id \in DOMAIN tasks_ /\ tasks_[u.id].status = "working"
      /\ \A u, v \in ended \cup {update} : u.id = v.id => u = v
  BY <1>6, <1>7 DEF Settles
<1>9. \A k \in DOMAIN new :
        \/ new[k] = tasks_[k] /\ \A u \in ended \cup {update} : u.id # k
        \/ \E u \in ended \cup {update} : u.id = k /\ new[k].status = u.status /\ Consistent(new[k])
  <2> TAKE k \in DOMAIN new
  <2>1. CASE k = id
    BY <1>4, <1>5, <1>6, <2>1, Zenon
  <2>2. CASE k # id
    <3>1. k \in DOMAIN recs /\ new[k] = recs[k]
      BY <1>4, <2>2, Zenon
    <3>2. \/ recs[k] = tasks_[k] /\ \A u \in ended : u.id # k
          \/ \E u \in ended : u.id = k /\ recs[k].status = u.status /\ Consistent(recs[k])
      BY <3>1, Zenon DEF Settles
    <3> QED
      BY <1>6, <2>2, <3>1, <3>2, Zenon
  <2> QED
    BY <2>1, <2>2, Zenon
<1>10. \A k \in DOMAIN tasks_ \ DOMAIN new :
         is_terminal(tasks_[k].status) \/ \E u \in ended \cup {update} : u.id = k
  <2> TAKE k \in DOMAIN tasks_ \ DOMAIN new
  <2>1. CASE k = id
    BY <1>6, <2>1, Zenon
  <2>2. CASE k # id /\ k \in DOMAIN recs
    <3>1. is_terminal(recs[k].status)
      BY <1>4, <2>2, Zenon
    <3>2. recs[k] = tasks_[k] \/ \E u \in ended : u.id = k
      BY <2>2, Zenon DEF Settles
    <3> QED
      BY <3>1, <3>2, Zenon
  <2>3. CASE k \notin DOMAIN recs
    BY <2>3, Zenon DEF Settles
  <2> QED
    BY <2>1, <2>2, <2>3, Zenon
<1>11. DOMAIN new \subseteq DOMAIN tasks_
  BY <1>4, Zenon DEF Settles
<1>12. Settles(new, ended \cup {update})
  BY <1>8, <1>9, <1>10, <1>11, Zenon DEF Settles
<1> QED
  BY <1>12, Zenon DEF update

\* The three ways of ending a task, at the level of the steps: what a caller's
\* step does to records, tokens and updates.
LEMMA CallSettles ==
  ASSUME TypeOK, NEW c \in Callers, CallerStep(c)
  PROVE  \E ended : /\ Settles(tasks_', ended)
                    /\ outbox' = [outbox EXCEPT ![c] = ended]
                    /\ \A u \in ended : token'[u.id]
                    /\ \A id \in TaskIds : token[id] => token'[id]
<1>1. Records(tasks_) /\ now \in Nat
  BY TypeOKRecords, Zenon
<1>2. \A id \in TaskIds : token[id] \/ id \in TimedOut(tasks_) => RefreshToken(tasks_)[id]
  BY Zenon DEF RefreshToken
<1>3. \A u \in RefreshUpdates(tasks_) : u.id \in TimedOut(tasks_) /\ u.id \in TaskIds
  BY RefreshUpdatesType DEF RefreshUpdates, Updates
<1>4. CASE RefreshingCall(c)
  BY <1>2, <1>3, <1>4, RefreshSettles, Zenon DEF RefreshingCall
<1>5. ASSUME NEW id \in TaskIds, cancel_task(c, id)
      PROVE  \E ended : /\ Settles(tasks_', ended)
                        /\ outbox' = [outbox EXCEPT ![c] = ended]
                        /\ \A u \in ended : token'[u.id]
                        /\ \A k \in TaskIds : token[k] => token'[k]
  <2> DEFINE recs == refresh(tasks_)
             ending == id \in DOMAIN recs /\ recs[id].status = "working"
             update == [id |-> id, status |-> "cancelled"]
             ended == RefreshUpdates(tasks_) \cup (IF ending THEN {update} ELSE {})
  <2>1. /\ tasks_' = IF ending THEN trim_completed(Cancelled(recs, id)) ELSE recs
        /\ outbox' = [outbox EXCEPT ![c] = ended]
        /\ token' = [i \in TaskIds |-> RefreshToken(tasks_)[i] \/ (ending /\ i = id)]
    BY <1>5, Zenon DEF cancel_task, Cancelled
  <2>2. \A u \in ended : token'[u.id]
    <3>1. \A u \in ended : u \in RefreshUpdates(tasks_) \/ (ending /\ u.id = id)
      OBVIOUS
    <3> HIDE DEF ended, ending
    <3> QED
      BY <1>2, <1>3, <2>1, <3>1, Zenon
  <2>3. \A k \in TaskIds : token[k] => token'[k]
    BY <1>2, <2>1, Zenon
  <2>4. Settles(tasks_', ended)
    <3>1. Settles(recs, RefreshUpdates(tasks_))
      BY RefreshSettles, Zenon
    <3>2. Records(recs)
      BY <1>1, RefreshType, Zenon
    <3>3. CASE ~ending
      <4>1. tasks_' = recs /\ ended = RefreshUpdates(tasks_)
        BY <2>1, <3>3, Zenon
      <4> QED
        BY <3>1, <4>1, Zenon
    <3>4. CASE ending
      <4>1. tasks_' = trim_completed(Cancelled(recs, id))
            /\ ended = RefreshUpdates(tasks_) \cup {update}
        BY <2>1, <3>4, Zenon
      <4>2. Settles(tasks_', RefreshUpdates(tasks_) \cup {update})
        BY <3>1, <3>2, <3>4, <4>1, CancelSettles, Zenon
      <4> QED
        BY <4>1, <4>2, Zenon
    <3> QED
      BY <3>3, <3>4, Zenon
  <2> QED
    BY <2>1, <2>2, <2>3, <2>4, Zenon
<1> QED
  BY <1>4, <1>5, Zenon DEF CallerStep

-----------------------------------------------------------------------------
(* Where a task is.  A task is with its submitter, in the queue or with a  *)
(* worker, at one place only.                                              *)

Inside(s) == submit[s] # Idle
Running(w) == worker[w].at = "running"

IndexInv ==
  /\ \A s \in Submitters : Inside(s) => submit[s].id < next_task_index_
  /\ \A i \in 1..Len(queue) : queue[i].id < next_task_index_
  /\ \A w \in Workers : Running(w) => worker[w].op.id < next_task_index_

SubmittedApart ==
  /\ \A s, r \in Submitters : Inside(s) /\ Inside(r) /\ submit[s].id = submit[r].id => s = r
  /\ \A s \in Submitters : \A i \in 1..Len(queue) : Inside(s) => submit[s].id # queue[i].id
  /\ \A s \in Submitters : \A w \in Workers :
       Inside(s) /\ Running(w) => submit[s].id # worker[w].op.id

QueuedApart ==
  /\ \A i, j \in 1..Len(queue) : queue[i].id = queue[j].id => i = j
  /\ \A i \in 1..Len(queue) : \A w \in Workers : Running(w) => queue[i].id # worker[w].op.id

RunningApart ==
  \A w, v \in Workers : Running(w) /\ Running(v) /\ worker[w].op.id = worker[v].op.id => w = v

PlaceInv == IndexInv /\ SubmittedApart /\ QueuedApart /\ RunningApart

\* What the types say of the places.
LEMMA PlaceTypes ==
  ASSUME TypeOK
  PROVE  /\ next_task_index_ \in Nat /\ Len(queue) \in Nat
         /\ \A s \in Submitters : submit[s].at # "idle" <=> Inside(s)
         /\ \A s \in Submitters : Inside(s) =>
              /\ submit[s].id \in TaskIds /\ submit[s].id \in Nat
              /\ submit[s].at \in {"inserted", "fetched", "rejected"}
              /\ submit[s].at = "fetched" => submit[s].attached \in BOOLEAN
         /\ \A i \in 1..Len(queue) : /\ queue[i] \in Operations /\ queue[i].id \in Nat
                                     /\ queue[i].id \in TaskIds
         /\ \A w \in Workers : Running(w) =>
              /\ worker[w].op \in Operations /\ worker[w].op.id \in Nat
              /\ worker[w].op.id \in TaskIds
<1>1. TaskIds \subseteq Nat /\ next_task_index_ \in Nat /\ Len(queue) \in Nat
  BY TaskProcessorAssumption DEF TypeOK, TaskIds
<1>2. ASSUME NEW s \in Submitters
      PROVE  /\ submit[s].at # "idle" <=> Inside(s)
             /\ Inside(s) => /\ submit[s].id \in TaskIds
                             /\ submit[s].at \in {"inserted", "fetched", "rejected"}
                             /\ submit[s].at = "fetched" => submit[s].attached \in BOOLEAN
  <2>1. submit[s] \in {Idle} \cup [at : {"inserted", "rejected"}, id : TaskIds]
                \cup [at : {"fetched"}, id : TaskIds, attached : BOOLEAN]
    BY Zenon DEF TypeOK
  <2> QED
    BY <2>1 DEF Inside, Idle
<1>3. \A i \in 1..Len(queue) : queue[i] \in Operations
  BY DEF TypeOK
<1>4. \A w \in Workers : Running(w) => worker[w].op \in Operations
  BY DEF TypeOK, Running, Idle
<1>5. \A op \in Operations : op.id \in TaskIds
  BY Zenon DEF Operations
<1>6. /\ \A i \in 1..Len(queue) : queue[i].id \in TaskIds
      /\ \A w \in Workers : Running(w) => worker[w].op.id \in TaskIds
  BY <1>3, <1>4, <1>5, Zenon
<1> QED
  BY <1>1, <1>2, <1>3, <1>4, <1>6, Zenon

\* A step that brings no task to a new place.
LEMMA PlacesStay ==
  ASSUME PlaceInv, UNCHANGED <<queue, next_task_index_>>,
         \A s \in Submitters : Inside(s)' => Inside(s) /\ submit'[s].id = submit[s].id,
         \A w \in Workers : Running(w)' => Running(w) /\ worker'[w] = worker[w]
  PROVE  PlaceInv'
<1>1. /\ \A s \in Submitters : Inside(s)' => submit'[s].id < next_task_index_
      /\ \A i \in 1..Len(queue) : queue[i].id < next_task_index_
      /\ \A w \in Workers : Running(w)' => worker'[w].op.id < next_task_index_
  BY Zenon DEF PlaceInv, IndexInv
<1>2. /\ \A s, r \in Submitters :
           Inside(s)' /\ Inside(r)' /\ submit'[s].id = submit'[r].id => s = r
      /\ \A s \in Submitters : \A i \in 1..Len(queue) : Inside(s)' => submit'[s].id # queue[i].id
      /\ \A s \in Submitters : \A w \in Workers :
           Inside(s)' /\ Running(w)' => submit'[s].id # worker'[w].op.id
  BY DEF PlaceInv, SubmittedApart
<1>3. /\ \A i, j \in 1..Len(queue) : queue[i].id = queue[j].id => i = j
      /\ \A i \in 1..Len(queue) : \A w \in Workers :
           Running(w)' => queue[i].id # worker'[w].op.id
      /\ \A w, v \in Workers :
           Running(w)' /\ Running(v)' /\ worker'[w].op.id = worker'[v].op.id => w = v
  BY DEF PlaceInv, QueuedApart, RunningApart
<1> QED
  BY <1>1, <1>2, <1>3 DEF PlaceInv, IndexInv, SubmittedApart, QueuedApart, RunningApart

\* A new task is with its submitter.
LEMMA InsertPlaces ==
  ASSUME TypeOK, PlaceInv, NEW s \in Submitters, NEW ttl \in RequestTtls, InsertTask(s, ttl)
  PROVE  PlaceInv'
<1>1. /\ next_task_index_' = next_task_index_ + 1 /\ UNCHANGED <<queue, worker>>
      /\ submit'[s] = [at |-> "inserted", id |-> next_task_index_]
      /\ \A r \in Submitters \ {s} : submit'[r] = submit[r]
  BY Zenon DEF InsertTask, make_task_id, TypeOK
<1>2. /\ Inside(s)' /\ submit'[s].id = next_task_index_
      /\ \A r \in Submitters \ {s} : Inside(r)' => Inside(r) /\ submit'[r].id = submit[r].id
      /\ \A w \in Workers : Running(w)' <=> Running(w)
  BY <1>1 DEF Inside, Idle, Running
<1>3. /\ \A r \in Submitters : Inside(r) =>
           submit[r].id # next_task_index_ /\ submit[r].id < next_task_index_'
      /\ \A i \in 1..Len(queue) :
           queue[i].id # next_task_index_ /\ queue[i].id < next_task_index_'
      /\ \A w \in Workers : Running(w) =>
           worker[w].op.id # next_task_index_ /\ worker[w].op.id < next_task_index_'
      /\ next_task_index_ < next_task_index_'
  BY <1>1, PlaceTypes DEF PlaceInv, IndexInv
<1>4. /\ \A r \in Submitters : Inside(r)' => submit'[r].id < next_task_index_'
      /\ \A i \in 1..Len(queue') : queue'[i].id < next_task_index_'
      /\ \A w \in Workers : Running(w)' => worker'[w].op.id < next_task_index_'
  BY <1>1, <1>2, <1>3, Zenon
<1>5. \A q, r \in Submitters :
        Inside(q)' /\ Inside(r)' /\ submit'[q].id = submit'[r].id => q = r
  BY <1>2, <1>3 DEF PlaceInv, SubmittedApart
<1>6. /\ \A r \in Submitters : \A i \in 1..Len(queue') :
           Inside(r)' => submit'[r].id # queue'[i].id
      /\ \A r \in Submitters : \A w \in Workers :
           Inside(r)' /\ Running(w)' => submit'[r].id # worker'[w].op.id
  <2> SUFFICES ASSUME NEW r \in Submitters, Inside(r)'
               PROVE  /\ \A i \in 1..Len(queue) : submit'[r].id # queue[i].id
                      /\ \A w \in Workers : Running(w) => submit'[r].id # worker[w].op.id
    BY <1>1, <1>2, Zenon
  <2>1. CASE r = s
    BY <1>2, <1>3, <2>1, Zenon
  <2>2. CASE r # s
    BY <1>2, <2>2 DEF PlaceInv, SubmittedApart
  <2> QED
    BY <2>1, <2>2, Zenon
<1>7. /\ \A i, j \in 1..Len(queue') : queue'[i].id = queue'[j].id => i = j
      /\ \A i \in 1..Len(queue') : \A w \in Workers :
           Running(w)' => queue'[i].id # worker'[w].op.id
      /\ \A w, v \in Workers :
           Running(w)' /\ Running(v)' /\ worker'[w].op.id = worker'[v].op.id => w = v
  BY <1>1, <1>2, Zenon DEF PlaceInv, QueuedApart, RunningApart
<1> QED
  BY <1>4, <1>5, <1>6, <1>7, Zenon DEF PlaceInv, IndexInv, SubmittedApart, QueuedApart,
     RunningApart

\* Queueing moves the task from its submitter to the end of the queue.
LEMMA EnqueuePlaces ==
  ASSUME TypeOK, PlaceInv, NEW s \in Submitters, Enqueue(s)
  PROVE  PlaceInv'
<1>1. /\ Inside(s) /\ UNCHANGED <<next_task_index_, worker>>
      /\ queue' = Append(queue, [id |-> submit[s].id, attached |-> submit[s].attached])
      /\ submit'[s] = Idle /\ \A r \in Submitters \ {s} : submit'[r] = submit[r]
  BY PlaceTypes, Zenon DEF Enqueue, TypeOK
<1>2. PICK n \in Nat : n = Len(queue)
  BY PlaceTypes, Zenon
<1>3. /\ Len(queue') = n + 1 /\ queue'[n + 1].id = submit[s].id
      /\ \A i \in 1..n : queue'[i] = queue[i]
  BY <1>1, <1>2 DEF TypeOK
<1>4. /\ \A r \in Submitters : Inside(r)' => r # s /\ Inside(r) /\ submit'[r] = submit[r]
      /\ \A w \in Workers : Running(w)' <=> Running(w)
  BY <1>1, Zenon DEF Inside, Running
<1>5. \A i \in 1..(n + 1) : i \in 1..n \/ i = n + 1
  BY <1>2
<1>6. /\ \A r \in Submitters : Inside(r)' => submit'[r].id < next_task_index_'
      /\ \A i \in 1..(n + 1) : queue'[i].id < next_task_index_'
      /\ \A w \in Workers : Running(w)' => worker'[w].op.id < next_task_index_'
  <2>1. \A i \in 1..n : queue'[i].id < next_task_index_
    BY <1>2, <1>3, Zenon DEF PlaceInv, IndexInv
  <2>2. submit[s].id < next_task_index_
    BY <1>1, Zenon DEF PlaceInv, IndexInv
  <2>3. \A i \in 1..(n + 1) : queue'[i].id < next_task_index_
    BY <1>3, <1>5, <2>1, <2>2, Zenon
  <2> QED
    BY <1>1, <1>4, <2>3, Zenon DEF PlaceInv, IndexInv
<1>7. /\ \A q, r \in Submitters :
           Inside(q)' /\ Inside(r)' /\ submit'[q].id = submit'[r].id => q = r
      /\ \A r \in Submitters : \A w \in Workers :
           Inside(r)' /\ Running(w)' => submit'[r].id # worker'[w].op.id
      /\ \A w, v \in Workers :
           Running(w)' /\ Running(v)' /\ worker'[w].op.id = worker'[v].op.id => w = v
  BY <1>1, <1>4 DEF PlaceInv, SubmittedApart, RunningApart
<1>8. \A r \in Submitters : \A i \in 1..(n + 1) : Inside(r)' => submit'[r].id # queue'[i].id
  BY <1>1, <1>2, <1>3, <1>4, <1>5 DEF PlaceInv, SubmittedApart
<1>9. \A i, j \in 1..(n + 1) : queue'[i].id = queue'[j].id => i = j
  <2>1. \A i, j \in 1..n : queue'[i].id = queue'[j].id => i = j
    BY <1>2, <1>3, Zenon DEF PlaceInv, QueuedApart
  <2>2. \A i \in 1..n : queue'[i].id # queue'[n + 1].id
    BY <1>1, <1>2, <1>3 DEF PlaceInv, SubmittedApart
  <2> QED
    BY <1>5, <2>1, <2>2, Zenon
<1>10. \A i \in 1..(n + 1) : \A w \in Workers : Running(w)' => queue'[i].id # worker'[w].op.id
  BY <1>1, <1>2, <1>3, <1>4, <1>5 DEF PlaceInv, SubmittedApart, QueuedApart
<1> QED
  BY <1>3, <1>6, <1>7, <1>8, <1>9, <1>10
     DEF PlaceInv, IndexInv, SubmittedApart, QueuedApart, RunningApart

\* A worker takes the task at the head of the queue.
LEMMA StartPlaces ==
  ASSUME TypeOK, PlaceInv, NEW w \in Workers, StartOperation(w)
  PROVE  PlaceInv'
<1>1. /\ queue # <<>> /\ queue' = Tail(queue) /\ UNCHANGED <<next_task_index_, submit>>
      /\ worker'[w] = [at |-> "running", op |-> Head(queue)]
      /\ \A v \in Workers \ {w} : worker'[v] = worker[v]
  BY Zenon DEF StartOperation, TypeOK
<1>2. PICK n \in Nat : n + 1 = Len(queue)
  <2>1. Len(queue) \in Nat /\ Len(queue) # 0
    BY <1>1 DEF TypeOK
  <2>2. Len(queue) - 1 \in Nat /\ (Len(queue) - 1) + 1 = Len(queue)
    BY <2>1
  <2> QED
    BY <2>2, Zenon
<1>3. /\ Len(queue') = n /\ worker'[w].op = queue[1] /\ 1 \in 1..Len(queue)
      /\ \A i \in 1..n : queue'[i] = queue[i + 1]
  <2>1. queue \in Seq(Operations) /\ 1 \in 1..Len(queue)
    BY <1>2 DEF TypeOK
  <2>2. Head(queue) = queue[1] /\ Len(Tail(queue)) = n
    BY <1>1, <1>2, <2>1
  <2>3. \A i \in 1..n : Tail(queue)[i] = queue[i + 1]
    BY <1>1, <1>2, <2>1
  <2> QED
    BY <1>1, <2>1, <2>2, <2>3
<1>4. /\ \A r \in Submitters : Inside(r)' => Inside(r) /\ submit'[r] = submit[r]
      /\ Running(w)' /\ \A v \in Workers \ {w} : Running(v)' => Running(v) /\ worker'[v] = worker[v]
  BY <1>1 DEF Inside, Running
<1>5. \A i \in 1..n : i \in Nat /\ i + 1 \in 1..Len(queue) /\ i + 1 # 1
  BY <1>2
<1>6. /\ \A r \in Submitters : Inside(r)' => submit'[r].id < next_task_index_'
      /\ \A i \in 1..n : queue'[i].id < next_task_index_'
      /\ \A v \in Workers : Running(v)' => worker'[v].op.id < next_task_index_'
  <2>1. \A i \in 1..Len(queue) : queue[i].id < next_task_index_
    BY Zenon DEF PlaceInv, IndexInv
  <2>2. \A i \in 1..n : queue'[i].id < next_task_index_
    BY <1>3, <1>5, <2>1, Zenon
  <2>3. worker'[w].op.id < next_task_index_
    BY <1>3, <2>1, Zenon
  <2> QED
    BY <1>1, <1>4, <2>2, <2>3, Zenon DEF PlaceInv, IndexInv
<1>7. /\ \A q, r \in Submitters :
           Inside(q)' /\ Inside(r)' /\ submit'[q].id = submit'[r].id => q = r
      /\ \A r \in Submitters : \A i \in 1..n : Inside(r)' => submit'[r].id # queue'[i].id
  <2>1. \A q, r \in Submitters :
          Inside(q)' /\ Inside(r)' /\ submit'[q].id = submit'[r].id => q = r
    BY <1>4, Zenon DEF PlaceInv, SubmittedApart
  <2>2. ASSUME NEW r \in Submitters, NEW i \in 1..n, Inside(r)'
        PROVE  submit'[r].id # queue'[i].id
    <3>1. submit[r].id # queue[i + 1].id
      BY <1>4, <1>5, <2>2 DEF PlaceInv, SubmittedApart
    <3> QED
      BY <1>3, <1>4, <2>2, <3>1, Zenon
  <2> QED
    BY <2>1, <2>2, Zenon
<1>8. \A r \in Submitters : \A v \in Workers :
        Inside(r)' /\ Running(v)' => submit'[r].id # worker'[v].op.id
  <2>1. \A r \in Submitters : Inside(r) => submit[r].id # queue[1].id
    BY <1>3, Zenon DEF PlaceInv, SubmittedApart
  <2>2. \A r \in Submitters : \A v \in Workers :
          Inside(r) /\ Running(v) => submit[r].id # worker[v].op.id
    BY Zenon DEF PlaceInv, SubmittedApart
  <2> QED
    BY <1>3, <1>4, <2>1, <2>2
<1>9. ASSUME NEW i \in 1..n, NEW j \in 1..n, queue'[i].id = queue'[j].id PROVE i = j
  <2>1. queue[i + 1].id = queue[j + 1].id
    BY <1>3, <1>9, Zenon
  <2>2. i + 1 = j + 1
    BY <1>5, <2>1, Zenon DEF PlaceInv, QueuedApart
  <2> QED
    BY <2>2
<1>10. \A i \in 1..n : \A v \in Workers : Running(v)' => queue'[i].id # worker'[v].op.id
  <2>1. \A i \in 1..n : queue[i + 1].id # queue[1].id
    BY <1>3, <1>5, Zenon DEF PlaceInv, QueuedApart
  <2>2. \A i \in 1..n : \A v \in Workers : Running(v) => queue[i + 1].id # worker[v].op.id
    BY <1>5, Zenon DEF PlaceInv, QueuedApart
  <2> QED
    BY <1>3, <1>4, <2>1, <2>2
<1>11. \A v, u \in Workers :
         Running(v)' /\ Running(u)' /\ worker'[v].op.id = worker'[u].op.id => v = u
  BY <1>3, <1>4 DEF PlaceInv, QueuedApart, RunningApart
<1> QED
  BY <1>3, <1>6, <1>7, <1>8, <1>9, <1>10, <1>11, Zenon
     DEF PlaceInv, IndexInv, SubmittedApart, QueuedApart, RunningApart

\* Every step keeps a task at one place.
LEMMA PlaceStep ==
  ASSUME TypeOK, PlaceInv, [Next]_vars
  PROVE  PlaceInv'
<1>1. ASSUME NEW s \in Submitters, FetchToken(s) \/ EnqueueFails(s) \/ EraseRejected(s)
      PROVE  PlaceInv'
  <2>1. /\ submit[s].at # "idle" /\ UNCHANGED <<queue, worker, next_task_index_>>
        /\ \A r \in Submitters \ {s} : submit'[r] = submit[r]
        /\ submit'[s] = Idle \/ submit'[s].id = submit[s].id
    <3>1. /\ submit[s].at # "idle" /\ UNCHANGED <<queue, worker, next_task_index_>>
          /\ \/ submit' = [submit EXCEPT ![s] = Idle]
             \/ submit' = [submit EXCEPT ![s] = [at |-> "rejected", id |-> submit[s].id]]
             \/ submit' = [submit EXCEPT ![s] =
                             [at |-> "fetched", id |-> submit[s].id,
                              attached |-> submit[s].id \in DOMAIN tasks_]]
      BY <1>1, Zenon DEF FetchToken, EnqueueFails, EraseRejected
    <3>2. DOMAIN submit = Submitters
      BY Zenon DEF TypeOK
    <3> QED
      BY <3>1, <3>2
  <2>2. Inside(s)
    BY <2>1, PlaceTypes, Zenon
  <2>3. \A r \in Submitters : Inside(r)' => Inside(r) /\ submit'[r].id = submit[r].id
    BY <2>1, <2>2, Zenon DEF Inside
  <2>4. \A w \in Workers : Running(w)' => Running(w) /\ worker'[w] = worker[w]
    BY <2>1, Zenon DEF Running
  <2> QED
    BY <2>1, <2>3, <2>4, PlacesStay, Zenon
<1>2. ASSUME UNCHANGED <<queue, worker, submit, next_task_index_>> PROVE PlaceInv'
  BY <1>2, PlacesStay, Zenon DEF Inside, Running
<1>3. ASSUME NEW w \in Workers, NEW status \in {"completed", "failed"}, finish_task(w, status)
      PROVE  PlaceInv'
  <2>1. /\ UNCHANGED <<queue, submit, next_task_index_>> /\ worker'[w] = Idle
        /\ \A v \in Workers \ {w} : worker'[v] = worker[v]
    BY <1>3, Zenon DEF finish_task, TypeOK
  <2>2. \A v \in Workers : Running(v)' => Running(v) /\ worker'[v] = worker[v]
    BY <2>1 DEF Running, Idle
  <2> QED
    BY <2>1, <2>2, PlacesStay, Zenon DEF Inside
<1>4. ASSUME NEW s \in Submitters, SubmitterStep(s) PROVE PlaceInv'
  BY <1>1, <1>4, InsertPlaces, EnqueuePlaces, Zenon DEF SubmitterStep
<1>5. ASSUME NEW w \in Workers, WorkerStep(w) PROVE PlaceInv'
  BY <1>3, <1>5, StartPlaces, Zenon DEF WorkerStep
<1>6. ASSUME NEW c \in Callers, CallerStep(c) PROVE PlaceInv'
  BY <1>2, <1>6, Zenon DEF CallerStep, RefreshingCall, cancel_task
<1>7. ASSUME NEW t \in Threads, EmitUpdate(t) PROVE PlaceInv'
  BY <1>2, <1>7, Zenon DEF EmitUpdate
<1>8. CASE stop \/ Tick \/ UNCHANGED vars
  BY <1>2, <1>8, Zenon DEF stop, Tick, vars
<1> QED
  BY <1>4, <1>5, <1>6, <1>7, <1>8, Zenon DEF Next

-----------------------------------------------------------------------------
(* Abandoned operations are signalled.                                     *)

Over(id) == id \notin DOMAIN tasks_ \/ is_terminal(tasks_[id].status)

(* The tasks whose operation holds the token of the record.                *)
Attached(id) ==
  \/ \E s \in Submitters : /\ submit[s].at = "fetched"
                           /\ submit[s].attached /\ submit[s].id = id
  \/ \E i \in 1..Len(queue) : queue[i].attached /\ queue[i].id = id
  \/ \E w \in Workers : Running(w) /\ worker[w].op.attached /\ worker[w].op.id = id

(* A task that is over before its operation has returned was ended by a    *)
(* caller, which signalled the token.  This already holds of a task whose  *)
(* submitter is about to fetch the token.                                  *)
SignalInv ==
  /\ \A id \in TaskIds : Attached(id) /\ Over(id) => token[id]
  /\ \A s \in Submitters :
       submit[s].at = "inserted" /\ submit[s].id \in DOMAIN tasks_ /\ Over(submit[s].id) =>
         token[submit[s].id]


LEMMA MoveSignals ==
  ASSUME SignalInv, UNCHANGED <<tasks_, token>>,
         \A id \in TaskIds : Attached(id)' =>
           \/ Attached(id)
           \/ \E s \in Submitters : /\ submit[s].at = "inserted" /\ submit[s].id = id
                                    /\ id \in DOMAIN tasks_,
         \A s \in Submitters : submit'[s].at = "inserted" => submit'[s] = submit[s]
  PROVE  SignalInv'
<1>1. \A id : Over(id)' <=> Over(id)
  BY Zenon DEF Over
<1>2. ASSUME NEW id \in TaskIds, Attached(id)', Over(id) PROVE token[id]
  BY <1>2 DEF SignalInv
<1>3. ASSUME NEW s \in Submitters, submit'[s].at = "inserted",
             submit'[s].id \in DOMAIN tasks_', Over(submit[s].id)
      PROVE  token'[submit'[s].id]
  BY <1>3, Zenon DEF SignalInv
<1>4. \A s \in Submitters : submit'[s].at = "inserted" =>
        (Over(submit[s].id)' <=> Over(submit[s].id))
  BY Zenon DEF Over
<1> QED
  BY <1>1, <1>2, <1>3, <1>4, Zenon DEF SignalInv, Over

\* A step that ends tasks signals each of them, or takes the operation out.
LEMMA EndSignals ==
  ASSUME TypeOK, SignalInv, UNCHANGED submit,
         \A id \in TaskIds : token[id] => token'[id],
         DOMAIN tasks_' \subseteq DOMAIN tasks_,
         \A id \in TaskIds : Attached(id)' => Attached(id),
         \A id \in TaskIds : Over(id)' => Over(id) \/ token'[id] \/ ~Attached(id)',
         \A s \in Submitters : submit[s].at = "inserted" =>
           (Over(submit[s].id)' => Over(submit[s].id) \/ token'[submit[s].id])
  PROVE  SignalInv'
<1>1. ASSUME NEW id \in TaskIds, Attached(id)', Over(id)' PROVE token'[id]
  BY <1>1, Zenon DEF SignalInv
<1>2. ASSUME NEW s \in Submitters, submit[s].at = "inserted",
             submit[s].id \in DOMAIN tasks_', Over(submit[s].id)'
      PROVE  token'[submit[s].id]
  <2>1. submit[s].id \in TaskIds
    BY <1>2, PlaceTypes, Zenon
  <2> QED
    BY <1>2, <2>1, Zenon DEF SignalInv
<1> QED
  BY <1>1, <1>2, Zenon DEF SignalInv

\* A new record is working, and nobody holds its token yet.
LEMMA InsertSignals ==
  ASSUME TypeOK, PlaceInv, SignalInv,
         NEW s \in Submitters, NEW ttl \in RequestTtls, InsertTask(s, ttl)
  PROVE  SignalInv'
<1>1. PICK n \in Nat : n = next_task_index_
  BY PlaceTypes, Zenon
<1>2. /\ UNCHANGED <<token, queue, worker>>
      /\ DOMAIN tasks_' = DOMAIN tasks_ \cup {n} /\ tasks_'[n].status = "working"
      /\ \A id \in DOMAIN tasks_ : id # n => tasks_'[id] = tasks_[id]
      /\ submit'[s] = [at |-> "inserted", id |-> n]
      /\ \A r \in Submitters \ {s} : submit'[r] = submit[r]
  BY <1>1, Zenon DEF InsertTask, make_task_id, TypeOK
<1>3. /\ ~Over(n)'
      /\ \A id : id # n => (Over(id)' <=> Over(id))
  BY <1>2, Zenon DEF Over, is_terminal, TerminalStatuses
<1>4. \A id : Attached(id)' => Attached(id)
  <2>1. submit'[s].at # "fetched"
    BY <1>2
  <2> QED
    BY <1>2, <2>1, Zenon DEF Attached, Running
<1>5. ASSUME NEW r \in Submitters, submit'[r].at = "inserted",
             submit'[r].id \in DOMAIN tasks_', Over(submit[r].id)', r # s
      PROVE  token[submit[r].id]
  <2>1. PICK id : id = submit[r].id /\ submit'[r] = submit[r] /\ submit[r].at = "inserted"
    BY <1>2, <1>5, Zenon
  <2>2. id < n
    BY <1>1, <2>1, PlaceTypes, Zenon DEF PlaceInv, IndexInv
  <2>3. Over(id)' /\ id # n
    BY <1>1, <1>5, <2>1, <2>2, PlaceTypes DEF Over
  <2> QED
    BY <1>2, <1>3, <1>5, <2>1, <2>3, Zenon DEF SignalInv
<1>6. ASSUME NEW id \in TaskIds, Attached(id)', Over(id)' PROVE token[id]
  BY <1>3, <1>4, <1>6, Zenon DEF SignalInv
<1>7. ASSUME NEW r \in Submitters, submit'[r].at = "inserted",
             submit'[r].id \in DOMAIN tasks_', Over(submit[r].id)'
      PROVE  token'[submit'[r].id]
  <2>1. CASE r = s
    <3>1. Over(n)'
      BY <1>2, <1>7, <2>1 DEF Over
    <3> QED
      BY <1>3, <3>1, Zenon
  <2>2. CASE r # s
    BY <1>2, <1>5, <1>7, <2>2, Zenon
  <2> QED
    BY <2>1, <2>2, Zenon
<1> QED
  BY <1>2, <1>6, <1>7, Zenon DEF SignalInv

\* The steps of a submitter.
LEMMA SubmitSignals ==
  ASSUME TypeOK, PlaceInv, SignalInv, NEW s \in Submitters, SubmitterStep(s)
  PROVE  SignalInv'
<1>1. ASSUME NEW ttl \in RequestTtls, InsertTask(s, ttl) PROVE SignalInv'
  BY <1>1, InsertSignals, Zenon
<1>2. CASE FetchToken(s)
  <2>1. /\ submit[s].at = "inserted" /\ UNCHANGED <<tasks_, token, queue, worker>>
        /\ submit'[s] = [at |-> "fetched", id |-> submit[s].id,
                         attached |-> submit[s].id \in DOMAIN tasks_]
        /\ \A r \in Submitters \ {s} : submit'[r] = submit[r]
    BY <1>2, Zenon DEF FetchToken, TypeOK
  <2>2. ASSUME NEW id \in TaskIds, Attached(id)', ~Attached(id)
        PROVE  submit[s].id = id /\ id \in DOMAIN tasks_
    <3>1. /\ submit'[s].at = "fetched" /\ submit'[s].id = submit[s].id
          /\ submit'[s].attached => submit[s].id \in DOMAIN tasks_
      <4>1. CASE submit[s].id \in DOMAIN tasks_
        BY <2>1, <4>1
      <4>2. CASE submit[s].id \notin DOMAIN tasks_
        <5>1. (submit[s].id \in DOMAIN tasks_) = FALSE
          BY <4>2
        <5>2. submit'[s] = [at |-> "fetched", id |-> submit[s].id, attached |-> FALSE]
          BY <2>1, <5>1, Zenon
        <5> QED
          BY <5>2
      <4> QED
        BY <4>1, <4>2, Zenon
    <3>2. PICK r \in Submitters :
            submit'[r].at = "fetched" /\ submit'[r].attached /\ submit'[r].id = id
      BY <2>1, <2>2, Zenon DEF Attached, Running
    <3>3. r = s
      BY <2>1, <2>2, <3>2, Zenon DEF Attached
    <3> QED
      BY <3>1, <3>2, <3>3, Zenon
  <2>3. \A r \in Submitters : submit'[r].at = "inserted" => submit'[r] = submit[r]
    BY <2>1
  <2> QED
    BY <2>1, <2>2, <2>3, MoveSignals, Zenon
<1>3. CASE Enqueue(s)
  <2>1. /\ submit[s].at = "fetched" /\ UNCHANGED <<tasks_, token, worker>>
        /\ queue' = Append(queue, [id |-> submit[s].id, attached |-> submit[s].attached])
        /\ submit'[s] = Idle /\ \A r \in Submitters \ {s} : submit'[r] = submit[r]
    BY <1>3, Zenon DEF Enqueue, TypeOK
  <2>2. PICK n \in Nat : n = Len(queue)
    BY PlaceTypes, Zenon
  <2>3. /\ Len(queue') = n + 1
        /\ queue'[n + 1] = [id |-> submit[s].id, attached |-> submit[s].attached]
        /\ \A i \in 1..n : queue'[i] = queue[i]
    BY <2>1, <2>2 DEF TypeOK
  <2>4. \A i \in 1..(n + 1) : i \in 1..n \/ i = n + 1
    BY <2>2
  <2>5. ASSUME NEW id \in TaskIds, Attached(id)' PROVE Attached(id)
    <3>1. CASE \E r \in Submitters : /\ submit'[r].at = "fetched"
                                     /\ submit'[r].attached /\ submit'[r].id = id
      BY <2>1, <3>1 DEF Attached, Idle
    <3>2. CASE \E i \in 1..Len(queue') : queue'[i].attached /\ queue'[i].id = id
      <4>1. PICK i \in 1..(n + 1) : queue'[i].attached /\ queue'[i].id = id
        BY <2>3, <3>2, Zenon
      <4>2. CASE i \in 1..n
        BY <2>2, <2>3, <4>1, <4>2, Zenon DEF Attached
      <4>3. CASE i = n + 1
        BY <2>1, <2>3, <4>1, <4>3 DEF Attached
      <4> QED
        BY <2>4, <4>2, <4>3, Zenon
    <3>3. CASE \E w \in Workers : /\ Running(w)' /\ worker'[w].op.attached
                                  /\ worker'[w].op.id = id
      BY <2>1, <3>3, Zenon DEF Attached, Running
    <3> QED
      BY <2>5, <3>1, <3>2, <3>3, Zenon DEF Attached
  <2>6. \A r \in Submitters : submit'[r].at = "inserted" => submit'[r] = submit[r]
    BY <2>1 DEF Idle
  <2> QED
    BY <2>1, <2>5, <2>6, MoveSignals, Zenon
<1>4. CASE EnqueueFails(s)
  <2>1. /\ UNCHANGED <<tasks_, token, queue, worker>> /\ submit'[s].at = "rejected"
        /\ \A r \in Submitters \ {s} : submit'[r] = submit[r]
    BY <1>4, Zenon DEF EnqueueFails, TypeOK
  <2>2. \A id \in TaskIds : Attached(id)' => Attached(id)
    BY <2>1, Zenon DEF Attached, Running
  <2>3. \A r \in Submitters : submit'[r].at = "inserted" => submit'[r] = submit[r]
    BY <2>1, Zenon
  <2> QED
    BY <2>1, <2>2, <2>3, MoveSignals, Zenon
<1>5. CASE EraseRejected(s)
  <2>1. PICK k \in TaskIds : k = submit[s].id /\ submit[s].at = "rejected" /\ Inside(s)
    BY <1>5, PlaceTypes, Zenon DEF EraseRejected
  <2>2. /\ UNCHANGED <<token, queue, worker>> /\ submit'[s] = Idle
        /\ \A r \in Submitters \ {s} : submit'[r] = submit[r]
        /\ DOMAIN tasks_' = DOMAIN tasks_ \ {k}
        /\ \A id \in DOMAIN tasks_' : tasks_'[id] = tasks_[id]
    BY <1>5, <2>1, Zenon DEF EraseRejected, Keep, TypeOK
  <2>3. \A id : id # k => (Over(id)' <=> Over(id))
    BY <2>2, Zenon DEF Over
  <2>4. \A id : Attached(id)' => Attached(id)
    BY <2>2 DEF Attached, Running, Idle
  <2>5. ~Attached(k)
    BY <2>1, PlaceTypes, Zenon DEF Attached, PlaceInv, SubmittedApart
  <2>6. ASSUME NEW id \in TaskIds, Attached(id)', Over(id)' PROVE token'[id]
    <3>1. Attached(id) /\ id # k
      BY <2>4, <2>5, <2>6, Zenon
    <3> QED
      BY <2>2, <2>3, <2>6, <3>1, Zenon DEF SignalInv
  <2>7. ASSUME NEW r \in Submitters, submit'[r].at = "inserted",
               submit'[r].id \in DOMAIN tasks_', Over(submit[r].id)'
        PROVE  token'[submit'[r].id]
    <3>1. PICK id : id = submit[r].id /\ submit'[r] = submit[r] /\ id # k /\ id \in DOMAIN tasks_
      BY <2>2, <2>7 DEF Idle
    <3>2. Over(id)
      BY <2>2, <2>3, <2>7, <3>1, Zenon DEF Over
    <3> QED
      BY <2>2, <2>7, <3>1, <3>2, Zenon DEF SignalInv
  <2> QED
    BY <2>6, <2>7, Zenon DEF SignalInv
<1> QED
  BY <1>1, <1>2, <1>3, <1>4, <1>5, Zenon DEF SubmitterStep

\* The steps of a worker.
LEMMA WorkSignals ==
  ASSUME TypeOK, PlaceInv, SignalInv, NEW w \in Workers, WorkerStep(w)
  PROVE  SignalInv'
<1>1. CASE StartOperation(w)
  <2>1. /\ queue # <<>> /\ queue' = Tail(queue) /\ UNCHANGED <<tasks_, token, submit>>
        /\ worker'[w] = [at |-> "running", op |-> Head(queue)]
        /\ \A v \in Workers \ {w} : worker'[v] = worker[v]
    BY <1>1, Zenon DEF StartOperation, TypeOK
  <2>2. /\ 1 \in 1..Len(queue) /\ Head(queue) = queue[1]
        /\ \A i \in 1..Len(queue') : i + 1 \in 1..Len(queue) /\ queue'[i] = queue[i + 1]
    <3>1. queue \in Seq(Operations) /\ Len(queue) \in Nat /\ Len(queue) # 0
      BY <2>1 DEF TypeOK
    <3>2. Len(queue') = Len(queue) - 1 /\ Head(queue) = queue[1]
      BY <2>1, <3>1
    <3>3. \A i \in 1..(Len(queue) - 1) : Tail(queue)[i] = queue[i + 1]
      BY <2>1, <3>1
    <3> QED
      BY <2>1, <3>1, <3>2, <3>3
  <2>3. ASSUME NEW id \in TaskIds, Attached(id)' PROVE Attached(id)
    <3>1. CASE \E r \in Submitters : /\ submit'[r].at = "fetched"
                                     /\ submit'[r].attached /\ submit'[r].id = id
      BY <2>1, <3>1, Zenon DEF Attached
    <3>2. CASE \E i \in 1..Len(queue') : queue'[i].attached /\ queue'[i].id = id
      BY <2>2, <3>2, Zenon DEF Attached
    <3>3. CASE \E v \in Workers : /\ Running(v)' /\ worker'[v].op.attached
                                  /\ worker'[v].op.id = id
      <4>1. PICK v \in Workers : /\ Running(v)' /\ worker'[v].op.attached
                                 /\ worker'[v].op.id = id
        BY <3>3, Zenon
      <4>2. CASE v = w
        <5>1. queue[1].attached /\ queue[1].id = id
          BY <2>1, <2>2, <4>1, <4>2
        <5> QED
          BY <2>2, <5>1, Zenon DEF Attached
      <4>3. CASE v # w
        BY <2>1, <4>1, <4>3, Zenon DEF Attached, Running
      <4> QED
        BY <4>2, <4>3, Zenon
    <3> QED
      BY <2>3, <3>1, <3>2, <3>3, Zenon DEF Attached
  <2> QED
    BY <2>1, <2>3, MoveSignals, Zenon
<1>2. ASSUME NEW status \in {"completed", "failed"}, finish_task(w, status)
      PROVE  SignalInv'
  <2>1. PICK k \in TaskIds : k = worker[w].op.id /\ Running(w)
    BY <1>2, PlaceTypes, Zenon DEF finish_task, Running
  <2>2. /\ UNCHANGED <<submit, token, queue>> /\ worker'[w] = Idle
        /\ \A v \in Workers \ {w} : worker'[v] = worker[v]
    BY <1>2, Zenon DEF finish_task, TypeOK
  <2>3. \A id : Attached(id)' => Attached(id)
    BY <2>2 DEF Attached, Running, Idle
  <2>4. /\ ~Attached(k)'
        /\ \A s \in Submitters : submit[s].at = "inserted" => submit[s].id # k
    <3>1. \A s \in Submitters : submit[s].at \in {"inserted", "fetched"} => submit[s].id # k
      BY <2>1, PlaceTypes, Zenon DEF PlaceInv, SubmittedApart
    <3>2. \A i \in 1..Len(queue) : queue[i].id # k
      BY <2>1, Zenon DEF PlaceInv, QueuedApart
    <3>3. \A v \in Workers : Running(v)' => worker'[v].op.id # k
      BY <2>1, <2>2 DEF PlaceInv, RunningApart, Running, Idle
    <3> QED
      BY <2>2, <3>1, <3>2, <3>3, Zenon DEF Attached
  <2>5. /\ DOMAIN tasks_' \subseteq DOMAIN tasks_
        /\ \A id \in TaskIds : id # k /\ Over(id)' => Over(id)
    <3>1. CASE MayFinish(k)
      <4>1. Settles(tasks_', {[id |-> k, status |-> status]})
        BY <1>2, <2>1, <3>1, FinishSettles, Zenon
      <4>2. /\ DOMAIN tasks_' \subseteq DOMAIN tasks_
            /\ \A id \in DOMAIN tasks_' : id # k => tasks_'[id] = tasks_[id]
            /\ \A id \in DOMAIN tasks_ \ DOMAIN tasks_' :
                 id # k => is_terminal(tasks_[id].status)
        BY <4>1 DEF Settles
      <4> QED
        BY <4>2, Zenon DEF Over
    <3>2. CASE ~MayFinish(k)
      BY <1>2, <2>1, <3>2, Zenon DEF finish_task, Finish, Over
    <3> QED
      BY <3>1, <3>2, Zenon
  <2>6. \A s \in Submitters : submit[s].at = "inserted" =>
          (Over(submit[s].id)' => Over(submit[s].id) \/ token'[submit[s].id])
    <3> SUFFICES ASSUME NEW s \in Submitters, submit[s].at = "inserted", Over(submit[s].id)'
                 PROVE  Over(submit[s].id)
      BY Zenon
    <3>1. PICK id \in TaskIds : id = submit[s].id
      BY PlaceTypes, Zenon
    <3>2. Over(id)' /\ id # k
      BY <2>2, <2>4, <3>1, Zenon DEF Over
    <3> QED
      BY <2>5, <3>1, <3>2, Zenon
  <2> QED
    BY <2>2, <2>3, <2>4, <2>5, <2>6, EndSignals, Zenon
<1> QED
  BY <1>1, <1>2, Zenon DEF WorkerStep

\* A caller signals whatever it ends.
LEMMA CallSignals ==
  ASSUME TypeOK, SignalInv, NEW c \in Callers, CallerStep(c)
  PROVE  SignalInv'
<1>1. UNCHANGED <<submit, queue, worker>>
  BY Zenon DEF CallerStep, RefreshingCall, cancel_task
<1>2. PICK ended : /\ Settles(tasks_', ended)
                   /\ \A u \in ended : token'[u.id]
                   /\ \A id \in TaskIds : token[id] => token'[id]
  BY CallSettles, Zenon
<1>3. DOMAIN tasks_' \subseteq DOMAIN tasks_
  BY <1>2, Zenon DEF Settles
<1>4. ASSUME NEW id, Over(id)' PROVE Over(id) \/ token'[id]
  <2>1. CASE id \in DOMAIN tasks_'
    <3>1. tasks_'[id] = tasks_[id] \/ \E u \in ended : u.id = id
      BY <1>2, <2>1, Zenon DEF Settles
    <3> QED
      BY <1>2, <1>4, <2>1, <3>1, Zenon DEF Over
  <2>2. CASE id \notin DOMAIN tasks_'
    BY <1>2, <2>2 DEF Settles, Over
  <2> QED
    BY <2>1, <2>2, Zenon
<1>5. \A id : Attached(id)' => Attached(id)
  BY <1>1, Zenon DEF Attached, Running
<1>6. \A s \in Submitters : submit[s].at = "inserted" =>
        (Over(submit[s].id)' => Over(submit[s].id) \/ token'[submit[s].id])
  <2> SUFFICES ASSUME NEW s \in Submitters, Over(submit[s].id)'
               PROVE  Over(submit[s].id) \/ token'[submit[s].id]
    BY <1>1, Zenon
  <2>1. PICK id : id = submit[s].id
    BY Zenon
  <2>2. Over(id)'
    BY <1>1, <2>1, Zenon DEF Over
  <2> QED
    BY <1>4, <2>1, <2>2, Zenon
<1> QED
  BY <1>1, <1>2, <1>3, <1>4, <1>5, <1>6, EndSignals, Zenon

\* An operation that is still queued or running although its task is over has
\* been signalled, unless it was given a token of its own: no interleaving of
\* submitting, timing out, cancelling, trimming and finishing leaves a running
\* operation uninformed.
THEOREM AbandonedOperationsAreSignalled == Spec => []AbandonedOperationSignalled
<1>1. Init => PlaceInv /\ SignalInv
  <2> SUFFICES ASSUME Init PROVE PlaceInv /\ SignalInv
    BY Zenon
  <2>1. /\ \A s \in Submitters : ~Inside(s) /\ submit[s].at = "idle"
        /\ \A w \in Workers : ~Running(w)
        /\ 1..Len(queue) = {}
    BY DEF Init, Inside, Running, Idle
  <2> QED
    BY <2>1, Zenon DEF PlaceInv, IndexInv, SubmittedApart, QueuedApart, RunningApart,
       SignalInv, Attached
<1>2. TypeOK /\ PlaceInv /\ SignalInv /\ [Next]_vars => PlaceInv' /\ SignalInv'
  <2> SUFFICES ASSUME TypeOK, PlaceInv, SignalInv, [Next]_vars PROVE SignalInv'
    BY PlaceStep, Zenon
  <2>1. ASSUME UNCHANGED <<tasks_, token, queue, worker, submit>> PROVE SignalInv'
    <3>1. \A id : Attached(id)' => Attached(id)
      BY <2>1, Zenon DEF Attached, Running
    <3> QED
      BY <2>1, <3>1, MoveSignals, Zenon
  <2>2. ASSUME NEW t \in Threads, EmitUpdate(t) PROVE SignalInv'
    BY <2>1, <2>2, Zenon DEF EmitUpdate
  <2>3. CASE stop \/ Tick \/ UNCHANGED vars
    BY <2>1, <2>3, Zenon DEF stop, Tick, vars
  <2> QED
    BY <2>2, <2>3, SubmitSignals, WorkSignals, CallSignals, Zenon DEF Next
<1>3. TypeOK /\ SignalInv => AbandonedOperationSignalled
  <2> SUFFICES ASSUME TypeOK, SignalInv, NEW op \in LiveOperations, op.attached,
                      op.id \notin DOMAIN tasks_ \/ is_terminal(tasks_[op.id].status)
               PROVE  token[op.id]
    BY Zenon DEF AbandonedOperationSignalled
  <2>1. op.id \in TaskIds /\ Attached(op.id)
    BY PlaceTypes, Zenon DEF LiveOperations, Attached, Running
  <2> QED
    BY <2>1, Zenon DEF SignalInv, Over
<1> QED
  BY <1>1, <1>2, <1>3, TypeCorrect, PTL DEF Spec

-----------------------------------------------------------------------------
(* The lifecycle.  A critical section that settles tasks keeps a record as *)
(* it is, ends a working one, or drops it; it creates none.                *)

Follows(recs, new) ==
  /\ Records(new)
  /\ DOMAIN new \subseteq DOMAIN recs
  /\ \A id \in DOMAIN new : new[id] = recs[id] \/ recs[id].status = "working"

\* Settling in two rounds is settling.
LEMMA FollowsTwice ==
  ASSUME NEW a, NEW b, NEW c, Follows(a, b), Follows(b, c)
  PROVE  Follows(a, c)
  BY Zenon DEF Follows

\* Trimming settles.
LEMMA TrimFollows ==
  ASSUME NEW recs, Records(recs) PROVE Follows(recs, trim_completed(recs))
  BY TrimProperties, Zenon DEF Follows

\* Ending one working record and trimming settles.
LEMMA EndFollows ==
  ASSUME NEW recs, Records(recs), NEW id \in DOMAIN recs, recs[id].status = "working",
         NEW status \in TerminalStatuses, NEW result \in BOOLEAN, NEW failure \in Failures,
         now \in Nat
  PROVE  Follows(recs, trim_completed(
                   [recs EXCEPT ![id] = Ended(@, status, result, failure)]))
<1> DEFINE ended == [recs EXCEPT ![id] = Ended(@, status, result, failure)]
<1>1. Ended(recs[id], status, result, failure) \in TaskRecord
  BY EndedType, Zenon DEF Records
<1>2. Records(ended) /\ DOMAIN ended = DOMAIN recs
  BY <1>1, Zenon DEF Records
<1>3. \A k \in DOMAIN recs : k # id => ended[k] = recs[k]
  BY Zenon DEF Records
<1>4. Follows(recs, ended)
  BY <1>2, <1>3, Zenon DEF Follows
<1>5. Follows(ended, trim_completed(ended))
  BY <1>2, TrimFollows, Zenon
<1> HIDE DEF ended
<1> QED
  BY <1>4, <1>5, FollowsTwice, Zenon DEF ended

\* Refreshing settles: it ends only working tasks.
LEMMA RefreshFollows ==
  ASSUME NEW recs, Records(recs), now \in Nat PROVE Follows(recs, refresh(recs))
<1>1. Follows(recs, Failed(recs))
  BY FailedType, Zenon DEF Follows, Failed, TimedOut
<1>2. Follows(Failed(recs), refresh(recs))
  BY FailedType, TrimFollows, Zenon
<1> QED
  BY <1>1, <1>2, FollowsTwice, Zenon

\* A step that settles the records and creates none is a step of the lifecycle.
LEMMA SettleStep ==
  ASSUME TypeOK, TypeOK', Follows(tasks_, tasks_'), UNCHANGED next_task_index_
  PROVE  Lifecycle!Settle
<1>1. \A id \in TaskIds : Phase(id)' \in Lifecycle!Phases
  <2> TAKE id \in TaskIds
  <2>1. id \in DOMAIN tasks_' => tasks_'[id].failure \in Failures
    BY Zenon DEF TypeOK, TaskRecord
  <2> QED
    BY <2>1, Zenon DEF Phase, Failures, Lifecycle!Phases, Lifecycle!Outcomes
<1>2. ASSUME NEW id \in TaskIds PROVE Phase(id)' \in Lifecycle!MayFollow(Phase(id))
  <2>1. id \in DOMAIN tasks_ => tasks_[id].failure \in Failures
    BY Zenon DEF TypeOK, TaskRecord
  <2>2. CASE id >= next_task_index_
    BY <2>2, Zenon DEF Phase, Lifecycle!MayFollow, Lifecycle!Outcomes
  <2>3. CASE ~(id >= next_task_index_) /\ id \notin DOMAIN tasks_
    BY <2>3, Zenon DEF Phase, Lifecycle!MayFollow, Lifecycle!Outcomes, Follows
  <2>4. CASE /\ ~(id >= next_task_index_) /\ id \in DOMAIN tasks_
             /\ tasks_[id].status = "working"
    <3>1. Phase(id) = "working" /\ Phase(id)' # "unborn"
      BY <2>4, Zenon DEF Phase, TypeOK, TaskRecord, Failures
    <3>2. Phase(id)' \in {"working", "gone"} \cup Lifecycle!Outcomes
      BY <1>1, <3>1, Zenon DEF Lifecycle!Phases
    <3> QED
      BY <3>1, <3>2, Zenon DEF Lifecycle!MayFollow, Lifecycle!Outcomes
  <2>5. CASE /\ ~(id >= next_task_index_) /\ id \in DOMAIN tasks_
             /\ tasks_[id].status # "working"
    <3>1. Phase(id) \in Lifecycle!Outcomes
      BY <2>1, <2>5, Zenon DEF Phase, Failures, Lifecycle!Outcomes
    <3>2. Phase(id)' \in {Phase(id), "gone"}
      BY <2>5, Zenon DEF Phase, Follows
    <3>3. Phase(id) # "working"
      BY <3>1, Zenon DEF Lifecycle!Outcomes
    <3> QED
      BY <3>1, <3>2, <3>3, Zenon DEF Lifecycle!MayFollow
  <2> QED
    BY <2>2, <2>3, <2>4, <2>5, Zenon
<1> QED
  BY <1>1, <1>2, Zenon DEF Lifecycle!Settle
\* What a critical section of a caller, and of a worker that finishes, does to
\* the records.
LEMMA CallFollows ==
  ASSUME TypeOK, NEW c \in Callers, CallerStep(c) PROVE Follows(tasks_, tasks_')
<1>1. Records(tasks_) /\ now \in Nat
  BY TypeOKRecords, Zenon
<1>2. Follows(tasks_, refresh(tasks_))
  BY <1>1, RefreshFollows, Zenon
<1>3. CASE RefreshingCall(c)
  BY <1>2, <1>3, Zenon DEF RefreshingCall
<1>4. ASSUME NEW id \in TaskIds, cancel_task(c, id) PROVE Follows(tasks_, tasks_')
  <2> DEFINE recs == refresh(tasks_)
  <2>1. CASE id \in DOMAIN recs /\ recs[id].status = "working"
    <3>1. tasks_' = trim_completed([recs EXCEPT ![id] =
                      Ended(@, "cancelled", FALSE, "cancelled")])
      BY <1>4, <2>1, Zenon DEF cancel_task
    <3>2. Records(recs)
      BY <1>2, Zenon DEF Follows
    <3>3. "cancelled" \in TerminalStatuses /\ FALSE \in BOOLEAN /\ "cancelled" \in Failures
      BY Zenon DEF TerminalStatuses, Failures
    <3> HIDE DEF recs
    <3>4. Follows(recs, tasks_')
      BY <1>1, <2>1, <3>1, <3>2, <3>3, EndFollows, Zenon
    <3> QED
      BY <1>2, <3>4, FollowsTwice, Zenon DEF recs
  <2>2. CASE ~(id \in DOMAIN recs /\ recs[id].status = "working")
    BY <1>2, <1>4, <2>2, Zenon DEF cancel_task
  <2> QED
    BY <2>1, <2>2, Zenon
<1> QED
  BY <1>3, <1>4, Zenon DEF CallerStep

(* What finish_task writes is a step of the task life cycle.               *)
LEMMA FinishFollows ==
  ASSUME TypeOK, NEW w \in Workers, NEW status \in {"completed", "failed"},
         finish_task(w, status)
  PROVE  Follows(tasks_, tasks_')
<1>1. Records(tasks_) /\ now \in Nat
  BY TypeOKRecords, Zenon
<1> DEFINE id == worker[w].op.id
           failure == IF status = "completed" THEN "none" ELSE "error"
<1>2. CASE MayFinish(id)
  <2>1. tasks_' = trim_completed([tasks_ EXCEPT ![id] =
                    Ended(@, status, status = "completed", failure)])
    BY <1>2, Zenon DEF finish_task, Finish
  <2>2. /\ status \in TerminalStatuses /\ (status = "completed") \in BOOLEAN
        /\ failure \in Failures /\ id \in DOMAIN tasks_ /\ tasks_[id].status = "working"
    BY <1>2, Zenon DEF TerminalStatuses, Failures, MayFinish
  <2> HIDE DEF id, failure
  <2> QED
    BY <1>1, <2>1, <2>2, EndFollows, Zenon
<1>3. CASE ~MayFinish(id)
  BY <1>1, <1>3, Zenon DEF finish_task, Finish, Follows
<1> QED
  BY <1>2, <1>3, Zenon

\* Every step of the processor is a step of the lifecycle or leaves it alone.
LEMMA LifecycleStep ==
  TypeOK /\ TypeOK' /\ [Next]_vars =>
    [Lifecycle!Next]_([id \in TaskIds |-> Phase(id)])
<1> SUFFICES ASSUME TypeOK, TypeOK', [Next]_vars
             PROVE  Lifecycle!Settle \/ \E id \in TaskIds : Lifecycle!Create(id)
  BY Zenon DEF Lifecycle!Next
<1>1. ASSUME Follows(tasks_, tasks_'), UNCHANGED next_task_index_ PROVE Lifecycle!Settle
  BY <1>1, SettleStep, Zenon
<1>2. ASSUME UNCHANGED <<tasks_, next_task_index_>> PROVE Lifecycle!Settle
  <2>1. Follows(tasks_, tasks_')
    BY <1>2, TypeOKRecords, Zenon DEF Follows
  <2> QED
    BY <1>1, <1>2, <2>1, Zenon
<1>3. ASSUME NEW s \in Submitters, NEW ttl \in RequestTtls, InsertTask(s, ttl)
      PROVE  \E id \in TaskIds : Lifecycle!Create(id)
  <2>1. PICK id \in TaskIds : id = next_task_index_
    BY <1>3, TaskProcessorAssumption DEF InsertTask, TypeOK, TaskIds
  <2>2. id \in Nat /\ next_task_index_' = id + 1 /\ id \notin DOMAIN tasks_
    BY <1>3, <2>1, TaskProcessorAssumption DEF InsertTask, TypeOK, TaskIds
  <2>3. /\ DOMAIN tasks_' = DOMAIN tasks_ \cup {id}
        /\ tasks_'[id].status = "working"
        /\ \A k \in DOMAIN tasks_ : tasks_'[k] = tasks_[k]
    BY <1>3, <2>1, <2>2, Zenon DEF InsertTask, make_task_id
  <2>4. Phase(id) = "unborn" /\ Phase(id)' = "working"
    BY <2>1, <2>2, <2>3 DEF Phase
  <2>5. \A k \in TaskIds : k # id => Phase(k)' = Phase(k)
    BY <2>1, <2>2, <2>3, TaskProcessorAssumption DEF Phase, TaskIds
  <2>6. Lifecycle!Create(id)
    BY <2>4, <2>5, Zenon DEF Lifecycle!Create
  <2> QED
    BY <2>6, Zenon
<1>4. ASSUME NEW s \in Submitters, EraseRejected(s) PROVE Lifecycle!Settle
  <2>1. Follows(tasks_, tasks_')
    BY <1>4, TypeOKRecords, Zenon DEF EraseRejected, Keep, Follows, Records
  <2> QED
    BY <1>1, <1>4, <2>1, Zenon DEF EraseRejected
<1>5. ASSUME NEW s \in Submitters, FetchToken(s) \/ Enqueue(s) \/ EnqueueFails(s)
      PROVE  Lifecycle!Settle
  BY <1>2, <1>5, Zenon DEF FetchToken, Enqueue, EnqueueFails
<1>6. ASSUME NEW w \in Workers, WorkerStep(w) PROVE Lifecycle!Settle
  <2>1. CASE StartOperation(w)
    BY <1>2, <2>1, Zenon DEF StartOperation
  <2>2. ASSUME NEW status \in {"completed", "failed"}, finish_task(w, status)
        PROVE  Lifecycle!Settle
    BY <1>1, <2>2, FinishFollows, Zenon DEF finish_task
  <2> QED
    BY <1>6, <2>1, <2>2, Zenon DEF WorkerStep
<1>7. ASSUME NEW c \in Callers, CallerStep(c) PROVE Lifecycle!Settle
  BY <1>1, <1>7, CallFollows, Zenon DEF CallerStep, RefreshingCall, cancel_task
<1>8. ASSUME NEW t \in Threads, EmitUpdate(t) PROVE Lifecycle!Settle
  BY <1>2, <1>8, Zenon DEF EmitUpdate
<1>9. CASE stop \/ Tick \/ UNCHANGED vars
  BY <1>2, <1>9, Zenon DEF stop, Tick, vars
<1> QED
  BY <1>3, <1>4, <1>5, <1>6, <1>7, <1>8, <1>9, Zenon DEF Next, SubmitterStep

\* The processor implements the lifecycle promised to clients: whatever threads
\* submit, finish, time out, cancel and trim, a task is created once, ends once
\* and keeps its outcome until it is forgotten.
THEOREM ProcessorImplementsLifecycle == Spec => ImplementsLifecycle
<1>1. Init => Lifecycle!Init
  BY TaskProcessorAssumption DEF Init, Lifecycle!Init, Phase, TaskIds
<1>2. TypeOK /\ TypeOK' /\ [Next]_vars =>
        [Lifecycle!Next]_([id \in TaskIds |-> Phase(id)])
  BY LifecycleStep, Zenon
<1> QED
  BY <1>1, <1>2, TypeCorrect, PTL DEF Spec, ImplementsLifecycle, Lifecycle!Spec
-----------------------------------------------------------------------------
(* Retention.  A task that was working before a critical section and is    *)
(* dropped in it has ended in it, and its end is among the updates.        *)

\* A refresh drops a working task only after it has timed out.
LEMMA RefreshDrops ==
  ASSUME NEW recs, Records(recs), now \in Nat, NEW id \in DOMAIN recs,
         recs[id].status = "working",
         id \notin DOMAIN refresh(recs) \/ refresh(recs)[id].status # "working"
  PROVE  id \in TimedOut(recs)
<1>1. Records(Failed(recs)) /\ refresh(recs) = trim_completed(Failed(recs))
  BY FailedType, Zenon
<1>2. id \in DOMAIN Failed(recs) /\ Failed(recs)[id].status # "working"
  <2>1. id \in DOMAIN Failed(recs)
    BY Zenon DEF Failed
  <2>2. CASE id \in DOMAIN refresh(recs)
    BY <1>1, <2>1, <2>2, TrimProperties
  <2>3. CASE id \notin DOMAIN refresh(recs)
    <3>1. id \in Terminal(Failed(recs))
      BY <1>1, <2>1, <2>3, TrimProperties, Zenon
    <3> QED
      BY <2>1, <3>1, Zenon DEF Terminal, is_terminal, TerminalStatuses
  <2> QED
    BY <2>2, <2>3, Zenon
<1> QED
  BY <1>2, Zenon DEF Failed

\* Ending one record and trimming drops that record or terminal ones.
LEMMA EndDrops ==
  ASSUME NEW recs, Records(recs), NEW id \in DOMAIN recs,
         NEW status \in TerminalStatuses, NEW result \in BOOLEAN, NEW failure \in Failures,
         now \in Nat, NEW k \in DOMAIN recs, recs[k].status = "working",
         k \notin DOMAIN trim_completed(
                      [recs EXCEPT ![id] = Ended(@, status, result, failure)])
  PROVE  k = id
<1> DEFINE ended == [recs EXCEPT ![id] = Ended(@, status, result, failure)]
<1>1. Ended(recs[id], status, result, failure) \in TaskRecord
  BY EndedType DEF Records
<1>2. Records(ended) /\ DOMAIN ended = DOMAIN recs
  BY <1>1, Zenon DEF Records
<1>3. k # id => ended[k] = recs[k]
  BY Zenon DEF Records
<1> HIDE DEF ended
<1>4. k \in Terminal(ended)
  BY <1>2, TrimProperties, Zenon DEF ended
<1> QED
  BY <1>3, <1>4, Zenon DEF Terminal, is_terminal, TerminalStatuses

\* Retention never drops a running task in silence: a working task leaves the
\* table only when the executor refused it, or when it ended in that step and
\* its end is on the way to the hooks.
THEOREM NothingDisappears == Spec => NoSilentDisappearance
<1> DEFINE Told(id) == \E t \in Threads, status \in TerminalStatuses :
                         [id |-> id, status |-> status] \in outbox'[t]
           Rejected(id) == \E s \in Submitters : submit[s] = [at |-> "rejected", id |-> id]
<1>1. ASSUME TypeOK, [Next]_vars, NEW id \in DOMAIN tasks_,
             tasks_[id].status = "working", id \notin DOMAIN tasks_'
      PROVE  Rejected(id) \/ Told(id)
  <2>1. Records(tasks_) /\ now \in Nat /\ outbox \in [Threads -> SUBSET Updates]
    BY <1>1, TypeOKRecords, Zenon DEF TypeOK
  <2>2. CASE UNCHANGED tasks_
    BY <1>1, <2>2, Zenon
  <2>3. ASSUME NEW s \in Submitters, SubmitterStep(s) PROVE Rejected(id)
    <3>1. ASSUME NEW ttl \in RequestTtls, InsertTask(s, ttl) PROVE FALSE
      BY <1>1, <3>1, Zenon DEF InsertTask
    <3>2. CASE EraseRejected(s)
      <4>1. id = submit[s].id /\ submit[s].at = "rejected"
        BY <1>1, <3>2, Zenon DEF EraseRejected, Keep
      <4>2. submit[s] \in {Idle} \cup [at : {"inserted", "rejected"}, id : TaskIds]
              \cup [at : {"fetched"}, id : TaskIds, attached : BOOLEAN]
        BY <1>1, Zenon DEF TypeOK
      <4>3. submit[s] = [at |-> "rejected", id |-> id]
        BY <4>1, <4>2 DEF Idle
      <4> QED
        BY <4>3, Zenon
    <3> QED
      BY <1>1, <2>3, <3>1, <3>2, Zenon DEF SubmitterStep, FetchToken, Enqueue, EnqueueFails
  <2>4. ASSUME NEW w \in Workers, WorkerStep(w) PROVE Told(id)
    <3>1. ~StartOperation(w)
      BY <1>1, Zenon DEF StartOperation
    <3>2. PICK status \in {"completed", "failed"} : finish_task(w, status)
      BY <2>4, <3>1, Zenon DEF WorkerStep
    <3> DEFINE k == worker[w].op.id
               failure == IF status = "completed" THEN "none" ELSE "error"
    <3>3. MayFinish(k)
      BY <1>1, <3>2, Zenon DEF finish_task, Finish
    <3>4. /\ tasks_' = trim_completed([tasks_ EXCEPT ![k] =
                         Ended(@, status, status = "completed", failure)])
          /\ outbox' = [outbox EXCEPT ![w] = {[id |-> k, status |-> status]}]
      BY <3>2, <3>3, Zenon DEF finish_task, Finish
    <3>5. /\ status \in TerminalStatuses /\ (status = "completed") \in BOOLEAN
          /\ failure \in Failures /\ k \in DOMAIN tasks_
      BY <3>3, Zenon DEF TerminalStatuses, Failures, MayFinish
    <3> HIDE DEF k, failure
    <3>6. k = id
      BY <1>1, <2>1, <3>4, <3>5, EndDrops, Zenon
    <3>7. w \in Threads
      BY Zenon DEF Threads
    <3>8. [id |-> id, status |-> status] \in outbox'[w]
      BY <2>1, <3>4, <3>6, <3>7, Zenon
    <3> QED
      BY <3>5, <3>7, <3>8, Zenon
  <2>5. ASSUME NEW c \in Callers, CallerStep(c) PROVE Told(id)
    <3>1. c \in Threads /\ "failed" \in TerminalStatuses /\ "cancelled" \in TerminalStatuses
      BY Zenon DEF Threads, TerminalStatuses
    <3>2. ASSUME id \in TimedOut(tasks_), RefreshUpdates(tasks_) \subseteq outbox'[c]
          PROVE  Told(id)
      BY <3>1, <3>2, Zenon DEF RefreshUpdates
    <3>3. CASE RefreshingCall(c)
      <4>1. id \in TimedOut(tasks_)
        BY <1>1, <2>1, <3>3, RefreshDrops, Zenon DEF RefreshingCall
      <4> QED
        BY <2>1, <3>1, <3>2, <3>3, <4>1, Zenon DEF RefreshingCall
    <3>4. ASSUME NEW k \in TaskIds, cancel_task(c, k) PROVE Told(id)
      <4> DEFINE recs == refresh(tasks_)
                 ending == k \in DOMAIN recs /\ recs[k].status = "working"
      <4>1. /\ outbox'[c] = RefreshUpdates(tasks_) \cup
                  (IF ending THEN {[id |-> k, status |-> "cancelled"]} ELSE {})
            /\ tasks_' = IF ending
                         THEN trim_completed([recs EXCEPT ![k] =
                                Ended(@, "cancelled", FALSE, "cancelled")])
                         ELSE recs
        BY <2>1, <3>1, <3>4, Zenon DEF cancel_task
      <4>2. CASE id \notin DOMAIN recs \/ recs[id].status # "working"
        <5>1. id \in TimedOut(tasks_)
          BY <1>1, <2>1, <4>2, RefreshDrops, Zenon
        <5> QED
          BY <3>2, <4>1, <5>1, Zenon
      <4>3. CASE id \in DOMAIN recs /\ recs[id].status = "working"
        <5>1. Records(recs) /\ FALSE \in BOOLEAN /\ "cancelled" \in Failures
          BY <2>1, RefreshType, Zenon DEF Failures
        <5>2. ending
          BY <1>1, <4>1, <4>3, Zenon
        <5> HIDE DEF recs
        <5>3. id = k
          BY <1>1, <2>1, <3>1, <4>1, <4>3, <5>1, <5>2, EndDrops, Zenon
        <5> QED
          BY <3>1, <4>1, <5>2, <5>3, Zenon
      <4> QED
        BY <4>2, <4>3, Zenon
    <3> QED
      BY <2>5, <3>3, <3>4, Zenon DEF CallerStep
  <2> QED
    BY <1>1, <2>2, <2>3, <2>4, <2>5, Zenon DEF Next, EmitUpdate, stop, Tick, vars
<1>2. TypeOK /\ [Next]_vars =>
        [\A id \in DOMAIN tasks_ :
           tasks_[id].status = "working" /\ id \notin DOMAIN tasks_' =>
             \/ \E s \in Submitters : submit[s] = [at |-> "rejected", id |-> id]
             \/ \E t \in Threads, status \in TerminalStatuses :
                  [id |-> id, status |-> status] \in outbox'[t]]_vars
  BY <1>1, Zenon
<1> QED
  BY <1>2, TypeCorrect, PTL DEF Spec, NoSilentDisappearance

-----------------------------------------------------------------------------
(* The views of a task agree.  Updates are collected under the lock and    *)
(* emitted after it by whichever thread collected them, so the invariant   *)
(* speaks of what is pending with any thread and of what was emitted.      *)

Pending(t, id, status) == [id |-> id, status |-> status] \in outbox[t]
SameKind(a, b) == is_terminal(a) <=> is_terminal(b)

(* A start and an end are each reported by one thread, once.               *)
OnePending ==
  \A t, r \in Threads : \A id \in TaskIds : \A a, b \in Statuses :
    Pending(t, id, a) /\ Pending(r, id, b) /\ SameKind(a, b) => t = r /\ a = b

NotTold ==
  \A t \in Threads : \A id \in TaskIds : \A a \in Statuses : Pending(t, id, a) =>
    \A i \in 1..Len(hookLog[id]) : ~SameKind(a, hookLog[id][i])

ToldOnce ==
  \A id \in TaskIds : \A i, j \in 1..Len(hookLog[id]) :
    SameKind(hookLog[id][i], hookLog[id][j]) => i = j

OnceInv == OnePending /\ NotTold /\ ToldOnce

(* The end that is reported is the one the record shows.                   *)
TruthInv ==
  /\ \A t \in Threads : \A id \in DOMAIN tasks_ : \A a \in TerminalStatuses :
       Pending(t, id, a) => tasks_[id].status = a
  /\ \A id \in DOMAIN tasks_ : \A i \in 1..Len(hookLog[id]) :
       is_terminal(hookLog[id][i]) => tasks_[id].status = hookLog[id][i]

(* Nothing is told of a task that does not exist yet, and no start of one  *)
(* that is not queued yet.                                                 *)
QuietInv ==
  /\ \A id \in TaskIds : id >= next_task_index_ =>
       /\ Len(hookLog[id]) = 0
       /\ \A t \in Threads : \A a \in Statuses : ~Pending(t, id, a)
  /\ \A s \in Submitters : Inside(s) =>
       /\ \A i \in 1..Len(hookLog[submit[s].id]) : hookLog[submit[s].id][i] # "working"
       /\ \A t \in Threads : ~Pending(t, submit[s].id, "working")

RecordInv == \A id \in DOMAIN tasks_ : Consistent(tasks_[id])

ReportInv == OnceInv /\ TruthInv /\ QuietInv /\ RecordInv

\* A start is not an end.
LEMMA WorkingIsNoEnd ==
  /\ ~is_terminal("working") /\ "working" \in Statuses
  /\ \A a \in Statuses : a = "working" \/ a \in TerminalStatuses
  /\ \A a : is_terminal(a) <=> a \in TerminalStatuses
  /\ TerminalStatuses \subseteq Statuses
  BY Zenon DEF is_terminal, TerminalStatuses, Statuses

\* A consistent record stays so as time passes.
LEMMA ConsistentLater ==
  ASSUME now \in Nat, now' \in Nat, now <= now', NEW r, Consistent(r)
  PROVE  (\/ r.status = "working" /\ r.terminal_at = NotTerminal /\ ~r.result /\ r.failure = "none"
          \/ /\ r.terminal_at \in 0..now'
             /\ \/ r.status = "completed" /\ r.result /\ r.failure = "none"
                \/ r.status = "failed" /\ ~r.result /\ r.failure \in {"error", "timed_out"}
                \/ r.status = "cancelled" /\ ~r.result /\ r.failure = "cancelled")
<1>1. r.terminal_at \in 0..now => r.terminal_at \in 0..now'
  OBVIOUS
<1> QED
  BY <1>1, Zenon DEF Consistent

\* A step that reports nothing and ends nothing.
LEMMA ReportsStay ==
  ASSUME TypeOK, ReportInv, UNCHANGED <<outbox, hookLog, next_task_index_>>,
         now' \in Nat, now <= now',
         DOMAIN tasks_' \subseteq DOMAIN tasks_,
         \A id \in DOMAIN tasks_' : tasks_'[id] = tasks_[id],
         \A s \in Submitters : Inside(s)' => Inside(s) /\ submit'[s].id = submit[s].id
  PROVE  ReportInv'
<1>1. OnceInv'
  <2>1. OnePending'
    BY DEF ReportInv, OnceInv, OnePending, Pending
  <2>2. NotTold'
    BY Zenon DEF ReportInv, OnceInv, NotTold, Pending
  <2>3. ToldOnce'
    BY Zenon DEF ReportInv, OnceInv, ToldOnce
  <2> QED
    BY <2>1, <2>2, <2>3, Zenon DEF OnceInv
<1>2. TruthInv'
  BY DEF ReportInv, TruthInv, Pending
<1>3. QuietInv'
  <2>1. \A id \in TaskIds : id >= next_task_index_ =>
          /\ Len(hookLog'[id]) = 0
          /\ \A t \in Threads : \A a \in Statuses : ~Pending(t, id, a)'
    BY Zenon DEF ReportInv, QuietInv, Pending
  <2>2. \A s \in Submitters : Inside(s)' =>
          /\ \A i \in 1..Len(hookLog[submit[s].id]) : hookLog[submit[s].id][i] # "working"
          /\ \A t \in Threads : ~Pending(t, submit[s].id, "working")
    BY Zenon DEF ReportInv, QuietInv
  <2>3. \A s \in Submitters : Inside(s)' =>
          /\ \A i \in 1..Len(hookLog'[submit'[s].id]) : hookLog'[submit'[s].id][i] # "working"
          /\ \A t \in Threads : ~Pending(t, submit[s].id, "working")'
    BY <2>2, Zenon DEF Pending
  <2> QED
    BY <2>1, <2>3, Zenon DEF QuietInv
<1>4. RecordInv'
  <2>1. now \in Nat
    BY TypeOKRecords, Zenon
  <2>2. \A id \in DOMAIN tasks_' : Consistent(tasks_[id])
    BY Zenon DEF ReportInv, RecordInv
  <2> QED
    BY <2>1, <2>2, ConsistentLater DEF RecordInv, Consistent
<1> QED
  BY <1>1, <1>2, <1>3, <1>4, Zenon DEF ReportInv

\* A new task: nothing has been told of it.
LEMMA InsertReports ==
  ASSUME TypeOK, ReportInv, NEW s \in Submitters, NEW ttl \in RequestTtls, InsertTask(s, ttl)
  PROVE  ReportInv'
<1>1. PICK n \in Nat : n = next_task_index_ /\ n \in TaskIds
  BY PlaceTypes, TaskProcessorAssumption DEF InsertTask, TypeOK, TaskIds
<1>2. /\ UNCHANGED <<outbox, hookLog, now>> /\ next_task_index_' = n + 1
      /\ DOMAIN tasks_' = DOMAIN tasks_ \cup {n}
      /\ \A id \in DOMAIN tasks_ : id # n => tasks_'[id] = tasks_[id]
      /\ submit'[s] = [at |-> "inserted", id |-> n]
      /\ \A r \in Submitters \ {s} : submit'[r] = submit[r]
  BY <1>1, Zenon DEF InsertTask, make_task_id, TypeOK
<1>3. Consistent(tasks_'[n])
  <2>1. tasks_'[n] = [status |-> "working", started_at |-> now,
                      timeout |-> IF ttl = NoTtl THEN DefaultTimeout ELSE ttl,
                      terminal_at |-> NotTerminal, result |-> FALSE, failure |-> "none"]
    BY <1>1, Zenon DEF InsertTask, make_task_id
  <2> QED
    BY <2>1 DEF Consistent
<1>4. /\ Len(hookLog[n]) = 0
      /\ \A t \in Threads : \A a \in Statuses : ~Pending(t, n, a)
  BY <1>1 DEF ReportInv, QuietInv
<1>5. OnceInv'
  <2>1. OnePending'
    BY <1>2 DEF ReportInv, OnceInv, OnePending, Pending
  <2>2. NotTold'
    BY <1>2, Zenon DEF ReportInv, OnceInv, NotTold, Pending
  <2>3. ToldOnce'
    BY <1>2, Zenon DEF ReportInv, OnceInv, ToldOnce
  <2> QED
    BY <2>1, <2>2, <2>3, ZenonT(30) DEF OnceInv
<1>6. TruthInv'
  <2>1. ASSUME NEW t \in Threads, NEW id \in DOMAIN tasks_', NEW a \in TerminalStatuses,
               Pending(t, id, a)
        PROVE  tasks_'[id].status = a
    BY <1>2, <1>4, <2>1, WorkingIsNoEnd DEF ReportInv, TruthInv
  <2>2. ASSUME NEW id \in DOMAIN tasks_', NEW i \in 1..Len(hookLog[id]),
               is_terminal(hookLog[id][i])
        PROVE  tasks_'[id].status = hookLog[id][i]
    BY <1>2, <1>4, <2>2 DEF ReportInv, TruthInv
  <2> QED
    BY <1>2, <2>1, <2>2, Zenon DEF TruthInv, Pending
<1>7. QuietInv'
  <2>1. ASSUME NEW id \in TaskIds, id >= next_task_index_'
        PROVE  /\ Len(hookLog'[id]) = 0
               /\ \A t \in Threads : \A a \in Statuses : ~Pending(t, id, a)'
    <3>1. id >= next_task_index_
      BY <1>1, <1>2, <2>1, TaskProcessorAssumption DEF TaskIds
    <3> QED
      BY <1>2, <3>1, Zenon DEF ReportInv, QuietInv, Pending
  <2>2. ASSUME NEW r \in Submitters, Inside(r)', NEW id, id = submit'[r].id
        PROVE  /\ \A i \in 1..Len(hookLog[id]) : hookLog[id][i] # "working"
               /\ \A t \in Threads : ~Pending(t, id, "working")
    <3>1. CASE r = s
      BY <1>2, <1>4, <2>2, <3>1, WorkingIsNoEnd
    <3>2. CASE r # s
      <4>1. Inside(r) /\ id = submit[r].id
        BY <1>2, <2>2, <3>2, Zenon DEF Inside
      <4> QED
        BY <4>1, Zenon DEF ReportInv, QuietInv
    <3> QED
      BY <3>1, <3>2, Zenon
  <2>3. \A r \in Submitters : Inside(r)' =>
          /\ \A i \in 1..Len(hookLog'[submit'[r].id]) : hookLog'[submit'[r].id][i] # "working"
          /\ \A t \in Threads : ~Pending(t, submit[r].id, "working")'
    BY <1>2, <2>2 DEF Pending
  <2> QED
    BY <2>1, <2>3, Zenon DEF QuietInv
<1>8. RecordInv'
  BY <1>2, <1>3 DEF ReportInv, RecordInv, Consistent
<1> QED
  BY <1>5, <1>6, <1>7, <1>8, Zenon DEF ReportInv

\* Queueing a task makes its submitter report the start, once.
LEMMA EnqueueReports ==
  ASSUME TypeOK, PlaceInv, ReportInv, NEW s \in Submitters, Enqueue(s)
  PROVE  ReportInv'
<1>1. PICK k \in TaskIds : k = submit[s].id /\ Inside(s)
  BY PlaceTypes, Zenon DEF Enqueue
<1>2. /\ UNCHANGED <<tasks_, hookLog, now, next_task_index_>>
      /\ outbox' = [outbox EXCEPT ![s] = {[id |-> k, status |-> "working"]}]
      /\ submit'[s] = Idle /\ \A r \in Submitters \ {s} : submit'[r] = submit[r]
  BY <1>1, Zenon DEF Enqueue, TypeOK
<1>3. s \in Threads /\ DOMAIN outbox = Threads
  BY Zenon DEF Threads, TypeOK
<1>4. ASSUME NEW t \in Threads, NEW id, NEW a, Pending(t, id, a)'
      PROVE  \/ t = s /\ id = k /\ a = "working"
             \/ t # s /\ Pending(t, id, a)
  BY <1>2, <1>3, <1>4, Zenon DEF Pending
<1>5. /\ \A i \in 1..Len(hookLog[k]) : hookLog[k][i] # "working"
      /\ \A t \in Threads : ~Pending(t, k, "working")
  BY <1>1, Zenon DEF ReportInv, QuietInv
<1>6. \A i \in 1..Len(hookLog[k]) : is_terminal(hookLog[k][i])
  <2>1. hookLog[k] \in Seq(Statuses)
    BY Zenon DEF TypeOK
  <2>2. \A i \in 1..Len(hookLog[k]) : hookLog[k][i] \in Statuses
    BY <2>1
  <2> QED
    BY <1>5, <2>2, WorkingIsNoEnd, Zenon
<1>7. OnceInv'
  <2>1. ASSUME NEW t \in Threads, NEW r \in Threads, NEW id \in TaskIds,
               NEW a \in Statuses, NEW b \in Statuses,
               Pending(t, id, a)', Pending(r, id, b)', SameKind(a, b)
        PROVE  t = r /\ a = b
    <3>1. ASSUME NEW q \in Threads, NEW c \in Statuses, Pending(q, k, c),
                 SameKind(c, "working")
          PROVE  FALSE
      BY <1>5, <3>1, WorkingIsNoEnd, Zenon DEF SameKind
    <3>2. CASE t = s /\ r = s
      BY <1>4, <2>1, <3>2, Zenon
    <3>3. CASE t = s /\ r # s
      BY <1>4, <2>1, <3>1, <3>3, Zenon DEF SameKind
    <3>4. CASE t # s /\ r = s
      BY <1>4, <2>1, <3>1, <3>4, Zenon DEF SameKind
    <3>5. CASE t # s /\ r # s
      BY <1>4, <2>1, <3>5 DEF ReportInv, OnceInv, OnePending
    <3> QED
      BY <3>2, <3>3, <3>4, <3>5, Zenon
  <2>2. ASSUME NEW t \in Threads, NEW id \in TaskIds, NEW a \in Statuses,
               Pending(t, id, a)', NEW i \in 1..Len(hookLog[id])
        PROVE  ~SameKind(a, hookLog[id][i])
    <3>1. CASE t = s
      BY <1>4, <1>6, <2>2, <3>1, WorkingIsNoEnd, Zenon DEF SameKind
    <3>2. CASE t # s
      BY <1>4, <2>2, <3>2, Zenon DEF ReportInv, OnceInv, NotTold
    <3> QED
      BY <3>1, <3>2, Zenon
  <2>3. \A id \in TaskIds : \A i, j \in 1..Len(hookLog'[id]) :
          SameKind(hookLog'[id][i], hookLog'[id][j]) => i = j
    BY <1>2, Zenon DEF ReportInv, OnceInv, ToldOnce
  <2> QED
    BY <1>2, <2>1, <2>2, <2>3, Zenon DEF OnceInv, OnePending, NotTold, ToldOnce
<1>8. TruthInv'
  <2>1. ASSUME NEW t \in Threads, NEW id \in DOMAIN tasks_, NEW a \in TerminalStatuses,
               Pending(t, id, a)'
        PROVE  tasks_[id].status = a
    <3>1. a # "working"
      BY Zenon DEF TerminalStatuses
    <3> QED
      BY <1>4, <2>1, <3>1, Zenon DEF ReportInv, TruthInv
  <2> QED
    BY <1>2, <2>1, Zenon DEF ReportInv, TruthInv
<1>9. QuietInv'
  <2>1. k < next_task_index_ /\ k \in Nat /\ next_task_index_ \in Nat
    BY <1>1, PlaceTypes, Zenon DEF PlaceInv, IndexInv
  <2>2. ASSUME NEW id \in TaskIds, id >= next_task_index_
        PROVE  /\ Len(hookLog[id]) = 0
               /\ \A t \in Threads : \A a \in Statuses : ~Pending(t, id, a)'
    <3>1. id # k
      BY <2>1, <2>2
    <3> QED
      BY <1>4, <2>2, <3>1, Zenon DEF ReportInv, QuietInv
  <2>3. ASSUME NEW r \in Submitters, Inside(r)', NEW id, id = submit'[r].id
        PROVE  /\ \A i \in 1..Len(hookLog[id]) : hookLog[id][i] # "working"
               /\ \A t \in Threads : ~Pending(t, id, "working")'
    <3>1. r # s /\ Inside(r) /\ id = submit[r].id
      BY <1>2, <2>3, Zenon DEF Inside
    <3>2. id # k
      BY <1>1, <3>1, Zenon DEF PlaceInv, SubmittedApart
    <3> QED
      BY <1>4, <3>1, <3>2, Zenon DEF ReportInv, QuietInv
  <2>4. \A r \in Submitters : Inside(r)' =>
          /\ \A i \in 1..Len(hookLog'[submit'[r].id]) : hookLog'[submit'[r].id][i] # "working"
          /\ \A t \in Threads : ~Pending(t, submit[r].id, "working")'
    BY <1>2, <2>3, Zenon DEF Pending
  <2> QED
    BY <1>2, <2>2, <2>4, Zenon DEF QuietInv
<1>10. RecordInv'
  BY <1>2 DEF ReportInv, RecordInv, Consistent
<1> QED
  BY <1>7, <1>8, <1>9, <1>10, Zenon DEF ReportInv

\* A thread that ends tasks collects the first report of each end.
LEMMA SettleReports ==
  ASSUME TypeOK, ReportInv, NEW t \in Threads, NEW ended, Settles(tasks_', ended),
         outbox' = [outbox EXCEPT ![t] = ended],
         UNCHANGED <<hookLog, now, next_task_index_, submit>>
  PROVE  ReportInv'
<1>1. \A u \in ended : /\ u \in Updates /\ u.status \in TerminalStatuses
                       /\ u.id \in DOMAIN tasks_ /\ tasks_[u.id].status = "working"
  BY Zenon DEF Settles
<1>2. ASSUME NEW r \in Threads, NEW id, NEW a, Pending(r, id, a)'
      PROVE  \/ /\ r = t /\ [id |-> id, status |-> a] \in ended
                /\ id \in DOMAIN tasks_ /\ tasks_[id].status = "working"
                /\ a \in TerminalStatuses
             \/ r # t /\ Pending(r, id, a)
  <2>1. outbox'[r] = IF r = t THEN ended ELSE outbox[r]
    BY Zenon DEF TypeOK
  <2>2. CASE r = t
    <3>1. [id |-> id, status |-> a] \in ended
      BY <1>2, <2>1, <2>2, Zenon DEF Pending
    <3> QED
      BY <1>1, <2>2, <3>1, Zenon
  <2>3. CASE r # t
    BY <1>2, <2>1, <2>3, Zenon DEF Pending
  <2> QED
    BY <2>2, <2>3, Zenon
<1>3. ASSUME NEW id \in DOMAIN tasks_, tasks_[id].status = "working"
      PROVE  /\ \A r \in Threads : \A a \in TerminalStatuses : ~Pending(r, id, a)
             /\ \A i \in 1..Len(hookLog[id]) : ~is_terminal(hookLog[id][i])
  BY <1>3, WorkingIsNoEnd, Zenon DEF ReportInv, TruthInv
<1>4. DOMAIN tasks_ \subseteq TaskIds
  BY TypeOKRecords, Zenon DEF Records
<1>5. OnceInv'
  <2>1. ASSUME NEW q \in Threads, NEW r \in Threads, NEW id \in TaskIds,
               NEW a \in Statuses, NEW b \in Statuses,
               Pending(q, id, a)', Pending(r, id, b)', SameKind(a, b)
        PROVE  q = r /\ a = b
    <3>1. CASE q = t /\ r = t
      <4>1. [id |-> id, status |-> a] \in ended /\ [id |-> id, status |-> b] \in ended
        BY <1>2, <2>1, <3>1, ZenonT(30)
      <4>2. [id |-> id, status |-> a] = [id |-> id, status |-> b]
        BY <4>1 DEF Settles
      <4> QED
        BY <3>1, <4>2, Zenon
    <3>2. ASSUME NEW p \in Threads, p # t, NEW c \in Statuses, Pending(p, id, c)',
                 NEW d \in Statuses, Pending(t, id, d)', SameKind(c, d)
          PROVE  FALSE
      <4>1. /\ Pending(p, id, c) /\ id \in DOMAIN tasks_ /\ tasks_[id].status = "working"
            /\ d \in TerminalStatuses
        BY <1>2, <3>2, Zenon
      <4>2. c \in TerminalStatuses
        BY <3>2, <4>1, WorkingIsNoEnd, Zenon DEF SameKind
      <4> QED
        BY <1>3, <4>1, <4>2, Zenon
    <3>3. CASE q = t /\ r # t
      BY <2>1, <3>2, <3>3, Zenon DEF SameKind
    <3>4. CASE q # t /\ r = t
      BY <2>1, <3>2, <3>4, Zenon
    <3>5. CASE q # t /\ r # t
      <4>1. Pending(q, id, a) /\ Pending(r, id, b)
        BY <1>2, <2>1, <3>5, Zenon
      <4> QED
        BY <2>1, <4>1, Zenon DEF ReportInv, OnceInv, OnePending
    <3> QED
      BY <3>1, <3>3, <3>4, <3>5, Zenon
  <2>2. ASSUME NEW r \in Threads, NEW id \in TaskIds, NEW a \in Statuses,
               Pending(r, id, a)', NEW i \in 1..Len(hookLog[id])
        PROVE  ~SameKind(a, hookLog[id][i])
    <3>1. CASE r = t
      BY <1>2, <1>3, <2>2, <3>1, WorkingIsNoEnd, Zenon DEF SameKind
    <3>2. CASE r # t
      BY <1>2, <2>2, <3>2, Zenon DEF ReportInv, OnceInv, NotTold
    <3> QED
      BY <3>1, <3>2, Zenon
  <2>3. \A id \in TaskIds : \A i, j \in 1..Len(hookLog'[id]) :
          SameKind(hookLog'[id][i], hookLog'[id][j]) => i = j
    BY Zenon DEF ReportInv, OnceInv, ToldOnce
  <2> QED
    BY <2>1, <2>2, <2>3, Zenon DEF OnceInv, OnePending, NotTold, ToldOnce
<1>6. ASSUME NEW id \in DOMAIN tasks_'
      PROVE  \/ tasks_'[id] = tasks_[id] /\ \A u \in ended : u.id # id
             \/ \E u \in ended : u.id = id /\ tasks_'[id].status = u.status
                                 /\ Consistent(tasks_'[id])
  BY Zenon DEF Settles
<1>7. DOMAIN tasks_' \subseteq DOMAIN tasks_ /\ \A u, v \in ended : u.id = v.id => u = v
  BY Zenon DEF Settles
<1>8. TruthInv'
  <2>1. ASSUME NEW r \in Threads, NEW id \in DOMAIN tasks_', NEW a \in TerminalStatuses,
               Pending(r, id, a)'
        PROVE  tasks_'[id].status = a
    <3>1. CASE r = t
      <4>1. PICK u \in ended : u = [id |-> id, status |-> a]
        BY <1>2, <2>1, <3>1, Zenon
      <4>2. PICK v \in ended : v.id = id /\ tasks_'[id].status = v.status
        BY <1>6, <4>1, Zenon
      <4> QED
        BY <1>7, <4>1, <4>2
    <3>2. CASE r # t
      <4>1. Pending(r, id, a) /\ tasks_[id].status = a
        BY <1>2, <1>7, <2>1, <3>2, Zenon DEF ReportInv, TruthInv
      <4>2. a # "working"
        BY Zenon DEF TerminalStatuses
      <4>3. tasks_'[id] = tasks_[id]
        BY <1>1, <1>6, <4>1, <4>2
      <4> QED
        BY <4>1, <4>3, Zenon
    <3> QED
      BY <3>1, <3>2, ZenonT(30)
  <2>2. ASSUME NEW id \in DOMAIN tasks_', NEW i \in 1..Len(hookLog[id]),
               is_terminal(hookLog[id][i])
        PROVE  tasks_'[id].status = hookLog[id][i]
    <3>1. tasks_[id].status = hookLog[id][i]
      BY <1>7, <2>2, Zenon DEF ReportInv, TruthInv
    <3>2. tasks_[id].status # "working"
      BY <2>2, <3>1, WorkingIsNoEnd, Zenon
    <3>3. tasks_'[id] = tasks_[id]
      BY <1>1, <1>6, <3>2
    <3> QED
      BY <3>1, <3>3, Zenon
  <2> QED
    BY <2>1, <2>2, Zenon DEF TruthInv
<1>9. QuietInv'
  <2>1. \A id \in DOMAIN tasks_ : ~(id >= next_task_index_)
    BY DEF TypeOK
  <2>2. ASSUME NEW id \in TaskIds, id >= next_task_index_
        PROVE  /\ Len(hookLog[id]) = 0
               /\ \A r \in Threads : \A a \in Statuses : ~Pending(r, id, a)'
    BY <1>2, <2>1, <2>2, Zenon DEF ReportInv, QuietInv
  <2>3. "working" \notin TerminalStatuses
    BY Zenon DEF TerminalStatuses
  <2>4. ASSUME NEW s \in Submitters, Inside(s), NEW id, id = submit[s].id
        PROVE  /\ \A i \in 1..Len(hookLog[id]) : hookLog[id][i] # "working"
               /\ \A r \in Threads : ~Pending(r, id, "working")'
    BY <1>2, <2>3, <2>4, Zenon DEF ReportInv, QuietInv
  <2>5. \A s \in Submitters : Inside(s)' =>
          /\ \A i \in 1..Len(hookLog'[submit'[s].id]) : hookLog'[submit'[s].id][i] # "working"
          /\ \A r \in Threads : ~Pending(r, submit[s].id, "working")'
    BY <2>4, Zenon DEF Pending, Inside
  <2> QED
    BY <2>2, <2>5, Zenon DEF QuietInv
<1>10. RecordInv'
  <2>1. \A id \in DOMAIN tasks_' : Consistent(tasks_'[id])
    BY <1>6, <1>7, Zenon DEF ReportInv, RecordInv
  <2> QED
    BY <2>1, Zenon DEF RecordInv, Consistent
<1> QED
  BY <1>5, <1>8, <1>9, <1>10, Zenon DEF ReportInv

\* Calling the hooks moves a report from its thread to the log.
LEMMA EmitReports ==
  ASSUME TypeOK, ReportInv, NEW t \in Threads, EmitUpdate(t)
  PROVE  ReportInv'
<1>1. PICK update \in outbox[t] :
        /\ outbox' = [outbox EXCEPT ![t] = @ \ {update}]
        /\ hookLog' = [hookLog EXCEPT ![update.id] = Append(@, update.status)]
        /\ UNCHANGED <<tasks_, next_task_index_, now, submit>>
  BY Zenon DEF EmitUpdate
<1>2. PICK k \in TaskIds, e \in Statuses : update = [id |-> k, status |-> e]
  BY <1>1 DEF TypeOK, Updates
<1>3. Pending(t, k, e)
  BY <1>1, <1>2, Zenon DEF Pending
<1>4. /\ ~Pending(t, k, e)'
      /\ \A r \in Threads : \A id, a : Pending(r, id, a)' => Pending(r, id, a)
  BY <1>1, <1>2, Zenon DEF Pending, TypeOK
<1>5. PICK n \in Nat : n = Len(hookLog[k]) /\ hookLog[k] \in Seq(Statuses)
  <2>1. hookLog[k] \in Seq(Statuses)
    BY Zenon DEF TypeOK
  <2>2. Len(hookLog[k]) \in Nat
    BY <2>1
  <2> QED
    BY <2>1, <2>2, Zenon
<1>6. /\ Len(hookLog'[k]) = n + 1 /\ hookLog'[k][n + 1] = e
      /\ \A i \in 1..n : hookLog'[k][i] = hookLog[k][i]
      /\ \A id \in TaskIds \ {k} : hookLog'[id] = hookLog[id]
  <2>1. hookLog' = [hookLog EXCEPT ![k] = Append(hookLog[k], e)] /\ DOMAIN hookLog = TaskIds
    BY <1>1, <1>2, Zenon DEF TypeOK
  <2>2. hookLog'[k] = Append(hookLog[k], e) /\ \A id \in TaskIds \ {k} : hookLog'[id] = hookLog[id]
    BY <2>1, Zenon
  <2> QED
    BY <1>5, <2>2
<1>7. \A i \in 1..Len(hookLog'[k]) : i \in 1..n \/ i = n + 1
  BY <1>5, <1>6
<1>8. \A i \in 1..n : ~SameKind(e, hookLog[k][i])
  BY <1>3, <1>5, Zenon DEF ReportInv, OnceInv, NotTold
<1>9. OnceInv'
  <2>1. \A q, r \in Threads : \A id \in TaskIds : \A a, b \in Statuses :
          Pending(q, id, a)' /\ Pending(r, id, b)' /\ SameKind(a, b) => q = r /\ a = b
    BY <1>4 DEF ReportInv, OnceInv, OnePending
  <2>2. ASSUME NEW r \in Threads, NEW id \in TaskIds, NEW a \in Statuses,
               Pending(r, id, a)', NEW i \in 1..Len(hookLog'[id])
        PROVE  ~SameKind(a, hookLog'[id][i])
    <3>1. Pending(r, id, a)
      BY <1>4, <2>2, Zenon
    <3>2. CASE id # k
      BY <1>6, <2>2, <3>1, <3>2, Zenon DEF ReportInv, OnceInv, NotTold
    <3>3. CASE id = k /\ i \in 1..n
      BY <1>5, <1>6, <3>1, <3>3, Zenon DEF ReportInv, OnceInv, NotTold
    <3>4. CASE id = k /\ i = n + 1
      <4>1. SameKind(a, e) => r = t /\ a = e
        BY <1>3, <3>1, <3>4, Zenon DEF ReportInv, OnceInv, OnePending
      <4>2. ~(r = t /\ a = e)
        BY <1>4, <2>2, <3>4, Zenon
      <4> QED
        BY <1>6, <3>4, <4>1, <4>2, Zenon
    <3> QED
      BY <1>7, <2>2, <3>2, <3>3, <3>4, Zenon
  <2>3. ASSUME NEW id \in TaskIds, NEW i \in 1..Len(hookLog'[id]), NEW j \in 1..Len(hookLog'[id]),
               SameKind(hookLog'[id][i], hookLog'[id][j])
        PROVE  i = j
    <3>1. CASE id # k
      BY <1>6, <2>3, <3>1, Zenon DEF ReportInv, OnceInv, ToldOnce
    <3>2. CASE id = k
      <4>1. CASE i \in 1..n /\ j \in 1..n
        BY <1>5, <1>6, <2>3, <3>2, <4>1, Zenon DEF ReportInv, OnceInv, ToldOnce
      <4>2. CASE i \in 1..n /\ j = n + 1
        BY <1>6, <1>8, <2>3, <3>2, <4>2, Zenon DEF SameKind
      <4>3. CASE i = n + 1 /\ j \in 1..n
        BY <1>6, <1>8, <2>3, <3>2, <4>3, Zenon DEF SameKind
      <4> QED
        BY <1>7, <3>2, <4>1, <4>2, <4>3, Zenon
    <3> QED
      BY <3>1, <3>2, Zenon
  <2> QED
    BY <2>1, <2>2, <2>3, Zenon DEF OnceInv, OnePending, NotTold, ToldOnce
<1>10. TruthInv'
  <2>1. ASSUME NEW r \in Threads, NEW id \in DOMAIN tasks_, NEW a \in TerminalStatuses,
               Pending(r, id, a)'
        PROVE  tasks_[id].status = a
    BY <1>4, <2>1 DEF ReportInv, TruthInv
  <2>2. ASSUME NEW id \in DOMAIN tasks_, NEW i \in 1..Len(hookLog'[id]),
               is_terminal(hookLog'[id][i])
        PROVE  tasks_[id].status = hookLog'[id][i]
    <3>1. id \in TaskIds
      BY TypeOKRecords, Zenon DEF Records
    <3>2. CASE id # k
      BY <1>6, <2>2, <3>1, <3>2 DEF ReportInv, TruthInv
    <3>3. CASE id = k /\ i \in 1..n
      BY <1>5, <1>6, <2>2, <3>3, Zenon DEF ReportInv, TruthInv
    <3>4. CASE id = k /\ i = n + 1
      BY <1>3, <1>6, <2>2, <3>4, Zenon DEF ReportInv, TruthInv, is_terminal
    <3> QED
      BY <1>7, <2>2, <3>2, <3>3, <3>4, Zenon
  <2> QED
    BY <1>1, <2>1, <2>2, Zenon DEF TruthInv
<1>11. QuietInv'
  <2>1. ~(k >= next_task_index_)
    BY <1>3, Zenon DEF ReportInv, QuietInv
  <2>2. \A id \in TaskIds : id >= next_task_index_ =>
          /\ Len(hookLog'[id]) = 0
          /\ \A r \in Threads : \A a \in Statuses : ~Pending(r, id, a)'
    BY <1>4, <1>6, <2>1, Zenon DEF ReportInv, QuietInv
  <2>3. ASSUME NEW s \in Submitters, Inside(s), NEW id \in TaskIds, id = submit[s].id
        PROVE  /\ \A i \in 1..Len(hookLog'[id]) : hookLog'[id][i] # "working"
               /\ \A r \in Threads : ~Pending(r, id, "working")'
    <3>1. /\ \A i \in 1..Len(hookLog[id]) : hookLog[id][i] # "working"
          /\ \A r \in Threads : ~Pending(r, id, "working")
      BY <2>3, Zenon DEF ReportInv, QuietInv
    <3>2. id = k => e # "working"
      BY <1>3, <3>1, Zenon
    <3> QED
      BY <1>4, <1>5, <1>6, <1>7, <3>1, <3>2, Zenon
  <2>4. \A s \in Submitters : Inside(s) => submit[s].id \in TaskIds
    BY PlaceTypes, Zenon
  <2>5. \A s \in Submitters : Inside(s)' =>
          /\ \A i \in 1..Len(hookLog'[submit'[s].id]) : hookLog'[submit'[s].id][i] # "working"
          /\ \A r \in Threads : ~Pending(r, submit[s].id, "working")'
    BY <1>1, <2>3, <2>4, Zenon DEF Pending, Inside
  <2> QED
    BY <1>1, <2>2, <2>5, Zenon DEF QuietInv
<1>12. RecordInv'
  BY <1>1 DEF ReportInv, RecordInv, Consistent
<1> QED
  BY <1>9, <1>10, <1>11, <1>12, Zenon DEF ReportInv

\* Every step keeps the reports in order.
LEMMA ReportStep ==
  ASSUME TypeOK, TypeOK', PlaceInv, ReportInv, [Next]_vars
  PROVE  ReportInv'
<1>1. now \in Nat /\ now' \in Nat /\ TaskIds \subseteq Nat
  BY TaskProcessorAssumption DEF TypeOK, TaskIds
<1>2. ASSUME UNCHANGED <<tasks_, outbox, hookLog, next_task_index_, submit>>, now <= now'
      PROVE  ReportInv'
  BY <1>1, <1>2, ReportsStay, Zenon DEF Inside
<1>3. ASSUME NEW s \in Submitters, FetchToken(s) \/ EnqueueFails(s) \/ EraseRejected(s)
      PROVE  ReportInv'
  <2>1. /\ submit[s].at # "idle" /\ UNCHANGED <<outbox, hookLog, now, next_task_index_>>
        /\ \/ submit' = [submit EXCEPT ![s] = Idle]
           \/ submit' = [submit EXCEPT ![s] = [at |-> "rejected", id |-> submit[s].id]]
           \/ submit' = [submit EXCEPT ![s] =
                           [at |-> "fetched", id |-> submit[s].id,
                            attached |-> submit[s].id \in DOMAIN tasks_]]
    BY <1>3, Zenon DEF FetchToken, EnqueueFails, EraseRejected
  <2>2. /\ DOMAIN tasks_' \subseteq DOMAIN tasks_
        /\ \A id \in DOMAIN tasks_' : tasks_'[id] = tasks_[id]
    BY <1>3, Zenon DEF FetchToken, EnqueueFails, EraseRejected, Keep
  <2>3. /\ \A r \in Submitters \ {s} : submit'[r] = submit[r]
        /\ submit'[s] = Idle \/ submit'[s].id = submit[s].id
    BY <2>1 DEF TypeOK
  <2>4. \A r \in Submitters : Inside(r)' => Inside(r) /\ submit'[r].id = submit[r].id
    BY <2>1, <2>3, PlaceTypes, Zenon DEF Inside
  <2> QED
    BY <1>1, <2>1, <2>2, <2>4, ReportsStay
<1>4. ASSUME NEW s \in Submitters, SubmitterStep(s) PROVE ReportInv'
  BY <1>3, <1>4, InsertReports, EnqueueReports, Zenon DEF SubmitterStep
<1>5. ASSUME NEW w \in Workers, WorkerStep(w) PROVE ReportInv'
  <2>1. CASE StartOperation(w)
    BY <1>1, <1>2, <2>1 DEF StartOperation
  <2>2. ASSUME NEW status \in {"completed", "failed"}, finish_task(w, status)
        PROVE  ReportInv'
    <3>1. UNCHANGED <<hookLog, now, next_task_index_, submit>> /\ w \in Threads
      BY <2>2, Zenon DEF finish_task, Threads
    <3>2. CASE MayFinish(worker[w].op.id)
      BY <2>2, <3>1, <3>2, FinishSettles, SettleReports, Zenon
    <3>3. CASE ~MayFinish(worker[w].op.id)
      BY <1>1, <1>2, <2>2, <3>1, <3>3 DEF finish_task, Finish
    <3> QED
      BY <3>2, <3>3, Zenon
  <2> QED
    BY <1>5, <2>1, <2>2, Zenon DEF WorkerStep
<1>6. ASSUME NEW c \in Callers, CallerStep(c) PROVE ReportInv'
  <2>1. UNCHANGED <<hookLog, now, next_task_index_, submit>> /\ c \in Threads
    BY <1>6, Zenon DEF CallerStep, RefreshingCall, cancel_task, Threads
  <2>2. PICK ended : Settles(tasks_', ended) /\ outbox' = [outbox EXCEPT ![c] = ended]
    BY <1>6, CallSettles, Zenon
  <2> QED
    BY <2>1, <2>2, SettleReports, Zenon
<1>7. ASSUME NEW t \in Threads, EmitUpdate(t) PROVE ReportInv'
  BY <1>7, EmitReports, Zenon
<1>8. CASE stop \/ Tick \/ UNCHANGED vars
  BY <1>1, <1>2, <1>8 DEF stop, Tick, vars
<1> QED
  BY <1>4, <1>5, <1>6, <1>7, <1>8, Zenon DEF Next

\* The status hook, the record and tasks/result tell the same story of every
\* task: the start and the end are each reported at most once, the end that is
\* reported is the one the record shows, and the answer of tasks/result and the
\* time of the end fit the status.
THEOREM ViewsAlwaysAgree == Spec => []ViewsAgree
<1>1. Init => PlaceInv /\ ReportInv
  <2> SUFFICES ASSUME Init PROVE PlaceInv /\ ReportInv
    BY Zenon
  <2>1. /\ \A s \in Submitters : ~Inside(s)
        /\ \A w \in Workers : ~Running(w)
        /\ 1..Len(queue) = {} /\ DOMAIN tasks_ = {}
        /\ \A id \in TaskIds : Len(hookLog[id]) = 0 /\ 1..Len(hookLog[id]) = {}
        /\ \A t \in Threads : \A id, a : ~Pending(t, id, a)
    BY DEF Init, Inside, Running, Idle, Pending
  <2>2. PlaceInv
    BY <2>1, Zenon DEF PlaceInv, IndexInv, SubmittedApart, QueuedApart, RunningApart
  <2>3. OnceInv /\ TruthInv /\ QuietInv /\ RecordInv
    BY <2>1, Zenon DEF OnceInv, OnePending, NotTold, ToldOnce, TruthInv, QuietInv, RecordInv
  <2> QED
    BY <2>2, <2>3, Zenon DEF ReportInv
<1>2. TypeOK /\ TypeOK' /\ PlaceInv /\ ReportInv /\ [Next]_vars => PlaceInv' /\ ReportInv'
  BY PlaceStep, ReportStep, Zenon
<1>3. TypeOK /\ ReportInv => ViewsAgree
  <2> SUFFICES ASSUME TypeOK, ReportInv PROVE ViewsAgree
    BY Zenon
  <2>1. ASSUME NEW id \in TaskIds
        PROVE  /\ \A i, j \in 1..Len(hookLog[id]) :
                    (is_terminal(hookLog[id][i]) <=> is_terminal(hookLog[id][j])) => i = j
               /\ \A i \in 1..Len(hookLog[id]) :
                    id \in DOMAIN tasks_ /\ is_terminal(hookLog[id][i]) =>
                      tasks_[id].status = hookLog[id][i]
    BY Zenon DEF ReportInv, OnceInv, OnePending, NotTold, ToldOnce, TruthInv, SameKind
  <2>2. ASSUME NEW id \in DOMAIN tasks_, NEW r, r = tasks_[id]
        PROVE  /\ r.status = ResultReply(tasks_, id)
               /\ r.result <=> r.status = "completed"
               /\ (r.terminal_at = NotTerminal) <=> (r.status = "working")
               /\ r.terminal_at <= now
    <3>1. Consistent(r) /\ now \in Nat
      BY <2>2, TypeOKRecords, Zenon DEF ReportInv, RecordInv
    <3>2. r.status = ResultReply(tasks_, id)
      <4>1. CASE r.result
        BY <2>2, <3>1, <4>1, Zenon DEF ResultReply, Consistent
      <4>2. CASE ~r.result
        <5>1. ResultReply(tasks_, id) = [none |-> "working", error |-> "failed",
                timed_out |-> "failed", cancelled |-> "cancelled"][r.failure]
          BY <2>2, <4>2, Zenon DEF ResultReply
        <5> QED
          BY <3>1, <4>2, <5>1 DEF Consistent
      <4> QED
        BY <4>1, <4>2, Zenon
    <3>3. r.result <=> r.status = "completed"
      BY <3>1, Zenon DEF Consistent
    <3>4. r.terminal_at = NotTerminal \/ r.terminal_at \in 0..now
      BY <3>1, Zenon DEF Consistent
    <3>5. (r.terminal_at = NotTerminal) <=> (r.status = "working")
      BY <3>1 DEF Consistent, NotTerminal
    <3>6. r.terminal_at <= now
      BY <3>1, <3>4 DEF NotTerminal
    <3> QED
      BY <3>2, <3>3, <3>5, <3>6, Zenon
  <2> QED
    BY <2>1, <2>2, Zenon DEF ViewsAgree
<1> QED
  BY <1>1, <1>2, <1>3, TypeCorrect, PTL DEF Spec
=============================================================================
