------------------------------ MODULE WorkPool ------------------------------
(***************************************************************************)
(* What an executor promises of the tasks handed to it, without queues,    *)
(* threads, condition variables or timers.  A task is refused, taken or    *)
(* timed; a timed task is taken later or lapses; a task that was taken     *)
(* runs once, and is lost only to a stop that drops what is pending.  No   *)
(* task is taken after a stop, and no more than Capacity run at a time.    *)
(***************************************************************************)
EXTENDS Naturals, FiniteSets

CONSTANTS Tasks, Capacity

VARIABLES
  phase,   \* what has become of each task
  mode     \* whether the pool is open, or how it was stopped

vars == <<phase, mode>>

Running == {t \in Tasks : phase[t] = "running"}

Init == phase = [t \in Tasks |-> "new"] /\ mode = "open"

Move(t, from, to) ==
  /\ phase[t] = from
  /\ phase' = [phase EXCEPT ![t] = to]
  /\ UNCHANGED mode

Accept(t) == mode = "open" /\ (Move(t, "new", "pending") \/ Move(t, "timed", "pending"))
Refuse(t) == Move(t, "new", "never")
Schedule(t) == Move(t, "new", "timed")
Start(t) == Cardinality(Running) < Capacity /\ Move(t, "pending", "running")
Finish(t) == Move(t, "running", "done")

(* The tasks of a set, all of them in phase from, are given up.            *)
GiveUp(ts, from) ==
  /\ \A t \in ts : phase[t] = from
  /\ phase' = [t \in Tasks |-> IF t \in ts THEN "never" ELSE phase[t]]

(* Timed tasks are cancelled, or find no room or a stopped pool when due.  *)
Lapse == (\E ts \in SUBSET Tasks : GiveUp(ts, "timed")) /\ UNCHANGED mode

(* The first stop decides whether the pending tasks are still run.         *)
Drain == mode = "open" /\ mode' = "draining" /\ UNCHANGED phase

DropAll ==
  /\ mode = "open"
  /\ mode' = "dropping"
  /\ GiveUp({t \in Tasks : phase[t] = "pending"}, "pending")

Next ==
  \/ \E t \in Tasks : Accept(t) \/ Refuse(t) \/ Schedule(t) \/ Start(t) \/ Finish(t)
  \/ Lapse
  \/ Drain
  \/ DropAll

Spec == Init /\ [][Next]_vars
=============================================================================
