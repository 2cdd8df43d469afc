--------------------------- MODULE TaskLifecycle ---------------------------
(***************************************************************************)
(* What a client of the task processor may rely on: the life of each task  *)
(* as docs/capability_lifecycles.md describes it and task_manager.cpp is   *)
(* meant to implement it.  TaskProcessor is shown to implement this.       *)
(***************************************************************************)
CONSTANT TaskIds

VARIABLE phase

Outcomes == {"completed", "error", "timed_out", "cancelled"}
Phases == {"unborn", "working", "gone"} \cup Outcomes

Init == phase = [id \in TaskIds |-> "unborn"]

Create(id) ==
  /\ phase[id] = "unborn"
  /\ phase' = [phase EXCEPT ![id] = "working"]

(* A phase a task may be in after a step that settles tasks: a working     *)
(* task may end or be withdrawn, a finished one may be forgotten, and      *)
(* nothing else changes.                                                   *)
MayFollow(p) ==
  CASE p = "working" -> {"working", "gone"} \cup Outcomes
    [] p \in Outcomes -> {p, "gone"}
    [] OTHER -> {p}

Settle ==
  /\ phase' \in [TaskIds -> Phases]
  /\ \A id \in TaskIds : phase'[id] \in MayFollow(phase[id])

Next == Settle \/ \E id \in TaskIds : Create(id)

Spec == Init /\ [][Next]_phase
=============================================================================
