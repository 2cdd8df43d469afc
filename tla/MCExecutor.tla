----------------------------- MODULE MCExecutor -----------------------------
(* Instances of Executor for TLC: two workers that compete for tasks of    *)
(* two priorities, or one worker and timers with two deadlines.            *)
EXTENDS Executor

CONSTANTS w1, w2

MCUses ==
  {[workers |-> {w1, w2}, priorities |-> {0, 2}, delays |-> {}],
   [workers |-> {w1}, priorities |-> {1}, delays |-> {1, 2}]}
=============================================================================
