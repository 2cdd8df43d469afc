SPECIFICATION FairSpec
CONSTANTS
  w1 = w1
  w2 = w2
  Tasks = {t1, t2}
  Stoppers = {s1}
  StopKinds = {"shutdown", "cancel_and_stop"}
  MaxQueueSize = 1
  MaxTime = 2
  Uses <- MCUses
  NoTask = NoTask
INVARIANTS
  StopIsQuiet
PROPERTIES
  ImplementsWorkPool
  NoLostWakeup
  StopReturns
CHECK_DEADLOCK FALSE
