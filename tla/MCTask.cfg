SPECIFICATION FairSpec
CONSTANTS
  Submitters = {s1}
  Callers = {c1}
  Workers = {w1}
  QueueSize = 1
  MaxCompletedTasks = 1
  CompletedTaskTtl = 1
  DefaultTimeout = 1
  RequestTtls = {0, NoTtl}
  MaxTaskIndex = 2
  MaxTime = 2
  NoTtl = NoTtl
INVARIANTS
  ViewsAgree
  AbandonedOperationSignalled
PROPERTIES
  NoSilentDisappearance
  ImplementsLifecycle
  AcceptedTaskEnds
