SPECIFICATION Spec
CONSTANTS
  Submitters = {s1}
  Callers = {c1}
  Workers = {w1}
  QueueSize = 1
  MaxCompletedTasks = 1
  CompletedTaskTtl = NoTtl
  DefaultTimeout = 1
  RequestTtls = {NoTtl}
  MaxTaskIndex = 2
  MaxTime = 1
  NoTtl = NoTtl
INVARIANTS
  CancelAnswersTerminal
