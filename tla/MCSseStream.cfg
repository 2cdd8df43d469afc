SPECIFICATION FairSpec
CONSTANTS
  MaxPending = 2
  MaxBytes = 3
  MaxReplay = 1
  Sizes = {1, 2}
  MaxEvents = 3
  MaxGets = 2
  NoId = NoId
INVARIANTS
  ReadInOrder
PROPERTIES
  ResumeIsComplete
  QueuedEventWritten
CHECK_DEADLOCK FALSE
