SPECIFICATION FairSpec
CONSTANTS
  r1 = r1
  r2 = r2
  Requests = {r1, r2}
  Options <- MCOptions
  MaxWorkers = 2
  MaxQueue = 1
  MaxStarts = 1
  None = None
INVARIANTS
  OwnResponse
  OneCancellation
  AbandonedIsAnnounced
PROPERTIES
  AwaitReturns
  StopReleases
CHECK_DEADLOCK FALSE
