SPECIFICATION FairSpec
CONSTANTS
  c1 = c1
  c2 = c2
  Callers <- MCCallers
  Kinds <- MCKinds
  MaxSessions = 2
  Ids = {i1, i2}
  ServerIds = {r1, r2}
  MaxInbound = 1
  None = None
INVARIANTS
  HandledOnce
  StreamFollowsSession
PROPERTIES
  CallEnds
  StopReturns
CHECK_DEADLOCK FALSE
