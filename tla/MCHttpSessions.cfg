SPECIFICATION FairSpec
CONSTANTS
  MaxSessions = 1
  MaxPosts = 3
  Callers = {c1, c2}
  Keys = {k1}
  None = None
INVARIANTS
  WaiterReachable
  DefaultSessionLive
  AcceptedResponseReturned
PROPERTIES
  CallReturns
CHECK_DEADLOCK FALSE
