SPECIFICATION FairSpec
CONSTANTS
  q1 = q1
  None = None
  Requests = {1, 2}
  ServerRequests <- MCServerRequests
  Stoppers = {1, 2}
  Scenes <- MCScenes
INVARIANTS
  StopIsClean
PROPERTIES
  RequestEnds
  ServerRequestAnswered
  RestedStopReturns
\* Everything may come to rest: no thread has to send, and stop() is final.
CHECK_DEADLOCK FALSE
