SPECIFICATION FairSpec
CONSTANTS
  q1 = q1
  None = None
  Requests = {1, 2}
  ServerRequests <- MCServerRequests
  Stoppers = {1, 2}
  Scenes <- MCScenes
PROPERTY StopReturns
\* Everything may come to rest: no thread has to send, and stop() is final.
CHECK_DEADLOCK FALSE
