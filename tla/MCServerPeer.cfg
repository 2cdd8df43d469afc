SPECIFICATION FairSpec
CONSTANTS
  s1 = s1
  s2 = s2
  i1 = i1
  i2 = i2
  Sessions = {s1, s2}
  Ids = {i1, i2}
  Messages <- MCMessages
  RawContextHandler = TRUE
  MaxMessages = 3
INVARIANTS
  ReturnsDrained
PROPERTIES
  CancelReachesHandler
  RequestAnswered
  CloseEndsServing
CHECK_DEADLOCK FALSE
