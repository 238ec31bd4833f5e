SPECIFICATION FairSpec
CONSTANTS
  c1 = c1
  c2 = c2
  w1 = w1
  w2 = w2
  t1 = t1
  id1 = id1
  MCKinds = "live"
  Conns = {c1, c2}
  Connected = {}
  Workers = {w1, w2}
  Listener = Listener
  Topics = {t1}
  EmptyTopic = EmptyTopic
  Ids = {id1}
  EmptyId = EmptyId
  Requests <- MCRequests
  Sends <- MCSends
  MaxSends = 1
  MaxEvents = 2
  Slow = {}
  Faults = {"accept", "leave", "reset", "stall"}
CHECK_DEADLOCK FALSE
PROPERTIES
  ImplementsService
  EventuallyServed
  EventuallyAccepted
