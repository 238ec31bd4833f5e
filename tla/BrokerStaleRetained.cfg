SPECIFICATION Spec
CONSTANTS
  c1 = c1
  c2 = c2
  w1 = w1
  w2 = w2
  t1 = t1
  id1 = id1
  MCKinds = "pubsub"
  Conns = {c1, c2}
  Connected = {c1, c2}
  Workers = {w1, w2}
  Listener = Listener
  Topics = {t1}
  EmptyTopic = EmptyTopic
  Ids = {id1}
  EmptyId = EmptyId
  Requests <- MCRequests
  Sends <- MCSends
  MaxSends = 2
  MaxEvents = 1
  Slow = {}
  Faults = {}
SYMMETRY Symmetry
CHECK_DEADLOCK FALSE
INVARIANTS
  RetainedForNewSubscriber
