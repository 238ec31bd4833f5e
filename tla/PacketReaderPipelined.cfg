SPECIFICATION Spec
CONSTANTS
  HeadLen = 3
  RingMax = 5
  Word = 16
  Lens = {3, 4, 8}
  MaxPackets = 3
  Modes = {"any"}
  Faults = {}
CHECK_DEADLOCK FALSE
INVARIANTS
  DeliveredIntact
