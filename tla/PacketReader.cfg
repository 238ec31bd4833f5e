SPECIFICATION FairSpec
CONSTANTS
  HeadLen = 3
  RingMax = 5
  Word = 16
  Lens = {3, 4, 8, 9}
  MaxPackets = 3
  Modes = {"one", "whole"}
  Faults = {"eof", "reset", "cut", "stall"}
CHECK_DEADLOCK FALSE
INVARIANTS
  DeliveredIntact
  NoByteDropped
PROPERTIES
  EventuallyDelivered
  BackToPoll
