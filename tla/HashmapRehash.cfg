SPECIFICATION FairSpec
CONSTANTS
  a = a
  b = b
  c = c
  d = d
  Keys <- MCKeys
  Home <- MCHome
  Threads = {t1, t2}
  Vals = {v1, v2}
  None = None
  InitialSize = 6
  MaxChain = 2
  Kinds = {"topics"}
  MaxCalls = 3
  Faults = {}
PROPERTY
  PutReturns
CHECK_DEADLOCK FALSE
