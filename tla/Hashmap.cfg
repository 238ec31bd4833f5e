SPECIFICATION Spec
CONSTANTS
  a = a
  b = b
  c = c
  d = d
  Keys <- MCKeys
  Home <- MCHome
  Threads = {t1, t2}
  Vals = {v1, v2}
  None = None
  InitialSize = 6
  MaxChain = 2
  Kinds = {"topics", "clients"}
  MaxCalls = 6
  Faults = {"oom"}
INVARIANTS
  TypeOK
  LatestFound
  GetIsCurrent
  NoEarlyBlock
CHECK_DEADLOCK FALSE
