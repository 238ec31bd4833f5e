SPECIFICATION Spec
CONSTANTS
  Bytes = {0, 1, 2}
  Max = 3
  Bulks <- MCBulks
INVARIANTS
  TypeOK
PROPERTIES
  RefinesQueue
