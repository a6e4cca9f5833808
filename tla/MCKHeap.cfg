SPECIFICATION Spec
CONSTANTS
  HEAP_SIZE = 88
  SIZE_MOD = 256
  Requests <- MCRequests
INVARIANTS
  TypeOK
  Tiling
  Held
  EnoughRoom
  Accounting
PROPERTIES
  KeepsPromise
