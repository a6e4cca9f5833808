SPECIFICATION Spec
CONSTANTS
  HEAP_SIZE = 76
  SIZE_MOD = 256
  Requests <- MCRequests
INVARIANTS
  TypeOK
  WalkSafe
  UsedExact
  NoByteTwice
PROPERTIES
  StepsImplementAtomic
  CallsReturn
