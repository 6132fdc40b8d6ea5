SPECIFICATION Spec
CONSTANTS
  Own = own
  Others = {h}
  M = 16
  Ints = 32
  Idents = {0, 11}
  MaxStrays = 2
INVARIANTS TypeOK ChecksumRight HeapSafe
PROPERTY LastsOnlyAtHome
CHECK_DEADLOCK FALSE
