SPECIFICATION Spec
CONSTANTS
  Sizes = {0, 1, 2, 3, 4, 5}
  BUFFSIZE = 2
INVARIANTS TypeOK OnlyData DataInOrder
PROPERTY BothEnd
CHECK_DEADLOCK FALSE
