SPECIFICATION Spec
CONSTANTS
  N = 5
  W = 3
  Setups <- Sound
INVARIANTS TypeOK RowsInPlace MessagesFit
PROPERTIES Finishes ImplementsProduct
CHECK_DEADLOCK FALSE
