SPECIFICATION Spec
CONSTANTS
  N = 3
  W = 2
  Setups <- Risky
PROPERTY RunIsValidated
CHECK_DEADLOCK FALSE
