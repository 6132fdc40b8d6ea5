SPECIFICATION Spec
CONSTANTS
  Sizes = {5}
  BUFFSIZE = 2
INVARIANT UrgentNotCounted
CHECK_DEADLOCK FALSE
