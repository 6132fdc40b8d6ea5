SPECIFICATION Spec
CONSTANTS
  Sizes = {4}
  BUFFSIZE = 2
  SockBuf = 3
  Stack = 2
  Faults = {}
INVARIANT ReceivedIsWhole
CHECK_DEADLOCK FALSE
