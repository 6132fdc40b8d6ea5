SPECIFICATION Spec
CONSTANTS
  Sizes = {0, 1, 2, 3, 4, 5}
  BUFFSIZE = 2
  SockBuf = 3
  Stack = 2
  Faults = {"sys", "read", "disk", "drop", "reject", "kill"}
INVARIANTS TypeOK DestinationIsPrefix SentReportHonest NothingLost
PROPERTIES BothEnd ImplementsCopy
CHECK_DEADLOCK FALSE
