SPECIFICATION Spec
CONSTANTS
  Size = 5
  GroupCounts = {0, 1, 2, 3, 4, 6, 7}
  N = 3
  LargestName = 2
  RowLen = 2
  StdioBuf = 3
INVARIANTS TypeOK SplitsSafely GroupsWhole ResultWhole NamesFit FilesWhole
PROPERTY OnlyFreeHangs
CHECK_DEADLOCK FALSE
