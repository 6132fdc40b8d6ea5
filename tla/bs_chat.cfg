SPECIFICATION Spec
CONSTANTS
  Peers = {a, b}
  Room = 2
  LongRows = 2
  MaxStarts = 2
  MaxEvents = 2
INVARIANTS TypeOK BlanksWereSent EntriesNeedJoins EntriesAreAddresses PeersMeet
PROPERTY AddressKept
CHECK_DEADLOCK FALSE
