SPECIFICATION Spec
CONSTANTS
  Peers = {a, b}
  MaxTyped = 2
  Faults = {"start", "join", "lose"}
INVARIANTS TypeOK OneAnswerEach AddressesTrue
PROPERTY AskerLearns
CHECK_DEADLOCK FALSE
