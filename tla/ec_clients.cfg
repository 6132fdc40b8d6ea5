SPECIFICATION Spec
CONSTANTS
  Clients = {"a", "b", "c"}
  Buffer = 2
  MaxTyped = 2
  Backlog = 2
  Nameless = {"c"}
INVARIANTS TypeOK EchoExact StaysUp
PROPERTY Everyone
CHECK_DEADLOCK FALSE
