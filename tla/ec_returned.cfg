SPECIFICATION Spec
CONSTANTS
  Clients = {"a", "b"}
  Buffer = 2
  MaxTyped = 2
  Backlog = 2
  Nameless = {}
PROPERTY Returned
CHECK_DEADLOCK FALSE
