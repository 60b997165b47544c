SPECIFICATION Spec
CONSTANTS
  Items = 3
  Threads = 3
INVARIANTS StopsDispatch
PROPERTIES ImplementsForEach
CHECK_DEADLOCK FALSE
