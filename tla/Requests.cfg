SPECIFICATION RequestsSpec
CONSTANTS
  Size = 3
  None = none
  Reqs = {0, 1, 2}
  Null = null
INVARIANTS Linked
PROPERTIES ImplementsPool ImplementsFifo
