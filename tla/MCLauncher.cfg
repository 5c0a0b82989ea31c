SPECIFICATION Spec
CONSTANTS
  Launchers = {l1, l2, l3}
  NodeBin = 1
  Payload = 2
INVARIANTS
  IncompleteHasCause
PROPERTIES
  GetsComplete
CHECK_DEADLOCK FALSE
