SPECIFICATION ContractSpec
CONSTANTS
  Hosts = {h1}
  Clients = {c1, c2, c3}
  Codes = {k1}
  None = None
INVARIANTS
  CursorInReach
CHECK_DEADLOCK FALSE
