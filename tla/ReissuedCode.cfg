SPECIFICATION Spec
CONSTANTS
  Hosts = {h1, h2}
  Clients = {c1}
  Codes = {k1}
  None = None
  ReissueCodes = TRUE
INVARIANTS
  RoomDiesWithHost
CHECK_DEADLOCK FALSE
