SPECIFICATION Spec
CONSTANTS
  Hosts = {h1}
  Clients = {c1}
  Codes = {k1}
  None = None
  ReissueCodes = FALSE
INVARIANTS
  NoGhostShell
CHECK_DEADLOCK FALSE
