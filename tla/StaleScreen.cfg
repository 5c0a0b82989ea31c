SPECIFICATION Spec
CONSTANTS
  Hosts = {h1}
  Clients = {c1, c2}
  Codes = {k1}
  None = None
  ReissueCodes = FALSE
INVARIANTS
  DecisionMatchesScreen
CHECK_DEADLOCK FALSE
