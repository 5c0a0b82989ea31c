SPECIFICATION FairSpec
CONSTANTS
  Hosts = {h1}
  Clients = {c1}
  Codes = {k1}
  None = None
  ReissueCodes = FALSE
PROPERTIES
  DeadRequestsLeaveQueue
CHECK_DEADLOCK FALSE
