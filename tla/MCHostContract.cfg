SPECIFICATION ContractSpec
CONSTANTS
  Hosts = {h1}
  Clients = {c1, c2, c3}
  Codes = {k1}
  None = None
INVARIANTS
  ContractTypeOK
  HostExclusive
  TerminalOwned
  LeaversAreForgotten
CHECK_DEADLOCK FALSE
