SPECIFICATION Spec
CONSTANTS
  Hosts = {h1, h2}
  Clients = {c1, c2}
  Codes = {k1, k2}
  None = None
  ReissueCodes = TRUE
INVARIANTS
  RoomsDistinct
  HostKeepsItsClients
  GuestWasSelected
  KnocksStayInRoom
PROPERTIES
  ImplementsAccessControl
SYMMETRY Symmetry
CONSTRAINT FewOutages
CHECK_DEADLOCK FALSE
