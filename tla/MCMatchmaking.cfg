SPECIFICATION FairSpec
CONSTANTS
  Hosts = {h1}
  Clients = {c1, c2}
  Codes = {k1}
  None = None
  ReissueCodes = FALSE
INVARIANTS
  TypeOK
  HostExclusive
  TerminalOwned
  OneVerdict
  GuestWasSelected
  HighlightedClientIsChosen
  CursorInReach
PROPERTIES
  NoClientHangs
  ApprovedClientsAnswer
  NoSilentDrop
  ImplementsAccessControl
CHECK_DEADLOCK FALSE
