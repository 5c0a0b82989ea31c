SPECIFICATION FairSpec
CONSTANTS
  Clients = {c1, c2}
  Terminals = {c1}
  None = None
  MaxOutput = 2
  MaxInput = 2
INVARIANTS
  TypeOK
  AskedOnce
  ApprovedByOperator
  StreamsInOrder
  TerminalHandedBack
PROPERTIES
  ImplementsSharedShell
  DepartureHandsBack
  ClientsEnd
CHECK_DEADLOCK FALSE
