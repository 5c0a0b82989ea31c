SPECIFICATION FairSpec
CONSTANTS
  Clients = {c1, c2}
  Terminals = {c1}
  MaxOutput = 2
  MaxInput = 1
INVARIANTS
  TypeOK
  ScreenFollowsShell
  ShellFollowsClient
  TerminalHandedBack
PROPERTIES
  ImplementsSharedShell
  SessionsEndTogether
  ScreenCatchesUp
CHECK_DEADLOCK FALSE
