SPECIFICATION FairSpec
CONSTANTS
  Stale = 4  Rotate = 10  Period = 2  Patience = 2
  BootInterval = 1  BootAttempts = 2  ReconnectMax = 4
  MaxUpsets = 2  MaxConns = 3
INVARIANTS OneSession SilenceBounded AgeBounded
PROPERTIES RequestServed Reconnects
CHECK_DEADLOCK FALSE
