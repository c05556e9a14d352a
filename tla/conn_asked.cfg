SPECIFICATION Spec
CONSTANTS
  Stale = 6  Rotate = 14  Period = 3  Patience = 3
  BootInterval = 1  BootAttempts = 3  ReconnectMax = 4
  MaxUpsets = 2  MaxConns = 3
PROPERTIES AskedFirst
CHECK_DEADLOCK FALSE
