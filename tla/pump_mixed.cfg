SPECIFICATION Spec
CONSTANTS
  c1 = c1  c2 = c2
  Callers <- Two
  Commands <- Mixed
  Limits <- Speed  Prime = 3
  Initial <- Stopped
  Parts <- Whole
  Touches <- Panel  MaxTouches = 1  MaxReads = 1  MaxNews = 1  MaxConns = 1
SYMMETRY Symmetry
INVARIANTS OnePending LineAlive ConfirmedByDevice
PROPERTIES SafeAlignment
