SPECIFICATION Spec
CONSTANTS
  c1 = c1  c2 = c2
  Callers <- Two
  Commands <- Mixed
  Limits <- Speed  Prime = 3
  Initial <- Stopped
  Parts <- Whole
  Touches <- Nobody  MaxTouches = 0  MaxReads = 0  MaxNews = 1  MaxConns = 1
PROPERTIES NewerCommandCancels
