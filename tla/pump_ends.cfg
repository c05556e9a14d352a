SPECIFICATION FairSpec
CONSTANTS
  c1 = c1  c2 = c2
  Callers <- Two
  Commands <- Joining
  Limits <- Speed  Prime = 3
  Initial <- Stopped
  Parts <- Whole
  Touches <- Falls  MaxTouches = 1  MaxReads = 0  MaxNews = 1  MaxConns = 1
INVARIANTS ActorsCanStep
PROPERTIES TasksEnd
