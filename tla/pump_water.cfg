SPECIFICATION Spec
CONSTANTS
  c1 = c1  c2 = c2
  Callers <- Two
  Commands <- Water
  Limits <- Speed  Prime = 3
  Initial <- Stopped
  Parts <- Whole
  Touches <- Nobody  MaxTouches = 0  MaxReads = 0  MaxNews = 1  MaxConns = 2
SYMMETRY Symmetry
PROPERTIES AlignPromise OldTargetDropped
