SPECIFICATION FairSpec
CONSTANTS
  c1 = c1  c2 = c2  Poll = Poll  NoReader = NoReader
  Callers <- TwoCallers
  Base = 2  MaxInterval = 8  Hold = 5  Needed = 2
  RetryAfters <- Delays
  MaxSetbacks = 4
INVARIANTS SilentInCooldown ReadersCanStep
PROPERTIES ServerMinimum SlowRecovery Recovers ReadsReturn
