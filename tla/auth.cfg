SPECIFICATION FairSpec
CONSTANTS
  Timeout = 1  Arrival = 3  Margin = 5  Floor = 6
  Lives <- ShortLives
  MaxUpsets = 2
INVARIANTS TokenOutlives EverybodyCanStep
PROPERTIES OneLogin WaitsEnd StaysReachable
