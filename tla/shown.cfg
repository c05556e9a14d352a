SPECIFICATION FairSpec
CONSTANTS
  Speeds <- TwoSpeeds  Grace = 3  SaveDelay = 1  MaxRestarts = 2
INVARIANTS ShownTruthfully HeldWithinGrace HoldMatches LiveIsLive
PROPERTIES ZeroIsShown
