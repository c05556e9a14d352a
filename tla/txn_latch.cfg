SPECIFICATION Spec
CONSTANTS
  p1 = p1  p2 = p2  s1 = s1  s2 = s2  x = x
  NoEntry = NoEntry  NoPlan = NoPlan  NoSlot = NoSlot  NoTable = NoTable
  Plans <- TwoPlans
  Slots <- MCSlots
  Entries <- OneBody
  Operations = {"disable"}
  InitialTables <- OneSchedule
  RestAvailable = FALSE
  MaxPlans = 2
  MaxWire = 1
  MaxUpsets = 2
SYMMETRY Symmetry
INVARIANTS WriteAhead LatchSeen
PROPERTIES LatchPromise
