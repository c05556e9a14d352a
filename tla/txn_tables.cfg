SPECIFICATION FairSpec
CONSTANTS
  p1 = p1  p2 = p2  s1 = s1  s2 = s2  x = x
  NoEntry = NoEntry  NoPlan = NoPlan  NoSlot = NoSlot  NoTable = NoTable
  Plans <- OnePlan
  Slots <- MCSlots
  Entries <- OneBody
  Operations = {"create", "update", "delete"}
  InitialTables <- AtMostOneSchedule
  RestAvailable = TRUE
  MaxPlans = 1
  MaxWire = 1
  MaxUpsets = 1
INVARIANTS CallCanStep
PROPERTIES SendOnFreshTable ConfirmedTable CallsReturn
