SPECIFICATION NativeSpec
CONSTANTS
  p1 = p1  s1 = s1  s2 = s2  day = day  pool = pool
  NoEntry = NoEntry  NoPlan = NoPlan  NoSlot = NoSlot  NoTable = NoTable  Unset = Unset
  Plans <- OnePlan
  Slots <- MCSlots
  Entries <- MCEntries
  Operations = {"create", "enable", "delete"}
  InitialTables <- MCTables
  RestAvailable = TRUE
  MaxPlans = 1
  MaxWire = 1
  MaxUpsets = 1
  WeekDays = {day}  DayLength = 4
  Pool = pool  Equipment = {pool}
  MinSpeed = 1  MaxSpeed = 2
  MaxChanges = 2  MaxCaptured = 1
INVARIANTS PlansApart ChangesChain Attributed
PROPERTIES ConfirmedApart
