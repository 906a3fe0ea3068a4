SPECIFICATION Spec
CONSTANTS
  Keys = {"s", "t"}
  SizeOf <- MCSizeOf
  MaxBytes = 3
  IdleTime = 1
  MaxClock = 4
  MaxTime = 3
CHECK_DEADLOCK FALSE
INVARIANTS
  TypeOK
  CapHolds
PROPERTIES
  EvictsLeastRecentForRoom
  Implements
