CONSTANTS
  Capacity = 4
  PageSize = 4
  MaxPending = 2
  MaxWire = 1
  MaxEvents = 4
  MaxDrops = 1
  MaxFails = 0
  MaxReplacements = 0
SPECIFICATION Spec
INVARIANT NoGap
CHECK_DEADLOCK FALSE
