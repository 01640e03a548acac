CONSTANTS
  Capacity = 1
  PageSize = 2
  MaxPending = 2
  MaxWire = 1
  MaxEvents = 4
  MaxDrops = 0
  MaxFails = 0
  MaxReplacements = 0
SPECIFICATION Spec
INVARIANT NoGap
