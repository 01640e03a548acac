CONSTANTS
  Capacity = 2
  PageSize = 2
  MaxPending = 1
  MaxWire = 1
  MaxEvents = 5
  MaxDrops = 1
  MaxFails = 1
  MaxReplacements = 1
SPECIFICATION FairSpec
INVARIANTS TypeOK NoGapOtherwise BufferIsTransient
PROPERTIES ResetsOnlyForAnotherWorld CatchesUp
CHECK_DEADLOCK FALSE
