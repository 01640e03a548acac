\* A refused save whose rollback fails.
CONSTANTS
  Absent = Absent
  Torn = Torn
  Unseen = Unseen
  MaxRequests = 2
  MaxDamage = 0
  MaxPassed = 0
  MaxSkipped = 0
SPECIFICATION Spec
INVARIANT RefusedNeverServed
