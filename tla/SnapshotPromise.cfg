\* Failing file operations, reads and stats included, kills and losses of
\* power, and up to two corruptions or deletions of the primary.
CONSTANTS
  Absent = Absent
  Torn = Torn
  Unseen = Unseen
  MaxRequests = 3
  MaxDamage = 2
  MaxPassed = 1
  MaxSkipped = 2
SPECIFICATION Spec
INVARIANTS TypeOK AckedSurvives BackupStaysReadable OneLossBounded
PROPERTIES KeepsPromise
