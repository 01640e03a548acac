SPECIFICATION Spec
CONSTANTS
  Primaries <- MCPrimaries
  Backups <- MCBackups
  Quest = {"lost_key", "ruins_tablet", "open_shrine", "q1", "q2", "q3"}
  MaxHead = 60
  MaxVersion = 4
  MaxCommands = 1
  MaxDamage = 1
INVARIANTS TypeOK ServedIsCurrent ClaimsHonoured RefusalKeepsFiles StartsRepeat CycleCheckExact
