\* Two instances, blocks in any order, at the limits of counters and sizes.
CONSTANTS
  r1 = r1
  r2 = r2
  alice = alice
  bob = bob
  NoAccount = NoAccount
  NoHash = NoHash
  Failure = Failure
  ThisChain = "aomori"
  ChainId = {"aomori", "other"}
  Replica <- MCReplica
  Account <- MCAccount
  EntityId <- MCEntityId
  Action <- MCAction
  Data <- MCData
  InitData = 0
  InitHead = 4
  Owner <- MCOwner
  Outcome <- MCOutcome
  Signed <- MCSigned
  Submitted <- MCSubmitted
  MaxInteger = 9
  MaxEvents = 8
  MaxCandidates = 1
SPECIFICATION Spec
INVARIANTS
  TypeOK
  ChainReplays
  SameTipSameLedger
  EventRangesTile
  SubmitIdempotent
PROPERTY KeepsPromise
