\* Every host function: commands may build worlds that save refuses.
CONSTANTS
  admin = admin  guest = guest  free = free  bare = bare
  errand = errand  coin = coin  place = place  go = go
  NoContract = NoContract
  Account <- FreeAccount
  Contract <- FreeContract
  Quest = {errand}
  Name = {coin, place}
  Intent = {go}
  QuestDef <- FreeQuestDef
  InitWorld <- FreeWorld
  Script <- FreeScript
  Scriptable = {"actor", "zone", "item"}
  AllowUnsigned = TRUE
  AdminEnabled = TRUE
  Deposits = {0, 1}
  MaxEntities = 4
  MaxBalance = 2
  MaxHead = 2
  MaxCalls = 2
SPECIFICATION Spec
INVARIANTS TypeOK ServedWorldValid EntityLifecycle LogFollowsHead
PROPERTIES LogOnlyGrows
CHECK_DEADLOCK FALSE
