\* The demo contract: every order of moves, pick-ups, hand-overs and quest steps.
CONSTANTS
  admin = admin  guest = guest  demo = demo
  lost_key = lost_key  open_shrine = open_shrine
  brass_key = brass_key  stone_tablet = stone_tablet
  village = village  ruins = ruins  other = other  go = go
  NoContract = NoContract
  Account <- DemoAccount
  Contract <- DemoContract
  Quest <- DemoQuest
  Name <- DemoName
  Intent <- DemoIntent
  QuestDef <- DemoQuestDef
  InitWorld <- DemoWorld
  Script <- DemoScript
  Scriptable = {"actor"}
  AllowUnsigned = TRUE
  AdminEnabled = FALSE
  Deposits = {0}
  MaxEntities = 6
  MaxBalance = 4
  MaxHead = 2
  MaxCalls = 4
SPECIFICATION Spec
INVARIANTS HeldConsistent RewardOnce PrerequisitesFirst
PROPERTIES ItemsConserved
CHECK_DEADLOCK FALSE
