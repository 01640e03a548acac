\* Nonces and receipts of two accounts, one of them the web page's.
CONSTANTS
  admin = admin  guest = guest  echo = echo  plain = plain  go = go  stay = stay
  NoContract = NoContract
  Account = {admin, guest}
  Contract = {echo}
  Quest = {}
  Name = {plain}
  Intent = {go, stay}
  PageIntent = {go}
  Holder = guest
  Actor = 2
  MaxCommands = 2
  QuestDef <- NoQuests
  InitWorld <- TxWorld
  Script <- EchoScript
  Scriptable = {"actor"}
  AllowUnsigned = TRUE
  AdminEnabled = FALSE
  Deposits = {0}
  MaxEntities = 2
  MaxBalance = 1
  MaxHead = 3
  MaxCalls = 0
SPECIFICATION ClientSpec
INVARIANTS ClientTypeOK OneReceiptPerNonce ExecutedAtMostOnce SuccessIsExecuted
PROPERTIES CommandsEnd
