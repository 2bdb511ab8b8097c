SPECIFICATION ServedSpec
CONSTANTS
  Chats = {c1}
  c1 = c1
  NoChat = NoChat
  Brokers = {b1}
  b1 = b1
  NoBroker = NoBroker
  MaxMessage = 2
  MaxRun = 2
  MaxDefer = 1
  MaxFaults = 0
  MaxActs = 1
INVARIANTS
  TypeOK
  IdleChatHasEmptyQueue
  OutcomesAgree
  OneTurnAtATime
  OneHarness
PROPERTIES
  ReaperSparesLinked
  ImplementsTurnQueue
CHECK_DEADLOCK FALSE
