SPECIFICATION EndingSpec
CONSTANTS
  Chats = {c1}
  c1 = c1
  NoChat = NoChat
  Brokers = {b1}
  b1 = b1
  NoBroker = NoBroker
  MaxMessage = 2
  MaxRun = 2
  MaxDefer = 1
  MaxFaults = 0
  MaxActs = 0
PROPERTIES
  EveryPromptEnds
CHECK_DEADLOCK FALSE
