SPECIFICATION ReaperSpec
CONSTANTS
  Chats = {c1, c2}
  c1 = c1
  c2 = c2
  NoChat = NoChat
  Brokers = {b1}
  b1 = b1
  NoBroker = NoBroker
  MaxMessage = 1
  MaxRun = 2
  MaxDefer = 0
  MaxFaults = 0
  MaxActs = 1
INVARIANTS
  RegistryNamesOpenChat
  LinkIsBacked

  
CHECK_DEADLOCK FALSE
