SPECIFICATION Spec
CONSTANTS
  Chats = {c1}
  c1 = c1
  NoChat = NoChat
  Brokers = {b1, b2}
  b1 = b1
  b2 = b2
  NoBroker = NoBroker
  MaxMessage = 1
  MaxRun = 2
  MaxDefer = 1
  MaxFaults = 1
  MaxActs = 0
SYMMETRY Interchangeable
INVARIANTS
  AtMostOnceDispatch
  NoStrandedTurn
PROPERTIES
  FinalStatesAreFinal
CHECK_DEADLOCK FALSE
