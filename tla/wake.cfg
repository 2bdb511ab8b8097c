SPECIFICATION Spec
CONSTANTS
  Services = {s1, s2}
  NoService = NoService
  MaxMessage = 2
  MaxWake = 3
  MaxCrash = 0
  MaxFault = 0
  MaxRead = 0
  MaxActs = 1
  MaxStall = 1
INVARIANTS OnePendingWake IntentKept ForceNewInOwnChat
CHECK_DEADLOCK FALSE
SYMMETRY Interchangeable
