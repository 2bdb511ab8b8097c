SPECIFICATION FairSpec
CONSTANTS
  Services = {s1}
  NoService = NoService
  MaxMessage = 2
  MaxWake = 4
  MaxCrash = 1
  MaxFault = 3
  MaxRead = 1
  MaxStall = 0
  MaxActs = 0
INVARIANTS PromptedOnce
PROPERTIES EveryMessageSettles ImplementsMailbox
CHECK_DEADLOCK FALSE
