SPECIFICATION FairSpec
CONSTANTS
  Services = {s1}
  NoService = NoService
  MaxMessage = 2
  MaxWake = 3
  MaxCrash = 2
  MaxFault = 0
  MaxRead = 0
  MaxStall = 0
  MaxActs = 0
PROPERTIES DeliveryIsRetried
CHECK_DEADLOCK FALSE
