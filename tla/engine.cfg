SPECIFICATION FairSpec
CONSTANTS
  MaxVersion = 2
  PrivateSince = 1
  Files = 2
  MaxRow = 2
  MaxActs = 3
  MaxAborts = 2
  None = None
  Torn = Torn
INVARIANTS TypeOK  
PROPERTIES UpdateResumes
CHECK_DEADLOCK FALSE
