SPECIFICATION FairSpec
CONSTANTS
  d1 = d1
  d2 = d2
  r1 = r1
  r2 = r2
  Developers = {d1, d2}
  Reviewers = {r1, r2}
  Mortal = {r1, r2}
  Nobody = Nobody
  Plans <- PairPlans
  MaxUnit = 2
  MaxGen = 2
  PRs = {}
  NoPR = NoPR
  MaxHead = 1
  MaxSeen = 0
  MaxRequest = 0
  MaxReads = 1
  Ceiling = 1
INVARIANTS
  TerminalIsAnnounced
  CompletedIsSettled
PROPERTIES
  Scheduled
  ReadyWorkIsReleased
CHECK_DEADLOCK FALSE
