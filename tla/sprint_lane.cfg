SPECIFICATION Spec
CONSTANTS
  d1 = d1
  r1 = r1
  p1 = p1
  Developers = {d1}
  Reviewers = {r1}
  Mortal = {}
  Nobody = Nobody
  Plans <- CodePlans
  MaxUnit = 1
  MaxGen = 1
  PRs = {p1}
  NoPR = NoPR
  MaxHead = 2
  MaxSeen = 3
  MaxRequest = 2
  MaxReads = 1
  Ceiling = 2
INVARIANTS
  OfferMatchesLane
  ApprovalAnswersNewestRequest
PROPERTIES
  SettledUnitsStay
  ResumeProjectsMerges
  MergeIsAccountedFor
CHECK_DEADLOCK FALSE
