CONSTANTS
  Workers = {w1, w2}
  DryRuns = {}
  LastDay = 3
  InitFlag = "missing"
  InitIndexed = {1}
  StartsApart = TRUE
  HoldersFinish = TRUE
  LateTickets = FALSE
  MaxExceptions = 2
  MaxKills = 1
  MaxRequests = 0
  MaxReviews = 1
SPECIFICATION FairSpec
INVARIANTS
  TypeOK
  MutualExclusion
  NoDayPassedOver
PROPERTIES
  EventuallyIndexed
