CONSTANTS
  Workers = {w1, w2}
  DryRuns = {w2}
  LastDay = 2
  InitFlag = "0"
  InitIndexed = {}
  StartsApart = FALSE
  HoldersFinish = FALSE
  LateTickets = TRUE
  MaxExceptions = 0
  MaxKills = 0
  MaxRequests = 2
  MaxReviews = 1
SPECIFICATION FairSpec
INVARIANTS
  RefreshRequestKept
PROPERTIES
  EventuallyRefreshed
