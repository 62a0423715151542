CONSTANTS
  Workers = {w1, w2}
  DryRuns = {}
  LastDay = 2
  InitFlag = "0"
  InitIndexed = {1}
  StartsApart = TRUE
  HoldersFinish = TRUE
  LateTickets = FALSE
  MaxExceptions = 0
  MaxKills = 0
  MaxRequests = 0
  MaxReviews = 1
SPECIFICATION Spec
PROPERTIES
  DetectionKeepsMarks
