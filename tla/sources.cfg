SPECIFICATION FairSpec
CONSTANTS
  Documents = {1, 2, 3}
  Contractors = {1, 2, 3}
  Summary <- Matters
  Recent = 2
  PageSize = 2
  LastTime = 3
  MaxSubmissions = 3
  LastPost = 4
  LastDay = 2
  MaxDocs = 2
  MaxReviews = 3
  LastFile = 3
  MaxFaults = 1
INVARIANTS
  TypeOK
  NothingPassedOver
  StoredIsPrefix
  FiledOnce
PROPERTIES
  EverythingStored
