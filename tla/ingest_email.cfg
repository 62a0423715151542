SPECIFICATION FairSpec
CONSTANTS
  Files = {"e1", "e2"}
  Dir <- EmDir
  Born <- EmDir
  Ids = {"E1", "E2"}
  Id <- EmId
  Uids = {"E1", "E2"}
  Uid <- EmId
  Keys = {"k"}
  Key <- EmKey
  Indexable = {"e1", "e2"}
  Searched = {"e1", "e2"}
  Synced = {}
  VerifyWorkers = {v1}
  IndexWorkers = {i1}
  BatchSize = 2
  ReceiveMax = 2
  MaxDay = 1
  MaxCopies = 1
  MaxCrashes = 0
  NoFile = NoFile
  NoKey = NoKey
INVARIANT SuppressedIsRepresented
PROPERTY EventuallySearchable
