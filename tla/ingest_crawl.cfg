SPECIFICATION Spec
CONSTANTS
  Files = {"a0", "b1", "b2"}
  Dir <- McDir
  Born <- McBorn
  Ids = {"A", "B"}
  Id <- McId
  Uids = {"A", "B"}
  Uid <- McId
  Keys = {}
  Key <- McNoKey
  Indexable = {"a0", "b1", "b2"}
  Searched = {"a0", "b2"}
  Synced = {"b1", "b2"}
  VerifyWorkers = {v1}
  IndexWorkers = {i1}
  BatchSize = 1
  ReceiveMax = 1
  MaxDay = 2
  MaxCopies = 1
  MaxCrashes = 1
  NoFile = NoFile
  NoKey = NoKey
INVARIANTS TypeOK WatermarkBehindUnsent IndexNotAheadOfS3 NothingLostSilently
PROPERTY KeepsPromise
