SPECIFICATION Spec
CONSTANTS
  Issues = {2, 3, 4}
  Spares = {1, 5}
  Hidden = {}
  InitState <- OneState
  InitLinks = {}
  InitParents = {2, 3}
  Ops = {"c1"}
  Kind <- OneKind
  Subject <- OneSubject
  Others <- OneOthers
  MaxRunning = 1
  MaxFailures = 0
  NoKey = NoKey
INVARIANT FavorsUnresolved
