SPECIFICATION Spec
CONSTANTS
  Issues = {2, 3, 4}
  Spares = {1, 5}
  Hidden = {}
  InitState <- TwoState
  InitLinks = {}
  InitParents = {}
  Ops = {"c1", "c2"}
  Kind <- TwoKind
  Subject <- TwoSubject
  Others <- TwoOthers
  MaxRunning = 2
  MaxFailures = 0
  NoKey = NoKey
INVARIANT ExactlyOneParent
