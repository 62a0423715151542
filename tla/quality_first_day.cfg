SPECIFICATION Spec
CONSTANTS
  Titles <- McTitles
  Window = 2
  Cutoff = 2
  Kept = 2
  LastDay = 3
  MaxRuns = 3
  MaxFaults = 0
INVARIANT FirstDayIncluded
CHECK_DEADLOCK FALSE
