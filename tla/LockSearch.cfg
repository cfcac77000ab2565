SPECIFICATION LockSpec
CONSTANTS
  MaxTune = 9
  WindowSteps = 4
  StepSize = 2
  MaxDist = 3
  Retries = 10
  NumPoints = 3
  Interval = 3
  Offsets = {0, 2}
  Span = 3
  Powers = {0, 1, 2}
INVARIANTS
  MonitorsResumed
  BestIsTuned
PROPERTIES
  WindowIsSearched
  SearchEnds
