SPECIFICATION Spec
CONSTANTS
  Last = 2
  Candidates <- MCCandidates
  Labels <- MCLabels
  MaxPerPull = 2
  Starts <- MCStarts
  MaxSteps = 4
INVARIANTS
  FrozenIsFrozen
  NoPullInTwoVersions
  RescoreIsARerun
CHECK_DEADLOCK FALSE
