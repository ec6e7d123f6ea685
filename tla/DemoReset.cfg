SPECIFICATION Spec
CONSTANTS
  Null = Null
  Files <- MCFiles
  Addressed = {"idp", "hooks", "loan-app"}
  MaxCrashes = 2
  MaxShells = 1
  MaxRuns = 1
  MaxPresses = 1
INVARIANTS
  StampMeansDone
  OkMeansReset
PROPERTIES
  ComesUp
CHECK_DEADLOCK FALSE
