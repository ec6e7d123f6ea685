SPECIFICATION Spec
CONSTANTS
  Null = Null
  Personas = {alice, michael}
  Requests = {r1, r2}
  MaxAsks = 2
  MaxDrops = 1
  MaxFaults = 1
  MaxSwitches = 1
CHECK_DEADLOCK FALSE
INVARIANTS
  ResumedOnce
  ResumesItsOwnDecision
  OneStream
PROPERTIES
  DecisionReachesTheTurn
