SPECIFICATION SignInSpec
CONSTANTS
  None = None
  p1 = p1
  p2 = p2
  f1 = f1
  HttpRequests = {r1, r2, r3}
  Earlier = earlier
  People <- MCPeople
  Flows <- MCFlows
  OwnerOf <- MCOwnerOf
  MaxGen = 1
  MaxInFlight = 2
SYMMETRY MCSymmetry
INVARIANTS
  AuthorizedAsItsOwner
  SignInSurvives
PROPERTIES
  SealTakes
CHECK_DEADLOCK FALSE
