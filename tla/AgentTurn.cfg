SPECIFICATION Spec
CONSTANTS
  MaxCalls = 2
  Width = 2
  MAX_STEPS = 2
  Tools = {"GetLoan", "ApproveLoan", "RequestApproval"}
  MaxFaults = 1
  Requests <- MCRequests
  Bearer <- MCBearer
  TTL = 1
  MaxRemembered = 1
  Files <- MCFiles
  MaxClock = 1
  MaxInterventions = 1
INVARIANTS
  ShownIsTrue
  NamedWhileVouched
PROPERTIES
  NothingGovernedAfterTheEnd
CHECK_DEADLOCK FALSE
