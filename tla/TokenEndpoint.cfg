SPECIFICATION Spec
CONSTANTS
  Null = Null
  any = any
  arcade = arcade
  c1 = c1
  Codes = {c1}
  Requests <- MCRequests
  Sends <- MCSends
  Client <- MCClient
  MaxResets = 1
INVARIANTS
  NoSecondIdentity
PROPERTIES
  ImplementsCodePromise
CHECK_DEADLOCK FALSE
