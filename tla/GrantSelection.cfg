SPECIFICATION SelectionSpec
CONSTANTS
  Null = Null
  Wildcard = Wildcard
  Text = Text
  alice = alice
  michael = michael
  l1 = l1
  l2 = l2
  Grants <- AnyGrant
  Rows <- FilledThenPlain
  Calls <- ApproveCalls
  MaxCalls = 2
  MaxClock = 2
INVARIANTS
  NothingBeyondTheGrant
