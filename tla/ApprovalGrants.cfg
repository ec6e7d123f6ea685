SPECIFICATION Spec
CONSTANTS
  Null = Null
  Wildcard = Wildcard
  alice = alice
  aliceUpper = aliceUpper
  michael = michael
  Accounts <- OfficerAndApprover
  Owner <- IgnoringCase
  Clearance <- OfficerBelow
  Requests = {r1, r2}
  Loans = {l1, l2}
  Amounts = {2, 3, 4}
  GrantTtl = 2
  MaxTime = 2
SYMMETRY Interchangeable
INVARIANTS
  OutcomeGovernsGrant
  DecidedByAnotherWithAuthority
  SingleUse
  LiftedAsApproved
  ApprovalStands
PROPERTIES
  ImplementsAuthority
