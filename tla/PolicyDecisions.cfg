SPECIFICATION DecisionsSpec
CONSTANTS
  Null = Null
  True = True
  False = False
  Wildcard = Wildcard
  l1 = l1
  Text = Text
  Texts <- TextsHere
  Rules <- RulesHere
  Readings <- ReadingsHere
  Calls <- CallsHere
INVARIANTS
  DecidedByTheFirstRule
  GrantsOnlyLift
  RemediationCanBeFollowed
