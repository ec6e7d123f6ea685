SPECIFICATION StoreSpec
CONSTANTS
  None = None
  dana = dana
  danaUpper = danaUpper
  sam = sam
  Config <- MCConfig
  DisplayName <- MCDisplayName
  Fixtures <- MCFixtures
  Lower <- MCLower
  Disks <- MCDisks
  MaxShells = 2
  MaxCrashes = 1
INVARIANTS
  OneRegistration
PROPERTIES
  ServesUnlessAHumanMustAct
CHECK_DEADLOCK FALSE
