SPECIFICATION Spec
CONSTANTS
  None = None
  Tables <- RulesAndCatalogue
  Contents <- ShippedOrEdited
  Fixture <- Shipped
  Parsing <- AllButBoth
  Compiling <- StageEdit
  MaxPollFailures = 2
  MaxEdits = 2
  MaxFaults = 3
  MaxRestarts = 1
INVARIANTS
  ServesTheRevision
  BoundedStaleness
PROPERTIES
  Settles
  BootRecovers
  RecoveryIsNarrow
