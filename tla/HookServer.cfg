SPECIFICATION Spec
CONSTANTS
  Null = Null
  Wildcard = "*"
  Calls = {c1, c2}
  Positions <- MCPositions
  Withheld <- MCWithheld
  SubjectOf <- MCSubjectOf
  Tools <- MCTools
  Bodies <- MCBodies
  Snapshots <- MCSnapshots
  Configured <- MCConfigured
  Grants <- MCGrants
INVARIANTS
  LogAccountsForAnswers
PROPERTIES
  OnlyByLoadedPolicy
  ReleasedIsRedacted
  AccountIsTrue
  EveryCallAnswered
CHECK_DEADLOCK FALSE
