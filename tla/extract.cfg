SPECIFICATION Spec
CONSTANTS
  Path <- MCPath
  Scenario <- MCScenario
  Size <- MCSize
  MaxFile = 2
  MaxTotal = 3
  MaxMembers = 2
  MaxCalls = 2
INVARIANTS
  TypeOK
  WithinLimits
  PublishedToEnd
  CompletedMeansAll
  StagedFits
CHECK_DEADLOCK FALSE
