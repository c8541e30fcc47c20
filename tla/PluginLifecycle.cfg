SPECIFICATION FairSpec
CONSTANTS
  MaxWakes = 5
  MaxUnloads = 3
INVARIANTS
  OutstandingIsExact
  UnloadedMeansQuiet
PROPERTIES
  EveryMessageReturns
CHECK_DEADLOCK FALSE
