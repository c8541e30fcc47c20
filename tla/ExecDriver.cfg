SPECIFICATION FairSpec
CONSTANTS
  MaxForms = 1
  MaxDispatches = 1
  MaxInterruptions = 1
  FormsMayEscape = FALSE
INVARIANTS
  OneFinalizer
  ProvedMeansClean
  TruthfulOutcome
PROPERTIES
  ContextRestored
  DispatchEnds
CHECK_DEADLOCK FALSE
