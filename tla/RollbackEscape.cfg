SPECIFICATION Spec
CONSTANTS
  MaxForms = 1
  MaxDispatches = 1
  MaxInterruptions = 0
  FormsMayEscape = TRUE
INVARIANT RolledBackMeansRolledBack
CHECK_DEADLOCK FALSE
