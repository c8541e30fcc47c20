SPECIFICATION Spec
CONSTANTS
  MaxForms = 2
  MaxDepth = 2
  MaxEvents = 8
INVARIANTS
  EveryLineIsOneValue
  SuccessMeansWholeOutput
CHECK_DEADLOCK FALSE
