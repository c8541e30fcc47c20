SPECIFICATION Spec
CONSTANTS
  MaxForms = 1
  MaxSubmissions = 3
  MaxMutationJobs = 2
  MaxAdmittedExecutions = 1
  ReadinessTimeout = 1
  RetryInitial = 1
  RetryMax = 1
  Kinds = {"drawing", "history", "execution"}
  Modes = {"Exec"}
  MayStop = TRUE
INVARIANTS
  QuarantineIsFinal
  StoppedQueueHoldsNoExecution
  WithinCapacity
PROPERTY SerialSpec
