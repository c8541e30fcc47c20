SPECIFICATION TimerSpec
CONSTANTS
  MaxForms = 2
  MaxSubmissions = 2
  MaxMutationJobs = 2
  MaxAdmittedExecutions = 2
  ReadinessTimeout = 2
  RetryInitial = 1
  RetryMax = 2
  Kinds = {"execution"}
  Modes = {"Exec", "Eval"}
  MayStop = TRUE
INVARIANTS
  PendingExecutionsUntouched
PROPERTIES
  AcceptedCancelNeverSucceeds
  NotStartedMeansNoForm
  PendingJobsExpire
