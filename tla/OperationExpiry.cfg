SPECIFICATION TimerSpec
CONSTANTS
  MaxForms = 1
  MaxSubmissions = 1
  MaxMutationJobs = 1
  MaxAdmittedExecutions = 1
  ReadinessTimeout = 2
  RetryInitial = 1
  RetryMax = 2
  Kinds = {"drawing"}
  Modes = {}
  MayStop = FALSE
PROPERTY PendingJobsExpire
