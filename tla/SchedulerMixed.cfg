SPECIFICATION FairSpec
CONSTANTS
  MaxForms = 1
  MaxSubmissions = 2
  MaxMutationJobs = 2
  MaxAdmittedExecutions = 1
  ReadinessTimeout = 2
  RetryInitial = 1
  RetryMax = 2
  Kinds = {"drawing", "history", "execution"}
  Modes = {"Exec"}
  MayStop = FALSE
INVARIANTS
  JobsAccountedFor
  ReadyWorkHasAWake
  WakePendingIsOneWake
  HostOwnsActive
  TimerKnowsItsDeadlines
PROPERTY EveryJobAnswered
