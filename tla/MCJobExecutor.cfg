CONSTANTS
  e1 = e1
  e2 = e2
  Execs <- MCExecs
  MaxRetries = 1
  FailureThreshold = 3
  ResetTimeout = 1
  MaxFailures = 4
SPECIFICATION FairSpec
PROPERTIES RecordsLikeABreaker CancelledStartsNothing NothingStartsAfterShutdown EveryExecutionSettles
