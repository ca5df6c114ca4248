CONSTANTS
  a = a
  b = b
  d = d
  Jobs <- MCJobs
  Delayed <- MCDelayed
  MaxAttempts = 2
  Retriable <- MCRetriable
  Terse <- MCTerse
  Limits <- MCLimits
  Calls <- MCCalls
SPECIFICATION FairSpec
INVARIANTS ActiveCountExact AttemptsKept
PROPERTIES FollowsLifecycle StartsWithinLimit WaitingJobsRun
CHECK_DEADLOCK FALSE
