CONSTANTS
  j1 = j1
  j2 = j2
  j3 = j3
  j4 = j4
  e1 = e1
  e2 = e2
  None = None
  Jobs <- TwoJobs
  Execs <- TwoExecs
  OneTime <- OneTimeJob
  Period <- AllOne
  Priority <- Ranked
  MaxConcurrent <- AllOne
  MaxConcurrentJobs = 1
  MaxTimeout = 1
  UseElection = TRUE
  Requests <- AllRequests
  MaxPending = 2
SPECIFICATION Spec
SYMMETRY Symmetry
INVARIANTS CountersMatch NoStrandedItem ScheduledWithinLimits NoLostJob
PROPERTY DrainByPriority
