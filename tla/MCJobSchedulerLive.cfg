CONSTANTS
  j1 = j1
  j2 = j2
  j3 = j3
  j4 = j4
  e1 = e1
  e2 = e2
  None = None
  Jobs <- FourJobs
  Execs <- OneExec
  OneTime = {}
  Period <- LongFirst
  Priority <- ThreeRanks
  MaxConcurrent <- AllOne
  MaxConcurrentJobs = 1
  MaxTimeout = 2
  UseElection = FALSE
  Requests = {}
  MaxPending = 3
SPECIFICATION FairSpec
PROPERTIES JobsKeepRunning QueuedJobsRun
