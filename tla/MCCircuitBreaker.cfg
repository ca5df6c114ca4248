CONSTANTS
  c1 = c1
  c2 = c2
  c3 = c3
  Calls <- MCCalls
  FailureThreshold = 2
  ResetTimeout = 3
  MonitoringPeriod = 1
  MaxFailures = 3
SPECIFICATION FairSpecH
INVARIANTS TrippedIsNotClosed
PROPERTIES NoAdmissionWhileCooling OpensOnRecentFailures OpenIsLeft
