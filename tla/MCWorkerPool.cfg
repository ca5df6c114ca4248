CONSTANTS
  a = a
  b = b
  c = c
  w1 = w1
  w2 = w2
  w3 = w3
  Tasks <- MCTasks
  Timed <- MCTimed
  Priority <- MCPriority
  Threads <- MCThreads
  First <- MCFirst
  MaxQueue = 2
  MaxRestarts = 1
SPECIFICATION FairSpec
INVARIANTS CapacityKept NoTaskForgotten ClosedMeansSettled
PROPERTIES CrashIsIsolated TimedTasksSettle StopEnds
CHECK_DEADLOCK FALSE
