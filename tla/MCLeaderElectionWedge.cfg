CONSTANTS
  i1 = i1
  i2 = i2
  i3 = i3
  Instances <- TwoInstances
  LockTimeout = 2
  Prompt = TRUE
  Faults <- CrashFaults
  MaxErrors = 0
SPECIFICATION FairSpec
PROPERTY Failover
