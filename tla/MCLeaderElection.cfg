CONSTANTS
  i1 = i1
  i2 = i2
  i3 = i3
  Instances <- ThreeInstances
  LockTimeout = 2
  Prompt = TRUE
  Faults <- KnownFaults
  MaxErrors = 1
SPECIFICATION FairSpec
PROPERTIES OnlyCreationWedges SplitNeedsAbandonedLock SplitHeals FailoverUnlessWedged
