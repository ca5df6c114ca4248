CONSTANTS
  i1 = i1
  i2 = i2
  i3 = i3
  Instances <- ThreeInstances
  LockTimeout = 2
  Prompt = TRUE
  Faults <- CrashFaults
  MaxErrors = 0
SPECIFICATION Spec
SYMMETRY Symmetry
INVARIANT SingleLeader
