SPECIFICATION Spec
CONSTANTS
    a = a
    s1 = s1
    s2 = s2
    None = None
    Torn = Torn
    Jobs <- MCJobs
    Saves <- MCSaves
    MaxExecutions = 2
    MaxFaults = 1
INVARIANTS FileWhole CleanMeansSaved RecoveryExact ExecutionsCounted
SYMMETRY Sym
CHECK_DEADLOCK FALSE
