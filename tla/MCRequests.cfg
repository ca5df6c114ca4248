SPECIFICATION FairSpec
CONSTANTS
    Chains <- MCChains
    PhaseLists <- MCPhaseLists
    Routes <- MCRoutes
    Compression = TRUE
    MaxStray = 1
INVARIANTS OneResponse ErrorsAnswered
PROPERTIES HandlerStartsFresh Answered
\* A request ends.
CHECK_DEADLOCK FALSE
