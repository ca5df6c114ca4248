SPECIFICATION SessionSpec
CONSTANTS
    r1 = r1
    r2 = r2
    r3 = r3
    i1 = i1
    i2 = i2
    i3 = i3
    None = None
    Visits <- MCVisits
    Savers <- MCSavers
    Ids <- MCIds
    Rolling = TRUE
    Resave = FALSE
    SaveUninitialized = FALSE
    MaxFaults = 1
INVARIANTS ChangesSaved
PROPERTIES RevivedByOverlapOnly
SYMMETRY Sym
\* Requests end.
CHECK_DEADLOCK FALSE
