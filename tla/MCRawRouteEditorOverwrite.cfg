CONSTANTS
    r1 = r1
    r2 = r2
    v1 = v1
    v2 = v2
    NoId = NoId
    Absent = Absent
    Ids <- MCIds
    Vals <- MCVals
    RouteId = r1
    MaxEdits = 1
    MaxSaves = 2
    Failures = FALSE

SPECIFICATION Spec

PROPERTY EditsNotOverwritten

\* The editor runs nothing by itself: once its requests have settled it
\* waits for the user, whose steps are bounded here.
CHECK_DEADLOCK FALSE
