CONSTANTS
    None = None
    Absent = Absent
    Ids <- MCIds
    PageSize = 1
    MaxLoads = 2
    MaxActs = 1
    Failures = TRUE

SPECIFICATION Spec

INVARIANT TypeOK

\* The page runs nothing by itself: once every call has settled it waits for
\* the user, whose steps are bounded here.
CHECK_DEADLOCK FALSE
