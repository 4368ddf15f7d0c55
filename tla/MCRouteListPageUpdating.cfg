CONSTANTS
    None = None
    Absent = Absent
    Ids <- MCIds
    PageSize = 1
    MaxLoads = 0
    MaxActs = 2
    Failures = FALSE

SPECIFICATION Spec

INVARIANT UpdatingRowDisabled

\* The page runs nothing by itself: once every call has settled it waits for
\* the user, whose steps are bounded here.
CHECK_DEADLOCK FALSE
