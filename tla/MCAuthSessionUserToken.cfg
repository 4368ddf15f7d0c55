CONSTANTS
    t1 = t1
    t2 = t2
    None = None
    Tokens <- MCTokens
    MaxReloads = 2
    MaxCalls = 0
    MaxSignIns = 2

SPECIFICATION Spec

INVARIANT NoUserWithoutToken

\* A user sent to "/" sees the 404 page, where nothing runs until they
\* load another URL; those loads are bounded here.
CHECK_DEADLOCK FALSE
