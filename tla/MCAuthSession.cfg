CONSTANTS
    t1 = t1
    t2 = t2
    None = None
    Tokens <- MCTokens
    MaxReloads = 1
    MaxCalls = 1
    MaxSignIns = 2

SPECIFICATION Spec

INVARIANT TypeOK
INVARIANT LoadingOnlyWhileBusy
INVARIANT SessionTokenMatchesStorage
INVARIANT NeverSentToLogout
PROPERTY SessionSettles

\* A user sent to "/" sees the 404 page, where nothing runs until they
\* load another URL; those loads are bounded here.
CHECK_DEADLOCK FALSE
