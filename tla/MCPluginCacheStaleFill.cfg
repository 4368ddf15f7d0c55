CONSTANTS
    cors = cors
    keyauth = keyauth
    route = route
    consumer = consumer
    c1 = c1
    c2 = c2
    Undefined = Undefined
    Names <- MCNames
    EmptyProps <- MCEmptyProps
    Types <- MCTypes
    Callers <- MCCallers
    MaxClears = 1
    ClientUnwraps = FALSE

SPECIFICATION Spec

INVARIANT ClearedCacheHoldsNoOlderFill
