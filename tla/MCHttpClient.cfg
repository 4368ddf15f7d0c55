CONSTANTS
    r1 = r1
    r2 = r2
    t1 = t1
    t2 = t2
    p1 = p1
    NoToken = NoToken
    Reqs <- MCReqs
    Tokens <- MCTokens
    Payloads <- MCPayloads
    Statuses <- MCStatuses
    EnvCodes <- MCEnvCodes

SPECIFICATION Spec

INVARIANT TypeOK
INVARIANT Http401DropsRejectedToken
PROPERTY ImplementsApiCalls
