\* CreateKeepsExisting: a create never replaces a record the admin API holds.
\* The example returns and the other caller stops, so the system may halt.
CONSTANTS
    r1 = r1  r2 = r2  u1 = u1  u2 = u2  s1 = s1  c1 = c1  c2 = c2  c3 = c3
    t1 = t1  p1 = p1  q1 = q1  b1 = b1
    Undefined = Undefined
    TypeErr = TypeErr
    NoRef = NoRef
    IdsOf <- MCIdsOf
    Literal <- MCLiteral
    Users <- MCUsers
    Bodies <- MCBodies
    Names <- MCNames
    Uris <- MCUris
    LabelSeqs <- MCLabelSeqs
    VersionSeqs <- MCVersionSeqs
    Pages <- MCPages
    MaxCalls = 2
    Failures = TRUE

SPECIFICATION UsageSpec
VIEW MCView

PROPERTY CreateKeepsExisting


CHECK_DEADLOCK FALSE
