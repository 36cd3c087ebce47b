\* Documents, stats and acknowledgements: two bindings of one collection,
\* two keys, two values, up to four connector frames in each of two sessions.
CONSTANTS
    NB = 2
    Keys = {1, 2}
    DocVals = {v1, v2}
    Collections = {"events"}
    CollectionOf <- MCSharedCollection
    Fields = {a}
    FieldVals = {1}
    Absent = Absent
    Null = Null
    RCs = {r1}
    NoRC = NoRC
    None = None
    NoState = NoState
    InitialJson <- MCInitialJson
    ExplicitAcks = TRUE
    AllowReset = FALSE
    MaxFrames = 4
    MaxSessions = 2

SPECIFICATION Spec

INVARIANT TypeOK
INVARIANT KeyStability
INVARIANT StatsConservation

\* Shapes do not influence the properties checked here.
VIEW MCViewNoShapes
