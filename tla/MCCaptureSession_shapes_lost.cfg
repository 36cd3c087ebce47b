\* Inferred schema logging across sessions: two bindings, one key, two
\* values and two sessions, so a transaction fails after its drain.
CONSTANTS
    NB = 2
    Keys = {1}
    DocVals = {v1, v2}
    Collections = {"events"}
    CollectionOf <- MCSharedCollection
    Fields = {a}
    FieldVals = {1}
    Absent = Absent
    Null = Null
    RCs = {r1}
    NoRC = NoRC
    None = None
    NoState = NoState
    InitialJson <- MCInitialJson
    ExplicitAcks = TRUE
    AllowReset = FALSE
    MaxFrames = 3
    MaxSessions = 2

SPECIFICATION Spec


INVARIANT CommittedShapesLogged
