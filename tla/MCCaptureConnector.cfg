\* A connector over a four-record source in two bindings and the client's
\* committed view, up to six connector frames in each of two sessions:
\* every record lost to a failure or a restart must be sent again, and the
\* documents re-sent after a restart are drained against shapes the failed
\* session already widened.
CONSTANTS
    NB = 2
    Keys = {1}
    DocVals = {1, 2, 3, 4}
    Collections = {"events"}
    CollectionOf <- MCSharedCollection
    Fields = {cursor}
    FieldVals = {1, 2, 3, 4}
    Absent = Absent
    Null = Null
    RCs = {r1}
    NoRC = NoRC
    None = None
    NoState = NoState
    InitialJson <- MCInitialJson
    ExplicitAcks = TRUE
    AllowReset = FALSE
    MaxFrames = 6
    MaxSessions = 2
    Source <- MCSource
    CursorField = cursor

SPECIFICATION ComposedSpec

INVARIANT NoLostRecords
INVARIANT InferredSchemasLogged
