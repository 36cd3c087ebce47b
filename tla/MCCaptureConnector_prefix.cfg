\* The connector and client of MCCaptureConnector.cfg: the committed view
\* is checked to be the reduction of a prefix of the source.
CONSTANTS
    NB = 2
    Keys = {1}
    DocVals = {1, 2, 3, 4}
    Collections = {"events"}
    CollectionOf <- MCSharedCollection
    Fields = {cursor}
    FieldVals = {1, 2, 3, 4}
    Absent = Absent
    Null = Null
    RCs = {r1}
    NoRC = NoRC
    None = None
    NoState = NoState
    InitialJson <- MCInitialJson
    ExplicitAcks = TRUE
    AllowReset = FALSE
    MaxFrames = 6
    MaxSessions = 2
    Source <- MCSource
    CursorField = cursor

SPECIFICATION ComposedSpec

INVARIANT PrefixConsistent

VIEW MCViewNoShapes
