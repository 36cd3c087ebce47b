\* Progress: a one-field state, one binding, one key, up to three connector
\* frames in each of two sessions.  The session loop and the client are
\* weakly fair (CaptureSession!Fairness); the connector and failures are not.
CONSTANTS
    NB = 1
    Keys = {1}
    DocVals = {v1}
    Collections = {"events"}
    CollectionOf <- MCOneCollection
    Fields = {a}
    FieldVals = {1}
    Absent = Absent
    Null = Null
    RCs = {r1}
    NoRC = NoRC
    None = None
    NoState = NoState
    InitialJson <- MCInitialJson
    ExplicitAcks = TRUE
    AllowReset = TRUE
    MaxFrames = 3
    MaxSessions = 2

SPECIFICATION Spec

PROPERTY CheckpointsCommitted
PROPERTY EofEndsSession
