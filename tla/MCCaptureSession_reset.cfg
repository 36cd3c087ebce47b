\* Connector state with full-replacement checkpoints (merge_patch = false,
\* scenario S3): a two-field object, up to two connector frames, one session.
CONSTANTS
    NB = 1
    Keys = {1}
    DocVals = {v1}
    Collections = {"events"}
    CollectionOf <- MCOneCollection
    Fields = {a, b}
    FieldVals = {1}
    Absent = Absent
    Null = Null
    RCs = {r1}
    NoRC = NoRC
    None = None
    NoState = NoState
    InitialJson <- MCInitialJson
    ExplicitAcks = TRUE
    AllowReset = TRUE
    MaxFrames = 2
    MaxSessions = 1

SPECIFICATION Spec

PROPERTY CheckpointRefinement
