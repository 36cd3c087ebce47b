\* Connector state: a two-field object, checkpoints that set or delete
\* fields with merge_patch, two runtime checkpoints, up to three connector
\* frames in each of two sessions; documents reduced to one key.
CONSTANTS
    NB = 1
    Keys = {1}
    DocVals = {v1}
    Collections = {"events"}
    CollectionOf <- MCOneCollection
    Fields = {a, b}
    FieldVals = {1}
    Absent = Absent
    Null = Null
    RCs = {r1, r2}
    NoRC = NoRC
    None = None
    NoState = NoState
    InitialJson <- MCInitialJson
    ExplicitAcks = TRUE
    AllowReset = FALSE
    MaxFrames = 3
    MaxSessions = 2

SPECIFICATION Spec

PROPERTY CheckpointRefinement
INVARIANT ResumeFromLastCommit

\* Shapes do not influence the properties checked here.
VIEW MCViewNoShapes
