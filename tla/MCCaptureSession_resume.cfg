\* Resume after a restart when Open.state_json sets a field: merge-patch
\* checkpoints that set or delete fields, two sessions, so a connector can
\* delete the initial field, commit, fail and be reopened.
CONSTANTS
    NB = 1
    Keys = {1}
    DocVals = {v1}
    Collections = {"events"}
    CollectionOf <- MCOneCollection
    Fields = {a, b}
    FieldVals = {1}
    Absent = Absent
    Null = Null
    RCs = {r1, r2}
    NoRC = NoRC
    None = None
    NoState = NoState
    InitialJson <- MCInitialJsonOneField
    ExplicitAcks = TRUE
    AllowReset = FALSE
    MaxFrames = 3
    MaxSessions = 2

SPECIFICATION Spec

INVARIANT ResumeFromLastCommit

\* Shapes do not influence the properties checked here.
VIEW MCViewNoShapes
