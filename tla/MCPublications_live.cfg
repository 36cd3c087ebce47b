\* Both names live, so the two publications can lock x and y in opposite
\* orders and deadlock.  Checks that every publication finishes under the
\* fairness of Postgres' statement execution and deadlock detector.  The
\* system stops once both publications are done; deadlock freedom of that
\* final state is checked by MCPublications.cfg.
CONSTANTS
    p1 = p1  p2 = p2  d1 = d1  d2 = d2  x = x  y = y
    key = key  v = v  part = part  collection = collection  capture = capture
    Pubs = {p1, p2}
    Drafts = {d1, d2}
    DraftOf <- MCDraftOf
    Names = {x, y}
    Types = {collection, capture}
    Collection = collection
    Fields = {key, v, part}
    KeyFields = {key}
    PartitionFields = {part}
    FieldVals = {1, 2}
    Absent = Absent  Null = Null
    NoRow = NoRow  NoSpec = NoSpec  None = None  Untouched = Untouched
    InitDraft <- MCInitDraft
    InitLive <- MCInitLiveBoth
    MaxEdits = 1
SPECIFICATION Spec
PROPERTY PublicationsFinish
CHECK_DEADLOCK FALSE
