\* Two publications of two drafts, both touching x and y; one user edit of
\* draft_specs.  Invariants over every interleaving of their statements,
\* and the refinement of atomic publications.
CONSTANTS
    p1 = p1  p2 = p2  d1 = d1  d2 = d2  x = x  y = y
    key = key  v = v  part = part  collection = collection  capture = capture
    Pubs = {p1, p2}
    Drafts = {d1, d2}
    DraftOf <- MCDraftOf
    Names = {x, y}
    Types = {collection, capture}
    Collection = collection
    Fields = {key, v, part}
    KeyFields = {key}
    PartitionFields = {part}
    FieldVals = {1, 2}
    Absent = Absent  Null = Null
    NoRow = NoRow  NoSpec = NoSpec  None = None  Untouched = Untouched
    InitDraft <- MCInitDraft
    InitLive <- MCInitLive
    MaxEdits = 1
SPECIFICATION Spec
INVARIANTS TypeOK LiveMatchesHistory KeyAndPartitionsNeverChange NoMustExistFailure
PROPERTY SerialPublications
