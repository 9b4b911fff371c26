CONSTANTS
    Requests = {q1, q2}
    initial = initial
    good = good
    bad = bad
    Docs <- MCDocs
    ValidDocs <- MCValidDocs
    InitialDoc = initial
    MaxRevision = 2
    Hashes = {h}
    NoHash = NoHash
    Boot = Boot
    None = None
    Empty = Empty
    Torn = Torn
SPECIFICATION Spec
INVARIANT AckedSurvives
\* A torn state.json keeps the daemon from starting: it may stay down.
CHECK_DEADLOCK FALSE
