CONSTANTS
    Requests = {q1, q2}
    Triggers = {t}
    MaxFaults = 1
    DryRun = FALSE
    initial = initial
    good = good
    refused = refused
    bad = bad
    cInitial = cInitial
    cGood = cGood
    cRefused = cRefused
    Docs = {initial, refused, bad}
    ValidDocs = {initial, refused}
    InitialDoc = initial
    Configs <- MCConfigs
    Render <- MCRender
    Rejected = {cRefused}
    Hashes <- MCHashes
    MaxRevision = 1
    Loop = Loop
    Absent = Absent
    Partial = Partial
    Foreign = Foreign
    NoHash = NoHash
    Boot = Boot
    None = None
    Empty = Empty
    Torn = Torn
SPECIFICATION DaemonSpec
SYMMETRY Symmetry
INVARIANTS DaemonTypeOK RestartPossible AckedSurvives MemoryIsCommitted
PROPERTIES RevisionsLinear ImplementsRegister NeverGoesBack ImplementsStore
