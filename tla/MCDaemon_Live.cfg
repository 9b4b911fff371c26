CONSTANTS
    Requests = {q1}
    Triggers = {t}
    MaxFaults = 2
    DryRun = FALSE
    initial = initial
    good = good
    refused = refused
    bad = bad
    cInitial = cInitial
    cGood = cGood
    cRefused = cRefused
    Docs = {initial, good, refused}
    ValidDocs = {initial, good, refused}
    InitialDoc = initial
    Configs <- MCConfigs
    Render <- MCRender
    Rejected = {cRefused}
    Hashes <- MCHashes
    MaxRevision = 1
    Loop = Loop
    Absent = Absent
    Partial = Partial
    Foreign = Foreign
    NoHash = NoHash
    Boot = Boot
    None = None
    Empty = Empty
    Torn = Torn
SPECIFICATION LiveDaemon
INVARIANTS OnlyTestedIsServed InSyncAfterApply
PROPERTIES Converges RefusalIsReported
