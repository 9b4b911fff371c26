SPECIFICATION FairSpec
CONSTANTS
    Processes = {p1, p2, p3}
    None = None
    MaxStarts = 5
    MaxFaults = 3
INVARIANTS
    ServedIsReachable
PROPERTY
    StopsEnd
CHECK_DEADLOCK FALSE
