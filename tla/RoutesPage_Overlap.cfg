SPECIFICATION FairSpec
CONSTANTS
    MaxIds = 1
    MaxInit = 1
    MaxJobs = 2
    MaxFaults = 0
    Settings = {s1}
    Bad = bad
    Buttons = {"submit", "force"}
    Patient = FALSE
    None = None
INVARIANTS
    TypeOK
    SpinnersAreTrue
PROPERTY
    SpinnersEnd
