SPECIFICATION Spec
CONSTANTS
    MaxIds = 4
    MaxInit = 2
    MaxJobs = 3
    MaxFaults = 1
    Settings = {s1, s2}
    Bad = bad
    Buttons = {"submit"}
    Patient = TRUE
    None = None
INVARIANTS
    ListIsStored
    SuccessIsStored
PROPERTY
    ImplementsRouteTable
