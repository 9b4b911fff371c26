SPECIFICATION Spec
CONSTANTS
    None = None
    Routes = {r1, r2}
    New = New
    Paths = {p1, p2}
    Bad = bad
    MaxInit = 2
    MaxLocs = 3
    MaxAdds = 2
    MaxJobs = 3
    Stays = TRUE
INVARIANTS
    PointsAtChosen
PROPERTIES
    OnlyChosenChanges
CHECK_DEADLOCK FALSE
