SPECIFICATION FairSpec
CONSTANTS
    Installs = {i1}
    Checks = {c1, c2}
    MaxMounts = 2
    MaxStops = 1
INVARIANTS
    BusyIsTrue
    ShownIsLast
    SuccessWasActive
PROPERTIES
    TypedIsKept
    ButtonsComeBack
CHECK_DEADLOCK FALSE
