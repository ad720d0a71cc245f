CONSTANTS
    Procs = {p1, p2, p3}
    Gone = {gone}
    LeftGates = {}
    GateDeaths = TRUE
    Missing = Missing
    MaxCrashes = 2
SPECIFICATION FairSpec
PROPERTIES IsMutex DeadIsReplaced
