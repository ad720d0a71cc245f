CONSTANTS
    Procs = {p1, p2}
    Gone = {gone}
    Missing = Missing
    Leftovers = {"none", "full"}
    Again = {}
    Failing = {"write", "fill"}
    MaxCrashes = 1
SPECIFICATION FairSpec
CHECK_DEADLOCK FALSE
PROPERTIES  DeadIsReplaced
