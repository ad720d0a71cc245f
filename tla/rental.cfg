CONSTANTS
    j1 = j1
    j2 = j2
    Jobs = {j1, j2}
    Extending = {j1}
    None = None
    MaxHires = 2
    MaxNow = 1
    MaxCrashes = 1
    MaxFaults = 1
    Overlap = FALSE
SPECIFICATION FairSpec
CHECK_DEADLOCK FALSE
INVARIANTS TimeIsPaidFor
   
