CONSTANTS
    r1 = r1
    t1 = t1
    Items = {r1, t1}
    TypeOf <- MCTypeOf
    Fates <- MCFates
    Modes <- MCModes
    MaxAttempts = 2
    MaxBatchFailures = 2
    MaxTroubles = 1
    Verbs = {"inactive"}
    Slow = TRUE
    LateRecords = FALSE
    MaxStarts = 2
SPECIFICATION FairSpec
CHECK_DEADLOCK FALSE
   
PROPERTIES EveryItemSettles
