CONSTANTS
    None = None
    Msgs = {m1}
    Pushed = {m1}
    InlineTries = 1
    BackoffTries = 1
    MaxFaults = 1
    MaxCycles = 2
    MaxPkgs = 5
    MaxMail = 1
    MaxSpawns = 2
    MaxDisputes = 1
SPECIFICATION FairSpec
CHECK_DEADLOCK FALSE
INVARIANTS DeliveredIsStored WorkIsNotRedone
PROPERTIES ShutdownIsHeard ReworkIsTakenUp MessageIsSettled
