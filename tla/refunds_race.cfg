CONSTANTS
    j1 = j1
    j2 = j2
    d1 = d1
    d2 = d2
    Jobs = {j1}
    Drains = {d1, d2}
    Cli = cli
    Sweep = sweep
    Boot = boot
    Free = free
    Dead = dead
    NoJob = NoJob
    Verbs = {"approve", "reject", "unblock"}
    Serial = FALSE
    SendsAllowed = 2
    MaxCrashes = 2
SPECIFICATION FairSpec
INVARIANTS SentWasApproved
PROPERTIES ApprovedIsSettled
