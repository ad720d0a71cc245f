CONSTANTS
    j1 = j1
    j2 = j2
    d1 = d1
    d2 = d2
    Jobs = {j1, j2}
    Drains = {d1}
    Cli = cli
    Sweep = sweep
    Boot = boot
    Free = free
    Dead = dead
    NoJob = NoJob
    Verbs = {"approve", "reject", "unblock"}
    Serial = TRUE
    SendsAllowed = 2
    MaxCrashes = 2
SPECIFICATION Spec
INVARIANTS  SentIsRecorded
 
