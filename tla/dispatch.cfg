CONSTANTS
    Jobs = {j1}
    Agents = {a1}
    a1 = a1
    MaxAgents = 1
    Hooks = {h1}
    MaxRetries = 1
    MaxRevives = 1
    MaxTroubles = 2
    SellerOf <- MCSellerOf
SPECIFICATION Spec
CHECK_DEADLOCK FALSE
INVARIANTS PausedIsOnDisk MarkIsServed
PROPERTIES RowIsKept ReplacedIsSpared
