CONSTANTS
    Names = {identity, alias}
    Identity = identity
    Alias = alias
    Claimed = identity
    Txs = {t1}
    None = None
    Reqs = {r1, r2}
    Keys = {k1, k2}
    n1 = n1
    NonceOf <- MCNonceOf
    Amount = 2
    Before = 2
    EstIn = 0
    ReserveOut = 1
    MaxOut = 2
    Threshold = 1
    Cap = 1
    Burst = 1
    CircuitAt = 1
    MaxFaults = 1
SPECIFICATION FairSpec
CHECK_DEADLOCK FALSE
INVARIANTS  SlotsAreHeld OneKeyPerEnvelope
PROPERTIES EveryRequestEnds
