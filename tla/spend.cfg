CONSTANTS
    s1 = s1
    s2 = s2
    r = r
    p = p
    d = d
    Senders = {s1, s2}
    Keys = {r, p, d}
    KindOf <- MCKindOf
    AmountsOf <- MCAmountsOf
    Price = 10
    MaxSendsPerJob = 2
    MaxSendsPerHour = 1
    Free = Free
    Torn = Torn
    MaxSends = 3
    MaxFailures = 2
SPECIFICATION Spec
SYMMETRY Symmetric
CHECK_DEADLOCK FALSE
INVARIANTS RecordIsKept HourIsBounded RefundIsBounded
