CONSTANTS
    t1 = t1
    t2 = t2
    b1 = b1
    Txids = {t1, t2}
    Buyers = {b1}
    BuyerOf <- MCBuyerOf
    ZeroConf = {t1}
    NoTx = NoTx
    MinMisses = 1
    Notifying = FALSE
    MaxCrashes = 2
SPECIFICATION FairSpec
INVARIANTS NeverCreditedTwice NothingLostSilently LedgerInv
PROPERTIES ReleasedOnlyWhenGone ReversalIsUndone LoneDroppedIsTakenBack
