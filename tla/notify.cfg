CONSTANTS
    t1 = t1
    t2 = t2
    b1 = b1
    Txids = {t1}
    Buyers = {b1}
    BuyerOf <- MCBuyerOf
    ZeroConf = {t1}
    NoTx = NoTx
    MinMisses = 1
    Notifying = TRUE
    MaxRetries = 2
    MaxCrashes = 1
SPECIFICATION NotifySpec
INVARIANTS ToldOnlyWhenCredited
