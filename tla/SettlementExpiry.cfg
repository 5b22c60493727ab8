SPECIFICATION Spec
CONSTANTS
    m1 = m1  b1 = b1  b2 = b2  o1 = o1
    Batches = {b1}
    Markets = {m1}
    MarketOf <- MCMarketOf
    OrdersOf <- MCOrdersOf
    Sizes <- MCSizes
    NoBatch = NoBatch
    Valid = 1
    MaxHeight = 3
    MaxFaults = 2
INVARIANTS OnlyStoredSignatureLive VerdictAgrees
PROPERTIES SettlementProceeds
CHECK_DEADLOCK FALSE
