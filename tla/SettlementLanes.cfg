INIT Init
NEXT Next
CONSTANTS
    m1 = m1  b1 = b1  b2 = b2  o1 = o1
    Batches = {b1, b2}
    Markets = {m1}
    MarketOf <- MCMarketOf
    OrdersOf <- MCOrdersOf
    Sizes <- MCSizes
    NoBatch = NoBatch
    Valid = 0
    MaxHeight = 1
    MaxFaults = 1
SYMMETRY BatchSymmetry
INVARIANTS LaneExclusive PreparedSoundly
PROPERTIES SubmittedInOrder
CHECK_DEADLOCK FALSE
