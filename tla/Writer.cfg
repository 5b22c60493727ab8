SPECIFICATION Spec
CONSTANTS
    b1 = b1
    b2 = b2
    a1 = a1
    Orders = {b1, b2, a1}
    SideOf <- MCSideOf
    QtyOf <- MCQtyOf
    RecentLimit = 1
    MaxBatches = 3
    MaxFaults = 2
INVARIANTS RowsCaughtUp RedisSound
PROPERTIES EveryDeltaAcked
CHECK_DEADLOCK FALSE
