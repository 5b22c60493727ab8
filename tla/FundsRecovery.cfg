CONSTANTS
    b1 = b1
    b2 = b2
    d1 = d1
    w1 = w1
    r1 = r1
    Batches <- OneBatch
    Deposits <- None
    Withdrawals <- None
    Releases <- None
    MaxCrashes = 1
    MaxFaults = 1
SPECIFICATION FairSpec
CHECK_DEADLOCK FALSE
INVARIANTS BatchOnce SnapshotSound
PROPERTIES FirstTerminalWins LedgerSpec EveryEventHandled
