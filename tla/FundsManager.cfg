CONSTANTS
    Scale = 4
    Wallets <- TwoWallets
    Order <- MixedOrders
    Batches <- TwoBatches
    Transfers <- OneWithdrawal
    Start <- StartBalances
    MaxFills = 2
    MaxEvents = 4
    MaxProjected = 2
    MaxFaults = 1
    MaxCrashes = 1
SPECIFICATION FairSpec
CHECK_DEADLOCK FALSE
INVARIANTS Accounted OrdersBacked PendingBacked NoChangeLost
PROPERTIES ProjectionsConverge
