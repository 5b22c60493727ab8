SPECIFICATION FairSpec
CONSTANTS
    Orders <- ThreeOrders
    Markets <- TwoMarkets
    MarketOf <- Alternating
    Need <- SmallAndLarge
    Balance = 2
    MaxDeposits = 1
    MaxFaults = 1
INVARIANTS ReservesAgree LockedOnce
PROPERTIES EveryCommandDecided
CHECK_DEADLOCK FALSE
