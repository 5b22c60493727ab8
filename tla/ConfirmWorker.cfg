SPECIFICATION WorkerSpec
CONSTANTS
    Sigs = {s1}
    KindsOf <- MCKindsOf
    NoSig = NoSig
    MaxFaults = 3
INVARIANTS DecisionsKept
PROPERTIES EveryAcceptedDecided MarketProjected
CHECK_DEADLOCK FALSE
