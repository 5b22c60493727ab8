SPECIFICATION FairSpec
CONSTANTS
    MaxCmds = 2
    Taking <- FirstTakes
    Closing <- FirstCloses
    ChanCap = 1
    MaxFaults = 1
    MaxCrashes = 1
INVARIANTS NothingUnpublished CheckpointSound
PROPERTIES EveryCommandAcked
CHECK_DEADLOCK FALSE
