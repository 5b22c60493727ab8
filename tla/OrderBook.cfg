SPECIFICATION FairBookSpec
CONSTANTS
    Scale = 4
    MaxOrders = 3
    Commands <- MixedCommands
    Times <- TwoTimes
INVARIANTS BookSound FillsFair BookPublished
PROPERTIES RestartKeepsBook MatchEnds
