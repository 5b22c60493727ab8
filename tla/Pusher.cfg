SPECIFICATION FeedSpec
CONSTANTS
    Levels = {l1}
    QueueSize = 1
    MaxConns = 2
    MaxEvents = 2
    MaxLost = 1
INVARIANTS FeedSound HubSound
PROPERTIES BrowserCatchesUp
CHECK_DEADLOCK FALSE
