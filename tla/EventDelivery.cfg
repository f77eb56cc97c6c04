SPECIFICATION FairSpec
CONSTANTS
    Nodes = {n1}
    NoEvent = NoEvent
    QueueSize = 2
    MaxRetries = 1
    MaxEvents = 3
    Losses = 1
    Crashes = 1
INVARIANTS
    TypeOK
PROPERTIES
    ForwardOnly
    QueuedArrives
CHECK_DEADLOCK FALSE
