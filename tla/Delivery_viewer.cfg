CONSTANTS
    Modes = {"datagram", "reliable", "dvr"}
    QueueDepth = 2
    EvictThreshold = 2
    MaxKeyframes = 2
    MaxDatagrams = 3
    Kinds = {"media", "control"}
    MaxFaults = 2
SPECIFICATION FairSpec
CHECK_DEADLOCK FALSE
INVARIANTS
    TypeOK
    OneKeyframeInFlight
    ClosedLeavesNothing
    QueuedControlKept
    NoLostWakeup
PROPERTY CloseReturns
