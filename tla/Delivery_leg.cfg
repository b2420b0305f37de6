CONSTANTS
    Modes = {"leg"}
    QueueDepth = 2
    EvictThreshold = 2
    MaxKeyframes = 2
    MaxDatagrams = 3
    Kinds = {"media"}
    MaxFaults = 1
SPECIFICATION FairSpec
CHECK_DEADLOCK FALSE
INVARIANTS
    LegAbandonsOldGop
    FewCarriers
PROPERTY CloseReturns
