CONSTANTS
    Datagrams <- MCDatagrams
    MaxDelay = 2
    MaxRanges = 2
    FrameRanges = 1
    PktsBeforeAck = 2
    MaxDeferred = 2
    MaxCopies = 2
    MaxDeliveries = 4
    MaxSent = 2
SPECIFICATION Spec
INVARIANT FrameCoversAll
CHECK_DEADLOCK FALSE
