CONSTANTS
    Datagrams <- MCDatagrams
    MaxDelay = 2
    MaxRanges = 2
    FrameRanges = 1
    PktsBeforeAck = 2
    MaxDeferred = 2
    MaxCopies = 2
    MaxDeliveries = 6
    MaxSent = 2
SPECIFICATION Spec
INVARIANTS AckTimely DeferredNotForgotten
PROPERTY NoLateDuplicate
CHECK_DEADLOCK FALSE
