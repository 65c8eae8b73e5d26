CONSTANTS
    Unconfirmed = {}
    Exchanged = FALSE
    MaxPackets = 5
    MaxUpdates = 2
SPECIFICATION Spec
INVARIANT UpdateAwaitsAck
CHECK_DEADLOCK FALSE
