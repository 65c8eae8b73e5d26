CONSTANTS
    Alloc = 2
    Limit = 3
    MaxOffset = 4
    Width = 6
    MaxFlight = 2
    MaxLate = 1
SPECIFICATION FairSpec
INVARIANTS BytesPartitioned BufferIntact ForgottenIsReceived RecvStatesExact
PROPERTIES ImplementsByteStream FinishedStreamCompletes
CHECK_DEADLOCK FALSE
