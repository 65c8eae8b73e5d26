CONSTANTS
    Alloc = 2
    Limit = 3
    MaxOffset = 4
    Width = 6
    MaxFlight = 2
    MaxLate = 2
SPECIFICATION Spec
INVARIANTS BytesPartitioned BufferIntact ForgottenIsReceived RecvStatesExact
PROPERTY ImplementsByteStream
CHECK_DEADLOCK FALSE
