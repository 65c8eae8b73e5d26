CONSTANTS
    Streams = {s1}
    Kinds = {"bidi_local", "uni_local"}
    AppOps = {"write", "conclude", "shutdown"}
    MaxPackets = 1
    MaxWrites = 1
SPECIFICATION FairSpec
PROPERTY ConcludeTransmits FlushCompletes
CHECK_DEADLOCK FALSE
