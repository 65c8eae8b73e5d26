CONSTANTS
    Streams = {s1}
    Kinds = {"uni_local"}
    AppOps = {"conclude_empty"}
    MaxPackets = 1
    MaxWrites = 1
SPECIFICATION FairSpec
PROPERTY ConcludeTransmits
CHECK_DEADLOCK FALSE
