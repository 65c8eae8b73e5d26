CONSTANTS
    Streams = {s1}
    Kinds = {"bidi_local"}
    AppOps = {"write", "conclude", "free"}
    MaxPackets = 1
    MaxWrites = 1
SPECIFICATION FairSpec
PROPERTY FreedCollected
CHECK_DEADLOCK FALSE
