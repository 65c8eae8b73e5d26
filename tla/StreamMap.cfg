CONSTANTS
    Streams = {s1}
    Kinds = {"bidi_local", "bidi_remote", "uni_local", "uni_remote"}
    AppOps = {"write", "conclude", "conclude_empty", "reset", "free", "shutdown"}
    MaxPackets = 2
    MaxWrites = 2
SPECIFICATION Spec
INVARIANTS ActiveCurrent DataRecvdIsAcked FlushCoversAll
PROPERTY StatesForward
CHECK_DEADLOCK FALSE
