CONSTANTS
    Streams = {s1, s2}
    Duplex = {}
    Narrow = {}
    Conn = Conn
    Limit = 2
    MaxPackets = 1
    InitStream = 1
    InitConn = 1
    MaxStream = 1
    MaxConn = 2
    InitWindow <- MCInitWindow
    MaxWindow <- MCMaxWindow
    Closings <- MCClosings
SPECIFICATION FairSpec
INVARIANTS BacklogBounded
PROPERTY DataFlows
CHECK_DEADLOCK FALSE
