CONSTANTS
    Streams = {s1}
    Duplex = {}
    Narrow = {s1}
    Conn = Conn
    Limit = 3
    MaxPackets = 1
    InitStream = 1
    InitConn = 4
    MaxStream = 2
    MaxConn = 5
    InitWindow <- MCInitWindow
    MaxWindow <- MCMaxWindow
    Closings <- MCClosings
SPECIFICATION FairSpec
PROPERTY DataFlows
CHECK_DEADLOCK FALSE
