CONSTANTS
    Streams = {s1, s2}
    Duplex = {s1}
    Narrow = {s1}
    Conn = Conn
    Limit = 2
    MaxPackets = 1
    InitStream = 1
    InitConn = 1
    MaxStream = 1
    MaxConn = 2
    InitWindow <- MCInitWindow
    MaxWindow <- MCMaxWindow
    Closings <- MCClosings
SPECIFICATION Spec
INVARIANTS HonestPeer BytesCountedOnce CreditAgreed GrantNotForgotten
CHECK_DEADLOCK FALSE
