CONSTANTS
    InitWnd = 2
    MinWnd = 2
    Items = {i1}
    Threshold = 2
    Servers = {TRUE}
    MaxPackets = 5
    MaxDrops = 2
    MaxRx = 2
    RxSpaces = {1, 2}
    MaxEarly = 0
    MaxProbes = 1
    MaxFrames = 1
    MaxRetry = 0
SPECIFICATION Spec
PROPERTY WindowRespected
CHECK_DEADLOCK FALSE
