CONSTANTS
    InitWnd = 2
    MinWnd = 1
    Items = {i1}
    Threshold = 2
    Servers = {TRUE, FALSE}
    MaxPackets = 3
    MaxDrops = 3
    MaxRx = 1
    RxSpaces = {0}
    MaxEarly = 0
    MaxProbes = 1
    MaxFrames = 1
    MaxRetry = 1
SPECIFICATION FairSpec
INVARIANTS ItemsExact InFlightExact
PROPERTIES ReducedOncePerWindow FramesSettled
CHECK_DEADLOCK FALSE
