CONSTANTS
    Readers = {"r1", "r2"}
    Pollers = {"p1"}
    Handlers = {"h1"}
    Joiners = {"free", "j1", "j2"}
    Closer = "free"
    Assist = "assist"
    Nobody = Nobody
    Items <- OneItem
    Programs <- Mixed
    MaxDatagrams = 1
SPECIFICATION FairSpec
INVARIANTS WaitersExact NotifierWillClear JoinedOnce
PROPERTIES BlockedReturn TeardownCompletes
CHECK_DEADLOCK FALSE
