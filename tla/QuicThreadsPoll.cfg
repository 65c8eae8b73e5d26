CONSTANTS
    Readers = {}
    Pollers = {"p1"}
    Handlers = {"h1"}
    Joiners = {"free"}
    Closer = "free"
    Assist = "assist"
    Nobody = Nobody
    Items <- TwoItems
    Programs <- Polling
    MaxDatagrams = 2
SPECIFICATION Spec
INVARIANT SectionsLeft
CHECK_DEADLOCK FALSE
