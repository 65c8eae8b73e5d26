CONSTANTS
    t1 = t1
    t2 = t2
    t3 = t3
    o1 = o1
    o2 = o2
    Threads <- ThreeThreads
    Objs <- TwoObjs
    GroupCount = 3
    IdMod = 3
    MaxDepth = 2
    Readers <- TwoReaders
    None = None
SPECIFICATION FairSpec
INVARIANTS NoUseAfterFree NoLostWakeup IndInv
PROPERTIES ImplementsSafeReclaim GracePeriodsEnd
