SPECIFICATION FairSpec
CONSTANTS
    t1 = t1
    t2 = t2
    t3 = t3
    Threads = {t1, t2, t3}
    Roots <- MCRoots
    Plans = {1, 2}
    Depends <- MCDepends
    RootBytes <- MCRootBytes
    MaxEntries = 2
    MaxBytes = 3
    Requests <- MCRequests
    MaxCalls = 4
INVARIANTS
    TypeOK
    FlightsApart
    WaitersHaveFlight
    CacheCoherent
    CacheWithinLimits
PROPERTIES
    SnapshotsComplete
    EveryCallReturns
CHECK_DEADLOCK FALSE
