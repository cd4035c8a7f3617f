\* Three tasks that open, use, invalidate and close pools.
SPECIFICATION FairSpec
CONSTANTS
    Tasks = {t1, t2, t3}
    Pools = {g1, g2, g3, g4}
    MaxSize = 2
    NoPool = NoPool
    NoTask = NoTask
INVARIANT TypeOK NoReportIsLost NoPoolIsLost OneLifecycleAtATime
PROPERTY RequestsAreServed
