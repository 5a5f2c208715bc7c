\* Three threads and two weight pools.
CONSTANTS
    Threads = {t1, t2, t3}
    Keys = {p1, p2}
    Contexts = {algo1}
    Latches = {l1, l2}
    NoLatch = NoLatch
SPECIFICATION Spec
INVARIANTS
    TypeOK
    ThroughMeansWarm
    OneWarmer
    MapIsInFlight
    SleeperHasWaker
PROPERTIES
    CallsReturn
    ImplementsWarmOnce
