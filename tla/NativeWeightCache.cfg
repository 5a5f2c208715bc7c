\* Two threads, caches of one entry.
CONSTANTS
    f1 = f1
    c1 = c1
    c2 = c2
    m1 = m1
    q1 = q1
    q2 = q2
    Threads = {t1, t2}
    Weights = {f1, c1, c2, m1}
    Mutable = {m1}
    Quants = {q1, q2}
    NoQuant = NoQuant
    Models <- OrdinaryModels
    Blocks = {b1, b2, b3, b4}
    NoBlock = NoBlock
    NoPack = NoPack
    NoRecord = NoRecord
    NoCall = NoCall
    Capacity = 1
    QuantsOverlap = FALSE
    MemoryRunsOut = TRUE
    MaxVersions = 1
    MaxGeneration = 1
SPECIFICATION Spec
SYMMETRY NativeSymmetry
INVARIANTS
    TypeOK
    ReadsOwnWeight
    EveryBlockHasOneHolder
    TlRecordsAreCurrent
PROPERTIES
    EntriesAreStable
