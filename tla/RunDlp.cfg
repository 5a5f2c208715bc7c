\* Unlimited caches.  w1 can be reordered in place, w2 cannot, w3 comes blocked.
CONSTANTS
    Threads = {t1, t2}
    Weights = {w1, w2, w3}
    Prepacked = {w3}
    Fits = {w1}
    Buffers = {b1, b2, b3, b4, b5}
    Settings <- SupportedSettings
    Capacity = 4
    Unlimited = 4
    SizeSpan = 16
    Null = Null
    Absent = Absent
SPECIFICATION Spec
SYMMETRY DlpSymmetry
INVARIANTS
    TypeOK
    GemmReadsItsPack
    CompIsForThisCall
    EveryBlockIsOwned
    NullEntryMeansBlocked
