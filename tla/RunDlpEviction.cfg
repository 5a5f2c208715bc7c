\* ZENDNNL_LRU_CACHE_CAPACITY=1 and two layers.
CONSTANTS
    Threads = {t1, t2}
    Weights = {w1, w2}
    Prepacked = {}
    Fits = {}
    Buffers = {b1, b2, b3}
    Settings <- FloatWeights
    Capacity = 1
    Unlimited = 4
    SizeSpan = 16
    Null = Null
    Absent = Absent
SPECIFICATION Spec
INVARIANTS
    GemmReadsItsPack
