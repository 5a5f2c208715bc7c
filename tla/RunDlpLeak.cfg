\* Weights that are not constant, a source zero point.
CONSTANTS
    Threads = {t1, t2}
    Weights = {w1}
    Prepacked = {}
    Fits = {}
    Buffers = {b1, b2, b3}
    Settings <- ChangingWeights
    Capacity = 4
    Unlimited = 4
    SizeSpan = 16
    Null = Null
    Absent = Absent
SPECIFICATION Spec
INVARIANTS
    EveryBlockIsOwned
