\* A source zero point that changes from call to call.
CONSTANTS
    Threads = {t1, t2}
    Weights = {w1}
    Prepacked = {}
    Fits = {}
    Buffers = {b1, b2, b3}
    Settings <- DynamicSource
    Capacity = 4
    Unlimited = 4
    SizeSpan = 16
    Null = Null
    Absent = Absent
SPECIFICATION Spec
INVARIANTS
    CompIsForThisCall
