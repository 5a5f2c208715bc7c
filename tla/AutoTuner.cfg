\* The defaults of the code but for the candidates: two warm-up iterations,
\* three evaluations.
CONSTANTS
    l1 = l1
    l2 = l2
    a1 = a1
    a2 = a2
    Threads = {t1, t2}
    Layers <- TwoLayers
    Candidates <- TwoCandidates
    BaseSkip = 2
    BaseEval = 3
    Times = {1, 2}
    None = None
    MaxCalls <- CallBound
SPECIFICATION Spec
\* The framework may stop calling.
CHECK_DEADLOCK FALSE
INVARIANTS
    TypeOK
    BestWasMeasured
    SettlesOnFastest
    EverySlotTimed
    SlotsCompare
    PickRestsOnEvaluation
PROPERTIES
    SerialSettles
