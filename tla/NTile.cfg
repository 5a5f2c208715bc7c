SPECIFICATION Spec
CONSTANTS
    CcdLanes = 2
    L3PerCcd = 8
    DecodeMaxM = 2
    DecodeNTile = 2
    MinNTile = 4
    FewExpertsAlgo1 = 1
    MaxExperts = 5
    MidBand = {2}
    DecodeDMinOps = 2
    DecodeDMinRows = 1
    TierMinExperts = 3
    BalancedMaxThreads = 4
    Calls <- AllCalls
    Schedules <- CallSchedules
    MaxTeam = 5
CHECK_DEADLOCK FALSE
INVARIANTS
    TypeOK
    EachColumnOnce
    ActivatedOnceAfterProduct
    TilesHoldWholeBlocks
    TilesWereWarmed
PROPERTIES
    KeepsPromise
