SPECIFICATION Spec
CONSTANTS
    CcdLanes = 2
    LightFloor = 1
    DecodeMaxM = 2
    MaxExperts = 3
    FewExpertsAlgo1 = 2
    FewExpertsAlgo2Pref = 3
    Calls <- AllCalls
    Jobs <- CallJobs
    MaxTeam = 4
CHECK_DEADLOCK FALSE
INVARIANTS
    TypeOK
    EachRowOnce
    FallbackFindsNothingDone
PROPERTIES
    StepsReadTheirInput
    KeepsPromise
