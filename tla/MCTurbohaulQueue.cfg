CONSTANTS
    m1 = m1
    m2 = m2
    t1 = t1
    t2 = t2
    NoModel = NoModel
    NumSlots = 4
    Models <- TwoModels
    Threads <- OneThread
    StagingMax = 2
    AcceptanceMax = 2
    RunCaps = {2}
    MaxHeadInserts = 1
    MaxDisconnects = 1
SPECIFICATION Spec
CHECK_DEADLOCK FALSE
SYMMETRY Symmetry
INVARIANTS
    TypeOK
    EachSlotOnce
    TierMatchesState
    TiersBounded
PROPERTIES
    AgedHeadGoesNext
    DisconnectedIsFlagged
    RefinesPool
