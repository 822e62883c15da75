CONSTANTS
    m1 = m1
    m2 = m2
    t1 = t1
    NoModel = NoModel
    NumSlots = 4
    Models <- TwoModels
    Threads <- OneThread
    StagingMax = 2
    AcceptanceMax = 1
    RunCaps = {1, 2}
    MaxHeadInserts = 0
    MaxDisconnects = 0
SPECIFICATION BypassSpec
CHECK_DEADLOCK FALSE
INVARIANTS
    BypassBounded
PROPERTIES
    QueuedIsServed
