CONSTANTS
    a = a
    b = b
    NumSlots = 4
    Mixes <- Batch
    Parallel <- Wide
    Fallible = {2}
    LateArm = FALSE
    ShutsDown = TRUE
    NoSlot = NoSlot
SPECIFICATION FairSpec
CHECK_DEADLOCK FALSE
INVARIANTS
    ServedByOwnModel
    NoZombieSlot
    OwnedWhilePending
PROPERTIES
    
    EveryRequestSettled
    IdleHolderReleased
