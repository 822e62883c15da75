CONSTANTS
    a = a
    b = b
    NumSlots = 2
    Mixes <- Pair
    Parallel <- Serial
    Fallible = {1}
    LateArm = FALSE
    ShutsDown = FALSE
    NoSlot = NoSlot
SPECIFICATION FairSpec
CHECK_DEADLOCK FALSE
PROPERTIES
    StreamCallerTold
