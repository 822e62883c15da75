CONSTANTS
    a = a
    b = b
    NumSlots = 3
    Mixes <- Conversation
    Parallel <- Serial
    Fallible = {1, 2}
    LateArm = TRUE
    ShutsDown = TRUE
    NoSlot = NoSlot
SPECIFICATION Spec
CHECK_DEADLOCK FALSE
INVARIANTS
    TypeOK
    HandleTracked
    OneUnsignalled
    ShutdownStopsSidecars
