CONSTANTS
    a = a
    b = b
    NumSlots = 2
    Mixes <- Pair
    Parallel <- Serial
    Fallible = {}
    LateArm = FALSE
    ShutsDown = FALSE
    NoSlot = NoSlot
SPECIFICATION Spec
CHECK_DEADLOCK FALSE
INVARIANTS
    OneSidecar
