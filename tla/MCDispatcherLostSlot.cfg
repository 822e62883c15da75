CONSTANTS
    a = a
    b = b
    c = c
    NumSlots = 4
    Mixes <- Contended
    Parallel <- AllSerial
    Cap = 2
    MaxDefers = 1
    Fallible = {1}
    ShutsDown = FALSE
    InlineWaitFor = FALSE
    NoSlot = NoSlot
SPECIFICATION Spec
CHECK_DEADLOCK FALSE
INVARIANTS
    OneOwner
