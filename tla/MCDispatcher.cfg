CONSTANTS
    a = a
    b = b
    c = c
    NumSlots = 4
    Mixes <- Contended
    Parallel <- WideA
    Cap = 2
    MaxDefers = 1
    Fallible = {1}
    ShutsDown = FALSE
    InlineWaitFor = TRUE
    NoSlot = NoSlot
SPECIFICATION Spec
CHECK_DEADLOCK FALSE
INVARIANTS
    TypeOK
    OneOwner
    CapacityKept
PROPERTIES
    EvictionSparesBusy
