CONSTANTS
    a = a
    b = b
    c = c
    NumSlots = 3
    Mixes <- Small
    Parallel <- WideA
    Cap = 2
    MaxDefers = 0
    Fallible = {2}
    ShutsDown = TRUE
    InlineWaitFor = TRUE
    NoSlot = NoSlot
SPECIFICATION Spec
CHECK_DEADLOCK FALSE
INVARIANTS
    NoOrphanProcess
    ShutdownStopsSidecars
PROPERTIES
    EveryRequestAnswered
