SPECIFICATION Spec
CONSTANTS
    t1 = t1
    t2 = t2
    isr = isr
    Threads <- TwoThreads
    Isrs <- OneIsr
    Priority <- Levels
    Ceiling = 2
    MaxRelease = 2
    MaxPuts = 3
CHECK_DEADLOCK FALSE
INVARIANTS TypeOK Conserved NoIdleInstance
PROPERTIES ReleaseTold
