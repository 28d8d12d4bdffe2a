SPECIFICATION Spec
CONSTANTS
    t1 = t1
    t2 = t2
    isr = isr
    Threads <- TheThreads
    Isrs <- TheIsrs
    Senders <- TheThreads
    Priority <- Levels
    Capacity = 2
    MixFronts = FALSE
    MaxSent = 4
CHECK_DEADLOCK FALSE
INVARIANTS NoIdleWait SendAnswersTruly Announced InOrder
PROPERTIES ImplementsIdeal
