SPECIFICATION Spec
CONSTANTS
    t1 = t1
    t2 = t2
    t3 = t3
    Null = Null
    Threads <- ThreeThreads
    SerialJoin = TRUE
    KillJoiner = FALSE
    Calls <- OnlyRestart
SYMMETRY Symmetry
CHECK_DEADLOCK FALSE
PROPERTIES ReleaseAssert
