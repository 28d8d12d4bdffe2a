SPECIFICATION FairSpec
CONSTANTS
    t1 = t1
    t2 = t2
    t3 = t3
    Nobody = Nobody
    Threads <- ThreeThreads
    Priority <- Levels
    Inherit = TRUE
    AbortGuards = FALSE
    MaxDepth = 2
CHECK_DEADLOCK FALSE
INVARIANTS Exclusion Balanced
PROPERTIES TopPriorityGetsIn
