SPECIFICATION LifeSpec
CONSTANTS
    t1 = t1
    t2 = t2
    t3 = t3
    Null = Null
    Threads <- ThreeThreads
    SerialJoin = TRUE
    KillJoiner = FALSE
    Calls <- AllCalls
    Mortal <- TwoThreads
    StackSize <- TwoSizes
    Word = 2
    MinBlock = 10
    Habits <- StartsByDefault
CHECK_DEADLOCK FALSE
PROPERTIES EntersDerived
