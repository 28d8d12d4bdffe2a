SPECIFICATION LifeFairSpec
CONSTANTS
    t1 = t1
    t2 = t2
    t3 = t3
    Null = Null
    Threads <- ThreeThreads
    SerialJoin = TRUE
    KillJoiner = FALSE
    Calls <- AllCalls
    Mortal <- TwoThreads
    StackSize <- TwoSizes
    Word = 2
    MinBlock = 10
    Habits <- LifeHabits
CHECK_DEADLOCK FALSE
INVARIANTS TypeOK NoLostWakeup PointerValid SuccessMeansExit StackHeld RoomForAll
PROPERTIES JoinReturns ImplementsThread
