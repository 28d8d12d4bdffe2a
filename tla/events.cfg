SPECIFICATION Spec
CONSTANTS
    t1 = t1
    t2 = t2
    isr = isr
    f1 = f1
    f2 = f2
    Flags <- TheFlags
    Threads <- TheThreads
    Isrs <- TheIsrs
    Getters <- TheThreads
    MaxSet = 2
SYMMETRY Alike
CHECK_DEADLOCK FALSE
INVARIANTS NobodyOverlooked AnswerHolds Accounts Announced
