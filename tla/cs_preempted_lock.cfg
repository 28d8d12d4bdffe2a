SPECIFICATION JoinSpec
CONSTANTS
    t1 = t1
    t2 = t2
    hi = hi
    lo = lo
    i1 = i1
    i2 = i2
    Nobody = Nobody
    Threads <- SomeThreads
    Isrs <- SomeIsrs
    Users <- UnequalUsers
    Priority <- Levels
    MaxDepth = 1
    Joiner = t1
    Target = hi
INVARIANTS Protected
