SPECIFICATION TimeSpec
CONSTANTS
    c1 = c1
    c2 = c2
    Callers <- TwoCallers
    MaxTicks = 2
    Serial = TRUE
    Modulus = 8
    Unit = 3
    MaxAhead = 14
    MaxLate <- Late
CHECK_DEADLOCK FALSE
INVARIANTS NeverOversleeps
