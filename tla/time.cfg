SPECIFICATION TimeSpec
CONSTANTS
    c1 = c1
    c2 = c2
    Callers <- TwoCallers
    MaxTicks = 2
    Serial = TRUE
    Modulus = 8
    Unit = 3
    MaxAhead = 18
    MaxLate <- InTime
CHECK_DEADLOCK FALSE
INVARIANTS MembersDescribeTimer ChangeTakesEffect DeadlineTypeOK NeverOversleeps
PROPERTIES ResetStarts WakesWithinATick NeverEarly
