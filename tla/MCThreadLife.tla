--------------------------- MODULE MCThreadLife ---------------------------
(* Three threads that join one another, two of which are destroyed and      *)
(* constructed again, with stacks of different size.                        *)
EXTENDS ThreadLife
CONSTANTS t1, t2, t3

ThreeThreads == {t1, t2, t3}
AllCalls == {"terminate", "reset", "restart", "suspend", "sleep", "abortWait"}
TwoThreads == {t2, t3}
TwoSizes == [t \in TwoThreads |-> IF t = t2 THEN 6 ELSE 8]

\* An application that leaves startType as it is, and takes care of the rest.
StartsByDefault == LifeHabits \ {"startsWhole"}
=============================================================================
