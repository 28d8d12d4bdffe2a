--------------------------- MODULE MCJoinSection ---------------------------
(* Instances of JoinSection for TLC: t1 joins hi, which outranks it; t2 is a *)
(* user of critical sections of t1's own priority, lo one of a lower; i2     *)
(* interrupts i1, which interrupts every thread.                             *)
EXTENDS JoinSection
CONSTANTS t1, t2, hi, lo, i1, i2

SomeThreads == {t1, t2, hi, lo}
SomeIsrs == {i1, i2}
EqualUsers == {t1, t2}
UnequalUsers == {t1, lo}
Levels == [c \in SomeThreads \cup SomeIsrs |->
    CASE c \in {t1, t2} -> 16 [] c = hi -> 5 [] c = lo -> 20 [] c = i1 -> 2 [] c = i2 -> 1]
=============================================================================
