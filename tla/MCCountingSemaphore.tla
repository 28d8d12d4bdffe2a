------------------------ MODULE MCCountingSemaphore ------------------------
(* Instances of CountingSemaphore for TLC: two threads and an interrupt.    *)
EXTENDS CountingSemaphore
CONSTANTS t1, t2, isr
TwoThreads == {t1, t2}
OneIsr == {isr}
Levels == [t \in TwoThreads |-> IF t = t1 THEN 16 ELSE 5]
=============================================================================
