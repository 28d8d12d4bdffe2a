------------------------------ MODULE MCMutex ------------------------------
(***************************************************************************)
(* Instance of Mutex for TLC: two threads of one priority and a third that *)
(* is less important.                                                      *)
(***************************************************************************)
EXTENDS Mutex
CONSTANTS t1, t2, t3
ThreeThreads == {t1, t2, t3}
Levels == [t \in ThreeThreads |-> IF t = t3 THEN 20 ELSE 16]
=============================================================================
