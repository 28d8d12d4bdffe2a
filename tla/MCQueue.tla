------------------------------ MODULE MCQueue ------------------------------
(***************************************************************************)
(* Instance of Queue for TLC: two threads that send and receive, the       *)
(* second more important, and an interrupt that receives while they wait.  *)
(***************************************************************************)
EXTENDS Queue
CONSTANTS t1, t2, isr
TheThreads == {t1, t2}
TheIsrs == {isr}
Levels == [t \in TheThreads |-> IF t = t2 THEN 8 ELSE 16]
=============================================================================
