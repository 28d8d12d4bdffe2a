------------------------------ MODULE MCThread ------------------------------
(* An instance of Thread for TLC: three threads that join one another and   *)
(* restart those that have finished.                                       *)
EXTENDS Thread, TLC
CONSTANTS t1, t2, t3

ThreeThreads == {t1, t2, t3}
OnlyRestart == {"restart"}
Symmetry == Permutations(ThreeThreads)
=============================================================================
