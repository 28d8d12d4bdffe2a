---------------------------- MODULE MCEventFlags ----------------------------
(***************************************************************************)
(* Instance of EventFlags for TLC: two threads, an interrupt and two       *)
(* flags.  The interrupt sets while both threads wait; its get() would be  *)
(* that of a thread that does not wait.                                    *)
(***************************************************************************)
EXTENDS EventFlags, TLC
CONSTANTS t1, t2, isr, f1, f2
TheThreads == {t1, t2}
TheIsrs == {isr}
TheFlags == {f1, f2}
Alike == Permutations(TheThreads) \cup Permutations(TheFlags)
=============================================================================
