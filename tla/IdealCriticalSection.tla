----------------------- MODULE IdealCriticalSection -----------------------
(***************************************************************************)
(* What Kernel::CriticalSection promises (kernel.hpp:22-31), without the   *)
(* flag and the saved posture: the running context enters a section nobody *)
(* owns, and the core is not given to another context until it leaves.     *)
(***************************************************************************)
CONSTANTS Contexts, Nobody
VARIABLES running, owner

Init == running \in Contexts /\ owner = Nobody

Enter ==
    /\ owner = Nobody
    /\ owner' = running
    /\ UNCHANGED running

Leave ==
    /\ owner = running
    /\ owner' = Nobody
    /\ UNCHANGED running

Switch ==
    /\ owner = Nobody
    /\ running' \in Contexts
    /\ UNCHANGED owner

Next == Enter \/ Leave \/ Switch

Spec == Init /\ [][Next]_<<running, owner>>
=============================================================================
