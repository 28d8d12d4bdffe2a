------------------------------- MODULE MCTime -------------------------------
(***************************************************************************)
(* Instances of TickTimer and TickDeadline for TLC.  The two share nothing *)
(* (the kernel counts its ticks for itself), so a behaviour is about one   *)
(* of them and leaves the other as it was created.                         *)
(*   Two callers use the timer, with timeouts of 0 to 2 ticks.  For the    *)
(* deadlines there are 3 units a tick and a counter that wraps within the  *)
(* run; a call with a deadline of TickTimer's own clock is made in time,   *)
(* that is within the tick of its deadline, or late.                       *)
(***************************************************************************)
EXTENDS TickTimer, TickDeadline

CONSTANTS c1, c2
TwoCallers == {c1, c2}

InTime == [k \in Clocks |-> IF k = "TickTimer" THEN 2 ELSE 5]
Late == [k \in Clocks |-> 8]

VARIABLE subject    \* what the behaviour is about

TimeInit ==
    /\ Init
    /\ DeadlineInit
    /\ \/ subject = "timer" /\ tick = 0
       \/ subject = "deadline" /\ m = [ticks |-> 1, type |-> "oneShot", activation |-> "noActivate"]

TimeNext ==
    /\ UNCHANGED subject
    /\ \/ subject = "timer" /\ Next /\ UNCHANGED deadlineVars
       \/ subject = "deadline" /\ DeadlineNext /\ UNCHANGED vars

TimeSpec ==
    /\ TimeInit
    /\ [][TimeNext]_<<subject, vars, deadlineVars>>
    /\ \A c \in Callers : WF_vars(ResetStep(c))
=============================================================================
