---------------------------- MODULE JoinSection ----------------------------
(***************************************************************************)
(* Kernel::CriticalSection and the one user of it inside the repository:   *)
(* one thread runs the critical section of Thread::join()                  *)
(* (thread.hpp:320-329) on the machine steps of lock() and unlock(), while *)
(* the other users of the class enter and leave sections of their own.     *)
(* Thread takes join()'s section as one action; this module asks when it   *)
(* may.                                                                    *)
(***************************************************************************)
EXTENDS CriticalSection

CONSTANTS Joiner, Target

ASSUME RolesAssumption ==
    /\ Joiner \in Users \cap Threads
    /\ Target \in Threads \ {Joiner}

VARIABLES
    join,       \* where the joiner is in join()
    exitSignal, \* m_exitSignalPtr of the target is set
    count,      \* count of the joiner's semaphore
    exited      \* the target's state is completed

joinVars == <<join, exitSignal, count, exited>>
allVars == <<vars, joinVars>>

JoinTypeOK ==
    /\ TypeOK
    /\ join \in {"start", "joinable", "published", "unjoinable", "waiting",
                 "signalled", "done"}
    /\ exitSignal \in BOOLEAN
    /\ count \in 0..1
    /\ exited \in BOOLEAN

JoinInit ==
    /\ Init
    /\ join = "start"
    /\ exitSignal = FALSE
    /\ count = 0
    /\ exited = FALSE

\* The scheduler does not load a suspended or completed thread ...
CanRun(t) ==
    /\ t = Joiner => join # "waiting"
    /\ t = Target => ~exited

\* ... and such a thread executes nothing once it gave the core away.
Executes(c) == c = Running /\ CanRun(c)

-----------------------------------------------------------------------------
\* The guard object is built at the start of the block and destroyed at its end
\* or by the return from it; outside those places the joiner makes no such call.
JoinerInPlace ==
    \/ join = "start" /\ (LockTestAndSet(Joiner) \/ LockDisable(Joiner))
    \/ join \in {"published", "unjoinable"} /\ Finish(Joiner)

JoinerGuard ==
    /\ Executes(Joiner)
    /\ join = "start" => depth[Joiner] = 0
    /\ JoinerInPlace
    /\ UNCHANGED joinVars

\* Fault: the section is opened after the check.
JoinerChecksOutside ==
    /\ Executes(Joiner)
    /\ join = "start"
    /\ join' = IF exited THEN "unjoinable" ELSE "joinable"
    /\ UNCHANGED <<vars, exitSignal, count, exited>>

\* if (not joinable()) return;
JoinerChecks ==
    /\ Executes(Joiner)
    /\ join = "start"
    /\ Holding(Joiner)
    /\ join' = IF exited THEN "unjoinable" ELSE "joinable"
    /\ UNCHANGED <<vars, exitSignal, count, exited>>

\* m_exitSignalPtr = std::addressof(exitSignal);
JoinerPublishes ==
    /\ Executes(Joiner)
    /\ join = "joinable"
    /\ join' = "published"
    /\ exitSignal' = TRUE
    /\ UNCHANGED <<vars, count, exited>>

\* exitSignal.acquire(), after the block.
JoinerAcquires ==
    /\ Executes(Joiner)
    /\ join = "published"
    /\ ~Busy(Joiner)
    /\ \/ count = 1 /\ count' = 0 /\ join' = "signalled"
       \/ count = 0 /\ join' = "waiting" /\ UNCHANGED count
    /\ UNCHANGED <<vars, exitSignal, exited>>

\* m_exitSignalPtr = nullptr, or the return of the unjoinable case.
JoinerReturns ==
    /\ Executes(Joiner)
    /\ ~Busy(Joiner)
    /\ \/ join = "signalled" /\ exitSignal' = FALSE
       \/ join = "unjoinable" /\ UNCHANGED exitSignal
    /\ join' = "done"
    /\ UNCHANGED <<vars, count, exited>>

\* The target completes: state first, then the exit callback.
TargetExits ==
    /\ Executes(Target)
    /\ ~Busy(Target)
    /\ exited' = TRUE
    /\ \/ exitSignal /\ join = "waiting" /\ join' = "signalled" /\ UNCHANGED count
       \/ exitSignal /\ join # "waiting" /\ count' = 1 /\ UNCHANGED join
       \/ ~exitSignal /\ UNCHANGED <<join, count>>
    /\ UNCHANGED <<vars, exitSignal>>

\* Everybody else, and the core.
Others ==
    /\ \/ \E i \in Isrs : Interrupt(i)
       \/ InterruptReturn
       \/ \E t \in Threads : CanRun(t) /\ Schedule(t)
       \/ \E c \in Users \ {Joiner} : Executes(c) /\ Step(c)
    /\ UNCHANGED joinVars

JoinNext ==
    \/ JoinerGuard \/ JoinerChecks \/ JoinerPublishes \/ JoinerAcquires
    \/ JoinerReturns \/ TargetExits \/ Others

JoinSpec == JoinInit /\ [][JoinNext]_allVars

\* A running context inside lock(), unlock() or join()'s block executes its next
\* instruction, and the section of any other user is left (a scoped object).
Leaves(c) == Executes(c) /\ Finish(c) /\ UNCHANGED joinVars

JoinFairSpec ==
    /\ JoinSpec
    /\ WF_allVars(JoinerGuard \/ JoinerChecks \/ JoinerPublishes)
    /\ \A c \in Users \ {Joiner} : WF_allVars(Leaves(c))

-----------------------------------------------------------------------------
(***************************************************************************)
(* "do not allow any change in thread state until m_exitSignalPtr is       *)
(* assigned" (thread.hpp:321): a target found joinable has not finished    *)
(* when the pointer is about to be written ...                             *)
(***************************************************************************)
TargetStands == join = "joinable" => ~exited

(***************************************************************************)
(* ... and so the joiner is never asleep with nobody left to wake it.      *)
(***************************************************************************)
JoinerIsWoken ==
    exited => join # "waiting" /\ (join = "published" => count = 1)
=============================================================================
