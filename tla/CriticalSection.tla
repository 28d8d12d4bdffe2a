-------------------------- MODULE CriticalSection --------------------------
(***************************************************************************)
(* Kernel::CriticalSection (kernel.hpp, kernel.cpp): a static atomic flag  *)
(* m_locked and a static interrupt_save guard the CPU's interrupt posture. *)
(* lock() and unlock() are several machine steps each; the contexts that   *)
(* run them are threads and interrupt service routines of ONE core, so two *)
(* contexts interleave only by preemption: an interrupt nests on the       *)
(* context it interrupts, and a thread that is inside lock(), unlock() or  *)
(* the section between them loses the core only to a thread of strictly    *)
(* higher priority (the wrapper creates threads without time slice,        *)
(* thread.hpp:67, all of priority 16 unless told otherwise, thread.hpp:66).*)
(* As in ThreadX a smaller number is a higher priority.                    *)
(***************************************************************************)
EXTENDS Naturals, Sequences

CONSTANTS
    Threads,    \* application threads
    Isrs,       \* interrupt service routines
    Users,      \* the contexts whose code uses CriticalSection
    Priority,   \* of each thread among threads, of each ISR among ISRs
    MaxDepth,   \* bound: how deep one context nests its sections
    Nobody      \* the owner of a section no context is in

Contexts == Threads \cup Isrs

\* Only threads of one priority use the class, and no section is nested.
OnePriority ==
    /\ Users \subseteq Threads
    /\ \A c, d \in Users : Priority[c] = Priority[d]
    /\ MaxDepth = 1

ASSUME ContextsAssumption ==
    /\ Threads \cap Isrs = {}
    /\ Threads # {}
    /\ Users \subseteq Contexts
    /\ Priority \in [Contexts -> Nat]
    /\ MaxDepth \in Nat \ {0}

ASSUME NobodyAssumption == Nobody \notin Contexts

VARIABLES
    locked,         \* m_locked, the atomic_flag
    interruptSave,  \* interrupt_save of TX_INTERRUPT_SAVE_AREA
    posture,        \* the CPU's interrupt posture: "on" or "off"
    thread,         \* the thread whose context is loaded
    isrStack,       \* the active ISRs, the running one first
    pc,             \* the machine step a context is at, "run" outside the calls
    depth,          \* sections a context has entered and not yet left
    entered         \* how a context's last lock() ended (history variable)

vars == <<locked, interruptSave, posture, thread, isrStack, pc, depth, entered>>
core == <<thread, isrStack>>

Posture == {"on", "off"}

TypeOK ==
    /\ locked \in BOOLEAN
    /\ interruptSave \in Posture
    /\ posture \in Posture
    /\ thread \in Threads
    /\ isrStack \in Seq(Isrs)
    /\ pc \in [Contexts -> {"run", "disable", "restore", "clear"}]
    /\ depth \in [Contexts -> 0..MaxDepth]
    /\ entered \in [Contexts -> {"none", "disabled", "skipped"}]

Init ==
    /\ locked = FALSE
    /\ interruptSave = "on"     \* a zeroed static is PRIMASK = 0
    /\ posture = "on"
    /\ thread \in Threads
    /\ isrStack = <<>>
    /\ pc = [c \in Contexts |-> "run"]
    /\ depth = [c \in Contexts |-> 0]
    /\ entered = [c \in Contexts |-> "none"]

Running == IF isrStack = <<>> THEN thread ELSE Head(isrStack)

(***************************************************************************)
(* A context between the first step of its outermost lock() and the last   *)
(* of its outermost unlock().                                              *)
(***************************************************************************)
Busy(c) == pc[c] # "run" \/ depth[c] > 0

(***************************************************************************)
(* lock() has returned and the matching unlock() has not started to undo   *)
(* it: the caller relies on the section's promise.                         *)
(***************************************************************************)
Holding(c) == depth[c] > (IF pc[c] \in {"restore", "clear"} THEN 1 ELSE 0)

-----------------------------------------------------------------------------
(***************************************************************************)
(* The core.  None of this happens while the posture is off.               *)
(***************************************************************************)

\* An interrupt of higher priority than the running ISR, if any, is taken.
Interrupt(i) ==
    /\ posture = "on"
    /\ isrStack # <<>> => Priority[i] < Priority[Head(isrStack)]
    /\ isrStack' = <<i>> \o isrStack
    /\ UNCHANGED <<locked, interruptSave, posture, thread, pc, depth, entered>>

\* The running ISR returns to the context it interrupted.
InterruptReturn ==
    /\ isrStack # <<>>
    /\ ~Busy(Head(isrStack))
    /\ isrStack' = Tail(isrStack)
    /\ UNCHANGED <<locked, interruptSave, posture, thread, pc, depth, entered>>

\* The scheduler loads thread t.  A thread that is not Busy may have blocked or
\* relinquished; one that is Busy is ready and yields to higher priority only.
Schedule(t) ==
    /\ posture = "on"
    /\ isrStack = <<>>
    /\ t # thread
    /\ \A u \in Threads \ {t} : Busy(u) => Priority[t] < Priority[u]
    /\ thread' = t
    /\ UNCHANGED <<locked, interruptSave, posture, isrStack, pc, depth, entered>>

-----------------------------------------------------------------------------
\* Fault: lock() without the "not", so that the winner enters at once.
LockLoserDisables(c) ==
    /\ pc[c] = "run"
    /\ depth[c] < MaxDepth
    /\ locked' = TRUE
    /\ \/ /\ locked
          /\ pc' = [pc EXCEPT ![c] = "disable"]
          /\ UNCHANGED <<depth, entered>>
       \/ /\ ~locked
          /\ depth' = [depth EXCEPT ![c] = @ + 1]
          /\ entered' = [entered EXCEPT ![c] = "skipped"]
          /\ UNCHANGED pc
    /\ UNCHANGED <<interruptSave, posture, core>>

(***************************************************************************)
(* lock(): test_and_set, and only its winner executes TX_DISABLE.          *)
(***************************************************************************)
LockTestAndSet(c) ==
    /\ pc[c] = "run"
    /\ depth[c] < MaxDepth
    /\ locked' = TRUE
    /\ \/ /\ ~locked
          /\ pc' = [pc EXCEPT ![c] = "disable"]
          /\ UNCHANGED <<depth, entered>>
       \/ /\ locked
          /\ depth' = [depth EXCEPT ![c] = @ + 1]
          /\ entered' = [entered EXCEPT ![c] = "skipped"]
          /\ UNCHANGED pc
    /\ UNCHANGED <<interruptSave, posture, core>>

\* Fault: the posture is saved and interrupts stay on.
LockOnlySaves(c) ==
    /\ pc[c] = "disable"
    /\ interruptSave' = posture
    /\ pc' = [pc EXCEPT ![c] = "run"]
    /\ depth' = [depth EXCEPT ![c] = @ + 1]
    /\ entered' = [entered EXCEPT ![c] = "disabled"]
    /\ UNCHANGED <<locked, posture, core>>

\* TX_DISABLE: interrupt_save = posture, interrupts off.  A switch between the
\* read and the disabling returns here with the posture that was read.
LockDisable(c) ==
    /\ pc[c] = "disable"
    /\ interruptSave' = posture
    /\ posture' = "off"
    /\ pc' = [pc EXCEPT ![c] = "run"]
    /\ depth' = [depth EXCEPT ![c] = @ + 1]
    /\ entered' = [entered EXCEPT ![c] = "disabled"]
    /\ UNCHANGED <<locked, core>>

(***************************************************************************)
(* unlock(): nothing unless the flag is set; else TX_RESTORE, then clear.  *)
(***************************************************************************)
UnlockTest(c) ==
    /\ pc[c] = "run"
    /\ depth[c] > 0
    /\ \/ /\ locked
          /\ pc' = [pc EXCEPT ![c] = "restore"]
          /\ UNCHANGED depth
       \/ /\ ~locked
          /\ depth' = [depth EXCEPT ![c] = @ - 1]
          /\ UNCHANGED pc
    /\ UNCHANGED <<locked, interruptSave, posture, core, entered>>

\* Fault: unlock() without TX_RESTORE.
UnlockWithoutRestore(c) ==
    /\ pc[c] = "restore"
    /\ pc' = [pc EXCEPT ![c] = "clear"]
    /\ UNCHANGED <<locked, interruptSave, posture, core, depth, entered>>

UnlockRestore(c) ==
    /\ pc[c] = "restore"
    /\ posture' = interruptSave
    /\ pc' = [pc EXCEPT ![c] = "clear"]
    /\ UNCHANGED <<locked, interruptSave, core, depth, entered>>

\* Fault: unlock() without clear().
UnlockKeepsFlag(c) ==
    /\ pc[c] = "clear"
    /\ pc' = [pc EXCEPT ![c] = "run"]
    /\ depth' = [depth EXCEPT ![c] = @ - 1]
    /\ UNCHANGED <<locked, interruptSave, posture, core, entered>>

UnlockClear(c) ==
    /\ pc[c] = "clear"
    /\ locked' = FALSE
    /\ pc' = [pc EXCEPT ![c] = "run"]
    /\ depth' = [depth EXCEPT ![c] = @ - 1]
    /\ UNCHANGED <<interruptSave, posture, core, entered>>

Finish(c) == LockDisable(c) \/ UnlockTest(c) \/ UnlockRestore(c) \/ UnlockClear(c)

Step(c) == LockTestAndSet(c) \/ Finish(c)

Next ==
    \/ \E i \in Isrs : Interrupt(i)
    \/ InterruptReturn
    \/ \E t \in Threads : Schedule(t)
    \/ \E c \in Users : c = Running /\ Step(c)

Spec == Init /\ [][Next]_vars

\* A section that was entered is left: the guard is a scoped object, and the
\* running context executes its next instruction.
Fairness == \A c \in Users : WF_vars(c = Running /\ Finish(c))

FairSpec == Spec /\ Fairness

-----------------------------------------------------------------------------
(***************************************************************************)
(* Properties                                                              *)
(***************************************************************************)

(***************************************************************************)
(* "prevents task and interrupt context switches while locked"             *)
(* (kernel.hpp:22): from the return of lock() to the start of unlock() the *)
(* caller is the running context and interrupts are off.  Two contexts are *)
(* therefore never inside at once.                                         *)
(***************************************************************************)
Protected == \A c \in Contexts : Holding(c) => posture = "off" /\ c = Running

(***************************************************************************)
(* The part of it that survives users of different priority and ISR users: *)
(* a context whose own test_and_set won the flag has the core to itself    *)
(* until its unlock(), whatever the others did to the flag meanwhile.      *)
(***************************************************************************)
WinnerProtected ==
    \A c \in Contexts :
        Holding(c) /\ entered[c] = "disabled" => posture = "off" /\ c = Running

(***************************************************************************)
(* When nobody is inside, interrupts are on and the flag is clear: no path *)
(* through lock() and unlock() leaves either behind (kernel.hpp:31).       *)
(***************************************************************************)
NothingLeftBehind == (\A c \in Contexts : ~Busy(c)) => posture = "on" /\ ~locked

(***************************************************************************)
(* unlock() "allow[s] other interrupts and threads to preempt"             *)
(* (kernel.hpp:31): interrupts that were turned off are turned on again.   *)
(***************************************************************************)
InterruptsComeBack == posture = "off" ~> posture = "on"

(***************************************************************************)
(* What the class promises its users, as a specification of its own: the   *)
(* owner is the context Holding the section.                               *)
(***************************************************************************)
Holder == CHOOSE c \in Contexts : Holding(c)
Owner == IF \E c \in Contexts : Holding(c) THEN Holder ELSE Nobody

Ideal == INSTANCE IdealCriticalSection
    WITH running <- Running, owner <- Owner

ImplementsIdeal == Ideal!Spec
=============================================================================
